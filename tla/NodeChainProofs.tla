--------------------------- MODULE NodeChainProofs ---------------------------
(***************************************************************************)
(* Two results about the chains of nodes that do not crash.                *)
(*                                                                         *)
(* They form a tree, and what arrives in whatever order only moves a node  *)
(* along it: Node implements LongestChain. The reason is that a hash       *)
(* identifies a block and everything before it, so neither appending a     *)
(* received block nor merging a batch can produce a chain that no node has *)
(* held.                                                                   *)
(*                                                                         *)
(* They spend no output twice. Each payment was checked against what the   *)
(* chain had not spent, but that proves it only if no output can be        *)
(* created twice: a payment creates the same output again if it is         *)
(* repeated, which spends its inputs again, and a coinbase if two blocks   *)
(* hold the same one. So the invariant follows coinbases: a node puts one, *)
(* with the mark of its block, in front of payments only.                  *)
(***************************************************************************)
EXTENDS NodeProofs

-----------------------------------------------------------------------------
\* The tree of the chains.

\* Two chains agree up to any block they share, and have it at the same place.
SamePast(c, d) ==
    \A i \in DOMAIN c, j \in DOMAIN d :
        c[i].hash = d[j].hash => i = j /\ \A k \in 1..i : c[k] = d[k]

TreeInv == \A c, d \in published : SamePast(c, d)

\* Hashes are given in order.
StampInv == \A c \in published : \A i \in DOMAIN c : c[i].hash <= stamp

Busy(n) == pc[n] \in {"collected", "mining"}

\* No block under way has been published, or is under way elsewhere.
JobsNew ==
    \A n \in Node : Busy(n) =>
        /\ job[n].hash <= stamp
        /\ \A c \in published : \A i \in DOMAIN c : c[i].hash # job[n].hash
        /\ \A m \in Node \ {n} : Busy(m) => job[m].hash # job[n].hash

BranchInv == TreeInv /\ StampInv /\ JobsNew

-----------------------------------------------------------------------------
\* Chains that share a block.

LEMMA PublishedFacts ==
    ASSUME ShapeInv, ReplayInv, NEW c \in published
    PROVE  /\ c \in Seq(Block)
           /\ Len(c) \in Nat
           /\ Len(c) > 0
           /\ DOMAIN c = 1..Len(c)
           /\ Last(c) = c[Len(c)]
           /\ \A i \in 1..Len(c) : c[i].index = i - 1 /\ c[i].hash \in Nat
           /\ \A i \in 2..Len(c) : c[i].previous_hash = c[i - 1].hash
PROOF
<1>1. c \in Seq(Block) /\ Shaped(c) /\ Linked(c)
  BY DEF ShapeInv, ReplayInv
<1>2. Len(c) \in Nat /\ Len(c) > 0 /\ DOMAIN c = 1..Len(c)
  BY <1>1 DEF Shaped
<1>3. \A i \in 1..Len(c) : c[i] \in Block
  BY <1>1
<1> QED
  BY <1>1, <1>2, <1>3 DEF Shaped, Indexed, Linked, Last, Block

\* A block that extends the tip of a node belongs to a chain that extends its own.
LEMMA AppendKnown ==
    ASSUME ShapeInv, ReplayInv, TreeInv, NEW n \in Node, NEW c \in published,
           Last(c).index = Len(chain[n]), Last(c).previous_hash = Tip(n).hash
    PROVE  Append(chain[n], Last(c)) = c
PROOF
<1> DEFINE own == chain[n]
<1>1. own \in published
  BY DEF ShapeInv
<1>2. /\ own \in Seq(Block) /\ Len(own) \in Nat /\ Len(own) > 0
      /\ DOMAIN own = 1..Len(own)
      /\ Tip(n) = own[Len(own)]
  BY <1>1, PublishedFacts DEF Tip
<1>3. /\ c \in Seq(Block) /\ Len(c) \in Nat /\ Len(c) > 0
      /\ DOMAIN c = 1..Len(c)
      /\ Last(c) = c[Len(c)]
      /\ Last(c).index = Len(c) - 1
      /\ \A i \in 2..Len(c) : c[i].previous_hash = c[i - 1].hash
  BY PublishedFacts
<1>4. Len(c) = Len(own) + 1
  <2>1. Len(c) - 1 = Len(own)
    BY <1>3
  <2>2. Len(c) \in Nat
    BY <1>3
  <2>3. Len(own) \in Nat
    BY <1>2
  <2> HIDE DEF own
  <2> QED
    BY <2>1, <2>2, <2>3
<1> DEFINE b == Last(c)
<1> HIDE DEF own, b
<1>5. c[Len(own)].hash = own[Len(own)].hash
  BY <1>2, <1>3, <1>4
<1>6. \A k \in 1..Len(own) : own[k] = c[k]
  <2>1. Len(own) \in DOMAIN own /\ Len(own) \in DOMAIN c
    BY <1>2, <1>3, <1>4
  <2> QED
    BY <1>1, <1>5, <2>1 DEF TreeInv, SamePast
<1>7. /\ Append(own, b) \in Seq(Block)
      /\ Len(Append(own, b)) = Len(own) + 1
      /\ \A k \in 1..Len(own) : Append(own, b)[k] = own[k]
      /\ Append(own, b)[Len(own) + 1] = b
  <2>1. b \in Block
    BY <1>3 DEF b
  <2>2. own \in Seq(Block)
    BY <1>2
  <2> QED
    BY <2>1, <2>2, AppendProperties
<1>8. b = c[Len(own) + 1]
  BY <1>3, <1>4 DEF b
<1>9. \A k \in 1..(Len(own) + 1) : Append(own, b)[k] = c[k]
  <2>1. Len(own) \in Nat
    BY <1>2
  <2> SUFFICES ASSUME NEW k \in 1..(Len(own) + 1) PROVE Append(own, b)[k] = c[k]
    OBVIOUS
  <2>2. k \in 1..Len(own) \/ k = Len(own) + 1
    BY <2>1
  <2> QED
    BY <1>6, <1>7, <1>8, <2>2
<1>10. c \in Seq(Block)
  BY <1>3
<1>11. Append(own, b) = c
  <2> DEFINE d == Append(own, b)
  <2>1. d \in Seq(Block) /\ Len(d) = Len(c) /\ \A k \in 1..Len(d) : d[k] = c[k]
    BY <1>4, <1>7, <1>9
  <2> HIDE DEF d
  <2>2. d = c
    BY <1>10, <2>1, SeqEqual
  <2> QED
    BY <2>2 DEF d
<1> QED
  BY <1>11 DEF own, b

\* A longer and linked merge of a batch is the chain the batch comes from.
LEMMA MergeKnown ==
    ASSUME ShapeInv, ReplayInv, TreeInv, NEW n \in Node, NEW c \in published, NEW s \in 1..Len(c),
           Len(Merge(chain[n], c, s)) > Len(chain[n]), Linked(Merge(chain[n], c, s))
    PROVE  Merge(chain[n], c, s) = c
PROOF
<1> DEFINE own == chain[n]
           candidate == Merge(own, c, s)
<1>1. own \in published
  BY DEF ShapeInv
<1>2. own \in Seq(Block) /\ Len(own) \in Nat /\ DOMAIN own = 1..Len(own)
  BY <1>1, PublishedFacts
<1>3. /\ c \in Seq(Block) /\ Len(c) \in Nat /\ DOMAIN c = 1..Len(c)
      /\ \A i \in 2..Len(c) : c[i].previous_hash = c[i - 1].hash
  BY PublishedFacts
<1>4. candidate # own
  BY <1>2
<1>5. PICK cut \in 1..Len(c) :
         /\ cut <= Len(own) + 1
         /\ candidate \in Seq(Block)
         /\ Len(candidate) = Len(c)
         /\ \A i \in 1..Len(c) : candidate[i] = IF i < cut THEN own[i] ELSE c[i]
  <2>1. own \in Seq(Block) /\ c \in Seq(Block)
    BY <1>2, <1>3
  <2> HIDE DEF own
  <2>2. \/ candidate = own
        \/ \E cut \in 1..Len(c) : Spliced(candidate, own, c, cut)
    BY <2>1, MergeShape
  <2> HIDE DEF candidate
  <2> QED
    BY <1>4, <2>2 DEF Spliced
<1>6. \A i \in 2..Len(c) : candidate[i].previous_hash = candidate[i - 1].hash
  BY <1>5 DEF Linked
<1> HIDE DEF own, candidate
<1>7. \A i \in 1..(cut - 1) : own[i] = c[i]
  <2>1. CASE cut = 1
    BY <2>1
  <2>2. CASE cut # 1
    <3>1. /\ cut \in 2..Len(c)
          /\ cut - 1 \in 1..Len(c) /\ cut - 1 < cut /\ ~(cut < cut)
          /\ cut - 1 \in DOMAIN own /\ cut - 1 \in DOMAIN c
      BY <1>2, <1>3, <1>5, <2>2
    <3>2. candidate[cut] = c[cut] /\ candidate[cut - 1] = own[cut - 1]
      BY <1>5, <3>1
    <3>3. own[cut - 1].hash = c[cut - 1].hash
      BY <1>3, <1>6, <3>1, <3>2
    <3> QED
      BY <1>1, <3>1, <3>3 DEF TreeInv, SamePast
  <2> QED
    BY <2>1, <2>2
<1>8. \A i \in 1..Len(c) : candidate[i] = c[i]
  <2> SUFFICES ASSUME NEW i \in 1..Len(c) PROVE candidate[i] = c[i]
    OBVIOUS
  <2>1. i < cut => i \in 1..(cut - 1)
    BY <1>3, <1>5
  <2> QED
    BY <1>5, <1>7, <2>1
<1>9. c = [i \in 1..Len(c) |-> c[i]] /\ candidate = [i \in 1..Len(c) |-> candidate[i]]
  BY <1>3, <1>5
<1> QED
  BY <1>8, <1>9 DEF own, candidate

-----------------------------------------------------------------------------
\* Steps.

\* A chain that grows by a new block still shares only what it shared before.
LEMMA ExtendTree ==
    ASSUME ShapeInv, ReplayInv, TreeInv, NEW c \in published, NEW b \in Block,
           \A d \in published : \A i \in DOMAIN d : d[i].hash # b.hash,
           published' = published \cup {Append(c, b)}
    PROVE  TreeInv'
PROOF
<1> DEFINE e == Append(c, b)
<1>1. /\ c \in Seq(Block) /\ Len(c) \in Nat
      /\ DOMAIN c = 1..Len(c)
  BY PublishedFacts
<1>2. /\ e \in Seq(Block)
      /\ Len(e) = Len(c) + 1
      /\ \A k \in 1..Len(c) : e[k] = c[k]
      /\ e[Len(c) + 1] = b
  <2>1. c \in Seq(Block)
    BY <1>1
  <2> QED
    BY <2>1, AppendProperties
<1>3. DOMAIN e = 1..(Len(c) + 1)
  BY <1>2
<1> HIDE DEF e
<1>4. ASSUME NEW i \in DOMAIN e
      PROVE  (i \in DOMAIN c /\ e[i] = c[i]) \/ (i = Len(c) + 1 /\ e[i] = b)
  BY <1>1, <1>2, <1>3
<1>5. \A i \in DOMAIN c : \A k \in 1..i : k \in DOMAIN c /\ e[k] = c[k]
  BY <1>1, <1>2
<1>6. ASSUME NEW d \in published PROVE SamePast(e, d) /\ SamePast(d, e)
  <2> SUFFICES ASSUME NEW i \in DOMAIN e, NEW j \in DOMAIN d, e[i].hash = d[j].hash
               PROVE  i = j /\ \A k \in 1..i : e[k] = d[k]
    BY DEF SamePast
  <2>1. i \in DOMAIN c /\ e[i] = c[i]
    BY <1>4
  <2>2. i = j /\ \A k \in 1..i : c[k] = d[k]
    BY <2>1 DEF TreeInv, SamePast
  <2> QED
    BY <1>5, <2>1, <2>2
<1>7. SamePast(e, e)
  <2> SUFFICES ASSUME NEW i \in DOMAIN e, NEW j \in DOMAIN e, e[i].hash = e[j].hash
               PROVE  i = j
    BY DEF SamePast
  <2>1. CASE i \in DOMAIN c /\ e[i] = c[i] /\ j \in DOMAIN c /\ e[j] = c[j]
    BY <2>1 DEF TreeInv, SamePast
  <2>2. CASE i = Len(c) + 1 /\ j = Len(c) + 1
    BY <2>2
  <2> QED
    BY <1>4, <2>1, <2>2
<1>8. published' = published \cup {e}
  BY DEF e
<1>9. ASSUME NEW c1 \in published', NEW d1 \in published' PROVE SamePast(c1, d1)
  BY <1>6, <1>7, <1>8, <1>9 DEF TreeInv
<1> QED
  BY <1>9 DEF TreeInv

\* A step that publishes nothing and starts no block.
LEMMA QuietStep ==
    ASSUME BranchInv, UNCHANGED <<published, stamp>>,
           \A n \in Node : Busy(n)' => Busy(n) /\ job'[n].hash = job[n].hash
    PROVE  BranchInv'
PROOF
<1>1. TreeInv' /\ StampInv'
  BY DEF BranchInv, TreeInv, StampInv
<1>2. JobsNew'
  BY DEF BranchInv, JobsNew
<1> QED
  BY <1>1, <1>2 DEF BranchInv

LEMMA InitBranch == Init => BranchInv
PROOF
<1> SUFFICES ASSUME Init PROVE BranchInv
  OBVIOUS
<1>1. published = {<<Genesis>>} /\ stamp = 1 /\ \A n \in Node : pc[n] = "idle"
  BY DEF Init
<1>2. Genesis.hash = 1
  BY DEF Genesis
<1>3. DOMAIN <<Genesis>> = {1} /\ <<Genesis>>[1] = Genesis
  OBVIOUS
<1>4. SamePast(<<Genesis>>, <<Genesis>>)
  BY <1>3 DEF SamePast
<1>5. TreeInv /\ StampInv
  BY <1>1, <1>2, <1>3, <1>4 DEF TreeInv, StampInv
<1>6. JobsNew
  BY <1>1 DEF JobsNew, Busy
<1> QED
  BY <1>5, <1>6 DEF BranchInv

LEMMA MineCollectBranch ==
    ASSUME Inv, BranchInv, NEW n \in Node, MineCollect(n) PROVE BranchInv'
PROOF
<1>1. stamp \in Nat /\ job \in [Node -> Block] /\ pc \in [Node ->
        {"idle", "collected", "mining", "drain", "adding"}]
  BY DEF Inv, BaseInv, LoopInv
<1>2. /\ stamp' = stamp + 1
      /\ published' = published
      /\ job'[n].hash = stamp + 1
      /\ \A m \in Node \ {n} : job'[m] = job[m] /\ pc'[m] = pc[m]
  BY <1>1 DEF MineCollect, gossip
<1>3. \A c \in published : \A i \in DOMAIN c : c[i].hash \in Nat
  BY PublishedFacts DEF Inv, BaseInv
<1>4. \A m \in Node : job[m].hash \in Nat
  BY <1>1 DEF Block
<1>5. TreeInv'
  BY <1>2 DEF BranchInv, TreeInv
<1>6. StampInv'
  BY <1>1, <1>2, <1>3 DEF BranchInv, StampInv
<1>7. JobsNew'
  <2> SUFFICES ASSUME NEW m \in Node, Busy(m)'
               PROVE  /\ job'[m].hash <= stamp'
                      /\ \A c \in published : \A i \in DOMAIN c : c[i].hash # job'[m].hash
                      /\ \A k \in Node \ {m} : Busy(k)' => job'[k].hash # job'[m].hash
    BY <1>2 DEF JobsNew
  <2>1. \A k \in Node \ {n} : Busy(k)' => Busy(k) /\ job'[k] = job[k] /\ job[k].hash <= stamp
    BY <1>2 DEF Busy, BranchInv, JobsNew
  <2>2. CASE m = n
    BY <1>1, <1>2, <1>3, <1>4, <2>1, <2>2 DEF BranchInv, StampInv
  <2>3. CASE m # n
    <3>1. Busy(m) /\ job'[m] = job[m]
      BY <2>1, <2>3
    <3>2. job[m].hash <= stamp /\ job[m].hash \in Nat
      BY <1>4, <3>1 DEF BranchInv, JobsNew
    <3>3. \A k \in Node \ {m} : Busy(k)' => job'[k].hash # job[m].hash
      <4> SUFFICES ASSUME NEW k \in Node \ {m}, Busy(k)' PROVE job'[k].hash # job[m].hash
        OBVIOUS
      <4>1. CASE k = n
        BY <1>1, <1>2, <3>2, <4>1
      <4>2. CASE k # n
        BY <2>1, <3>1, <4>2 DEF BranchInv, JobsNew
      <4> QED
        BY <4>1, <4>2
    <3> QED
      BY <1>1, <1>2, <3>1, <3>2, <3>3 DEF BranchInv, JobsNew
  <2> QED
    BY <2>2, <2>3
<1> QED
  BY <1>5, <1>6, <1>7 DEF BranchInv

LEMMA MineAppendBranch ==
    ASSUME Inv, BranchInv, NEW n \in Node, MineAppend(n) PROVE BranchInv'
PROOF
<1>1. /\ stamp \in Nat /\ stamp' = stamp
      /\ pc \in [Node -> {"idle", "collected", "mining", "drain", "adding"}]
      /\ job \in [Node -> Block]
  BY DEF Inv, BaseInv, LoopInv, MineAppend
<1>2. /\ pc[n] = "mining"
      /\ pc'[n] = "idle"
      /\ \A m \in Node \ {n} : pc'[m] = pc[m] /\ job'[m] = job[m]
  BY <1>1 DEF MineAppend
<1>3. ~Busy(n)' /\ \A m \in Node \ {n} : Busy(m)' => Busy(m)
  BY <1>2 DEF Busy
<1>4. CASE published' = published
  BY <1>1, <1>2, <1>3, <1>4, QuietStep
<1>5. CASE AppendBlock(n, job[n])
  <2> DEFINE b == job[n]
             c == chain[n]
  <2>1. published' = published \cup {Append(c, b)}
    BY <1>5 DEF AppendBlock
  <2>2. c \in published /\ b \in Block
    BY <1>1 DEF Inv, BaseInv, ShapeInv
  <2>3. /\ b.hash <= stamp
        /\ \A d \in published : \A i \in DOMAIN d : d[i].hash # b.hash
        /\ \A m \in Node \ {n} : Busy(m) => job[m].hash # b.hash
    BY <1>2 DEF BranchInv, JobsNew, Busy
  <2>4. c \in Seq(Block) /\ Len(c) \in Nat /\ DOMAIN c = 1..Len(c)
    BY <2>2, PublishedFacts DEF Inv, BaseInv
  <2> HIDE DEF b, c
  <2>5. TreeInv'
    BY <2>1, <2>2, <2>3, ExtendTree DEF Inv, BaseInv, BranchInv
  <2>6. \A i \in DOMAIN Append(c, b) :
           (i \in DOMAIN c /\ Append(c, b)[i] = c[i]) \/ Append(c, b)[i] = b
    <3>1. c \in Seq(Block)
      BY <2>4
    <3>2. /\ Append(c, b) \in Seq(Block)
          /\ Len(Append(c, b)) = Len(c) + 1
          /\ \A k \in 1..Len(c) : Append(c, b)[k] = c[k]
          /\ Append(c, b)[Len(c) + 1] = b
      BY <2>2, <3>1, AppendProperties
    <3>3. DOMAIN Append(c, b) = 1..(Len(c) + 1)
      BY <3>2
    <3> QED
      BY <2>4, <3>2, <3>3
  <2>7. StampInv'
    BY <1>1, <2>1, <2>2, <2>3, <2>6 DEF BranchInv, StampInv
  <2>8. JobsNew'
    <3> SUFFICES ASSUME NEW m \in Node, Busy(m)'
                 PROVE  /\ job'[m].hash <= stamp
                        /\ \A d \in published' : \A i \in DOMAIN d :
                              d[i].hash # job'[m].hash
                        /\ \A k \in Node \ {m} : Busy(k)' => job'[k].hash # job'[m].hash
      BY <1>1 DEF JobsNew
    <3>1. m # n /\ Busy(m) /\ job'[m] = job[m]
      BY <1>2, <1>3
    <3>2. /\ job[m].hash <= stamp
          /\ \A d \in published : \A i \in DOMAIN d : d[i].hash # job[m].hash
          /\ \A k \in Node \ {m} : Busy(k) => job[k].hash # job[m].hash
      BY <3>1 DEF BranchInv, JobsNew
    <3>3. b.hash # job[m].hash
      BY <2>3, <3>1
    <3>4. \A i \in DOMAIN Append(c, b) : Append(c, b)[i].hash # job[m].hash
      BY <2>2, <2>6, <3>2, <3>3
    <3> QED
      BY <1>2, <1>3, <2>1, <3>1, <3>2, <3>4
  <2> QED
    BY <2>5, <2>7, <2>8 DEF BranchInv
<1>6. published' = published \/ AppendBlock(n, job[n])
  BY DEF MineAppend
<1> QED
  BY <1>4, <1>5, <1>6

\* The chain a node moves to with a received block or batch has been published.
LEMMA MovesKnown ==
    ASSUME Inv, BranchInv, NEW n \in Node, NewBlock(n) \/ BlocksBatch(n)
    PROVE  /\ published' = published
           /\ \/ UNCHANGED chain
              \/ \E c \in published : /\ Len(c) > Len(chain[n])
                                      /\ chain' = [chain EXCEPT ![n] = c]
PROOF
<1>1. CASE NewBlock(n)
  <2>1. PICK c \in published : AppendBlock(n, Last(c))
    BY <1>1 DEF NewBlock
  <2>2. Last(c).index = Len(chain[n]) /\ Last(c).previous_hash = Tip(n).hash
    BY <2>1 DEF AppendBlock, Appendable
  <2>3. Append(chain[n], Last(c)) = c
    BY <2>2, AppendKnown DEF Inv, BaseInv, BranchInv
  <2>4. published' = published /\ chain' = [chain EXCEPT ![n] = c]
    BY <2>1, <2>3 DEF AppendBlock
  <2>5. Len(c) > Len(chain[n])
    <3>1. Len(c) \in Nat /\ Last(c).index = Len(c) - 1
      BY PublishedFacts DEF Inv, BaseInv
    <3> QED
      BY <2>2, <3>1
  <2> QED
    BY <2>4, <2>5
<1>2. CASE BlocksBatch(n)
  <2>0. PICK c \in published : \E s \in 1..Len(c) :
           \/ ReplaceChain(n, Merge(chain[n], c, s))
           \/ UNCHANGED <<chain, published>>
    BY <1>2 DEF BlocksBatch
  <2>1. PICK s \in 1..Len(c) : \/ ReplaceChain(n, Merge(chain[n], c, s))
                               \/ UNCHANGED <<chain, published>>
    BY <2>0
  <2>2. CASE ReplaceChain(n, Merge(chain[n], c, s))
    <3>1. /\ Len(Merge(chain[n], c, s)) > Len(chain[n])
          /\ Linked(Merge(chain[n], c, s))
      BY <2>2 DEF ReplaceChain, Replaceable
    <3>2. Merge(chain[n], c, s) = c
      BY <3>1, MergeKnown DEF Inv, BaseInv, BranchInv
    <3>3. ReplaceChain(n, c) /\ Len(c) > Len(chain[n])
      BY <2>2, <3>1, <3>2
    <3> QED
      BY <3>3 DEF ReplaceChain
  <2> QED
    BY <2>1, <2>2
<1> QED
  BY <1>1, <1>2

\* Every other step leaves the chains, what was published and the blocks under way.
Local(n) ==
    \/ ConsoleSend(n) \/ PostSend(n) \/ RunSend(n) \/ MineFees(n) \/ DrainBuffer(n)
    \/ NewTx(n) \/ MempoolTxs(n) \/ AddNext(n) \/ Subscribed(n) \/ Unsynchronised(n)

LEMMA LocalFrame ==
    ASSUME Inv, NEW n \in Node, Local(n)
    PROVE  /\ UNCHANGED <<chain, published, stamp>>
           /\ \A m \in Node : Busy(m)' => Busy(m) /\ job'[m].hash = job[m].hash
PROOF
<1> USE DEF Busy, blockchain, store, loop, gossip, Idle
<1>1. /\ pc \in [Node -> {"idle", "collected", "mining", "drain", "adding"}]
      /\ job \in [Node -> Block]
  BY DEF Inv, BaseInv, LoopInv
<1>2. CASE ConsoleSend(n) \/ PostSend(n) \/ RunSend(n)
  BY <1>1, <1>2 DEF ConsoleSend, PostSend, RunSend
<1>3. CASE MineFees(n)
  <2> DEFINE value == job[n].reward + TotalFees(mempool[n], BlockLimit)
             txs == <<Coinbase(job[n].hash, WalletOf[n], value)>> \o job[n].transactions
  <2>1. PICK now \in Times :
           job' = [job EXCEPT ![n].reward = value, ![n].timestamp = now,
                              ![n].transactions =
                                 <<Coinbase(job[n].hash, WalletOf[n], value)>> \o @]
    BY <1>3, Zenon DEF MineFees
  <2> HIDE DEF value
  <2>2. \A m \in Node : job'[m].hash = job[m].hash
    <3>1. job'[n] = [job[n] EXCEPT !.reward = value, !.timestamp = now, !.transactions = txs]
      BY <1>1, <2>1
    <3>2. \A m \in Node \ {n} : job'[m] = job[m]
      BY <1>1, <2>1
    <3> HIDE DEF txs
    <3>3. job'[n].hash = job[n].hash
      BY <1>1, <3>1 DEF Block
    <3> QED
      BY <3>2, <3>3
  <2> QED
    BY <1>1, <1>3, <2>2 DEF MineFees
<1>4. CASE DrainBuffer(n) \/ MempoolTxs(n) \/ AddNext(n)
  BY <1>1, <1>4 DEF DrainBuffer, MempoolTxs, AddNext
<1>5. CASE NewTx(n) \/ Subscribed(n) \/ Unsynchronised(n)
  BY <1>1, <1>5 DEF NewTx, Subscribed, Unsynchronised
<1> QED
  BY <1>2, <1>3, <1>4, <1>5 DEF Local

LEMMA NextBranch == Inv /\ BranchInv /\ [Next]_vars => BranchInv'
PROOF
<1> SUFFICES ASSUME Inv, BranchInv, [Next]_vars PROVE BranchInv'
  OBVIOUS
<1>1. ASSUME NEW n \in Node, NewBlock(n) \/ BlocksBatch(n) PROVE BranchInv'
  <2>1. published' = published
    BY <1>1, MovesKnown
  <2>2. \A m \in Node : Busy(m)' => Busy(m) /\ job'[m].hash = job[m].hash
    <3>1. pc \in [Node -> {"idle", "collected", "mining", "drain", "adding"}]
      BY DEF Inv, BaseInv, LoopInv
    <3> QED
      BY <1>1, <3>1 DEF NewBlock, BlocksBatch, Busy, loop, Idle
  <2>3. stamp' = stamp
    BY <1>1 DEF NewBlock, BlocksBatch
  <2> QED
    BY <2>1, <2>2, <2>3, QuietStep
<1>2. ASSUME NEW n \in Node, Local(n) PROVE BranchInv'
  BY <1>2, LocalFrame, QuietStep
<1>3. CASE UNCHANGED vars
  BY <1>3, QuietStep DEF vars, loop, gossip, Busy
<1> QED
  BY <1>1, <1>2, <1>3, MineCollectBranch, MineAppendBranch DEF Next, NodeStep, Local

LEMMA SpecBranch == Spec => [](Inv /\ BranchInv)
PROOF
<1>1. Init => Inv /\ BranchInv
  BY InitInv, InitBranch
<1>2. Inv /\ BranchInv /\ [Next]_vars => (Inv /\ BranchInv)'
  BY NextInv, NextBranch
<1> QED
  BY <1>1, <1>2, PTL DEF Spec

\* Two chains with the same last block are the same: no merge of a batch, in
\* whatever order the batches arrive, splices two forks (node.rs BlocksBatch).
THEOREM TipsDetermineChains == Spec => []SameTipSameHistory
PROOF
<1>1. ASSUME Inv, BranchInv, NEW c \in published, NEW d \in published,
             Last(c).hash = Last(d).hash
      PROVE  c = d
  <2>1. /\ c \in Seq(Block) /\ Len(c) \in DOMAIN c /\ Last(c) = c[Len(c)]
        /\ d \in Seq(Block) /\ Len(d) \in DOMAIN d /\ Last(d) = d[Len(d)]
    BY <1>1, PublishedFacts DEF Inv, BaseInv
  <2>2. Len(c) = Len(d) /\ \A k \in 1..Len(c) : c[k] = d[k]
    BY <1>1, <2>1 DEF BranchInv, TreeInv, SamePast
  <2> QED
    BY <2>1, <2>2, SeqEqual
<1>2. Inv /\ BranchInv => SameTipSameHistory
  BY <1>1 DEF SameTipSameHistory
<1> QED
  BY <1>2, SpecBranch, PTL

\* A step of the nodes is a step of the abstract specification, or none.
LEMMA StepRefines ==
    ASSUME Inv, BranchInv, Next
    PROVE  Abstract!Next \/ UNCHANGED <<chain, published>>
PROOF
<1>1. PICK n \in Node : NodeStep(n)
  BY DEF Next
<1>2. CASE MineAppend(n) /\ AppendBlock(n, job[n])
  <2> DEFINE b == job[n]
             c == chain[n]
  <2>1. /\ pc[n] = "mining"
        /\ chain' = [chain EXCEPT ![n] = Append(c, b)]
        /\ published' = published \cup {Append(c, b)}
        /\ b.index = Len(c)
        /\ b.previous_hash = Last(c).hash
    BY <1>2 DEF MineAppend, AppendBlock, Appendable, Tip
  <2>2. c \in Seq(Block) /\ Last(c) = c[Len(c)] /\ b \in Block
    BY ChainFacts DEF Inv, BaseInv, LoopInv, Last
  <2>3. chain'[n] = Append(c, b)
    BY <2>1 DEF Inv, BaseInv, ShapeInv
  <2>4. \A d \in published : \A i \in DOMAIN d : d[i].hash # b.hash
    BY <2>1 DEF BranchInv, JobsNew, Busy
  <2> HIDE DEF b, c
  <2>5. Len(Append(c, b)) = Len(c) + 1 /\ Append(c, b)[Len(c) + 1] = b
    BY <2>2, AppendProperties
  <2>6. Abstract!Extend(n)
    BY <2>1, <2>2, <2>3, <2>4, <2>5 DEF Abstract!Extend, Abstract!Fresh, c
  <2> QED
    BY <2>6 DEF Abstract!Next
<1>3. CASE NewBlock(n) \/ BlocksBatch(n)
  <2>1. CASE UNCHANGED chain
    BY <1>3, <2>1, MovesKnown
  <2>2. CASE \E c \in published : /\ Len(c) > Len(chain[n])
                                  /\ chain' = [chain EXCEPT ![n] = c]
    BY <1>3, <2>2, MovesKnown DEF Abstract!Next, Abstract!Adopt
  <2> QED
    BY <1>3, <2>1, <2>2, MovesKnown
<1>4. CASE Local(n)
  BY <1>4, LocalFrame
<1>5. CASE MineCollect(n) \/ (MineAppend(n) /\ ~AppendBlock(n, job[n]))
  BY <1>5 DEF MineCollect, MineAppend, blockchain, gossip
<1> QED
  BY <1>1, <1>2, <1>3, <1>4, <1>5 DEF NodeStep, Local

\* The nodes implement the longest-chain specification, for any number of nodes
\* and whatever the network loses, delays, reorders or repeats.
THEOREM NodesImplementLongestChain == Spec => ImplementsLongestChain
PROOF
<1>1. Init => Abstract!Init
  BY DEF Init, Abstract!Init
<1>2. Inv /\ BranchInv /\ [Next]_vars => [Abstract!Next]_<<chain, published>>
  BY StepRefines DEF vars, blockchain, gossip
<1> QED
  BY <1>1, <1>2, SpecBranch, PTL DEF Spec, ImplementsLongestChain, Abstract!Spec

-----------------------------------------------------------------------------
\* No output is spent twice.

\* The transactions of a block: at most one coinbase, in front, with this stamp.
MarkedTxs(txs, s) ==
    \A j \in DOMAIN txs : IsCoinbase(txs[j]) => j = 1 /\ txs[j].stamp = s

\* The coinbase of a block has its hash as its stamp; that of genesis has 0.
Marked(c) ==
    \A i \in DOMAIN c :
        /\ c[i].hash > 0
        /\ MarkedTxs(c[i].transactions, IF i = 1 THEN 0 ELSE c[i].hash)

MarkInv ==
    /\ \A c \in published : Marked(c)
    /\ \A n \in Node : Busy(n) => job[n].hash > 0
    /\ \A n \in Node : pc[n] = "collected" => job[n].transactions \in Seq(Paid)
    /\ \A n \in Node : pc[n] = "mining" =>
          job[n].transactions # <<>> /\ MarkedTxs(job[n].transactions, job[n].hash)

SpendInv == PaidInv /\ MarkInv

-----------------------------------------------------------------------------
\* What the marks are for.

\* The hashes of a chain differ, so the coinbases of its blocks do.
LEMMA MarksDiffer ==
    ASSUME NEW c \in Seq(Block), Marked(c), SamePast(c, c)
    PROVE  UniqueCoinbases(c)
PROOF
<1> SUFFICES ASSUME NEW p \in Positions(c), NEW q \in Positions(c),
                    IsCoinbase(TxAt(c, p)), TxAt(c, p) = TxAt(c, q)
             PROVE  p = q
  BY DEF UniqueCoinbases
<1>1. ASSUME NEW r \in Positions(c), IsCoinbase(TxAt(c, r))
      PROVE  \E i \in DOMAIN c : /\ r = <<i, 1>>
                                 /\ TxAt(c, r).stamp = IF i = 1 THEN 0 ELSE c[i].hash
  <2>1. PICK i \in DOMAIN c : \E j \in DOMAIN c[i].transactions : r = <<i, j>>
    BY DEF Positions
  <2>2. PICK j \in DOMAIN c[i].transactions : r = <<i, j>>
    BY <2>1
  <2>3. TxAt(c, r) = c[i].transactions[j]
    BY <2>2 DEF TxAt
  <2>4. j = 1 /\ TxAt(c, r).stamp = IF i = 1 THEN 0 ELSE c[i].hash
    BY <1>1, <2>3 DEF Marked, MarkedTxs
  <2> QED
    BY <2>2, <2>4
<1>2. PICK i \in DOMAIN c : /\ p = <<i, 1>>
                            /\ TxAt(c, p).stamp = IF i = 1 THEN 0 ELSE c[i].hash
  BY <1>1
<1>3. PICK k \in DOMAIN c : /\ q = <<k, 1>>
                            /\ TxAt(c, q).stamp = IF k = 1 THEN 0 ELSE c[k].hash
  BY <1>1
<1>4. c[i].hash > 0 /\ c[k].hash > 0 /\ c[i].hash \in Nat /\ c[k].hash \in Nat
  <2>1. c[i] \in Block /\ c[k] \in Block
    OBVIOUS
  <2> QED
    BY <2>1 DEF Marked, Block
<1>5. i = k
  BY <1>2, <1>3, <1>4 DEF SamePast
<1> QED
  BY <1>2, <1>3, <1>5

-----------------------------------------------------------------------------
\* Steps: blocks stay marked.

LEMMA MineCollectMarks ==
    ASSUME Inv, PaidInv, MarkInv, NEW n \in Node, MineCollect(n) PROVE MarkInv'
PROOF
<1>1. stamp \in Nat /\ job \in [Node -> Block] /\ pc \in [Node ->
        {"idle", "collected", "mining", "drain", "adding"}]
  BY DEF Inv, BaseInv, LoopInv
<1>2. /\ published' = published
      /\ pc' = [pc EXCEPT ![n] = "collected"]
      /\ job'[n].hash = stamp + 1
      /\ job'[n].transactions = CollectForBlock(mempool[n], BlockLimit)
      /\ \A m \in Node \ {n} : job'[m] = job[m]
  BY <1>1 DEF MineCollect, gossip
<1>3. CollectForBlock(mempool[n], BlockLimit) \in Seq(Paid)
  BY CollectPaid, NodeAssumption DEF Inv, BaseInv, PoolInv, PaidInv
<1>4. \A m \in Node : pc'[m] = IF m = n THEN "collected" ELSE pc[m]
  BY <1>1, <1>2
<1>5. \A m \in Node : Busy(m)' => job'[m].hash > 0
  <2> SUFFICES ASSUME NEW m \in Node, Busy(m)' PROVE job'[m].hash > 0
    OBVIOUS
  <2>1. CASE m = n
    BY <1>1, <1>2, <2>1
  <2>2. CASE m # n
    <3>1. Busy(m) /\ job'[m] = job[m]
      BY <1>2, <1>4, <2>2 DEF Busy
    <3> QED
      BY <3>1 DEF MarkInv
  <2> QED
    BY <2>1, <2>2
<1>6. \A m \in Node : pc'[m] = "collected" => job'[m].transactions \in Seq(Paid)
  BY <1>2, <1>3, <1>4 DEF MarkInv
<1>7. \A m \in Node : pc'[m] = "mining" =>
         job'[m].transactions # <<>> /\ MarkedTxs(job'[m].transactions, job'[m].hash)
  BY <1>2, <1>4 DEF MarkInv
<1> QED
  BY <1>2, <1>5, <1>6, <1>7 DEF MarkInv

LEMMA MineFeesMarks ==
    ASSUME Inv, PaidInv, MarkInv, NEW n \in Node, MineFees(n) PROVE MarkInv'
PROOF
<1> DEFINE value == job[n].reward + TotalFees(mempool[n], BlockLimit)
           coinbase == Coinbase(job[n].hash, WalletOf[n], value)
           txs == <<coinbase>> \o job[n].transactions
<1>1. PICK now \in Times :
         job' = [job EXCEPT ![n].reward = value, ![n].timestamp = now,
                            ![n].transactions =
                               <<Coinbase(job[n].hash, WalletOf[n], value)>> \o @]
  BY Zenon DEF MineFees
<1>2. /\ pc' = [pc EXCEPT ![n] = "mining"]
      /\ pc[n] = "collected"
      /\ published' = published
  BY DEF MineFees, gossip
<1> HIDE DEF value
<1>3. job[n] \in Block /\ job[n].hash > 0 /\ job[n].transactions \in Seq(Paid)
  BY <1>2 DEF Inv, BaseInv, LoopInv, MarkInv, Busy
<1>4. job'[n] = [job[n] EXCEPT !.reward = value, !.timestamp = now, !.transactions = txs]
  BY <1>1 DEF Inv, BaseInv, LoopInv
<1>5. \A m \in Node \ {n} : job'[m] = job[m]
  BY <1>1 DEF Inv, BaseInv, LoopInv
<1>6. coinbase.stamp = job[n].hash
  BY DEF Coinbase
<1> HIDE DEF coinbase
<1>7. MarkedTxs(txs, job[n].hash)
  <2> SUFFICES ASSUME NEW j \in DOMAIN txs, IsCoinbase(txs[j])
               PROVE  j = 1 /\ txs[j].stamp = job[n].hash
    BY DEF MarkedTxs
  <2>1. j # 1 => j - 1 \in DOMAIN job[n].transactions /\ txs[j] = job[n].transactions[j - 1]
    BY <1>3
  <2>2. \A i \in DOMAIN job[n].transactions : ~IsCoinbase(job[n].transactions[i])
    BY <1>3 DEF Paid
  <2>3. txs[1] = coinbase
    BY <1>3
  <2> QED
    BY <1>6, <2>1, <2>2, <2>3
<1>13. txs # <<>>
  BY <1>3
<1> HIDE DEF txs
<1>8. job'[n].hash = job[n].hash /\ job'[n].transactions = txs
  BY <1>3, <1>4 DEF Block
<1>9. \A m \in Node : pc'[m] = IF m = n THEN "mining" ELSE pc[m]
  BY <1>2 DEF Inv, BaseInv, LoopInv
<1>10. \A m \in Node : Busy(m)' => job'[m].hash > 0
  BY <1>3, <1>5, <1>8, <1>9 DEF MarkInv, Busy
<1>11. \A m \in Node : pc'[m] = "collected" => job'[m].transactions \in Seq(Paid)
  BY <1>5, <1>9 DEF MarkInv
<1>12. \A m \in Node : pc'[m] = "mining" =>
          job'[m].transactions # <<>> /\ MarkedTxs(job'[m].transactions, job'[m].hash)
  BY <1>5, <1>7, <1>8, <1>9, <1>13 DEF MarkInv
<1> QED
  BY <1>2, <1>10, <1>11, <1>12 DEF MarkInv

LEMMA MineAppendMarks ==
    ASSUME Inv, PaidInv, MarkInv, NEW n \in Node, MineAppend(n) PROVE MarkInv'
PROOF
<1> DEFINE b == job[n]
           c == chain[n]
<1>1. /\ pc[n] = "mining"
      /\ pc' = [pc EXCEPT ![n] = "idle"]
      /\ \A m \in Node \ {n} : job'[m] = job[m]
      /\ published' = published \/ published' = published \cup {Append(c, b)}
  BY DEF MineAppend, AppendBlock, Inv, LoopInv
<1>2. c \in published /\ c \in Seq(Block) /\ Len(c) \in Nat /\ Len(c) > 0 /\ b \in Block
  BY ChainFacts DEF Inv, BaseInv, LoopInv, ShapeInv
<1>3. Marked(c) /\ b.hash > 0 /\ MarkedTxs(b.transactions, b.hash)
  BY <1>1, <1>2 DEF MarkInv, Busy
<1> HIDE DEF b, c
<1>4. Marked(Append(c, b))
  <2> SUFFICES ASSUME NEW i \in DOMAIN Append(c, b)
               PROVE  LET block == Append(c, b)[i] IN
                      /\ block.hash > 0
                      /\ MarkedTxs(block.transactions, IF i = 1 THEN 0 ELSE block.hash)
    BY DEF Marked
  <2>1. CASE i \in DOMAIN c
    <3>1. Append(c, b)[i] = c[i]
      BY <1>2, <2>1
    <3> QED
      BY <1>3, <2>1, <3>1 DEF Marked
  <2>2. CASE i \notin DOMAIN c
    <3>1. i = Len(c) + 1 /\ i # 1 /\ Append(c, b)[i] = b
      BY <1>2, <2>2
    <3> QED
      BY <1>3, <3>1
  <2> QED
    BY <2>1, <2>2
<1>5. \A d \in published' : Marked(d)
  BY <1>1, <1>4 DEF MarkInv
<1>6. \A m \in Node : pc'[m] # "idle" => job'[m] = job[m] /\ pc'[m] = pc[m]
  BY <1>1 DEF Inv, BaseInv, LoopInv
<1> QED
  BY <1>5, <1>6 DEF MarkInv, Busy

LEMMA NextMarks == Inv /\ BranchInv /\ SpendInv /\ [Next]_vars => MarkInv'
PROOF
<1> SUFFICES ASSUME Inv, BranchInv, PaidInv, MarkInv, [Next]_vars PROVE MarkInv'
  BY DEF SpendInv
<1> USE DEF Inv, BaseInv, LoopInv
<1>1. ASSUME UNCHANGED <<published, job>>,
             \A m \in Node : pc'[m] \in {"collected", "mining"} => pc'[m] = pc[m]
      PROVE  MarkInv'
  BY <1>1 DEF MarkInv, Busy
<1>2. ASSUME NEW n \in Node, NewBlock(n) \/ BlocksBatch(n) PROVE MarkInv'
  <2>1. published' = published
    BY <1>2, MovesKnown
  <2>2. /\ job' = job
        /\ \A m \in Node : pc'[m] \in {"collected", "mining"} => pc'[m] = pc[m]
    BY <1>2 DEF NewBlock, BlocksBatch, loop
  <2> QED
    BY <1>1, <2>1, <2>2
<1>3. ASSUME NEW n \in Node,
             \/ ConsoleSend(n) \/ PostSend(n) \/ RunSend(n) \/ DrainBuffer(n)
             \/ NewTx(n) \/ MempoolTxs(n) \/ AddNext(n) \/ Subscribed(n)
             \/ Unsynchronised(n)
      PROVE  MarkInv'
  <2>1. published' = published /\ job' = job
    BY <1>3 DEF ConsoleSend, PostSend, RunSend, DrainBuffer, NewTx, MempoolTxs, AddNext,
                Subscribed, Unsynchronised, loop, gossip
  <2>2. \A m \in Node : pc'[m] \in {"collected", "mining"} => pc'[m] = pc[m]
    BY <1>3 DEF ConsoleSend, PostSend, RunSend, DrainBuffer, NewTx, MempoolTxs, AddNext,
                Subscribed, Unsynchronised, loop
  <2> QED
    BY <1>1, <2>1, <2>2
<1>4. CASE UNCHANGED vars
  BY <1>1, <1>4 DEF vars, loop, gossip
<1>5. ASSUME NEW n \in Node, NodeStep(n) PROVE MarkInv'
  BY <1>2, <1>3, <1>5, MineCollectMarks, MineFeesMarks, MineAppendMarks DEF NodeStep
<1> QED
  BY <1>4, <1>5 DEF Next

LEMMA InitSpend == Init => SpendInv
PROOF
<1> SUFFICES ASSUME Init PROVE SpendInv
  OBVIOUS
<1>1. PaidInv
  BY InitPaid
<1>2. Marked(<<Genesis>>)
  <2>1. Genesis.hash = 1 /\ Genesis.transactions = <<Coinbase(0, NoWallet, InitialReward)>>
    BY DEF Genesis
  <2>2. Coinbase(0, NoWallet, InitialReward).stamp = 0
    BY DEF Coinbase
  <2>3. MarkedTxs(Genesis.transactions, 0)
    BY <2>1, <2>2 DEF MarkedTxs
  <2>4. DOMAIN <<Genesis>> = {1} /\ <<Genesis>>[1] = Genesis
    OBVIOUS
  <2> QED
    BY <2>1, <2>3, <2>4 DEF Marked
<1>3. MarkInv
  BY <1>2 DEF Init, MarkInv, Busy
<1> QED
  BY <1>1, <1>3 DEF SpendInv

LEMMA SpecSpend == Spec => [](Inv /\ BranchInv /\ SpendInv)
PROOF
<1>1. Init => Inv /\ BranchInv /\ SpendInv
  BY InitInv, InitBranch, InitSpend
<1>2. Inv /\ BranchInv /\ SpendInv /\ [Next]_vars => (Inv /\ BranchInv /\ SpendInv)'
  BY NextInv, NextBranch, NextPaid, NextMarks DEF SpendInv, Inv
<1> QED
  BY <1>1, <1>2, PTL DEF Spec

\* A published chain is one the lemmas about chains apply to.
LEMMA PublishedUnique ==
    ASSUME Inv, BranchInv, SpendInv, NEW c \in published
    PROVE  c \in Seq(Block) /\ ChainReplays(c) /\ UniqueCoinbases(c)
PROOF
<1>1. c \in Seq(Block) /\ ChainReplays(c)
  BY DEF Inv, BaseInv, ShapeInv, ReplayInv
<1>2. Marked(c) /\ SamePast(c, c)
  BY DEF SpendInv, MarkInv, BranchInv, TreeInv
<1> QED
  BY <1>1, <1>2, MarksDiffer

\* No chain that a node has held, by mining, receiving or merging, spends an
\* output at two places (try_append_block, try_replace_chain).
THEOREM NothingSpentTwice == Spec => []NoDoubleSpend
PROOF
<1>1. ASSUME Inv, BranchInv, SpendInv PROVE NoDoubleSpend
  <2> SUFFICES ASSUME NEW c \in published, NEW p \in Positions(c), NEW q \in Positions(c),
                      p # q, ~IsCoinbase(TxAt(c, p)), ~IsCoinbase(TxAt(c, q)),
                      NEW op, op \in Inputs(TxAt(c, p)), op \in Inputs(TxAt(c, q))
               PROVE  FALSE
    BY DEF NoDoubleSpend
  <2>1. c \in Seq(Block) /\ ChainReplays(c) /\ UniqueCoinbases(c)
    BY <1>1, PublishedUnique
  <2>2. Clash(c, p, q) /\ Clash(c, q, p)
    BY DEF Clash
  <2>3. Before(p, q) \/ Before(q, p)
    BY <2>1, PositionsOrdered
  <2> QED
    BY <2>1, <2>2, <2>3, NoClash
<1> QED
  BY <1>1, SpecSpend, PTL

\* On every chain a node has held, the balances and the inputs to choose from that
\* build_utxo_set computes are what the replay of try_replace_chain leaves.
THEOREM UtxoSetsEqual == Spec => []UtxoSetsAgree
PROOF
<1>1. ASSUME Inv, BranchInv, SpendInv PROVE UtxoSetsAgree
  BY <1>1, PublishedUnique, PassesAgree DEF UtxoSetsAgree
<1> QED
  BY <1>1, SpecSpend, PTL

-----------------------------------------------------------------------------
\* What leaves a mempool.

\* Adding a transaction that add accepts takes none out.
LEMMA AddKeepsPending ==
    ASSUME BaseInv, NEW n \in Node, NEW tx \in Tx, NEW fee \in Nat,
           CanAdd(mempool[n], tx), AddToPool(n, tx, fee), NEW m \in Node
    PROVE  PoolTxs(mempool[m]) \subseteq PoolTxs(mempool'[m])
PROOF
<1>1. mempool[n] \in Pool /\ Consistent(mempool[n])
  BY DEF BaseInv, PoolInv, PoolsConsistent
<1>2. Range(mempool[n].entries) \subseteq Range(Add(mempool[n], tx, fee).entries)
  BY <1>1, AddKeeps
<1>3. mempool' = [mempool EXCEPT ![n] = Add(mempool[n], tx, fee)]
  BY DEF AddToPool
<1>4. CASE m = n
  <2>1. mempool'[m] = Add(mempool[n], tx, fee)
    BY <1>3, <1>4 DEF BaseInv, PoolInv
  <2> QED
    BY <1>2, <1>4, <2>1 DEF PoolTxs
<1>5. CASE m # n
  BY <1>3, <1>5 DEF BaseInv, PoolInv
<1> QED
  BY <1>4, <1>5

\* What purging takes out is in the block that was appended.
LEMMA PurgeConfirms ==
    ASSUME BaseInv, NEW n \in Node, NEW b \in Block, AppendBlock(n, b),
           NEW ids, ids \subseteq Range(b.transactions),
           mempool' = [mempool EXCEPT ![n] = PurgeConfirmed(@, ids)],
           NEW m \in Node, NEW tx \in PoolTxs(mempool[m]) \ PoolTxs(mempool'[m])
    PROVE  \E p \in Positions(chain'[m]) : TxAt(chain'[m], p) = tx
PROOF
<1>1. mempool' = [mempool EXCEPT ![n] = PurgeConfirmed(mempool[n], ids)]
  OBVIOUS
<1>2. m = n /\ mempool'[n] = PurgeConfirmed(mempool[n], ids)
  BY <1>1 DEF BaseInv, PoolInv
<1>3. mempool[n] \in Pool /\ Consistent(mempool[n]) /\ Sorted(mempool[n])
  BY DEF BaseInv, PoolInv, PoolsConsistent
<1>4. tx \in ids
  <2>1. Range(PurgeConfirmed(mempool[n], ids).entries)
          = {e \in Range(mempool[n].entries) : e.tx \notin ids}
    BY <1>3, PurgeKeeps
  <2>2. PICK e \in Range(mempool[n].entries) : e.tx = tx
    BY <1>2 DEF PoolTxs
  <2>3. tx \notin PoolTxs(PurgeConfirmed(mempool[n], ids))
    BY <1>2
  <2> QED
    BY <2>1, <2>2, <2>3 DEF PoolTxs
<1>5. PICK j \in DOMAIN b.transactions : b.transactions[j] = tx
  BY <1>4 DEF Range
<1>6. chain[n] \in Seq(Block) /\ chain'[n] = Append(chain[n], b)
  BY ChainFacts DEF BaseInv, AppendBlock, ShapeInv
<1>7. /\ <<Len(chain[n]) + 1, j>> \in Positions(Append(chain[n], b))
      /\ TxAt(Append(chain[n], b), <<Len(chain[n]) + 1, j>>) = b.transactions[j]
  BY <1>6, AppendPositions
<1> QED
  BY <1>2, <1>5, <1>6, <1>7

LEMMA StepConfirms ==
    ASSUME BaseInv, SpendInv, NEW n \in Node, NodeStep(n), NEW m \in Node,
           NEW tx \in PoolTxs(mempool[m]) \ PoolTxs(mempool'[m])
    PROVE  \E p \in Positions(chain'[m]) : TxAt(chain'[m], p) = tx
PROOF
<1>1. ASSUME NEW added \in Tx, NEW fee \in Nat,
             CanAdd(mempool[n], added), AddToPool(n, added, fee)
      PROVE  FALSE
  BY <1>1, AddKeepsPending
<1>2. CASE MineAppend(n)
  <2> DEFINE b == job[n]
  <2>1. b \in Block /\ b.transactions # <<>>
    BY <1>2 DEF BaseInv, LoopInv, SpendInv, MarkInv, MineAppend
  <2>2. b.transactions \in Seq(Tx)
    BY <2>1 DEF Block
  <2>3. \/ /\ AppendBlock(n, b)
           /\ mempool' = [mempool EXCEPT ![n] =
                            PurgeConfirmed(@, Range(Tail(b.transactions)))]
        \/ UNCHANGED mempool
    BY <1>2 DEF MineAppend, blockchain
  <2> HIDE DEF b
  <2>4. Range(Tail(b.transactions)) \subseteq Range(b.transactions)
    <3> SUFFICES ASSUME NEW i \in DOMAIN Tail(b.transactions)
                 PROVE  \E j \in DOMAIN b.transactions :
                           b.transactions[j] = Tail(b.transactions)[i]
      BY DEF Range
    <3>1. i + 1 \in DOMAIN b.transactions
          /\ b.transactions[i + 1] = Tail(b.transactions)[i]
      BY <2>1, <2>2
    <3> QED
      BY <3>1
  <2> QED
    BY <2>1, <2>3, <2>4, PurgeConfirms
<1>3. CASE NewBlock(n)
  <2>1. PICK c \in published :
           /\ AppendBlock(n, Last(c))
           /\ mempool' = [mempool EXCEPT ![n] =
                            PurgeConfirmed(@, Range(Last(c).transactions))]
    BY <1>3 DEF NewBlock
  <2>2. Last(c) \in Block
    BY PublishedBlocks DEF BaseInv
  <2> QED
    BY <2>1, <2>2, PurgeConfirms
<1>4. ASSUME NEW to, NEW amount, NEW fee \in Nat,
             NEW added \in Creatable(n, to, amount, fee) \cap Tx,
             AddToPool(n, added, fee)
      PROVE  FALSE
  <2>1. CanAdd(mempool[n], added)
    BY DEF Creatable
  <2> QED
    BY <1>1, <1>4, <2>1
<1>5. CASE ConsoleSend(n)
  BY <1>4, <1>5, NodeAssumption DEF ConsoleSend, Send
<1>6. CASE PostSend(n)
  BY <1>4, <1>6, NodeAssumption DEF PostSend
<1>7. CASE RunSend(n)
  <2> DEFINE c == Head(cmds[n])
  <2>1. cmds[n] \in Seq(Payload) /\ cmds[n] # <<>>
    BY <1>7 DEF BaseInv, LoopInv, RunSend
  <2>2. c \in Payload
    BY <2>1
  <2>3. Send(n, c.to, c.amount, c.fee) \/ UNCHANGED mempool
    BY <1>7 DEF RunSend
  <2> HIDE DEF c
  <2>4. c.fee \in Nat
    BY <2>2 DEF Payload
  <2> QED
    BY <1>4, <2>3, <2>4 DEF Send
<1>8. CASE NewTx(n)
  <2>1. PICK t \in new_txs :
           (CanAdd(mempool[n], t) /\ AddToPool(n, t, Fee(t))) \/ UNCHANGED mempool
    BY <1>8 DEF NewTx
  <2>2. t \in Tx /\ Fee(t) \in Nat
    BY DEF BaseInv, LoopInv, Fee
  <2> QED
    BY <1>1, <2>1, <2>2
<1>9. CASE AddNext(n)
  <2> DEFINE t == Head(todo[n])
  <2>1. todo[n] \in Seq(Tx) /\ todo[n] # <<>>
    BY <1>9 DEF BaseInv, LoopInv, AddNext
  <2>2. t \in Tx /\ Fee(t) \in Nat
    BY <2>1 DEF Fee
  <2>3. (CanAdd(mempool[n], t) /\ AddToPool(n, t, Fee(t))) \/ UNCHANGED mempool
    BY <1>9 DEF AddNext
  <2> QED
    BY <1>1, <2>2, <2>3
<1>10. \/ MineAppend(n) \/ NewBlock(n) \/ ConsoleSend(n) \/ PostSend(n) \/ RunSend(n)
       \/ NewTx(n) \/ AddNext(n) \/ UNCHANGED mempool
  BY DEF NodeStep, MineCollect, MineFees, BlocksBatch, DrainBuffer, MempoolTxs,
         Subscribed, Unsynchronised, blockchain
<1> QED
  BY <1>2, <1>3, <1>5, <1>6, <1>7, <1>8, <1>9, <1>10

\* A pending transaction is never lost: it leaves a mempool only when the chain of
\* the node has come to hold it (purge_confirmed in MineBlock, NewBlock).
THEOREM PendingUntilConfirmed == Spec => OnlyConfirmedLeave
PROOF
<1>1. BaseInv /\ SpendInv /\ [Next]_vars =>
        [\A n \in Node : \A tx \in PoolTxs(mempool[n]) \ PoolTxs(mempool'[n]) :
            \E p \in Positions(chain'[n]) : TxAt(chain'[n], p) = tx]_vars
  BY StepConfirms DEF Next
<1> QED
  BY <1>1, SpecSpend, PTL DEF Spec, OnlyConfirmedLeave, Inv
=============================================================================
