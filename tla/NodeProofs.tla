------------------------------ MODULE NodeProofs ------------------------------
(***************************************************************************)
(* Proofs of the safety of nodes, for every set of nodes, wallets and       *)
(* amounts and every bound. The inductive invariant has five parts, each    *)
(* about variables the others leave alone:                                  *)
(*   ShapeInv   the places of the blocks, and what is stored of them        *)
(*   PoolInv    the mempools                                                *)
(*   LoopInv    the types of what the event loops hold                      *)
(*   JobFresh   the block a node mines against the chain it has             *)
(*   ReplayInv  the links and the transactions of the chains                *)
(* The first four survive crashes as well (CrashProofs); the last does not.  *)
(* PaidInv says that only payments wait for a block, in whichever place.     *)
(***************************************************************************)
EXTENDS Node, OpsProofs

\* Each block of the chain says its own place.
Indexed(c) == \A i \in DOMAIN c : c[i].index = i - 1

Shaped(c) == c # <<>> /\ c[1].hash = Genesis.hash /\ Indexed(c)

ShapeInv ==
    /\ chain \in [Node -> Seq(Block)]
    /\ difficulty \in [Node -> Nat]
    /\ blocks_tree \in [Node -> Seq(Block)]
    /\ published \subseteq Seq(Block)
    /\ \A n \in Node : chain[n] \in published
    /\ \A c \in published : Shaped(c)
    /\ TipStored

PoolInv ==
    /\ mempool \in [Node -> Pool]
    /\ PoolsConsistent

LoopInv ==
    /\ mining_reward \in [Node -> Value]
    /\ mempool_tree \in [Node -> SUBSET Entry]
    /\ pc \in [Node -> {"idle", "collected", "mining", "drain", "adding"}]
    /\ job \in [Node -> Block]
    /\ todo \in [Node -> Seq(Tx)]
    /\ synced \in [Node -> BOOLEAN]
    /\ tx_buffer \in [Node -> Seq(Tx)]
    /\ cmds \in [Node -> Seq(Payload)]
    /\ new_txs \subseteq Tx
    /\ mempool_txs \subseteq Seq(Tx)
    /\ stamp \in Nat

BaseInv == ShapeInv /\ PoolInv /\ LoopInv /\ JobFresh

ReplayInv == \A c \in published : Linked(c) /\ ChainReplays(c)

Inv == BaseInv /\ ReplayInv

-----------------------------------------------------------------------------
\* Chains.

\* The coinbases the code makes are transactions.
LEMMA CoinbaseType ==
    ASSUME NEW s \in Nat, NEW owner \in Owner, NEW value \in Value
    PROVE  Coinbase(s, owner, value) \in Tx
PROOF
<1>1. <<NullOutPoint>> \in Seq(OutPoint)
  BY LedgerAssumption
<1>2. <<[value |-> value, owner |-> owner]>> \in Seq([value : Value, owner : Owner])
  OBVIOUS
<1>3. NoWallet \in Owner
  BY DEF Owner
<1> QED
  BY <1>1, <1>2, <1>3 DEF Coinbase, Tx

\* The genesis chain is as every chain has to be.
LEMMA GenesisFacts ==
    /\ Genesis \in Block
    /\ NoJob \in Block
    /\ <<Genesis>> \in Seq(Block)
    /\ Shaped(<<Genesis>>) /\ Linked(<<Genesis>>) /\ ChainReplays(<<Genesis>>)
PROOF
<1> DEFINE coinbase == Coinbase(0, NoWallet, InitialReward)
<1>1. coinbase \in Tx
  <2>1. NoWallet \in Owner /\ InitialReward \in Value
    BY NodeAssumption DEF Owner
  <2> QED
    BY <2>1, CoinbaseType
<1>2. IsCoinbase(coinbase)
  BY DEF IsCoinbase, Coinbase
<1> HIDE DEF coinbase
<1>3. Genesis = [index |-> 0, hash |-> 1, previous_hash |-> 0,
                 transactions |-> <<coinbase>>, reward |-> InitialReward,
                 difficulty |-> GenesisDifficulty, timestamp |-> 0]
  BY DEF Genesis, coinbase
<1>4. <<coinbase>> \in Seq(Tx)
  BY <1>1
<1>5. Genesis \in Block
  BY <1>3, <1>4, NodeAssumption DEF Block
<1>6. NoJob \in Block
  BY <1>5 DEF NoJob, Block
<1>7. ASSUME NEW q \in Positions(<<Genesis>>) PROVE TxAt(<<Genesis>>, q) = coinbase
  <2>1. PICK i \in DOMAIN <<Genesis>> :
               \E j \in DOMAIN <<Genesis>>[i].transactions : q = <<i, j>>
    BY DEF Positions
  <2>2. i = 1 /\ <<Genesis>>[i].transactions = <<coinbase>>
    BY <1>3
  <2>3. PICK j \in DOMAIN <<coinbase>> : q = <<1, j>>
    BY <2>1, <2>2
  <2>4. j = 1
    OBVIOUS
  <2> QED
    BY <2>2, <2>3, <2>4 DEF TxAt
<1>8. ChainReplays(<<Genesis>>)
  BY <1>2, <1>7 DEF ChainReplays
<1>9. Shaped(<<Genesis>>) /\ Linked(<<Genesis>>)
  BY <1>3 DEF Shaped, Indexed, Linked
<1> QED
  BY <1>5, <1>6, <1>8, <1>9

\* A block that the checks of try_append_block accept says its place in the chain.
LEMMA AppendShaped ==
    ASSUME NEW c \in Seq(Block), Shaped(c), NEW b \in Block, b.index = Len(c)
    PROVE  Shaped(Append(c, b))
PROOF
<1> DEFINE d == Append(c, b)
<1>1. /\ DOMAIN d = 1..(Len(c) + 1)
      /\ DOMAIN c = 1..Len(c)
      /\ Len(c) \in Nat
      /\ Len(c) > 0
      /\ \A i \in 1..Len(c) : d[i] = c[i]
      /\ d[Len(c) + 1] = b
  BY DEF Shaped
<1> HIDE DEF d
<1>2. d # <<>> /\ d[1].hash = Genesis.hash
  BY <1>1 DEF Shaped
<1>3. ASSUME NEW i \in DOMAIN d PROVE d[i].index = i - 1
  <2>1. CASE i \in 1..Len(c)
    BY <1>1, <2>1 DEF Shaped, Indexed
  <2>2. CASE i = Len(c) + 1
    BY <1>1, <2>2
  <2> QED
    BY <1>1, <2>1, <2>2
<1> QED
  BY <1>2, <1>3 DEF Shaped, Indexed, d

\* And it is linked to the chain.
LEMMA AppendLinked ==
    ASSUME NEW c \in Seq(Block), c # <<>>, Linked(c), NEW b \in Block,
           b.previous_hash = Last(c).hash
    PROVE  Linked(Append(c, b))
PROOF
<1> DEFINE d == Append(c, b)
<1>1. /\ Len(d) = Len(c) + 1
      /\ Len(c) \in Nat
      /\ Len(c) > 0
      /\ \A i \in 1..Len(c) : d[i] = c[i]
      /\ d[Len(c) + 1] = b
  OBVIOUS
<1> HIDE DEF d
<1>2. ASSUME NEW i \in 2..Len(d) PROVE d[i].previous_hash = d[i - 1].hash
  <2>1. i - 1 \in 1..Len(c)
    BY <1>1
  <2>2. CASE i = Len(c) + 1
    BY <1>1, <2>1, <2>2 DEF Last
  <2>3. CASE i # Len(c) + 1
    <3>1. i \in 2..Len(c)
      BY <1>1, <2>3
    <3> QED
      BY <1>1, <2>1, <3>1 DEF Linked
  <2> QED
    BY <2>2, <2>3
<1> QED
  BY <1>2 DEF Linked, d

\* What BlocksBatch makes of its own chain and a batch: the own chain below some
\* place, the batch from there, where the own chain ends or differs.
Spliced(merged, own, batch, cut) ==
    /\ cut <= Len(own) + 1
    /\ cut <= Len(own) => own[cut].hash # batch[cut].hash
    /\ merged \in Seq(Block)
    /\ Len(merged) = Len(batch)
    /\ \A i \in 1..Len(batch) : merged[i] = IF i < cut THEN own[i] ELSE batch[i]

LEMMA MergeShape ==
    ASSUME NEW own \in Seq(Block), NEW batch \in Seq(Block), NEW s \in 1..Len(batch)
    PROVE  \/ Merge(own, batch, s) = own
           \/ \E cut \in 1..Len(batch) : Spliced(Merge(own, batch, s), own, batch, cut)
PROOF
<1> DEFINE news == {i \in s..Len(batch) :
                      \/ i = Len(own) + 1
                      \/ i <= Len(own) /\ own[i].hash # batch[i].hash}
           least(i) == \A j \in news : i <= j
           cut == CHOOSE i \in news : least(i)
           head == SubSeq(own, 1, cut - 1)
           rest == SubSeq(batch, cut, Len(batch))
<1>1. Merge(own, batch, s) = IF news = {} THEN own ELSE head \o rest
  BY DEF Merge
<1>2. Len(own) \in Nat /\ Len(batch) \in Nat /\ s \in Nat /\ s >= 1
  OBVIOUS
<1>3. CASE news = {}
  BY <1>1, <1>3
<1>4. CASE news # {}
  <2>1. news \in SUBSET Nat
    BY <1>2
  <2>2. \A i \in news : /\ i >= 1 /\ i <= Len(own) + 1 /\ i <= Len(batch)
                        /\ i <= Len(own) => own[i].hash # batch[i].hash
    BY <1>2
  <2> HIDE DEF news
  <2>3. \E i \in news : least(i)
    BY <1>4, <2>1, LeastNatural
  <2>4. cut \in news
    BY <2>3
  <2> HIDE DEF cut
  <2>5. /\ cut \in Nat /\ cut >= 1 /\ cut <= Len(own) + 1 /\ cut <= Len(batch)
        /\ cut <= Len(own) => own[cut].hash # batch[cut].hash
    BY <2>1, <2>2, <2>4
  <2>6. /\ head \in Seq(Block)
        /\ Len(head) = cut - 1
        /\ \A i \in 1..(cut - 1) : head[i] = own[i]
    <3>1. \A i \in 1..(cut - 1) : own[i] \in Block
      BY <2>5
    <3>2. cut - 1 \in Int /\ 1 \in Int
      BY <2>5
    <3> QED
      BY <2>5, <3>1, <3>2, SubSeqProperties
  <2>7. /\ rest \in Seq(Block)
        /\ Len(rest) = Len(batch) - cut + 1
        /\ \A i \in 1..(Len(batch) - cut + 1) : rest[i] = batch[cut + i - 1]
    <3>1. \A i \in cut..Len(batch) : batch[i] \in Block
      BY <2>5
    <3>2. cut \in Int /\ Len(batch) \in Int
      BY <2>5
    <3> QED
      BY <2>5, <3>1, <3>2, SubSeqProperties
  <2> HIDE DEF head, rest
  <2>8. /\ head \o rest \in Seq(Block)
        /\ Len(head \o rest) = Len(batch)
        /\ \A i \in 1..Len(batch) :
              (head \o rest)[i] = IF i <= cut - 1 THEN head[i] ELSE rest[i - (cut - 1)]
    BY SMTT(30), <2>5, <2>6, <2>7, ConcatProperties
  <2>9. ASSUME NEW i \in 1..Len(batch)
        PROVE  (head \o rest)[i] = IF i < cut THEN own[i] ELSE batch[i]
    <3>1. CASE i < cut
      <4>1. i <= cut - 1 /\ i \in 1..(cut - 1)
        BY <2>5, <3>1
      <4> QED
        BY <2>6, <2>8, <3>1, <4>1
    <3>2. CASE ~(i < cut)
      <4>1. i - (cut - 1) \in 1..(Len(batch) - cut + 1) /\ ~(i <= cut - 1)
        BY SMTT(30), <2>5, <3>2
      <4>2. cut + (i - (cut - 1)) - 1 = i
        BY <2>5
      <4> QED
        BY <2>7, <2>8, <3>2, <4>1, <4>2
    <3> QED
      BY <3>1, <3>2
  <2>10. Merge(own, batch, s) = head \o rest
    BY <1>1, <1>4
  <2> DEFINE merged == Merge(own, batch, s)
  <2>11. /\ cut \in 1..Len(batch)
         /\ merged \in Seq(Block)
         /\ Len(merged) = Len(batch)
    BY <1>2, <2>5, <2>8, <2>10
  <2>12. \A i \in 1..Len(batch) : merged[i] = IF i < cut THEN own[i] ELSE batch[i]
    BY <2>9, <2>10
  <2> HIDE DEF merged
  <2>13. Spliced(merged, own, batch, cut)
    BY <2>5, <2>11, <2>12 DEF Spliced
  <2> QED
    BY <2>11, <2>13 DEF merged
<1> QED
  BY <1>3, <1>4

\* The candidate of BlocksBatch is a chain whose blocks say their own places.
LEMMA MergeKeeps ==
    ASSUME NEW own \in Seq(Block), NEW batch \in Seq(Block),
           Indexed(own), Indexed(batch), NEW s \in 1..Len(batch)
    PROVE  /\ Merge(own, batch, s) \in Seq(Block)
           /\ Indexed(Merge(own, batch, s))
           /\ own # <<>> /\ own[1].hash = batch[1].hash =>
                 Merge(own, batch, s)[1] = own[1]
PROOF
<1> DEFINE candidate == Merge(own, batch, s)
<1>1. ASSUME candidate = own
      PROVE  /\ candidate \in Seq(Block)
             /\ Indexed(candidate)
             /\ own # <<>> /\ own[1].hash = batch[1].hash => candidate[1] = own[1]
  BY <1>1
<1>2. ASSUME NEW cut \in 1..Len(batch),
             cut <= Len(own) + 1,
             cut <= Len(own) => own[cut].hash # batch[cut].hash,
             candidate \in Seq(Block),
             Len(candidate) = Len(batch),
             \A i \in 1..Len(batch) : candidate[i] = IF i < cut THEN own[i] ELSE batch[i]
      PROVE  /\ candidate \in Seq(Block)
             /\ Indexed(candidate)
             /\ own # <<>> /\ own[1].hash = batch[1].hash => candidate[1] = own[1]
  <2> HIDE DEF candidate
  <2>1. ASSUME NEW i \in DOMAIN candidate PROVE candidate[i].index = i - 1
    <3>1. i \in 1..Len(batch) /\ i \in DOMAIN batch /\ (i < cut => i \in DOMAIN own)
      BY <1>2
    <3> QED
      BY <1>2, <3>1 DEF Indexed
  <2>2. ASSUME own # <<>>, own[1].hash = batch[1].hash PROVE candidate[1] = own[1]
    <3>1. Len(own) >= 1 /\ 1 \in 1..Len(batch)
      BY <2>2
    <3>2. 1 < cut
      BY <1>2, <2>2, <3>1
    <3> QED
      BY <1>2, <3>1, <3>2
  <2> QED
    BY <1>2, <2>1, <2>2 DEF Indexed
<1> HIDE DEF candidate
<1>3. \/ candidate = own
      \/ \E cut \in 1..Len(batch) : Spliced(candidate, own, batch, cut)
  BY MergeShape DEF candidate
<1> QED
  BY <1>1, <1>2, <1>3 DEF candidate, Spliced

\* What SaveSuffix leaves in the store: the new length and the new tip.
LEMMA SaveSuffixKeeps ==
    ASSUME NEW n \in Node, chain[n] \in Seq(Block), blocks_tree[n] \in Seq(Block),
           Len(blocks_tree[n]) = Len(chain[n]),
           NEW candidate \in Seq(Block), Len(candidate) > Len(chain[n])
    PROVE  LET saved == SaveSuffix(n, candidate, Len(candidate)) IN
           /\ saved \in Seq(Block)
           /\ Len(saved) = Len(candidate)
           /\ Last(saved) = Last(candidate)
PROOF
<1> DEFINE old == SubSeq(blocks_tree[n], 1, Len(chain[n]))
           new == SubSeq(candidate, Len(chain[n]) + 1, Len(candidate))
<1>1. Len(chain[n]) \in Nat /\ Len(candidate) \in Nat
  OBVIOUS
<1>2. old \in Seq(Block) /\ Len(old) = Len(chain[n])
  <2>1. \A i \in 1..Len(chain[n]) : blocks_tree[n][i] \in Block
    OBVIOUS
  <2>2. 1 \in Int /\ Len(chain[n]) \in Int
    BY <1>1
  <2> QED
    BY <1>1, <2>1, <2>2, SubSeqProperties
<1>3. /\ new \in Seq(Block)
      /\ Len(new) = Len(candidate) - Len(chain[n])
      /\ new[Len(candidate) - Len(chain[n])] = candidate[Len(candidate)]
  <2> DEFINE from == Len(chain[n]) + 1
             to == Len(candidate)
  <2>1. from \in Int /\ to \in Int /\ from <= to /\ from > 0
    BY <1>1
  <2>2. \A i \in from..to : candidate[i] \in Block
    BY <1>1
  <2> HIDE DEF from, to
  <2>3. /\ SubSeq(candidate, from, to) \in Seq(Block)
        /\ Len(SubSeq(candidate, from, to)) = to - from + 1
        /\ \A i \in 1..(to - from + 1) :
              SubSeq(candidate, from, to)[i] = candidate[from + i - 1]
    BY <2>1, <2>2, SubSeqProperties
  <2>4. SubSeq(candidate, from, to)[to - from + 1] = candidate[to]
    <3>1. to - from + 1 \in 1..(to - from + 1) /\ from + (to - from + 1) - 1 = to
      BY <2>1
    <3> QED
      BY <2>3, <3>1
  <2>5. to - from + 1 = Len(candidate) - Len(chain[n])
    BY <1>1 DEF from, to
  <2> QED
    BY <2>3, <2>4, <2>5 DEF from, to
<1>4. SaveSuffix(n, candidate, Len(candidate)) = old \o new
  BY DEF SaveSuffix
<1> HIDE DEF old, new
<1>5. /\ old \o new \in Seq(Block)
      /\ Len(old \o new) = Len(candidate)
      /\ \A i \in 1..Len(candidate) :
            (old \o new)[i] = IF i <= Len(old) THEN old[i] ELSE new[i - Len(old)]
  BY SMTT(30), <1>1, <1>2, <1>3, ConcatProperties
<1>6. (old \o new)[Len(candidate)] = candidate[Len(candidate)]
  <2>1. Len(candidate) \in 1..Len(candidate) /\ ~(Len(candidate) <= Len(old))
    BY <1>1, <1>2
  <2> QED
    BY <1>2, <1>3, <1>5, <2>1
<1> QED
  BY <1>4, <1>5, <1>6 DEF Last

-----------------------------------------------------------------------------
\* Steps of the chain.

\* The chain of a node, read off the invariant.
LEMMA ChainFacts ==
    ASSUME ShapeInv, NEW n \in Node
    PROVE  /\ chain[n] \in Seq(Block)
           /\ Shaped(chain[n])
           /\ Len(chain[n]) \in Nat
           /\ Len(chain[n]) > 0
           /\ Tip(n) \in Block
           /\ Tip(n).index = Len(chain[n]) - 1
           /\ blocks_tree[n] \in Seq(Block)
           /\ Len(blocks_tree[n]) = Len(chain[n])
PROOF
<1>1. chain[n] \in Seq(Block) /\ Shaped(chain[n])
  BY DEF ShapeInv
<1>2. Len(chain[n]) \in Nat /\ Len(chain[n]) > 0 /\ DOMAIN chain[n] = 1..Len(chain[n])
  BY <1>1 DEF Shaped
<1>3. Tip(n) = chain[n][Len(chain[n])]
  BY DEF Tip, Last
<1>4. Tip(n) \in Block /\ Tip(n).index = Len(chain[n]) - 1
  BY <1>1, <1>2, <1>3 DEF Shaped, Indexed
<1> QED
  BY <1>1, <1>2, <1>4 DEF ShapeInv, TipStored

\* A node that moves to a well-shaped chain and stores its tip keeps the shape part
\* of the invariant.
LEMMA MoveChain ==
    ASSUME ShapeInv, NEW n \in Node, NEW c \in Seq(Block), Shaped(c),
           NEW saved \in Seq(Block), Len(saved) = Len(c), Last(saved) = Last(c),
           chain' = [chain EXCEPT ![n] = c],
           difficulty' = [difficulty EXCEPT ![n] = Last(c).difficulty],
           blocks_tree' = [blocks_tree EXCEPT ![n] = saved],
           published' = published \cup {c}
    PROVE  ShapeInv'
PROOF
<1>1. Last(c) \in Block
  BY DEF Shaped, Last
<1>2. Last(c).difficulty \in Nat
  BY <1>1 DEF Block
<1>3. /\ chain' \in [Node -> Seq(Block)]
      /\ difficulty' \in [Node -> Nat]
      /\ blocks_tree' \in [Node -> Seq(Block)]
      /\ published' \subseteq Seq(Block)
  BY <1>2 DEF ShapeInv
<1>4. ASSUME NEW m \in Node
      PROVE  chain'[m] = IF m = n THEN c ELSE chain[m]
  BY DEF ShapeInv
<1>5. ASSUME NEW m \in Node
      PROVE  blocks_tree'[m] = IF m = n THEN saved ELSE blocks_tree[m]
  BY DEF ShapeInv
<1>6. (\A m \in Node : chain[m] \in published)' /\ (\A d \in published : Shaped(d))'
  BY <1>4 DEF ShapeInv
<1>7. TipStored'
  BY <1>4, <1>5 DEF ShapeInv, TipStored, Tip
<1> QED
  BY <1>3, <1>6, <1>7 DEF ShapeInv

\* try_append_block keeps the shape part of the invariant.
LEMMA AppendStep ==
    ASSUME ShapeInv, NEW n \in Node, NEW b \in Block, AppendBlock(n, b)
    PROVE  ShapeInv'
PROOF
<1> DEFINE d == Append(chain[n], b)
           saved == Append(blocks_tree[n], b)
<1>1. b.index = Len(chain[n])
  BY DEF AppendBlock, Appendable
<1>2. chain[n] \in Seq(Block) /\ Shaped(chain[n]) /\ blocks_tree[n] \in Seq(Block)
      /\ Len(blocks_tree[n]) = Len(chain[n])
  BY ChainFacts
<1>3. d \in Seq(Block) /\ Shaped(d)
  BY <1>1, <1>2, AppendShaped
<1>4. saved \in Seq(Block) /\ Len(saved) = Len(d) /\ Last(saved) = b /\ Last(d) = b
  BY <1>2 DEF Last
<1>5. /\ chain' = [chain EXCEPT ![n] = d]
      /\ difficulty' = [difficulty EXCEPT ![n] = Last(d).difficulty]
      /\ blocks_tree' = [blocks_tree EXCEPT ![n] = saved]
      /\ published' = published \cup {d}
  BY <1>4 DEF AppendBlock
<1> HIDE DEF d, saved
<1> QED
  BY <1>3, <1>4, <1>5, MoveChain

\* try_replace_chain keeps the shape part of the invariant.
LEMMA ReplaceStep ==
    ASSUME ShapeInv, NEW n \in Node, NEW candidate \in Seq(Block),
           Indexed(candidate), ReplaceChain(n, candidate)
    PROVE  ShapeInv'
PROOF
<1> DEFINE saved == SaveSuffix(n, candidate, Len(candidate))
<1>1. /\ Len(candidate) > Len(chain[n])
      /\ candidate[1].hash = chain[n][1].hash
  BY DEF ReplaceChain, Replaceable
<1>2. /\ chain[n] \in Seq(Block)
      /\ Shaped(chain[n])
      /\ Len(chain[n]) \in Nat
      /\ blocks_tree[n] \in Seq(Block)
      /\ Len(blocks_tree[n]) = Len(chain[n])
  BY ChainFacts
<1>3. Shaped(candidate)
  BY <1>1, <1>2 DEF Shaped
<1>4. saved \in Seq(Block) /\ Len(saved) = Len(candidate) /\ Last(saved) = Last(candidate)
  BY <1>1, <1>2, SaveSuffixKeeps
<1>5. /\ chain' = [chain EXCEPT ![n] = candidate]
      /\ difficulty' = [difficulty EXCEPT ![n] = Last(candidate).difficulty]
      /\ blocks_tree' = [blocks_tree EXCEPT ![n] = saved]
      /\ published' = published \cup {candidate}
  BY DEF ReplaceChain
<1> HIDE DEF saved
<1> QED
  BY <1>3, <1>4, <1>5, MoveChain

\* The last block of a published chain is a block.
LEMMA PublishedBlocks ==
    ASSUME ShapeInv, NEW c \in published
    PROVE  /\ c \in Seq(Block)
           /\ c[1].hash = Genesis.hash
           /\ Indexed(c)
           /\ Last(c) \in Block
PROOF
<1>1. c \in Seq(Block) /\ Shaped(c)
  BY DEF ShapeInv
<1> QED
  BY <1>1 DEF Shaped, Last

-----------------------------------------------------------------------------
\* Steps of the mempool.

\* Adding a transaction that add accepts keeps the mempool part of the invariant.
LEMMA AddStep ==
    ASSUME PoolInv, NEW n \in Node, NEW tx \in Tx, NEW fee \in Nat,
           CanAdd(mempool[n], tx), AddToPool(n, tx, fee)
    PROVE  PoolInv'
PROOF
<1>1. mempool[n] \in Pool /\ Consistent(mempool[n])
  BY DEF PoolInv, PoolsConsistent
<1>2. /\ Add(mempool[n], tx, fee) \in Pool
      /\ Consistent(Add(mempool[n], tx, fee))
      /\ Sorted(Add(mempool[n], tx, fee))
  BY <1>1, AddKeeps
<1>3. mempool' = [mempool EXCEPT ![n] = Add(mempool[n], tx, fee)]
  BY DEF AddToPool
<1>4. ASSUME NEW m \in Node
      PROVE  mempool'[m] = IF m = n THEN Add(mempool[n], tx, fee) ELSE mempool[m]
  BY <1>3 DEF PoolInv
<1>5. mempool' \in [Node -> Pool]
  BY <1>2, <1>3 DEF PoolInv
<1> QED
  BY <1>2, <1>4, <1>5 DEF PoolInv, PoolsConsistent

\* So does purging what a block confirms.
LEMMA PurgeStep ==
    ASSUME PoolInv, NEW n \in Node, NEW ids,
           mempool' = [mempool EXCEPT ![n] = PurgeConfirmed(@, ids)]
    PROVE  PoolInv'
PROOF
<1>1. mempool[n] \in Pool /\ Consistent(mempool[n]) /\ Sorted(mempool[n])
  BY DEF PoolInv, PoolsConsistent
<1>2. /\ PurgeConfirmed(mempool[n], ids) \in Pool
      /\ Consistent(PurgeConfirmed(mempool[n], ids))
      /\ Sorted(PurgeConfirmed(mempool[n], ids))
  BY <1>1, PurgeKeeps
<1>3. mempool' = [mempool EXCEPT ![n] = PurgeConfirmed(mempool[n], ids)]
  OBVIOUS
<1>4. ASSUME NEW m \in Node
      PROVE  mempool'[m] = IF m = n THEN PurgeConfirmed(mempool[n], ids) ELSE mempool[m]
  BY <1>3 DEF PoolInv
<1>5. mempool' \in [Node -> Pool]
  BY <1>2, <1>3 DEF PoolInv
<1> QED
  BY <1>2, <1>4, <1>5 DEF PoolInv, PoolsConsistent

\* What a block or a MempoolTxs message takes from a pool are transactions.
LEMMA CollectType ==
    ASSUME NEW pool \in Pool, NEW limit \in Nat
    PROVE  CollectForBlock(pool, limit) \in Seq(Tx)
PROOF
<1> DEFINE k == IF Len(pool.entries) < limit THEN Len(pool.entries) ELSE limit
           txs == [i \in 1..k |-> pool.entries[i].tx]
<1>1. pool.entries \in Seq(Entry) /\ Len(pool.entries) \in Nat
  BY DEF Pool
<1>2. k \in Nat /\ k <= Len(pool.entries)
  BY <1>1
<1>3. CollectForBlock(pool, limit) = txs
  BY DEF CollectForBlock, FirstEntries
<1> HIDE DEF k
<1>4. ASSUME NEW i \in 1..k PROVE pool.entries[i].tx \in Tx
  <2>1. pool.entries[i] \in Entry
    BY <1>1, <1>2
  <2> QED
    BY <2>1 DEF Entry
<1>5. txs \in Seq(Tx)
  BY <1>2, <1>4
<1> QED
  BY <1>3, <1>5

\* What "send" does to the pool, the stored pool and the published transactions.
LEMMA SendStep ==
    ASSUME PoolInv, LoopInv, NEW n \in Node, NEW to, NEW amount, NEW fee \in Nat,
           Send(n, to, amount, fee)
    PROVE  /\ PoolInv'
           /\ mempool_tree' \in [Node -> SUBSET Entry]
           /\ new_txs' \subseteq Tx
PROOF
<1>1. PICK tx \in Creatable(n, to, amount, fee) \cap Tx :
         /\ AddToPool(n, tx, fee)
         /\ mempool_tree' = [mempool_tree EXCEPT ![n] = Range(mempool'[n].entries)]
         /\ new_txs' = new_txs \cup {tx}
  BY DEF Send
<1>2. tx \in Tx /\ CanAdd(mempool[n], tx)
  BY <1>1 DEF Creatable
<1>3. PoolInv'
  BY <1>1, <1>2, AddStep
<1>4. mempool'[n].entries \in Seq(Entry)
  BY <1>3 DEF PoolInv, Pool
<1>5. Range(mempool'[n].entries) \subseteq Entry
  BY <1>4 DEF Range
<1> QED
  BY <1>1, <1>2, <1>3, <1>5 DEF LoopInv

-----------------------------------------------------------------------------
\* Frames: what does not change keeps its part of the invariant.

LEMMA ChainFrame ==
    ShapeInv /\ UNCHANGED <<chain, difficulty, blocks_tree, published>> => ShapeInv'
PROOF
  BY DEF ShapeInv, TipStored, Tip

LEMMA PoolFrame == PoolInv /\ UNCHANGED mempool => PoolInv'
PROOF
  BY DEF PoolInv, PoolsConsistent

\* A step that touches no job and moves no chain but that of an idle node leaves
\* every job fresh.
LEMMA JobFrame ==
    ASSUME JobFresh, LoopInv, ShapeInv, NEW n \in Node,
           UNCHANGED job,
           \A m \in Node \ {n} : /\ pc'[m] = pc[m]
                                 /\ chain'[m] = chain[m]
                                 /\ difficulty'[m] = difficulty[m],
           \/ pc'[n] \notin {"collected", "mining"}
           \/ pc'[n] = pc[n] /\ chain'[n] = chain[n] /\ difficulty'[n] = difficulty[n]
    PROVE  JobFresh'
PROOF
<1> SUFFICES ASSUME NEW m \in Node, pc'[m] \in {"collected", "mining"}
             PROVE  /\ job'[m].index = Len(chain'[m])
                    /\ job'[m].previous_hash = Last(chain'[m]).hash
                    /\ job'[m].difficulty = difficulty'[m]
  BY DEF JobFresh, Tip
<1>1. /\ pc'[m] = pc[m]
      /\ chain'[m] = chain[m]
      /\ difficulty'[m] = difficulty[m]
  OBVIOUS
<1> QED
  BY <1>1 DEF JobFresh, Tip

-----------------------------------------------------------------------------
\* The initial states.

LEMMA InitBase == Init => BaseInv
PROOF
<1> SUFFICES ASSUME Init PROVE BaseInv
  OBVIOUS
<1>1. ShapeInv
  <2>1. /\ chain \in [Node -> Seq(Block)]
        /\ difficulty \in [Node -> Nat]
        /\ blocks_tree \in [Node -> Seq(Block)]
        /\ published \subseteq Seq(Block)
    BY GenesisFacts, NodeAssumption DEF Init
  <2>2. (\A n \in Node : chain[n] \in published) /\ \A c \in published : Shaped(c)
    BY GenesisFacts DEF Init
  <2>3. TipStored
    BY DEF Init, TipStored, Tip
  <2> QED
    BY <2>1, <2>2, <2>3 DEF ShapeInv
<1>2. PoolInv
  <2>1. NewPool \in Pool
    BY DEF NewPool, Pool
  <2>2. PoolTxs(NewPool) = {}
    BY DEF NewPool, PoolTxs, Range
  <2>3. Consistent(NewPool) /\ Sorted(NewPool)
    BY <2>2 DEF Consistent, Sorted, NewPool
  <2> QED
    BY <2>1, <2>3 DEF Init, PoolInv, PoolsConsistent
<1>3. LoopInv
  BY GenesisFacts, NodeAssumption DEF Init, LoopInv
<1>4. JobFresh
  BY DEF Init, JobFresh
<1> QED
  BY <1>1, <1>2, <1>3, <1>4 DEF BaseInv

-----------------------------------------------------------------------------
\* Sending.

LEMMA ConsoleSendInv == ASSUME BaseInv, NEW n \in Node, ConsoleSend(n) PROVE BaseInv'
PROOF
<1>1. PICK to \in Wallet, amount \in Amounts, fee \in Fees : Send(n, to, amount, fee)
  BY DEF ConsoleSend
<1>2. fee \in Nat
  BY NodeAssumption
<1>3. /\ PoolInv'
      /\ mempool_tree' \in [Node -> SUBSET Entry]
      /\ new_txs' \subseteq Tx
  BY <1>1, <1>2, SendStep DEF BaseInv
<1>4. ShapeInv'
  BY ChainFrame DEF BaseInv, ConsoleSend
<1>5. LoopInv'
  BY <1>3 DEF BaseInv, LoopInv, ConsoleSend, loop
<1>6. JobFresh'
  BY DEF BaseInv, JobFresh, Tip, ConsoleSend, loop
<1> QED
  BY <1>3, <1>4, <1>5, <1>6 DEF BaseInv

LEMMA PostSendInv == ASSUME BaseInv, NEW n \in Node, PostSend(n) PROVE BaseInv'
PROOF
<1>1. PICK to \in Wallet, amount \in Amounts, fee \in Fees :
         /\ \E tx \in Creatable(n, to, amount, fee) \cap Tx : AddToPool(n, tx, fee)
         /\ cmds' = [cmds EXCEPT ![n] =
                       Append(@, [to |-> to, amount |-> amount, fee |-> fee])]
  BY DEF PostSend
<1>2. PICK tx \in Tx : CanAdd(mempool[n], tx) /\ AddToPool(n, tx, fee)
  BY <1>1 DEF Creatable
<1>3. fee \in Nat /\ amount \in Nat
  BY NodeAssumption
<1>4. PoolInv'
  BY <1>2, <1>3, AddStep DEF BaseInv
<1>5. ShapeInv'
  BY ChainFrame DEF BaseInv, PostSend, store, gossip
<1>6. LoopInv'
  <2>1. cmds[n] \in Seq(Payload)
    BY DEF BaseInv, LoopInv
  <2>2. [to |-> to, amount |-> amount, fee |-> fee] \in Payload
    BY <1>3 DEF Payload
  <2>3. cmds' \in [Node -> Seq(Payload)]
    BY <1>1, <2>1, <2>2 DEF BaseInv, LoopInv
  <2> QED
    BY <2>3 DEF BaseInv, LoopInv, PostSend, loop, store, gossip
<1>7. JobFresh'
  BY DEF BaseInv, JobFresh, Tip, PostSend, loop
<1> QED
  BY <1>4, <1>5, <1>6, <1>7 DEF BaseInv

LEMMA RunSendInv == ASSUME BaseInv, NEW n \in Node, RunSend(n) PROVE BaseInv'
PROOF
<1> DEFINE c == Head(cmds[n])
<1>1. cmds[n] \in Seq(Payload) /\ cmds[n] # <<>>
  BY DEF BaseInv, LoopInv, RunSend
<1>2. c \in Payload /\ Tail(cmds[n]) \in Seq(Payload)
  BY <1>1
<1>3. \/ Send(n, c.to, c.amount, c.fee)
      \/ UNCHANGED <<mempool, mempool_tree, new_txs>>
  BY DEF RunSend
<1> HIDE DEF c
<1>4. c.fee \in Nat
  BY <1>2 DEF Payload
<1>5. /\ PoolInv'
      /\ mempool_tree' \in [Node -> SUBSET Entry]
      /\ new_txs' \subseteq Tx
  <2>1. CASE Send(n, c.to, c.amount, c.fee)
    BY <1>4, <2>1, SendStep DEF BaseInv
  <2>2. CASE UNCHANGED <<mempool, mempool_tree, new_txs>>
    BY <2>2, PoolFrame DEF BaseInv, LoopInv
  <2> QED
    BY <1>3, <2>1, <2>2
<1>6. ShapeInv'
  BY ChainFrame DEF BaseInv, RunSend
<1>7. LoopInv'
  <2>1. cmds' \in [Node -> Seq(Payload)]
    BY <1>2 DEF BaseInv, LoopInv, RunSend
  <2> QED
    BY <1>5, <2>1 DEF BaseInv, LoopInv, RunSend, loop
<1>8. JobFresh'
  BY DEF BaseInv, JobFresh, Tip, RunSend, loop
<1> QED
  BY <1>5, <1>6, <1>7, <1>8 DEF BaseInv

-----------------------------------------------------------------------------
\* Mining.

LEMMA MineCollectInv == ASSUME BaseInv, NEW n \in Node, MineCollect(n) PROVE BaseInv'
PROOF
<1> DEFINE b == [index |-> Tip(n).index + 1, hash |-> stamp + 1,
                 previous_hash |-> Tip(n).hash,
                 transactions |-> CollectForBlock(mempool[n], BlockLimit),
                 reward |-> mining_reward[n], difficulty |-> difficulty[n],
                 timestamp |-> 0]
<1>1. job' = [job EXCEPT ![n] = b] /\ pc' = [pc EXCEPT ![n] = "collected"]
  BY DEF MineCollect
<1>2. Tip(n) \in Block /\ Tip(n).index = Len(chain[n]) - 1 /\ Len(chain[n]) \in Nat
      /\ Len(chain[n]) > 0
  BY ChainFacts DEF BaseInv
<1>3. CollectForBlock(mempool[n], BlockLimit) \in Seq(Tx)
  BY CollectType, NodeAssumption DEF BaseInv, PoolInv
<1>4. b \in Block
  <2>1. Tip(n).hash \in Nat /\ Tip(n).index + 1 \in Nat
    BY <1>2 DEF Block
  <2>2. stamp + 1 \in Nat /\ mining_reward[n] \in Value /\ difficulty[n] \in Nat
    BY DEF BaseInv, LoopInv, ShapeInv
  <2> QED
    BY <1>3, <2>1, <2>2 DEF Block
<1>5. /\ b.index = Len(chain[n])
      /\ b.previous_hash = Tip(n).hash
      /\ b.difficulty = difficulty[n]
  BY <1>2
<1> HIDE DEF b
<1>6. ShapeInv'
  BY ChainFrame DEF BaseInv, MineCollect, blockchain, store, gossip
<1>7. PoolInv'
  BY PoolFrame DEF BaseInv, MineCollect, blockchain
<1>8. LoopInv'
  BY <1>1, <1>4 DEF BaseInv, LoopInv, MineCollect, blockchain, store, gossip
<1>9. JobFresh'
  <2>1. UNCHANGED <<chain, difficulty>>
    BY DEF MineCollect, blockchain
  <2> QED
    BY <1>1, <1>5, <2>1 DEF BaseInv, LoopInv, JobFresh, Tip
<1> QED
  BY <1>6, <1>7, <1>8, <1>9 DEF BaseInv

LEMMA MineFeesInv == ASSUME BaseInv, NEW n \in Node, MineFees(n) PROVE BaseInv'
PROOF
<1> DEFINE value == job[n].reward + TotalFees(mempool[n], BlockLimit)
           txs == <<Coinbase(job[n].hash, WalletOf[n], value)>> \o job[n].transactions
<1>1. PICK now \in Times :
         job' = [job EXCEPT ![n].reward = value, ![n].timestamp = now,
                            ![n].transactions =
                               <<Coinbase(job[n].hash, WalletOf[n], value)>> \o @]
  BY Zenon DEF MineFees
<1>2. value \in Value /\ pc' = [pc EXCEPT ![n] = "mining"] /\ pc[n] = "collected"
  BY DEF MineFees
<1> HIDE DEF value
<1>3. job[n] \in Block
  BY DEF BaseInv, LoopInv
<1>4. job[n].hash \in Nat /\ job[n].transactions \in Seq(Tx)
  BY <1>3 DEF Block
<1>5. WalletOf[n] \in Owner /\ now \in Nat
  BY NodeAssumption DEF Owner
<1>6. Coinbase(job[n].hash, WalletOf[n], value) \in Tx
  BY <1>2, <1>4, <1>5, CoinbaseType
<1>7. txs \in Seq(Tx)
  BY <1>4, <1>6
<1>8. job'[n] = [job[n] EXCEPT !.reward = value, !.timestamp = now, !.transactions = txs]
  BY <1>1 DEF BaseInv, LoopInv
<1>9. \A m \in Node \ {n} : job'[m] = job[m]
  BY <1>1 DEF BaseInv, LoopInv
<1> HIDE DEF txs
<1>10. job'[n] \in Block
  BY <1>2, <1>3, <1>5, <1>7, <1>8 DEF Block
<1>11. /\ job'[n].index = job[n].index
       /\ job'[n].previous_hash = job[n].previous_hash
       /\ job'[n].difficulty = job[n].difficulty
  BY <1>3, <1>8 DEF Block
<1>12. job' \in [Node -> Block]
  <2>1. job' = [m \in Node |-> job'[m]]
    BY <1>1 DEF BaseInv, LoopInv
  <2>2. \A m \in Node : job'[m] \in Block
    BY <1>9, <1>10 DEF BaseInv, LoopInv
  <2> QED
    BY <2>1, <2>2
<1>13. ShapeInv'
  BY ChainFrame DEF BaseInv, MineFees, blockchain, store, gossip
<1>14. PoolInv'
  BY PoolFrame DEF BaseInv, MineFees, blockchain
<1>15. LoopInv'
  BY <1>2, <1>12 DEF BaseInv, LoopInv, MineFees, blockchain, store, gossip
<1>16. JobFresh'
  <2>1. UNCHANGED <<chain, difficulty>>
    BY DEF MineFees, blockchain
  <2> QED
    BY <1>2, <1>9, <1>11, <2>1 DEF BaseInv, LoopInv, JobFresh, Tip
<1> QED
  BY <1>13, <1>14, <1>15, <1>16 DEF BaseInv

LEMMA MineAppendInv == ASSUME BaseInv, NEW n \in Node, MineAppend(n) PROVE BaseInv'
PROOF
<1>1. /\ pc' = [pc EXCEPT ![n] = "idle"]
      /\ job' = [job EXCEPT ![n] = NoJob]
      /\ job[n] \in Block
  BY DEF MineAppend, BaseInv, LoopInv
<1>2. \/ /\ AppendBlock(n, job[n])
         /\ mempool' = [mempool EXCEPT ![n] =
                          PurgeConfirmed(@, Range(Tail(job[n].transactions)))]
         /\ mining_reward' = [mining_reward EXCEPT ![n] = RewardAfter(n)]
      \/ UNCHANGED <<blockchain, blocks_tree, published>>
  BY DEF MineAppend
<1>3. ShapeInv'
  BY <1>1, <1>2, AppendStep, ChainFrame DEF BaseInv, blockchain
<1>4. PoolInv'
  BY <1>2, PurgeStep, PoolFrame DEF BaseInv, blockchain
<1>5. mining_reward' \in [Node -> Value]
  <2>1. mining_reward[n] \in Value /\ MaxValue \in Nat
    BY LedgerAssumption DEF BaseInv, LoopInv
  <2>2. RewardAfter(n) \in Value
    BY <2>1 DEF RewardAfter, Value
  <2> QED
    BY <1>2, <2>2 DEF BaseInv, LoopInv, blockchain
<1>6. LoopInv'
  BY ZenonT(40), <1>1, <1>5, GenesisFacts DEF BaseInv, LoopInv, MineAppend
<1>7. JobFresh'
  <2>1. \A m \in Node \ {n} : /\ chain'[m] = chain[m]
                              /\ difficulty'[m] = difficulty[m]
    BY <1>2 DEF AppendBlock, blockchain, BaseInv, ShapeInv
  <2> QED
    BY <1>1, <2>1 DEF BaseInv, LoopInv, JobFresh, Tip
<1> QED
  BY <1>3, <1>4, <1>6, <1>7 DEF BaseInv

-----------------------------------------------------------------------------
\* Messages.

LEMMA NewBlockInv == ASSUME BaseInv, NEW n \in Node, NewBlock(n) PROVE BaseInv'
PROOF
<1>1. PICK c \in published :
         /\ AppendBlock(n, Last(c))
         /\ mempool' = [mempool EXCEPT ![n] =
                          PurgeConfirmed(@, Range(Last(c).transactions))]
  BY DEF NewBlock
<1>2. ShapeInv'
  BY <1>1, PublishedBlocks, AppendStep DEF BaseInv
<1>3. PoolInv'
  BY <1>1, PurgeStep DEF BaseInv
<1>4. LoopInv'
  BY DEF BaseInv, LoopInv, NewBlock, loop
<1>5. JobFresh'
  <2>1. pc' = pc /\ job' = job /\ pc[n] = "idle"
    BY DEF NewBlock, loop, Idle
  <2>2. \A m \in Node \ {n} : /\ chain'[m] = chain[m]
                              /\ difficulty'[m] = difficulty[m]
    BY <1>1 DEF AppendBlock, BaseInv, ShapeInv
  <2> QED
    BY <2>1, <2>2, JobFrame DEF BaseInv
<1> QED
  BY <1>2, <1>3, <1>4, <1>5 DEF BaseInv

LEMMA BlocksBatchInv == ASSUME BaseInv, NEW n \in Node, BlocksBatch(n) PROVE BaseInv'
PROOF
<1>1. PICK c \in published : \E s \in 1..Len(c) :
         \/ ReplaceChain(n, Merge(chain[n], c, s))
         \/ UNCHANGED <<chain, difficulty, blocks_tree, published>>
  BY DEF BlocksBatch
<1>2. PICK s \in 1..Len(c) :
         \/ ReplaceChain(n, Merge(chain[n], c, s))
         \/ UNCHANGED <<chain, difficulty, blocks_tree, published>>
  BY <1>1
<1> DEFINE candidate == Merge(chain[n], c, s)
<1>3. candidate \in Seq(Block) /\ Indexed(candidate)
  BY ChainFacts, PublishedBlocks, MergeKeeps DEF BaseInv, Shaped
<1> HIDE DEF candidate
<1>4. ReplaceChain(n, candidate) \/ UNCHANGED <<chain, difficulty, blocks_tree, published>>
  BY <1>2 DEF candidate
<1>5. ShapeInv'
  BY <1>3, <1>4, ReplaceStep, ChainFrame DEF BaseInv
<1>6. PoolInv'
  BY PoolFrame DEF BaseInv, BlocksBatch
<1>7. LoopInv'
  BY DEF BaseInv, LoopInv, BlocksBatch
<1>8. JobFresh'
  <2>1. /\ job' = job
        /\ pc'[n] \in {"idle", "drain"}
        /\ \A m \in Node \ {n} : pc'[m] = pc[m]
    BY DEF BlocksBatch, BaseInv, LoopInv
  <2>2. \A m \in Node \ {n} : /\ chain'[m] = chain[m]
                              /\ difficulty'[m] = difficulty[m]
    BY <1>4 DEF ReplaceChain, BaseInv, ShapeInv
  <2> QED
    BY <2>1, <2>2, JobFrame DEF BaseInv
<1> QED
  BY <1>5, <1>6, <1>7, <1>8 DEF BaseInv

LEMMA DrainBufferInv == ASSUME BaseInv, NEW n \in Node, DrainBuffer(n) PROVE BaseInv'
PROOF
<1>1. ShapeInv' /\ PoolInv'
  BY ChainFrame, PoolFrame DEF BaseInv, DrainBuffer, blockchain, store, gossip
<1>2. LoopInv'
  BY DEF BaseInv, LoopInv, DrainBuffer, blockchain, store, gossip
<1>3. JobFresh'
  BY DEF BaseInv, LoopInv, JobFresh, Tip, DrainBuffer, blockchain
<1> QED
  BY <1>1, <1>2, <1>3 DEF BaseInv

LEMMA NewTxInv == ASSUME BaseInv, NEW n \in Node, NewTx(n) PROVE BaseInv'
PROOF
<1>1. PICK tx \in new_txs :
         \/ /\ CanAdd(mempool[n], tx)
            /\ AddToPool(n, tx, Fee(tx))
            /\ UNCHANGED tx_buffer
         \/ /\ tx_buffer' = [tx_buffer EXCEPT ![n] = Append(@, tx)]
            /\ UNCHANGED mempool
  BY DEF NewTx
<1>2. tx \in Tx /\ Fee(tx) \in Nat
  BY DEF BaseInv, LoopInv, Fee
<1>3. PoolInv'
  BY <1>1, <1>2, AddStep, PoolFrame DEF BaseInv
<1>4. tx_buffer' \in [Node -> Seq(Tx)]
  <2>1. tx_buffer[n] \in Seq(Tx)
    BY DEF BaseInv, LoopInv
  <2>2. Append(tx_buffer[n], tx) \in Seq(Tx)
    BY <1>2, <2>1
  <2> QED
    BY <1>1, <2>2 DEF BaseInv, LoopInv
<1>5. ShapeInv'
  BY ChainFrame DEF BaseInv, NewTx, store, gossip
<1>6. LoopInv'
  BY <1>4 DEF BaseInv, LoopInv, NewTx, store, gossip
<1>7. JobFresh'
  BY DEF BaseInv, JobFresh, Tip, NewTx
<1> QED
  BY <1>3, <1>5, <1>6, <1>7 DEF BaseInv

LEMMA MempoolTxsInv == ASSUME BaseInv, NEW n \in Node, MempoolTxs(n) PROVE BaseInv'
PROOF
<1>1. ShapeInv' /\ PoolInv'
  BY ChainFrame, PoolFrame DEF BaseInv, MempoolTxs, blockchain, store, gossip
<1>2. LoopInv'
  <2>1. PICK txs \in mempool_txs : todo' = [todo EXCEPT ![n] = txs]
    BY DEF MempoolTxs
  <2> QED
    BY <2>1 DEF BaseInv, LoopInv, MempoolTxs, blockchain, store, gossip
<1>3. JobFresh'
  BY DEF BaseInv, LoopInv, JobFresh, Tip, MempoolTxs, blockchain
<1> QED
  BY <1>1, <1>2, <1>3 DEF BaseInv

LEMMA AddNextInv == ASSUME BaseInv, NEW n \in Node, AddNext(n) PROVE BaseInv'
PROOF
<1> DEFINE tx == Head(todo[n])
<1>1. todo[n] \in Seq(Tx) /\ todo[n] # <<>>
  BY DEF BaseInv, LoopInv, AddNext
<1>2. tx \in Tx /\ Tail(todo[n]) \in Seq(Tx)
  BY <1>1
<1>3. \/ CanAdd(mempool[n], tx) /\ AddToPool(n, tx, Fee(tx))
      \/ UNCHANGED mempool
  BY DEF AddNext
<1> HIDE DEF tx
<1>4. PoolInv'
  <2>1. Fee(tx) \in Nat
    BY DEF Fee
  <2> QED
    BY <1>2, <1>3, <2>1, AddStep, PoolFrame DEF BaseInv
<1>5. ShapeInv'
  BY ChainFrame DEF BaseInv, AddNext, store, gossip
<1>6. LoopInv'
  BY <1>2 DEF BaseInv, LoopInv, AddNext, store, gossip
<1>7. JobFresh'
  BY DEF BaseInv, LoopInv, JobFresh, Tip, AddNext
<1> QED
  BY <1>4, <1>5, <1>6, <1>7 DEF BaseInv

LEMMA SubscribedInv == ASSUME BaseInv, NEW n \in Node, Subscribed(n) PROVE BaseInv'
PROOF
<1>1. ShapeInv' /\ PoolInv'
  BY ChainFrame, PoolFrame DEF BaseInv, Subscribed, blockchain, store
<1>2. LoopInv'
  <2>1. mempool[n] \in Pool /\ Len(mempool[n].entries) \in Nat
    BY DEF BaseInv, PoolInv, Pool
  <2>2. PendingTxs(mempool[n]) \in Seq(Tx)
    BY <2>1, CollectType DEF PendingTxs
  <2>3. mempool_txs' \subseteq Seq(Tx)
    BY <2>2 DEF BaseInv, LoopInv, Subscribed
  <2> QED
    BY <2>3 DEF BaseInv, LoopInv, Subscribed, blockchain, store
<1>3. JobFresh'
  BY DEF BaseInv, JobFresh, Tip, Subscribed, blockchain
<1> QED
  BY <1>1, <1>2, <1>3 DEF BaseInv

LEMMA UnsynchronisedInv == ASSUME BaseInv, NEW n \in Node, Unsynchronised(n) PROVE BaseInv'
PROOF
<1>1. ShapeInv' /\ PoolInv'
  BY ChainFrame, PoolFrame DEF BaseInv, Unsynchronised, blockchain, store, gossip
<1>2. LoopInv'
  BY DEF BaseInv, LoopInv, Unsynchronised, blockchain, store, gossip
<1>3. JobFresh'
  BY DEF BaseInv, JobFresh, Tip, Unsynchronised, blockchain
<1> QED
  BY <1>1, <1>2, <1>3 DEF BaseInv

-----------------------------------------------------------------------------
\* The invariant holds forever.

LEMMA NextBase == BaseInv /\ [Next]_vars => BaseInv'
PROOF
<1> SUFFICES ASSUME BaseInv, [Next]_vars PROVE BaseInv'
  OBVIOUS
<1>1. ASSUME NEW n \in Node, NodeStep(n) PROVE BaseInv'
  BY <1>1, ConsoleSendInv, PostSendInv, RunSendInv, MineCollectInv, MineFeesInv,
     MineAppendInv, NewBlockInv, BlocksBatchInv, DrainBufferInv, NewTxInv,
     MempoolTxsInv, AddNextInv, SubscribedInv, UnsynchronisedInv DEF NodeStep
<1>2. CASE UNCHANGED vars
  <2>1. ShapeInv' /\ PoolInv'
    BY <1>2, ChainFrame, PoolFrame DEF BaseInv, vars, blockchain, store, gossip
  <2>2. LoopInv'
    BY <1>2 DEF BaseInv, LoopInv, vars, blockchain, store, loop, gossip
  <2>3. JobFresh'
    BY <1>2 DEF BaseInv, JobFresh, Tip, vars, blockchain, loop
  <2> QED
    BY <2>1, <2>2, <2>3 DEF BaseInv
<1> QED
  BY <1>1, <1>2 DEF Next

\* What a step may publish: nothing, the own chain and a block that the checks of
\* try_append_block accept, or a candidate that those of try_replace_chain accept.
LEMMA StepPublishes ==
    ASSUME BaseInv, NEW n \in Node, NodeStep(n)
    PROVE  \/ published' = published
           \/ \E b \in Block : /\ Appendable(n, b)
                              /\ published' = published \cup {Append(chain[n], b)}
           \/ \E c \in Seq(Block) : Replaceable(n, c) /\ published' = published \cup {c}
PROOF
<1>1. CASE MineAppend(n)
  <2>1. job[n] \in Block
    BY DEF BaseInv, LoopInv
  <2> QED
    BY <1>1, <2>1 DEF MineAppend, AppendBlock
<1>2. CASE NewBlock(n)
  <2>1. PICK c \in published : AppendBlock(n, Last(c))
    BY <1>2 DEF NewBlock
  <2>2. Last(c) \in Block
    BY PublishedBlocks DEF BaseInv
  <2> QED
    BY <2>1, <2>2 DEF AppendBlock
<1>3. CASE BlocksBatch(n)
  <2>1. PICK c \in published : \E s \in 1..Len(c) :
           ReplaceChain(n, Merge(chain[n], c, s)) \/ UNCHANGED published
    BY <1>3 DEF BlocksBatch
  <2>2. PICK s \in 1..Len(c) :
           ReplaceChain(n, Merge(chain[n], c, s)) \/ UNCHANGED published
    BY <2>1
  <2>3. Merge(chain[n], c, s) \in Seq(Block)
    BY ChainFacts, PublishedBlocks, MergeKeeps DEF BaseInv, Shaped
  <2> QED
    BY <2>2, <2>3 DEF ReplaceChain
<1>4. MineAppend(n) \/ NewBlock(n) \/ BlocksBatch(n) \/ UNCHANGED published
  BY DEF NodeStep, ConsoleSend, PostSend, RunSend, MineCollect, MineFees, DrainBuffer,
         NewTx, MempoolTxs, AddNext, Subscribed, Unsynchronised, gossip
<1> QED
  BY <1>1, <1>2, <1>3, <1>4

LEMMA NextReplays == Inv /\ [Next]_vars => ReplayInv'
PROOF
<1> SUFFICES ASSUME BaseInv, ReplayInv, [Next]_vars PROVE ReplayInv'
  BY DEF Inv
<1>1. ASSUME NEW n \in Node, NodeStep(n) PROVE ReplayInv'
  <2>1. CASE published' = published
    BY <2>1 DEF ReplayInv
  <2>2. ASSUME NEW b \in Block, Appendable(n, b),
               published' = published \cup {Append(chain[n], b)}
        PROVE  ReplayInv'
    <3> DEFINE c == chain[n]
    <3>1. c \in Seq(Block) /\ c # <<>> /\ Linked(c) /\ ChainReplays(c)
      BY ChainFacts DEF BaseInv, ShapeInv, ReplayInv, Shaped
    <3>2. b.previous_hash = Last(c).hash /\ TxsApply(b.transactions, BuildUtxoSet(c))
      BY <2>2 DEF Appendable, Tip
    <3> HIDE DEF c
    <3>3. Linked(Append(c, b)) /\ ChainReplays(Append(c, b))
      BY <3>1, <3>2, AppendLinked, AppendReplays
    <3> QED
      BY <2>2, <3>3 DEF ReplayInv, c
  <2>3. ASSUME NEW c \in Seq(Block), Replaceable(n, c), published' = published \cup {c}
        PROVE  ReplayInv'
    BY <2>3 DEF Replaceable, ReplayInv
  <2> QED
    BY <1>1, <2>1, <2>2, <2>3, StepPublishes
<1>2. CASE UNCHANGED vars
  BY <1>2 DEF vars, gossip, ReplayInv
<1> QED
  BY <1>1, <1>2 DEF Next

LEMMA InitInv == Init => Inv
PROOF
<1>1. Init => ReplayInv
  BY GenesisFacts DEF Init, ReplayInv
<1> QED
  BY <1>1, InitBase DEF Inv

LEMMA NextInv == Inv /\ [Next]_vars => Inv'
PROOF
  BY NextBase, NextReplays DEF Inv

LEMMA SpecInv == Spec => []Inv
PROOF
  BY InitInv, NextInv, PTL DEF Spec

\* Every variable of every node always has its type, the stored blocks and the
\* queues included (blockchain.rs, storage.rs, node.rs).
THEOREM NodeTypeCorrect == Spec => []TypeOK
PROOF
<1>1. Inv => TypeOK
  BY DEF Inv, BaseInv, ShapeInv, PoolInv, LoopInv, TypeOK
<1> QED
  BY <1>1, SpecInv, PTL

\* A node never holds a chain that a peer must refuse: what try_append_block
\* accepts block by block passes the replay of try_replace_chain, whatever the
\* order in which blocks and batches of blocks arrive.
THEOREM HeldChainsReplay == Spec => []ChainsReplay
PROOF
<1>1. Inv => ChainsReplay
  BY DEF Inv, BaseInv, ShapeInv, ReplayInv, Shaped, Indexed, ChainsReplay, WellFormed
<1> QED
  BY <1>1, SpecInv, PTL

\* The store always has as many blocks as the chain, and its tip: save_block has
\* run for every block appended and for the tip of every chain adopted.
THEOREM StoredTip == Spec => []TipStored
PROOF
<1>1. Inv => TipStored
  BY DEF Inv, BaseInv, ShapeInv
<1> QED
  BY <1>1, SpecInv, PTL

\* No mempool ever holds a double spend, a reservation without an entry or an
\* entry out of the order of fees, whoever adds to it (mempool.rs, node.rs).
THEOREM NodePoolsConsistent == Spec => []PoolsConsistent
PROOF
<1>1. Inv => PoolsConsistent
  BY DEF Inv, BaseInv, PoolInv
<1> QED
  BY <1>1, SpecInv, PTL

\* No message or request moves the tip under a block that is being mined.
THEOREM MinedBlocksFresh == Spec => []JobFresh
PROOF
<1>1. Inv => JobFresh
  BY DEF Inv, BaseInv
<1> QED
  BY <1>1, SpecInv, PTL

\* A step that appends or replaces makes the chain longer and keeps its genesis.
LEMMA StepLengthens ==
    ASSUME BaseInv, Next, NEW n \in Node, chain'[n] # chain[n]
    PROVE  Len(chain'[n]) > Len(chain[n]) /\ chain'[n][1] = chain[n][1]
PROOF
<1>1. PICK m \in Node : NodeStep(m)
  BY DEF Next
<1>2. /\ chain[n] \in Seq(Block)
      /\ Len(chain[n]) \in Nat
      /\ Len(chain[n]) > 0
      /\ Shaped(chain[n])
  BY ChainFacts DEF BaseInv
<1>3. ASSUME NEW b, AppendBlock(m, b)
      PROVE  Len(chain'[n]) > Len(chain[n]) /\ chain'[n][1] = chain[n][1]
  <2>1. chain'[n] = Append(chain[n], b)
    BY <1>3 DEF AppendBlock, BaseInv, ShapeInv
  <2>2. Append(chain[n], b) = [i \in 1..(Len(chain[n]) + 1) |->
                                 IF i <= Len(chain[n]) THEN chain[n][i] ELSE b]
    BY <1>2
  <2> QED
    BY <1>2, <2>1, <2>2
<1>4. CASE MineAppend(m)
  BY <1>3, <1>4 DEF MineAppend, blockchain
<1>5. CASE NewBlock(m)
  BY <1>3, <1>5 DEF NewBlock
<1>6. CASE BlocksBatch(m)
  <2>1. PICK c \in published : \E s \in 1..Len(c) :
           ReplaceChain(m, Merge(chain[m], c, s)) \/ UNCHANGED chain
    BY <1>6 DEF BlocksBatch
  <2>2. PICK s \in 1..Len(c) : ReplaceChain(m, Merge(chain[m], c, s))
    BY <2>1
  <2> DEFINE candidate == Merge(chain[m], c, s)
  <2>3. /\ Len(candidate) > Len(chain[m])
        /\ chain' = [chain EXCEPT ![m] = candidate]
    BY <2>2 DEF ReplaceChain, Replaceable
  <2>4. n = m /\ chain'[n] = candidate
    BY <2>3 DEF BaseInv, ShapeInv
  <2>5. c \in Seq(Block) /\ Indexed(c) /\ c[1].hash = Genesis.hash
    BY PublishedBlocks DEF BaseInv
  <2>6. candidate[1] = chain[n][1]
    <3>1. /\ chain[m] \in Seq(Block)
          /\ Indexed(chain[m])
          /\ chain[m] # <<>>
          /\ chain[m][1].hash = c[1].hash
      BY <1>2, <2>4, <2>5 DEF Shaped
    <3>2. candidate[1] = chain[m][1]
      BY <2>5, <3>1, MergeKeeps
    <3> QED
      BY <2>4, <3>2
  <2> QED
    BY <2>3, <2>4, <2>6
<1>7. \/ MineAppend(m) \/ NewBlock(m) \/ BlocksBatch(m) \/ UNCHANGED chain
  BY <1>1 DEF NodeStep, ConsoleSend, PostSend, RunSend, MineCollect, MineFees,
              DrainBuffer, NewTx, MempoolTxs, AddNext, Subscribed, Unsynchronised,
              blockchain
<1> QED
  BY <1>4, <1>5, <1>6, <1>7

\* A chain is never replaced by a shorter or equally long one, nor by one with
\* another genesis block (try_append_block, try_replace_chain, BlocksBatch).
THEOREM ChainsOnlyGrow == Spec => OnlyLongerChains
PROOF
<1>1. Inv /\ [Next]_vars =>
        [\A n \in Node :
            chain'[n] # chain[n] => /\ Len(chain'[n]) > Len(chain[n])
                                    /\ chain'[n][1] = chain[n][1]]_vars
  BY StepLengthens DEF Inv
<1> QED
  BY <1>1, SpecInv, PTL DEF Spec, OnlyLongerChains

-----------------------------------------------------------------------------
\* Where payments come from and go. The invariant is of use to the proofs about
\* spending and to those about money, with or without crashes.

\* The transactions users make.
Paid == {tx \in Tx : ~IsCoinbase(tx)}

\* Every transaction on its way into a block is a payment.
PaidInv ==
    /\ \A n \in Node : PoolTxs(mempool[n]) \subseteq Paid
    /\ todo \in [Node -> Seq(Paid)]
    /\ tx_buffer \in [Node -> Seq(Paid)]
    /\ new_txs \subseteq Paid
    /\ mempool_txs \subseteq Seq(Paid)

LEMMA InitPaid == Init => PaidInv
PROOF
<1>1. PoolTxs(NewPool) = {}
  BY DEF NewPool, PoolTxs, Range
<1> QED
  BY <1>1 DEF Init, PaidInv

\* What a node creates spends outputs of its chain, so it is not a coinbase.
LEMMA CreatedArePaid ==
    ASSUME BaseInv, NEW n \in Node, NEW to, NEW amount, NEW fee,
           NEW tx \in Creatable(n, to, amount, fee) \cap Tx
    PROVE  tx \in Paid /\ CanAdd(mempool[n], tx)
PROOF
<1>1. PICK vin \in Selections(Spendable(n), amount + fee) :
         tx = Payment(WalletOf[n], vin, to, amount, Total(Range(vin)) - amount - fee)
  BY DEF Creatable
<1>2. tx.vin = vin
  BY <1>1 DEF Payment
<1>3. PICK k \in 1..Cardinality(Spendable(n)) : vin \in [1..k -> Spendable(n)]
  BY DEF Selections
<1>4. \A op \in Spendable(n) : op # NullOutPoint
  <2> SUFFICES ASSUME NEW op \in Spendable(n) PROVE op # NullOutPoint
    OBVIOUS
  <2>1. op \in BuildUtxoSet(chain[n])
    BY DEF Spendable
  <2>2. PICK p \in Positions(chain[n]) : op \in Outputs(TxAt(chain[n], p))
    BY <2>1 DEF BuildUtxoSet
  <2>3. chain[n] \in Seq(Block)
    BY ChainFacts DEF BaseInv
  <2> QED
    BY <2>2, <2>3, PositionsHoldTxs, OutputsAreReal
<1>5. ASSUME IsCoinbase(tx) PROVE FALSE
  <2>1. vin = <<NullOutPoint>>
    BY <1>2, <1>5 DEF IsCoinbase
  <2>2. 1 \in DOMAIN vin /\ vin[1] = NullOutPoint
    BY <2>1
  <2> QED
    BY <1>3, <1>4, <2>2
<1> QED
  BY <1>5 DEF Paid, Creatable

\* Adding a payment keeps a mempool of payments.
LEMMA AddPaid ==
    ASSUME BaseInv, PaidInv, NEW n \in Node, NEW tx \in Paid, NEW fee \in Nat,
           CanAdd(mempool[n], tx), AddToPool(n, tx, fee)
    PROVE  \A m \in Node : PoolTxs(mempool'[m]) \subseteq Paid
PROOF
<1>1. mempool[n] \in Pool /\ Consistent(mempool[n]) /\ tx \in Tx
  BY DEF BaseInv, PoolInv, PoolsConsistent, Paid
<1>2. Range(Add(mempool[n], tx, fee).entries)
        = Range(mempool[n].entries) \cup {[tx |-> tx, fee |-> fee]}
  BY <1>1, AddKeeps
<1>3. PoolTxs(Add(mempool[n], tx, fee)) \subseteq Paid
  BY <1>2 DEF PoolTxs, PaidInv
<1>4. mempool' = [mempool EXCEPT ![n] = Add(mempool[n], tx, fee)]
  BY DEF AddToPool
<1> QED
  BY <1>3, <1>4 DEF PaidInv, BaseInv, PoolInv

\* So does purging.
LEMMA PurgePaid ==
    ASSUME BaseInv, PaidInv, NEW n \in Node, NEW ids,
           mempool' = [mempool EXCEPT ![n] = PurgeConfirmed(@, ids)]
    PROVE  \A m \in Node : PoolTxs(mempool'[m]) \subseteq Paid
PROOF
<1>1. mempool[n] \in Pool /\ Consistent(mempool[n]) /\ Sorted(mempool[n])
  BY DEF BaseInv, PoolInv, PoolsConsistent
<1>2. Range(PurgeConfirmed(mempool[n], ids).entries) \subseteq Range(mempool[n].entries)
  BY <1>1, PurgeKeeps
<1>3. PoolTxs(PurgeConfirmed(mempool[n], ids)) \subseteq Paid
  BY <1>2 DEF PoolTxs, PaidInv
<1>4. mempool' = [mempool EXCEPT ![n] = PurgeConfirmed(mempool[n], ids)]
  OBVIOUS
<1> QED
  BY <1>3, <1>4 DEF PaidInv, BaseInv, PoolInv

\* What a block or a MempoolTxs message takes from a mempool of payments.
LEMMA CollectPaid ==
    ASSUME NEW pool \in Pool, PoolTxs(pool) \subseteq Paid, NEW limit \in Nat
    PROVE  CollectForBlock(pool, limit) \in Seq(Paid)
PROOF
<1> DEFINE k == IF Len(pool.entries) < limit THEN Len(pool.entries) ELSE limit
           txs == [i \in 1..k |-> pool.entries[i].tx]
<1>1. pool.entries \in Seq(Entry) /\ Len(pool.entries) \in Nat
  BY DEF Pool
<1>2. k \in Nat /\ k <= Len(pool.entries)
  BY <1>1
<1>3. CollectForBlock(pool, limit) = txs
  BY DEF CollectForBlock, FirstEntries
<1> HIDE DEF k
<1>4. ASSUME NEW i \in 1..k PROVE pool.entries[i].tx \in Paid
  <2>1. i \in DOMAIN pool.entries
    BY <1>1, <1>2
  <2>2. pool.entries[i].tx \in PoolTxs(pool)
    BY <2>1 DEF PoolTxs, Range
  <2> QED
    BY <2>2
<1>5. txs \in Seq(Paid)
  BY <1>2, <1>4
<1> QED
  BY <1>3, <1>5

-----------------------------------------------------------------------------
\* Steps: payments stay payments.

LEMMA SendPaid ==
    ASSUME BaseInv, PaidInv, NEW n \in Node, NEW to, NEW amount, NEW fee \in Nat,
           Send(n, to, amount, fee)
    PROVE  /\ \A m \in Node : PoolTxs(mempool'[m]) \subseteq Paid
           /\ new_txs' \subseteq Paid
PROOF
<1>1. PICK tx \in Creatable(n, to, amount, fee) \cap Tx :
         AddToPool(n, tx, fee) /\ new_txs' = new_txs \cup {tx}
  BY DEF Send
<1>2. tx \in Paid /\ CanAdd(mempool[n], tx)
  BY CreatedArePaid
<1> QED
  BY <1>1, <1>2, AddPaid DEF PaidInv

LEMMA ConsoleSendPaid ==
    ASSUME BaseInv, PaidInv, NEW n \in Node, ConsoleSend(n) PROVE PaidInv'
PROOF
<1>1. PICK to \in Wallet, amount \in Amounts, fee \in Fees : Send(n, to, amount, fee)
  BY DEF ConsoleSend
<1>2. fee \in Nat
  BY NodeAssumption
<1>3. UNCHANGED <<todo, tx_buffer, mempool_txs>>
  BY DEF ConsoleSend, loop
<1>4. (\A m \in Node : PoolTxs(mempool'[m]) \subseteq Paid) /\ new_txs' \subseteq Paid
  BY <1>1, <1>2, SendPaid
<1> QED
  BY <1>3, <1>4 DEF PaidInv

LEMMA PostSendPaid ==
    ASSUME BaseInv, PaidInv, NEW n \in Node, PostSend(n) PROVE PaidInv'
PROOF
<1>1. PICK to \in Wallet, amount \in Amounts, fee \in Fees :
         \E tx \in Creatable(n, to, amount, fee) \cap Tx : AddToPool(n, tx, fee)
  BY DEF PostSend
<1>2. PICK tx \in Creatable(n, to, amount, fee) \cap Tx : AddToPool(n, tx, fee)
  BY <1>1
<1>3. fee \in Nat
  BY NodeAssumption
<1>4. UNCHANGED <<todo, tx_buffer, new_txs, mempool_txs>>
  BY DEF PostSend, loop, gossip
<1>5. \A m \in Node : PoolTxs(mempool'[m]) \subseteq Paid
  BY <1>2, <1>3, CreatedArePaid, AddPaid
<1> QED
  BY <1>4, <1>5 DEF PaidInv

LEMMA RunSendPaid ==
    ASSUME BaseInv, PaidInv, NEW n \in Node, RunSend(n) PROVE PaidInv'
PROOF
<1> DEFINE c == Head(cmds[n])
<1>1. cmds[n] \in Seq(Payload) /\ cmds[n] # <<>>
  BY DEF BaseInv, LoopInv, RunSend
<1>2. c \in Payload
  BY <1>1
<1>3. Send(n, c.to, c.amount, c.fee) \/ UNCHANGED <<mempool, new_txs>>
  BY DEF RunSend
<1> HIDE DEF c
<1>4. c.fee \in Nat
  BY <1>2 DEF Payload
<1>5. UNCHANGED <<todo, tx_buffer, mempool_txs>>
  BY DEF RunSend, loop
<1>6. CASE Send(n, c.to, c.amount, c.fee)
  <2>1. (\A m \in Node : PoolTxs(mempool'[m]) \subseteq Paid) /\ new_txs' \subseteq Paid
    BY <1>4, <1>6, SendPaid
  <2> QED
    BY <1>5, <2>1 DEF PaidInv
<1>7. CASE UNCHANGED <<mempool, new_txs>>
  BY <1>5, <1>7 DEF PaidInv
<1> QED
  BY <1>3, <1>6, <1>7

LEMMA NewTxPaid ==
    ASSUME BaseInv, PaidInv, NEW n \in Node, NewTx(n) PROVE PaidInv'
PROOF
<1>1. PICK tx \in new_txs :
         \/ /\ CanAdd(mempool[n], tx)
            /\ AddToPool(n, tx, Fee(tx))
            /\ UNCHANGED tx_buffer
         \/ /\ tx_buffer' = [tx_buffer EXCEPT ![n] = Append(@, tx)]
            /\ UNCHANGED mempool
  BY DEF NewTx
<1>2. tx \in Paid /\ Fee(tx) \in Nat
  BY DEF PaidInv, Fee
<1>3. \A m \in Node : PoolTxs(mempool'[m]) \subseteq Paid
  <2>1. CASE CanAdd(mempool[n], tx) /\ AddToPool(n, tx, Fee(tx))
    BY <1>2, <2>1, AddPaid
  <2>2. CASE UNCHANGED mempool
    BY <2>2 DEF PaidInv
  <2> QED
    BY <1>1, <2>1, <2>2
<1>4. tx_buffer' \in [Node -> Seq(Paid)]
  <2>1. tx_buffer[n] \in Seq(Paid)
    BY DEF PaidInv
  <2>2. Append(tx_buffer[n], tx) \in Seq(Paid)
    BY <1>2, <2>1
  <2> QED
    BY <1>1, <2>2 DEF PaidInv
<1> QED
  BY <1>3, <1>4 DEF PaidInv, NewTx, gossip

LEMMA AddNextPaid ==
    ASSUME BaseInv, PaidInv, NEW n \in Node, AddNext(n) PROVE PaidInv'
PROOF
<1> DEFINE tx == Head(todo[n])
<1>1. todo[n] \in Seq(Paid) /\ todo[n] # <<>>
  BY DEF PaidInv, AddNext
<1>2. tx \in Paid /\ Tail(todo[n]) \in Seq(Paid)
  BY <1>1
<1>3. \/ CanAdd(mempool[n], tx) /\ AddToPool(n, tx, Fee(tx))
      \/ UNCHANGED mempool
  BY DEF AddNext
<1> HIDE DEF tx
<1>4. \A m \in Node : PoolTxs(mempool'[m]) \subseteq Paid
  <2>1. Fee(tx) \in Nat
    BY DEF Fee
  <2>2. CASE CanAdd(mempool[n], tx) /\ AddToPool(n, tx, Fee(tx))
    BY <1>2, <2>1, <2>2, AddPaid
  <2>3. CASE UNCHANGED mempool
    BY <2>3 DEF PaidInv
  <2> QED
    BY <1>3, <2>2, <2>3
<1>5. todo' \in [Node -> Seq(Paid)]
  BY <1>2 DEF PaidInv, AddNext
<1>6. UNCHANGED <<tx_buffer, new_txs, mempool_txs>>
  BY DEF AddNext, gossip
<1> QED
  BY <1>4, <1>5, <1>6 DEF PaidInv

LEMMA QueuesPaid ==
    ASSUME BaseInv, PaidInv, NEW n \in Node, DrainBuffer(n) \/ MempoolTxs(n) \/ Subscribed(n)
    PROVE  PaidInv'
PROOF
<1>1. CASE DrainBuffer(n)
  <2>1. /\ todo' = [todo EXCEPT ![n] = tx_buffer[n]]
        /\ tx_buffer' = [tx_buffer EXCEPT ![n] = <<>>]
        /\ UNCHANGED <<mempool, new_txs, mempool_txs>>
    BY <1>1 DEF DrainBuffer, blockchain, gossip
  <2> QED
    BY <2>1 DEF PaidInv
<1>2. CASE MempoolTxs(n)
  <2>1. PICK txs \in mempool_txs : todo' = [todo EXCEPT ![n] = txs]
    BY <1>2 DEF MempoolTxs
  <2>2. UNCHANGED <<mempool, tx_buffer, new_txs, mempool_txs>>
    BY <1>2 DEF MempoolTxs, blockchain, gossip
  <2> QED
    BY <2>1, <2>2 DEF PaidInv
<1>3. CASE Subscribed(n)
  <2>1. mempool[n] \in Pool /\ Len(mempool[n].entries) \in Nat
    BY DEF BaseInv, PoolInv, Pool
  <2>2. PendingTxs(mempool[n]) \in Seq(Paid)
    BY <2>1, CollectPaid DEF PendingTxs, PaidInv
  <2>3. /\ mempool_txs' \subseteq mempool_txs \cup {PendingTxs(mempool[n])}
        /\ UNCHANGED <<mempool, todo, tx_buffer, new_txs>>
    BY <1>3 DEF Subscribed, blockchain
  <2> QED
    BY <2>2, <2>3 DEF PaidInv
<1> QED
  BY <1>1, <1>2, <1>3

\* Blocks take transactions out of the mempools.
LEMMA BlocksPaid ==
    ASSUME BaseInv, PaidInv, NEW n \in Node, MineAppend(n) \/ NewBlock(n) \/ BlocksBatch(n)
    PROVE  PaidInv'
PROOF
<1>1. UNCHANGED <<todo, tx_buffer, new_txs, mempool_txs>>
  BY DEF MineAppend, NewBlock, BlocksBatch, loop
<1>2. \/ \E ids : mempool' = [mempool EXCEPT ![n] = PurgeConfirmed(@, ids)]
      \/ UNCHANGED mempool
  BY DEF MineAppend, NewBlock, BlocksBatch, blockchain
<1>3. \A m \in Node : PoolTxs(mempool'[m]) \subseteq Paid
  <2>1. CASE \E ids : mempool' = [mempool EXCEPT ![n] = PurgeConfirmed(@, ids)]
    BY <2>1, PurgePaid
  <2>2. CASE UNCHANGED mempool
    BY <2>2 DEF PaidInv
  <2> QED
    BY <1>2, <2>1, <2>2
<1> QED
  BY <1>1, <1>3 DEF PaidInv

LEMMA NextPaid == BaseInv /\ PaidInv /\ [Next]_vars => PaidInv'
PROOF
<1> SUFFICES ASSUME BaseInv, PaidInv, [Next]_vars PROVE PaidInv'
  OBVIOUS
<1>1. ASSUME NEW n \in Node, MineCollect(n) \/ MineFees(n) \/ Unsynchronised(n)
      PROVE  PaidInv'
  <2>1. UNCHANGED <<mempool, todo, tx_buffer, new_txs, mempool_txs>>
    BY <1>1 DEF MineCollect, MineFees, Unsynchronised, blockchain, gossip
  <2> QED
    BY <2>1 DEF PaidInv
<1>2. CASE UNCHANGED vars
  <2>1. UNCHANGED <<mempool, todo, tx_buffer, new_txs, mempool_txs>>
    BY <1>2 DEF vars, blockchain, loop, gossip
  <2> QED
    BY <2>1 DEF PaidInv
<1>3. ASSUME NEW n \in Node, NodeStep(n) PROVE PaidInv'
  BY <1>1, <1>3, ConsoleSendPaid, PostSendPaid, RunSendPaid, NewTxPaid, AddNextPaid,
     QueuesPaid, BlocksPaid DEF NodeStep
<1> QED
  BY <1>2, <1>3 DEF Next

-----------------------------------------------------------------------------
\* What a step does to a mempool.

\* The fee at which a node adds a payment: the one it was asked for, or the one it
\* computes.
Priced(n, tx, fee) ==
    \/ fee = Fee(tx)
    \/ \E to \in Wallet : \E amount \in Nat : tx \in Creatable(n, to, amount, fee)

\* Node n adds a payment that is valid in its chain.
Accepts(n) ==
    \E tx \in Paid : \E fee \in Nat :
        /\ CanAdd(mempool[n], tx)
        /\ ValidateAgainst(tx, BuildUtxoSet(chain[n]))
        /\ Priced(n, tx, fee)
        /\ mempool'[n] = Add(mempool[n], tx, fee)

Purges(n) == \E ids : mempool'[n] = PurgeConfirmed(mempool[n], ids)

LEMMA CreatedAccepted ==
    ASSUME BaseInv, NEW n \in Node, NEW to \in Wallet, NEW amount \in Nat, NEW fee \in Nat,
           NEW tx \in Creatable(n, to, amount, fee) \cap Tx, AddToPool(n, tx, fee)
    PROVE  Accepts(n)
PROOF
<1>1. tx \in Paid /\ CanAdd(mempool[n], tx)
  BY CreatedArePaid
<1>2. ValidateAgainst(tx, BuildUtxoSet(chain[n]))
  BY DEF Creatable
<1>3. mempool'[n] = Add(mempool[n], tx, fee)
  BY DEF AddToPool, BaseInv, PoolInv
<1> QED
  BY <1>1, <1>2, <1>3 DEF Accepts, Priced

LEMMA ValidAccepted ==
    ASSUME BaseInv, NEW n \in Node, NEW tx \in Paid, CanAdd(mempool[n], tx),
           ValidateAgainst(tx, BuildUtxoSet(chain[n])), AddToPool(n, tx, Fee(tx))
    PROVE  Accepts(n)
PROOF
<1>1. Fee(tx) \in Nat
  BY DEF Fee
<1>2. mempool'[n] = Add(mempool[n], tx, Fee(tx))
  BY DEF AddToPool, BaseInv, PoolInv
<1> QED
  BY <1>1, <1>2 DEF Accepts, Priced

\* The steps that add or purge; all others leave every mempool alone. While a node
\* collects and hashes, only POST /send changes its mempool, and only by adding.
LEMMA StepsOfPools ==
    ASSUME BaseInv, PaidInv, NEW n \in Node, NodeStep(n)
    PROVE  /\ \A m \in Node \ {n} : mempool'[m] = mempool[m]
           /\ \/ mempool'[n] = mempool[n]
              \/ Accepts(n)
              \/ Purges(n) /\ (MineAppend(n) \/ NewBlock(n))
PROOF
<1> DEFINE Frame == \A m \in Node \ {n} : mempool'[m] = mempool[m]
<1>1. mempool \in [Node -> Pool] /\ \A a \in Amounts : a \in Nat
  BY NodeAssumption DEF BaseInv, PoolInv
<1>2. ASSUME NEW to \in Wallet, NEW amount \in Nat, NEW fee \in Nat, Send(n, to, amount, fee)
      PROVE  Frame /\ Accepts(n)
  <2>1. PICK tx \in Creatable(n, to, amount, fee) \cap Tx : AddToPool(n, tx, fee)
    BY <1>2 DEF Send
  <2>2. Frame
    BY <1>1, <2>1 DEF AddToPool
  <2> QED
    BY <2>1, <2>2, CreatedAccepted
<1>3. CASE ConsoleSend(n)
  <2>1. PICK to \in Wallet, amount \in Amounts, fee \in Fees : Send(n, to, amount, fee)
    BY <1>3 DEF ConsoleSend
  <2>2. amount \in Nat /\ fee \in Nat
    BY NodeAssumption
  <2> QED
    BY <1>2, <2>1, <2>2
<1>4. CASE PostSend(n)
  <2>1. PICK to \in Wallet, amount \in Amounts, fee \in Fees :
           \E tx \in Creatable(n, to, amount, fee) \cap Tx : AddToPool(n, tx, fee)
    BY <1>4 DEF PostSend
  <2>2. PICK tx \in Creatable(n, to, amount, fee) \cap Tx : AddToPool(n, tx, fee)
    BY <2>1
  <2>3. amount \in Nat /\ fee \in Nat
    BY NodeAssumption
  <2>4. Frame
    BY <1>1, <2>2 DEF AddToPool
  <2> QED
    BY <2>2, <2>3, <2>4, CreatedAccepted
<1>5. CASE RunSend(n)
  <2> DEFINE c == Head(cmds[n])
  <2>1. cmds[n] \in Seq(Payload) /\ cmds[n] # <<>>
    BY <1>5 DEF BaseInv, LoopInv, RunSend
  <2>2. c \in Payload
    BY <2>1
  <2>3. Send(n, c.to, c.amount, c.fee) \/ UNCHANGED mempool
    BY <1>5 DEF RunSend
  <2> HIDE DEF c
  <2>4. c.to \in Wallet /\ c.fee \in Nat /\ c.amount \in Nat
    BY <2>2 DEF Payload
  <2> QED
    BY <1>2, <2>3, <2>4
<1>6. CASE NewTx(n)
  <2>1. PICK tx \in new_txs :
           \/ /\ ValidateAgainst(tx, BuildUtxoSet(chain[n]))
              /\ CanAdd(mempool[n], tx)
              /\ AddToPool(n, tx, Fee(tx))
           \/ UNCHANGED mempool
    BY <1>6 DEF NewTx
  <2>2. tx \in Paid
    BY DEF PaidInv
  <2>3. AddToPool(n, tx, Fee(tx)) => Frame
    BY <1>1 DEF AddToPool
  <2>4. CASE UNCHANGED mempool
    BY <2>4
  <2> QED
    BY <2>1, <2>2, <2>3, <2>4, ValidAccepted
<1>7. CASE AddNext(n)
  <2> DEFINE tx == Head(todo[n])
  <2>1. todo[n] \in Seq(Paid) /\ todo[n] # <<>>
    BY <1>7 DEF PaidInv, AddNext
  <2>2. tx \in Paid
    BY <2>1
  <2>3. \/ /\ ValidateAgainst(tx, BuildUtxoSet(chain[n]))
           /\ CanAdd(mempool[n], tx)
           /\ AddToPool(n, tx, Fee(tx))
        \/ UNCHANGED mempool
    BY <1>7 DEF AddNext
  <2> HIDE DEF tx
  <2>4. AddToPool(n, tx, Fee(tx)) => Frame
    BY <1>1 DEF AddToPool
  <2>5. CASE UNCHANGED mempool
    BY <2>5
  <2> QED
    BY <2>2, <2>3, <2>4, <2>5, ValidAccepted
<1>8. CASE MineAppend(n) \/ NewBlock(n)
  <2>1. \/ \E ids : mempool' = [mempool EXCEPT ![n] = PurgeConfirmed(@, ids)]
        \/ UNCHANGED mempool
    BY <1>8 DEF MineAppend, NewBlock, blockchain
  <2>2. ASSUME NEW ids, mempool' = [mempool EXCEPT ![n] = PurgeConfirmed(@, ids)]
        PROVE  Frame /\ Purges(n)
    BY <1>1, <2>2 DEF Purges
  <2> QED
    BY <1>8, <2>1, <2>2
<1>9. CASE UNCHANGED mempool
  BY <1>9
<1>10. \/ ConsoleSend(n) \/ PostSend(n) \/ RunSend(n) \/ NewTx(n) \/ AddNext(n)
       \/ MineAppend(n) \/ NewBlock(n) \/ UNCHANGED mempool
  BY DEF NodeStep, MineCollect, MineFees, BlocksBatch, DrainBuffer, MempoolTxs,
         Subscribed, Unsynchronised, blockchain
<1> QED
  BY <1>3, <1>4, <1>5, <1>6, <1>7, <1>8, <1>9, <1>10

\* What a block collects is pending, each once.
LEMMA CollectsPending ==
    ASSUME NEW pool \in Pool, Consistent(pool), NEW limit \in Nat
    PROVE  LET txs == CollectForBlock(pool, limit) IN
           /\ Len(txs) <= limit
           /\ \A i, j \in DOMAIN txs : i # j => txs[i] # txs[j]
           /\ \A i \in DOMAIN txs : PoolContains(pool, txs[i])
PROOF
<1> DEFINE es == pool.entries
           k == IF Len(es) < limit THEN Len(es) ELSE limit
           txs == CollectForBlock(pool, limit)
<1>1. es \in Seq(Entry) /\ Len(es) \in Nat /\ DOMAIN es = 1..Len(es)
  BY DEF Pool
<1>2. k \in Nat /\ k <= Len(es) /\ k <= limit
  BY <1>1
<1>3. txs = [i \in 1..k |-> es[i].tx]
  BY DEF CollectForBlock, FirstEntries
<1> HIDE DEF k, txs
<1>4. DOMAIN txs = 1..k /\ Len(txs) = k /\ \A i \in 1..k : txs[i] = es[i].tx
  BY <1>2, <1>3
<1>5. \A i \in 1..k : i \in DOMAIN es
  BY <1>1, <1>2
<1>6. \A i, j \in DOMAIN txs : i # j => txs[i] # txs[j]
  BY <1>4, <1>5 DEF Consistent
<1>7. \A i \in DOMAIN txs : PoolContains(pool, txs[i])
  BY <1>4, <1>5 DEF PoolContains, PoolTxs, Range
<1> QED
  BY <1>2, <1>4, <1>6, <1>7 DEF txs

\* The steps that touch a block under way.
LEMMA JobSteps ==
    ASSUME BaseInv, NEW n \in Node, NodeStep(n)
    PROVE  \/ MineCollect(n) \/ MineFees(n)
           \/ pc'[n] \notin {"collected", "mining"}
           \/ pc'[n] = pc[n] /\ job'[n] = job[n] /\ mining_reward'[n] = mining_reward[n]
PROOF
<1>1. CASE PostSend(n)
  BY <1>1 DEF PostSend, loop
<1>2. CASE ConsoleSend(n) \/ RunSend(n) \/ NewBlock(n) \/ NewTx(n) \/ Subscribed(n)
           \/ Unsynchronised(n)
  BY <1>2 DEF ConsoleSend, RunSend, NewBlock, NewTx, Subscribed, Unsynchronised, loop,
              blockchain
<1>3. CASE BlocksBatch(n) \/ DrainBuffer(n) \/ MempoolTxs(n) \/ AddNext(n)
           \/ MineAppend(n)
  BY <1>3 DEF BlocksBatch, DrainBuffer, MempoolTxs, AddNext, MineAppend, BaseInv,
                    LoopInv
<1> QED
  BY <1>1, <1>2, <1>3 DEF NodeStep
=============================================================================
