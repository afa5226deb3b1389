--------------------------- MODULE NodeSyncProofs ---------------------------
(***************************************************************************)
(* Proofs about synchronisation, for every bound.                          *)
(*                                                                         *)
(* What waits in a queue is what a node once sent: a block, or a part, of  *)
(* a chain some node has held. A hash identifies a block and everything    *)
(* before it, so a block that extends a chain, and a batch that leads to a *)
(* longer and linked one, lead to a chain that is known: for every set of  *)
(* nodes NodeSync implements LongestChain.                                 *)
(*                                                                         *)
(* Where there are two nodes, and as long as every chain fits into one     *)
(* message, a node that is two or more blocks behind is about to hear of   *)
(* it. What waits in a queue is timely: a request shows where the chains   *)
(* part, and a batch that is longer than the chain it meets is a part of   *)
(* the chain of its sender that starts where they part, so it is taken     *)
(* whole. And each queue tells of the connection first, so a message never *)
(* comes from a peer the node does not know to listen. With a third node   *)
(* this fails: a chain adopted from it is not announced.                   *)
(***************************************************************************)
EXTENDS NodeSync, SequenceTheorems, FiniteSetTheorems, WellFoundedInduction, TLAPS

Chained(c, top) ==
    /\ c # <<>>
    /\ c[1] = Genesis
    /\ \A i \in DOMAIN c : c[i].index = i - 1 /\ c[i].hash <= top
    /\ \A i \in 2..Len(c) : c[i].previous_hash = c[i - 1].hash

\* Two chains agree up to any block they share, and have it at the same place.
SamePast(c, d) ==
    \A i \in DOMAIN c, j \in DOMAIN d :
        c[i].hash = d[j].hash => i = j /\ \A k \in 1..i : c[k] = d[k]

ChainsInv ==
    /\ \A n \in Node : chain[n] \in published
    /\ \A c \in published : Chained(c, stamp)
    /\ \A c \in published : \A i \in DOMAIN c : SubSeq(c, 1, i) \in published
    /\ \A c, d \in published : SamePast(c, d)

\* The events that tell of chains a node has held.
Honest ==
    {e \in Event :
        /\ e.type = "NewBlock" => \E c \in published : \E i \in DOMAIN c : c[i] = e.block
        /\ e.type = "BlocksBatch" => e.blocks \in published /\ e.start \in 1..Len(e.blocks)}

Queues(S) == [Node -> [Node -> Seq(S)]]

Inv == TypeOK /\ ChainsInv /\ events \in Queues(Honest)

-----------------------------------------------------------------------------
\* Queues.

LEMMA SeqWidens ==
    ASSUME NEW S, NEW T, S \subseteq T
    PROVE  Seq(S) \subseteq Seq(T) /\ Queues(S) \subseteq Queues(T)
PROOF
<1>1. Seq(S) \subseteq Seq(T)
  BY SeqMonotonic
<1> QED
  BY <1>1 DEF Queues

LEMMA SentIs ==
    ASSUME NEW S, NEW q \in Queues(S), NEW n \in Node, NEW to, NEW ms \in Seq(S)
    PROVE  /\ Sent(q, n, to, ms) \in Queues(S)
           /\ \A x, y \in Node : Sent(q, n, to, ms)[x][y] =
                 IF x \in to /\ y = n THEN q[x][y] \o ms ELSE q[x][y]
PROOF
<1>1. \A x, y \in Node : q[x][y] \in Seq(S) /\ q[x][y] \o ms \in Seq(S)
  BY ConcatProperties DEF Queues
<1>2. \A x \in Node : /\ q[x] \in [Node -> Seq(S)]
                      /\ [q[x] EXCEPT ![n] = @ \o ms] \in [Node -> Seq(S)]
  BY <1>1 DEF Queues
<1> QED
  BY <1>1, <1>2 DEF Sent, Queues

LEMMA HandledIs ==
    ASSUME NEW S, events \in Queues(S), NEW n \in Node, NEW m \in Node,
           events[n][m] # <<>>, NEW ms \in Seq(S)
    PROVE  /\ Handled(n, m, ms) \in Queues(S)
           /\ \A x, y \in Node :
                 LET rest == IF x = n /\ y = m THEN Tail(events[n][m]) ELSE events[x][y]
                 IN  Handled(n, m, ms)[x][y] =
                       IF x \in topics[n] /\ y = n THEN rest \o ms ELSE rest
PROOF
<1> DEFINE q == [events EXCEPT ![n][m] = Tail(@)]
<1>1. \A x, y \in Node : events[x][y] \in Seq(S)
  BY DEF Queues
<1>2. Tail(events[n][m]) \in Seq(S)
  BY <1>1, HeadTailProperties
<1>3. q \in Queues(S)
  BY <1>1, <1>2 DEF Queues
<1>4. \A x, y \in Node :
         q[x][y] = IF x = n /\ y = m THEN Tail(events[n][m]) ELSE events[x][y]
  BY DEF Queues
<1> HIDE DEF q
<1>5. Handled(n, m, ms) = Sent(q, n, topics[n], ms)
  BY DEF Handled, q
<1> QED
  BY <1>3, <1>4, <1>5, SentIs

\* What an event holds.
LEMMA EventHolds ==
    ASSUME NEW e \in Event
    PROVE  /\ e.type \in {"Established", "Subscribed", "Closed", "NewBlock", "GetBlocks",
                          "BlocksBatch", "NewTx", "MempoolTxs"}
           /\ e.type = "NewBlock" => e.block \in Block
           /\ e.type = "GetBlocks" => e.from_hash \in Nat /\ e.from_height \in Nat
           /\ e.type = "BlocksBatch" => e.blocks \in Seq(Block) /\ e.start \in Nat
           /\ e.type = "NewTx" => e.tx \in Nat
           /\ e.type = "MempoolTxs" => e.txs \in SUBSET Nat
PROOF
  BY DEF Event

\* What a node can send.
LEMMA EventsMade ==
    /\ \A type \in {"Established", "Subscribed", "Closed"} : [type |-> type] \in Honest
    /\ \A h, k \in Nat :
          [type |-> "GetBlocks", from_hash |-> h, from_height |-> k] \in Honest
    /\ \A tx \in Nat : [type |-> "NewTx", tx |-> tx] \in Honest
    /\ \A txs \in SUBSET Nat : [type |-> "MempoolTxs", txs |-> txs] \in Honest
    /\ \A b \in Block : (\E c \in published : \E i \in DOMAIN c : c[i] = b) =>
          [type |-> "NewBlock", block |-> b] \in Honest
    /\ \A c \in published : \A s \in 1..Len(c) : c \in Seq(Block) =>
          [type |-> "BlocksBatch", blocks |-> c, start |-> s] \in Honest
PROOF
<1>1. \A type \in {"Established", "Subscribed", "Closed"} : [type |-> type] \in Honest
  BY DEF Event, Honest
<1>2. \A h, k \in Nat : [type |-> "GetBlocks", from_hash |-> h, from_height |-> k] \in Honest
  BY DEF Event, Honest
<1>3. /\ \A tx \in Nat : [type |-> "NewTx", tx |-> tx] \in Honest
      /\ \A txs \in SUBSET Nat : [type |-> "MempoolTxs", txs |-> txs] \in Honest
  BY DEF Event, Honest
<1>4. \A b \in Block : (\E c \in published : \E i \in DOMAIN c : c[i] = b) =>
          [type |-> "NewBlock", block |-> b] \in Honest
  BY DEF Event, Honest
<1>5. ASSUME NEW c \in published, NEW s \in 1..Len(c), c \in Seq(Block)
      PROVE  [type |-> "BlocksBatch", blocks |-> c, start |-> s] \in Honest
  <2>1. s \in Nat
    BY <1>5
  <2>2. [type |-> "BlocksBatch", blocks |-> c, start |-> s] \in Event
    BY <1>5, <2>1 DEF Event
  <2> QED
    BY <1>5, <2>2 DEF Honest
<1> QED
  BY <1>1, <1>2, <1>3, <1>4, <1>5

-----------------------------------------------------------------------------
\* Chains.

LEMMA PublishedFacts ==
    ASSUME Inv, NEW c \in published
    PROVE  /\ c \in Seq(Block)
           /\ Len(c) \in Nat /\ Len(c) > 0 /\ DOMAIN c = 1..Len(c)
           /\ Last(c) = c[Len(c)]
           /\ \A i \in 1..Len(c) : c[i] \in Block /\ c[i].hash \in Nat /\ c[i].index = i - 1
           /\ \A i \in 2..Len(c) : c[i].previous_hash = c[i - 1].hash
PROOF
<1>1. c \in Seq(Block) /\ Chained(c, stamp)
  BY DEF Inv, TypeOK, ChainsInv
<1>2. Len(c) \in Nat /\ Len(c) > 0 /\ DOMAIN c = 1..Len(c)
  BY <1>1, EmptySeq, LenProperties DEF Chained
<1>3. \A i \in 1..Len(c) : c[i] \in Block
  BY <1>1, ElementOfSeq
<1> QED
  BY <1>1, <1>2, <1>3 DEF Chained, Block, Last

\* The least of some naturals.
LEMMA LeastNatural ==
    ASSUME NEW S \in SUBSET Nat, S # {}
    PROVE  \E i \in S : \A j \in S : i <= j
PROOF
<1>1. IsWellFoundedOn(OpToRel(<, Nat), Nat)
  BY NatLessThanWellFounded
<1>2. PICK i \in S : \A j \in S : ~ (<<j, i>> \in OpToRel(<, Nat))
  BY <1>1, WFMin
<1>3. \A j \in S : ~ (j < i)
  BY <1>2 DEF OpToRel
<1> QED
  BY <1>3

\* What Merge makes of a batch: the own chain up to some place, the batch from
\* there. Before that place they agree as far as the batch was looked at.
Spliced(merged, own, batch, s, cut) ==
    /\ cut <= Len(own) + 1
    /\ merged \in Seq(Block)
    /\ Len(merged) = Len(batch)
    /\ \A i \in 1..Len(batch) : merged[i] = IF i < cut THEN own[i] ELSE batch[i]
    /\ \A i \in s..(cut - 1) : i <= Len(own) => own[i].hash = batch[i].hash

LEMMA MergeShape ==
    ASSUME NEW own \in Seq(Block), NEW batch \in Seq(Block), NEW s \in 1..Len(batch)
    PROVE  \/ /\ Merge(own, batch, s) = own
              /\ Len(own) + 1 \notin s..Len(batch)
           \/ \E cut \in s..Len(batch) : Spliced(Merge(own, batch, s), own, batch, s, cut)
PROOF
<1> DEFINE news == {i \in s..Len(batch) :
                      \/ i = Len(own) + 1
                      \/ i <= Len(own) /\ own[i].hash # batch[i].hash}
           least(i) == \A j \in news : i <= j
           cut == CHOOSE i \in news : least(i)
           head == SubSeq(own, 1, cut - 1)
           rest == SubSeq(batch, cut, Len(batch))
<1>1. Merge(own, batch, s) = IF news = {} THEN own ELSE head \o rest
  BY DEF Merge
<1>2. Len(own) \in Nat /\ Len(batch) \in Nat /\ s \in Nat /\ s >= 1
  OBVIOUS
<1>3. CASE news = {}
  BY <1>1, <1>3
<1>4. CASE news # {}
  <2>1. news \in SUBSET Nat
    BY <1>2
  <2>2. \A i \in news : i >= s /\ i <= Len(own) + 1 /\ i <= Len(batch)
    BY <1>2
  <2>3. \A i \in s..Len(batch) : i \notin news /\ i <= Len(own) => own[i].hash = batch[i].hash
    OBVIOUS
  <2> HIDE DEF news
  <2>4. \E i \in news : least(i)
    BY <1>4, <2>1, LeastNatural
  <2>5. cut \in news /\ least(cut)
    BY <2>4
  <2>6. \A i \in news : cut <= i
    BY <2>5
  <2> HIDE DEF cut
  <2>7. /\ cut \in Nat /\ cut >= 1 /\ cut \in s..Len(batch)
        /\ cut <= Len(own) + 1 /\ cut <= Len(batch)
    BY <1>2, <2>1, <2>2, <2>5
  <2>8. \A i \in s..(cut - 1) : i <= Len(own) => own[i].hash = batch[i].hash
    <3> SUFFICES ASSUME NEW i \in s..(cut - 1), i <= Len(own)
                 PROVE  own[i].hash = batch[i].hash
      OBVIOUS
    <3>1. i \in s..Len(batch) /\ ~(cut <= i)
      BY <1>2, <2>7
    <3> QED
      BY <2>3, <2>6, <3>1
  <2>9. /\ head \in Seq(Block)
        /\ Len(head) = cut - 1
        /\ \A i \in 1..(cut - 1) : head[i] = own[i]
    <3>1. \A i \in 1..(cut - 1) : own[i] \in Block
      BY <2>7
    <3>2. cut - 1 \in Int /\ 1 \in Int
      BY <2>7
    <3> QED
      BY <2>7, <3>1, <3>2, SubSeqProperties
  <2>10. /\ rest \in Seq(Block)
         /\ Len(rest) = Len(batch) - cut + 1
         /\ \A i \in 1..(Len(batch) - cut + 1) : rest[i] = batch[cut + i - 1]
    <3>1. \A i \in cut..Len(batch) : batch[i] \in Block
      BY <2>7
    <3>2. cut \in Int /\ Len(batch) \in Int
      BY <2>7
    <3> QED
      BY <2>7, <3>1, <3>2, SubSeqProperties
  <2> HIDE DEF head, rest
  <2>11. /\ head \o rest \in Seq(Block)
         /\ Len(head \o rest) = Len(batch)
         /\ \A i \in 1..Len(batch) :
               (head \o rest)[i] = IF i <= cut - 1 THEN head[i] ELSE rest[i - (cut - 1)]
    BY SMTT(30), <2>7, <2>9, <2>10, ConcatProperties
  <2>12. ASSUME NEW i \in 1..Len(batch)
         PROVE  (head \o rest)[i] = IF i < cut THEN own[i] ELSE batch[i]
    <3>1. CASE i < cut
      <4>1. i <= cut - 1 /\ i \in 1..(cut - 1)
        BY <2>7, <3>1
      <4> QED
        BY <2>9, <2>11, <3>1, <4>1
    <3>2. CASE ~(i < cut)
      <4>1. /\ ~(i <= cut - 1)
            /\ i - (cut - 1) \in 1..(Len(batch) - cut + 1)
            /\ cut + (i - (cut - 1)) - 1 = i
        BY <2>7, <3>2
      <4>2. (head \o rest)[i] = rest[i - (cut - 1)]
        BY <2>11, <4>1
      <4>3. rest[i - (cut - 1)] = batch[cut + (i - (cut - 1)) - 1]
        BY <2>10, <4>1
      <4> QED
        BY <3>2, <4>1, <4>2, <4>3
    <3> QED
      BY <3>1, <3>2
  <2>13. Spliced(Merge(own, batch, s), own, batch, s, cut)
    <3>1. Merge(own, batch, s) = head \o rest
      BY <1>1, <1>4
    <3> QED
      BY <2>7, <2>8, <2>11, <2>12, <3>1 DEF Spliced
  <2> QED
    BY <2>7, <2>13
<1> QED
  BY <1>3, <1>4

\* It makes nothing but the batch if the chains agree where they are joined.
LEMMA SplicedIsBatch ==
    ASSUME Inv, NEW own \in published, NEW c \in published, NEW s \in 1..Len(c),
           NEW cut \in s..Len(c), NEW merged, Spliced(merged, own, c, s, cut),
           cut > 1 => own[cut - 1].hash = c[cut - 1].hash
    PROVE  merged = c
PROOF
<1>1. /\ own \in Seq(Block) /\ Len(own) \in Nat /\ DOMAIN own = 1..Len(own)
      /\ c \in Seq(Block) /\ Len(c) \in Nat /\ DOMAIN c = 1..Len(c)
  BY PublishedFacts
<1>2. cut \in Nat /\ cut >= 1 /\ cut <= Len(c) /\ cut <= Len(own) + 1
  BY <1>1 DEF Spliced
<1>3. \A i \in 1..(cut - 1) : own[i] = c[i]
  <2>1. CASE cut = 1
    BY <2>1
  <2>2. CASE cut > 1
    <3>1. cut - 1 \in DOMAIN own /\ cut - 1 \in DOMAIN c
      BY <1>1, <1>2, <2>2
    <3> QED
      BY <2>2, <3>1 DEF Inv, ChainsInv, SamePast
  <2> QED
    BY <1>2, <2>1, <2>2
<1>4. \A i \in 1..Len(c) : merged[i] = c[i]
  <2> SUFFICES ASSUME NEW i \in 1..Len(c) PROVE merged[i] = c[i]
    OBVIOUS
  <2>1. i < cut => i \in 1..(cut - 1)
    BY <1>2
  <2> QED
    BY <1>3, <2>1 DEF Spliced
<1>5. merged \in Seq(Block) /\ Len(merged) = Len(c)
  BY DEF Spliced
<1> QED
  BY <1>1, <1>4, <1>5, SeqEqual

\* A longer and linked merge of a batch is the chain the batch comes from.
LEMMA MergeKnown ==
    ASSUME Inv, NEW own \in published, NEW c \in published, NEW s \in 1..Len(c),
           Replaceable(own, Merge(own, c, s))
    PROVE  Merge(own, c, s) = c
PROOF
<1> DEFINE merged == Merge(own, c, s)
<1>1. /\ own \in Seq(Block) /\ Len(own) \in Nat
      /\ c \in Seq(Block) /\ Len(c) \in Nat
      /\ \A i \in 2..Len(c) : c[i].previous_hash = c[i - 1].hash
  BY PublishedFacts
<1>2. /\ Len(merged) > Len(own)
      /\ \A i \in 2..Len(merged) : merged[i].previous_hash = merged[i - 1].hash
  BY DEF Replaceable
<1>3. PICK cut \in s..Len(c) : Spliced(merged, own, c, s, cut)
  <2>1. merged # own
    BY <1>1, <1>2
  <2> QED
    BY <1>1, <2>1, MergeShape
<1> HIDE DEF merged
<1>4. ASSUME cut > 1 PROVE own[cut - 1].hash = c[cut - 1].hash
  <2>1. /\ cut \in 2..Len(c) /\ cut - 1 \in 1..Len(c) /\ cut \in 1..Len(c)
        /\ cut - 1 < cut /\ ~(cut < cut)
    BY <1>1, <1>4
  <2>2. merged[cut] = c[cut] /\ merged[cut - 1] = own[cut - 1] /\ Len(merged) = Len(c)
    BY <1>3, <2>1 DEF Spliced
  <2>3. merged[cut].previous_hash = merged[cut - 1].hash
    BY <1>2, <2>1, <2>2
  <2> QED
    BY <1>1, <2>1, <2>2, <2>3
<1>5. merged = c
  BY <1>3, <1>4, SplicedIsBatch
<1> QED
  BY <1>5 DEF merged

\* A block of a known chain that extends another makes a known chain.
LEMMA ExtendedKnown ==
    ASSUME Inv, NEW own \in published, NEW c \in published, NEW i \in DOMAIN c,
           c[i].index = Len(own), c[i].previous_hash = Last(own).hash
    PROVE  Append(own, c[i]) \in published
PROOF
<1>1. /\ own \in Seq(Block) /\ Len(own) \in Nat /\ Len(own) > 0 /\ DOMAIN own = 1..Len(own)
      /\ Last(own) = own[Len(own)]
      /\ c \in Seq(Block) /\ Len(c) \in Nat /\ DOMAIN c = 1..Len(c)
      /\ \A k \in 1..Len(c) : c[k] \in Block /\ c[k].index = k - 1
      /\ \A k \in 2..Len(c) : c[k].previous_hash = c[k - 1].hash
  BY PublishedFacts
<1>2. /\ i = Len(own) + 1 /\ i \in 2..Len(c) /\ i - 1 = Len(own)
      /\ Len(own) \in DOMAIN own /\ Len(own) \in DOMAIN c
  BY <1>1
<1>3. c[Len(own)].hash = own[Len(own)].hash
  BY <1>1, <1>2
<1>4. \A k \in 1..Len(own) : own[k] = c[k]
  BY <1>2, <1>3 DEF Inv, ChainsInv, SamePast
<1>5. /\ Append(own, c[i]) \in Seq(Block) /\ Len(Append(own, c[i])) = i
      /\ \A k \in 1..Len(own) : Append(own, c[i])[k] = own[k]
      /\ Append(own, c[i])[i] = c[i]
  BY <1>1, <1>2, AppendProperties
<1>6. /\ SubSeq(c, 1, i) \in Seq(Block) /\ Len(SubSeq(c, 1, i)) = i
      /\ \A k \in 1..i : SubSeq(c, 1, i)[k] = c[k]
  <2>1. \A k \in 1..i : c[k] \in Block
    BY <1>1, <1>2
  <2> QED
    BY <1>2, <2>1, SubSeqProperties
<1>7. \A k \in 1..i : Append(own, c[i])[k] = SubSeq(c, 1, i)[k]
  <2> SUFFICES ASSUME NEW k \in 1..i PROVE Append(own, c[i])[k] = c[k]
    BY <1>6
  <2>1. k = i \/ k \in 1..Len(own)
    BY <1>1, <1>2
  <2> QED
    BY <1>4, <1>5, <2>1
<1>8. Append(own, c[i]) = SubSeq(c, 1, i)
  BY <1>5, <1>6, <1>7, SeqEqual
<1> QED
  BY <1>8 DEF Inv, ChainsInv

\* Receiving only moves a node along the known chains.
LEMMA Moves ==
    ASSUME Inv, NEW n \in Node, NEW m \in Node, NewBlock(n, m) \/ BlocksBatch(n, m)
    PROVE  /\ published' = published
           /\ \/ chain' = chain
              \/ \E c \in published : /\ Len(c) > Len(chain[n])
                                      /\ chain' = [chain EXCEPT ![n] = c]
PROOF
<1>1. /\ chain \in [Node -> Seq(Block)] /\ chain[n] \in published
      /\ chain[n] \in Seq(Block) /\ Len(chain[n]) \in Nat
  BY PublishedFacts DEF Inv, TypeOK, ChainsInv
<1>2. events[n][m] # <<>> => Head(events[n][m]) \in Honest
  <2>1. events[n][m] \in Seq(Honest)
    BY DEF Inv, Queues
  <2> QED
    BY <2>1, HeadTailProperties
<1>3. CASE NewBlock(n, m)
  <2> DEFINE b == Head(events[n][m]).block
             extends == b.index = Len(chain[n]) /\ b.previous_hash = Tip(n).hash
  <2>1. \/ chain' = chain /\ published' = published
        \/ /\ extends
           /\ chain' = [chain EXCEPT ![n] = Append(chain[n], b)]
           /\ published' = published \cup {Append(chain[n], b)}
    BY <1>1, <1>3 DEF NewBlock
  <2>2. PICK c \in published : \E i \in DOMAIN c : c[i] = b
    BY <1>2, <1>3 DEF NewBlock, Next1, Honest
  <2>3. PICK i \in DOMAIN c : c[i] = b
    BY <2>2
  <2> HIDE DEF b
  <2>4. CASE extends
    <3>1. Append(chain[n], b) \in published
      BY <1>1, <2>3, <2>4, ExtendedKnown DEF Tip
    <3>2. Len(Append(chain[n], b)) = Len(chain[n]) + 1
      <4>1. b \in Block
        BY <2>3, PublishedFacts
      <4> QED
        BY <1>1, <4>1, AppendProperties
    <3> DEFINE longer == Append(chain[n], b)
    <3>3. \/ chain' = chain /\ published' = published
          \/ /\ chain' = [chain EXCEPT ![n] = longer]
             /\ published' = published \cup {longer}
      BY <2>1
    <3>4. longer \in published /\ Len(longer) > Len(chain[n])
      BY <1>1, <3>1, <3>2
    <3> HIDE DEF longer
    <3> QED
      BY <3>3, <3>4
  <2> QED
    BY <2>1, <2>4
<1>4. CASE BlocksBatch(n, m)
  <2> DEFINE batch == Head(events[n][m])
             candidate == Merge(chain[n], batch.blocks, batch.start)
  <2>1. batch.blocks \in published /\ batch.start \in 1..Len(batch.blocks)
    BY <1>2, <1>4 DEF BlocksBatch, Next1, Honest
  <2>2. /\ chain' = [chain EXCEPT ![n] = IF Replaceable(chain[n], candidate)
                                         THEN candidate ELSE @]
        /\ published' = IF Replaceable(chain[n], candidate)
                        THEN published \cup {candidate} ELSE published
    BY <1>4 DEF BlocksBatch
  <2> HIDE DEF batch
  <2>3. CASE Replaceable(chain[n], candidate)
    <3>1. candidate = batch.blocks
      BY <1>1, <2>1, <2>3, MergeKnown
    <3>2. Len(candidate) > Len(chain[n])
      BY <2>3 DEF Replaceable
    <3> QED
      BY <2>1, <2>2, <2>3, <3>1, <3>2
  <2> QED
    BY <1>1, <2>2, <2>3
<1> QED
  BY <1>3, <1>4

-----------------------------------------------------------------------------
\* The invariant.

LEMMA InitInv == Init => Inv
PROOF
<1> SUFFICES ASSUME Init PROVE Inv
  OBVIOUS
<1>1. Genesis \in Block /\ Genesis.index = 0 /\ Genesis.hash = 1
  BY DEF Genesis, Block
<1>2. /\ <<Genesis>> \in Seq(Block) /\ Len(<<Genesis>>) = 1 /\ DOMAIN <<Genesis>> = 1..1
      /\ <<Genesis>>[1] = Genesis
  BY <1>1
<1>3. TypeOK
  BY <1>2 DEF Init, TypeOK
<1>4. ChainsInv
  <2>1. published = {<<Genesis>>} /\ stamp = 1 /\ \A n \in Node : chain[n] = <<Genesis>>
    BY DEF Init
  <2>2. Chained(<<Genesis>>, stamp)
    <3> DEFINE c == <<Genesis>>
    <3>1. c # <<>> /\ Len(c) = 1 /\ DOMAIN c = 1..1 /\ c[1] = Genesis
      BY <1>2
    <3> HIDE DEF c
    <3>2. \A i \in DOMAIN c : c[i].index = i - 1 /\ c[i].hash <= stamp
      BY <1>1, <2>1, <3>1
    <3>3. Chained(c, stamp)
      BY <3>1, <3>2 DEF Chained
    <3> QED
      BY <3>3 DEF c
  <2>3. \A i \in DOMAIN <<Genesis>> : SubSeq(<<Genesis>>, 1, i) = <<Genesis>>
    <3>1. SubSeq(<<Genesis>>, 1, Len(<<Genesis>>)) = <<Genesis>>
      BY <1>2, SubSeqFull
    <3>2. \A i \in DOMAIN <<Genesis>> : i = Len(<<Genesis>>)
      BY <1>2
    <3> QED
      BY <3>1, <3>2
  <2>4. SamePast(<<Genesis>>, <<Genesis>>)
    BY <1>2 DEF SamePast
  <2> QED
    BY <2>1, <2>2, <2>3, <2>4 DEF ChainsInv
<1>5. events \in Queues(Honest)
  BY DEF Init, Queues
<1> QED
  BY <1>3, <1>4, <1>5 DEF Inv

\* What is known of the chains when no block is mined.
LEMMA ChainsKept ==
    ASSUME Inv, published' = published, stamp' = stamp,
           \A n \in Node : chain'[n] = chain[n] \/ chain'[n] \in published
    PROVE  ChainsInv' /\ Honest' = Honest
PROOF
<1>1. \A n \in Node : chain'[n] \in published
  BY DEF Inv, ChainsInv
<1> QED
  BY <1>1 DEF Inv, ChainsInv, Chained, Honest

\* A block is mined with a new hash.
LEMMA MineChains ==
    ASSUME Inv, NEW n \in Node, Mine(n)
    PROVE  LET block == [index |-> Len(chain[n]), hash |-> stamp + 1,
                         previous_hash |-> Tip(n).hash]
           IN  /\ block \in Block
               /\ chain' = [chain EXCEPT ![n] = Append(chain[n], block)]
               /\ published' = published \cup {Append(chain[n], block)}
               /\ Append(chain[n], block) \in Seq(Block)
               /\ Len(Append(chain[n], block)) = Len(chain[n]) + 1
               /\ Append(chain[n], block)[Len(chain[n]) + 1] = block
               /\ \A k \in 1..Len(chain[n]) : Append(chain[n], block)[k] = chain[n][k]
               /\ ChainsInv'
PROOF
<1> DEFINE block == [index |-> Len(chain[n]), hash |-> stamp + 1,
                     previous_hash |-> Tip(n).hash]
           own == chain[n]
           new == Append(own, block)
           size == Len(own)
<1>1. /\ chain \in [Node -> Seq(Block)] /\ stamp \in Nat /\ own \in published
      /\ chain' = [chain EXCEPT ![n] = new]
      /\ published' = published \cup {new}
      /\ stamp' = stamp + 1
  BY DEF Inv, TypeOK, ChainsInv, Mine
<1>2. /\ own \in Seq(Block) /\ size \in Nat /\ size > 0 /\ DOMAIN own = 1..size
      /\ Tip(n) = own[size] /\ own[size].hash \in Nat
      /\ \A i \in 1..size : own[i].index = i - 1
      /\ \A i \in 2..size : own[i].previous_hash = own[i - 1].hash
  <2>1. own \in published /\ Tip(n) = Last(own)
    BY <1>1 DEF Tip
  <2> HIDE DEF own
  <2>2. /\ own \in Seq(Block) /\ Len(own) \in Nat /\ Len(own) > 0 /\ DOMAIN own = 1..Len(own)
        /\ Last(own) = own[Len(own)]
        /\ \A i \in 1..Len(own) : own[i].hash \in Nat /\ own[i].index = i - 1
        /\ \A i \in 2..Len(own) : own[i].previous_hash = own[i - 1].hash
    BY <2>1, PublishedFacts
  <2> QED
    BY <2>1, <2>2
<1>3. block \in Block /\ block.index = size /\ block.hash = stamp + 1
      /\ block.previous_hash = own[size].hash
  BY <1>1, <1>2 DEF Block
<1> HIDE DEF block
<1>4. /\ new \in Seq(Block) /\ Len(new) = size + 1 /\ new[size + 1] = block
      /\ \A k \in 1..size : new[k] = own[k]
  BY <1>2, <1>3, AppendProperties
<1>5. DOMAIN new = 1..(size + 1)
  BY <1>4, LenProperties
<1> HIDE DEF new, size
<1>6. /\ \A c \in published : \A i \in DOMAIN c : c[i].hash <= stamp /\ c[i].hash \in Nat
      /\ \A c \in published : Chained(c, stamp)
  BY PublishedFacts DEF Inv, ChainsInv, Chained
<1>7. \A c \in published : Chained(c, stamp')
  <2> SUFFICES ASSUME NEW c \in published PROVE Chained(c, stamp')
    OBVIOUS
  <2>1. \A i \in DOMAIN c : c[i].hash <= stamp + 1
    BY <1>1, <1>6
  <2> QED
    BY <1>1, <1>6, <2>1 DEF Chained
<1>8. Chained(new, stamp')
  <2>1. new # <<>> /\ new[1] = Genesis
    BY <1>1, <1>2, <1>4, <1>6 DEF Chained
  <2>2. ASSUME NEW i \in DOMAIN new PROVE new[i].index = i - 1 /\ new[i].hash <= stamp'
    <3>1. i = size + 1 \/ i \in 1..size
      BY <1>2, <1>5
    <3>2. CASE i = size + 1
      BY <1>1, <1>2, <1>3, <1>4, <3>2
    <3>3. CASE i \in 1..size
      <4>1. own[i].hash <= stamp /\ own[i].hash \in Nat /\ own[i].index = i - 1
        BY <1>1, <1>2, <1>6, <3>3
      <4> QED
        BY <1>1, <1>4, <3>3, <4>1
    <3> QED
      BY <3>1, <3>2, <3>3
  <2>3. ASSUME NEW i \in 2..Len(new) PROVE new[i].previous_hash = new[i - 1].hash
    <3>1. CASE i = size + 1
      <4>1. i - 1 = size /\ size \in 1..size
        BY <1>2, <3>1
      <4> QED
        BY <1>3, <1>4, <3>1, <4>1
    <3>2. CASE i # size + 1
      <4>1. i \in 2..size /\ i \in 1..size /\ i - 1 \in 1..size
        BY <1>2, <1>4, <3>2
      <4> QED
        BY <1>2, <1>4, <4>1
    <3> QED
      BY <3>1, <3>2
  <2>4. \A i \in DOMAIN new : new[i].index = i - 1 /\ new[i].hash <= stamp'
    BY <2>2
  <2>5. \A i \in 2..Len(new) : new[i].previous_hash = new[i - 1].hash
    BY <2>3
  <2> QED
    BY <2>1, <2>4, <2>5 DEF Chained
<1>9. \A i \in DOMAIN new : SubSeq(new, 1, i) \in published'
  <2> SUFFICES ASSUME NEW i \in DOMAIN new PROVE SubSeq(new, 1, i) \in published'
    OBVIOUS
  <2>1. CASE i = size + 1
    BY <1>1, <1>4, <2>1, SubSeqFull
  <2>2. CASE i # size + 1
    <3>1. i \in DOMAIN own /\ i <= size /\ i \in Nat
      BY <1>2, <1>5, <2>2
    <3>2. \A k \in 1..i : new[k] = own[k] /\ own[k] \in Block
      BY <1>2, <1>4, <3>1
    <3>3. SubSeq(new, 1, i) = SubSeq(own, 1, i)
      <4>1. /\ SubSeq(own, 1, i) \in Seq(Block) /\ Len(SubSeq(own, 1, i)) = i
            /\ \A k \in 1..i : SubSeq(own, 1, i)[k] = own[k]
        BY <1>5, <3>1, <3>2, SubSeqProperties
      <4>2. /\ SubSeq(new, 1, i) \in Seq(Block) /\ Len(SubSeq(new, 1, i)) = i
            /\ \A k \in 1..i : SubSeq(new, 1, i)[k] = new[k]
        BY <1>5, <3>1, <3>2, SubSeqProperties
      <4> QED
        BY <3>2, <4>1, <4>2, SeqEqual
    <3> QED
      BY <1>1, <3>1, <3>3 DEF Inv, ChainsInv
  <2> QED
    BY <2>1, <2>2
<1>10. \A c \in published : SamePast(c, new) /\ SamePast(new, c)
  <2> SUFFICES ASSUME NEW c \in published, NEW i \in DOMAIN c, NEW j \in DOMAIN new,
                      c[i].hash = new[j].hash
               PROVE  i = j /\ \A k \in 1..i : c[k] = new[k]
    BY DEF SamePast
  <2>1. j # size + 1
    BY <1>1, <1>3, <1>4, <1>6
  <2>2. j \in DOMAIN own /\ j <= size
    BY <1>2, <1>5, <2>1
  <2>3. i = j /\ \A k \in 1..i : c[k] = own[k]
    <3>1. SamePast(c, own)
      BY <1>1 DEF Inv, ChainsInv
    <3>2. own[j].hash = c[i].hash
      BY <1>2, <1>4, <2>2
    <3> QED
      BY <2>2, <3>1, <3>2 DEF SamePast
  <2> QED
    BY <1>2, <1>4, <2>2, <2>3
<1>11. SamePast(new, new)
  <2> SUFFICES ASSUME NEW i \in DOMAIN new, NEW j \in DOMAIN new, new[i].hash = new[j].hash
               PROVE  i = j
    BY DEF SamePast
  <2>1. CASE i = size + 1 /\ j = size + 1
    BY <2>1
  <2>2. CASE i # size + 1
    <3>1. i \in DOMAIN own /\ own[i].hash = new[i].hash
      BY <1>2, <1>4, <1>5, <2>2
    <3> QED
      BY <1>1, <1>10, <3>1 DEF SamePast
  <2>3. CASE j # size + 1
    <3>1. j \in DOMAIN own /\ own[j].hash = new[j].hash
      BY <1>2, <1>4, <1>5, <2>3
    <3> QED
      BY <1>1, <1>10, <3>1 DEF SamePast
  <2> QED
    BY <2>1, <2>2, <2>3
<1>12. \A m \in Node : chain'[m] \in published'
  BY <1>1 DEF Inv, ChainsInv
<1>13. ChainsInv'
  <2>1. \A c \in published' : c \in published \/ c = new
    BY <1>1
  <2>2. \A c \in published' : Chained(c, stamp')
    BY <1>7, <1>8, <2>1 DEF Chained
  <2>3. \A c \in published' : \A i \in DOMAIN c : SubSeq(c, 1, i) \in published'
    BY <1>1, <1>9, <2>1 DEF Inv, ChainsInv
  <2>4. \A c, d \in published' : SamePast(c, d)
    BY <1>10, <1>11, <2>1 DEF Inv, ChainsInv
  <2> QED
    BY <1>12, <2>2, <2>3, <2>4 DEF ChainsInv
<1> QED
  BY <1>1, <1>3, <1>4, <1>13 DEF block, new, size

\* The events a step leaves are honest if those it adds are.
LEMMA HandledHonest ==
    ASSUME Inv, Honest \subseteq Honest', NEW n \in Node, NEW m \in Node,
           events[n][m] # <<>>, NEW ms \in Seq(Honest'), events' = Handled(n, m, ms)
    PROVE  events' \in Queues(Honest')
PROOF
<1>1. events \in Queues(Honest')
  BY SeqWidens DEF Inv
<1> DEFINE S == Honest'
<1>2. events \in Queues(S) /\ ms \in Seq(S)
  BY <1>1
<1> HIDE DEF S
<1>3. Handled(n, m, ms) \in Queues(S)
  BY <1>2, HandledIs
<1> QED
  BY <1>3 DEF S

LEMMA SentHonest ==
    ASSUME Inv, Honest \subseteq Honest', NEW n \in Node, NEW to,
           NEW ms \in Seq(Honest'), events' = Sent(events, n, to, ms)
    PROVE  events' \in Queues(Honest')
PROOF
<1>1. events \in Queues(Honest')
  BY SeqWidens DEF Inv
<1> DEFINE S == Honest'
<1>2. events \in Queues(S) /\ ms \in Seq(S)
  BY <1>1
<1> HIDE DEF S
<1>3. Sent(events, n, to, ms) \in Queues(S)
  BY <1>2, SentIs
<1> QED
  BY <1>3 DEF S

\* The request of a node.
LEMMA RequestMade ==
    ASSUME Inv, NEW n \in Node
    PROVE  <<Request(n)>> \in Seq(Honest)
PROOF
<1>1. chain[n] \in published
  BY DEF Inv, ChainsInv
<1>2. Tip(n).hash \in Nat /\ Len(chain[n]) - 1 \in Nat
  BY <1>1, PublishedFacts DEF Tip
<1>3. Request(n) \in Honest
  BY <1>2, EventsMade DEF Request
<1> QED
  BY <1>3

LEMMA QueuesTyped == Queues(Honest) \subseteq Queues(Event)
PROOF
<1>1. Honest \subseteq Event
  BY DEF Honest
<1> QED
  BY <1>1, SeqWidens

\* Mining, asking and paying.
LEMMA OwnSteps ==
    ASSUME Inv, NEW n \in Node, Mine(n) \/ Pay(n) \/ Ask(n)
    PROVE  Inv'
PROOF
<1> USE DEF Queues
<1>1. CASE Mine(n)
  <2> DEFINE block == [index |-> Len(chain[n]), hash |-> stamp + 1,
                       previous_hash |-> Tip(n).hash]
             new == Append(chain[n], block)
  <2>1. /\ block \in Block /\ new \in Seq(Block)
        /\ chain' = [chain EXCEPT ![n] = new]
        /\ published' = published \cup {new}
        /\ Len(new) = Len(chain[n]) + 1 /\ new[Len(chain[n]) + 1] = block
        /\ ChainsInv'
    BY <1>1, MineChains
  <2>2. /\ stamp' = stamp + 1
        /\ events' = Sent(events, n, topics[n],
                          IF block.hash \in Large THEN <<>>
                          ELSE <<[type |-> "NewBlock", block |-> block]>>)
        /\ UNCHANGED <<pool, synced, has_peers, tx_buffer, links, topics, connects>>
    BY <1>1 DEF Mine
  <2> HIDE DEF block, new
  <2>3. Len(chain[n]) + 1 \in DOMAIN new
    <3>1. Len(chain[n]) \in Nat
      BY PublishedFacts DEF Inv, ChainsInv
    <3> QED
      BY <2>1, <3>1
  <2>4. [type |-> "NewBlock", block |-> block] \in Honest'
    <3>1. [type |-> "NewBlock", block |-> block] \in Event
      BY <2>1 DEF Event
    <3> QED
      BY <2>1, <2>3, <3>1 DEF Honest
  <2>5. Honest \subseteq Honest'
    BY <2>1 DEF Honest
  <2>6. events' \in Queues(Honest')
    <3>1. <<[type |-> "NewBlock", block |-> block]>> \in Seq(Honest') /\ <<>> \in Seq(Honest')
      BY <2>4
    <3> QED
      BY <2>2, <2>5, <3>1, SentHonest
  <2>7. TypeOK'
    <3>1. events' \in [Node -> [Node -> Seq(Event)]]
      <4>1. Honest' \subseteq Event
        BY DEF Honest
      <4> QED
        BY <2>6, <4>1, SeqWidens
    <3>2. chain' \in [Node -> Seq(Block)] /\ published' \subseteq Seq(Block)
      BY <2>1 DEF Inv, TypeOK
    <3>3. /\ pool' \in [Node -> SUBSET Nat] /\ synced' \in [Node -> BOOLEAN]
          /\ has_peers' \in [Node -> BOOLEAN] /\ tx_buffer' \in [Node -> SUBSET Nat]
          /\ links' \subseteq SUBSET Node /\ topics' \in [Node -> SUBSET Node]
          /\ stamp' \in Nat /\ connects' \in Nat
      BY <2>2 DEF Inv, TypeOK
    <3> QED
      BY ONLY <3>1, <3>2, <3>3 DEF TypeOK
  <2> QED
    BY <2>1, <2>6, <2>7 DEF Inv
<1>2. CASE Pay(n) \/ Ask(n)
  <2>1. UNCHANGED <<chain, synced, has_peers, tx_buffer, links, topics, published, stamp, connects>>
    BY <1>2 DEF Pay, Ask, node
  <2>2. ChainsInv' /\ Honest' = Honest
    BY <2>1, ChainsKept
  <2>3. /\ pool' \in [Node -> SUBSET Nat]
        /\ \E ms \in Seq(Honest) : events' = Sent(events, n, topics[n], ms)
    <3>1. CASE Ask(n)
      BY <3>1, RequestMade DEF Ask, node, Inv, TypeOK
    <3>2. CASE Pay(n)
      <4>1. PICK i \in 2..Len(chain[n]) :
              /\ pool' = [pool EXCEPT ![n] = @ \cup {chain[n][i].hash}]
              /\ events' = Sent(events, n, topics[n],
                               <<[type |-> "NewTx", tx |-> chain[n][i].hash]>>)
        BY <3>2 DEF Pay
      <4>2. chain[n][i].hash \in Nat
        <5>1. chain[n] \in published
          BY DEF Inv, ChainsInv
        <5>2. i \in 1..Len(chain[n])
          BY <5>1, PublishedFacts
        <5> QED
          BY <5>1, <5>2, PublishedFacts
      <4>3. [type |-> "NewTx", tx |-> chain[n][i].hash] \in Honest
        BY <4>2, EventsMade
      <4>4. <<[type |-> "NewTx", tx |-> chain[n][i].hash]>> \in Seq(Honest)
        BY <4>3
      <4>5. pool' \in [Node -> SUBSET Nat]
        BY <4>1, <4>2 DEF Inv, TypeOK
      <4> QED
        BY <4>1, <4>4, <4>5
    <3> QED
      BY <1>2, <3>1, <3>2
  <2>4. events' \in Queues(Honest')
    BY <2>2, <2>3, SentHonest
  <2>5. events' \in Queues(Event)
    BY <2>2, <2>4, QueuesTyped
  <2>6. TypeOK'
    BY <2>1, <2>3, <2>5 DEF Inv, TypeOK
  <2> QED
    BY <2>2, <2>4, <2>6 DEF Inv
<1> QED
  BY <1>1, <1>2

\* Connections are opened and lost.
LEMMA LinkSteps ==
    ASSUME Inv, NEW n \in Node, NEW m \in Node, Connect(n, m) \/ Disconnect(n, m)
    PROVE  Inv'
PROOF
<1>1. UNCHANGED <<node, published, stamp>>
  BY DEF Connect, Disconnect
<1>2. ChainsInv' /\ Honest' = Honest
  BY <1>1, ChainsKept DEF node
<1>3. /\ links' \subseteq SUBSET Node
      /\ topics' \in [Node -> SUBSET Node]
      /\ connects' \in Nat
  <2>1. /\ links \subseteq SUBSET Node /\ topics \in [Node -> SUBSET Node] /\ connects \in Nat
        /\ {n, m} \in SUBSET Node
    BY DEF Inv, TypeOK
  <2>2. CASE Connect(n, m)
    BY <2>1, <2>2 DEF Connect
  <2>3. CASE Disconnect(n, m)
    <3>1. /\ links' = links \ {{n, m}} /\ connects' = connects
          /\ topics' = [topics EXCEPT ![n] = @ \ {m}, ![m] = @ \ {n}]
      BY <2>3 DEF Disconnect
    <3>2. topics' \in [Node -> SUBSET Node]
      BY <2>1, <3>1
    <3> QED
      BY <2>1, <3>1, <3>2
  <2> QED
    BY <2>2, <2>3
<1>4. events' \in Queues(Honest)
  <2>1. \A x, y \in Node : events[x][y] \in Seq(Honest)
    BY DEF Inv, Queues
  <2>2. CASE Connect(n, m)
    <3> DEFINE arrival == <<[type |-> "Established"]>>
                            \o [i \in 1..Topics |-> [type |-> "Subscribed"]]
    <3>1. arrival \in Seq(Honest)
      <4>1. Topics \in Nat
        BY NodeSyncAssumption
      <4>2. <<[type |-> "Established"]>> \in Seq(Honest)
        BY EventsMade
      <4>3. [i \in 1..Topics |-> [type |-> "Subscribed"]] \in Seq(Honest)
        BY <4>1, EventsMade
      <4> QED
        BY <4>2, <4>3, ConcatProperties
    <3>2. events' = [events EXCEPT ![n][m] = @ \o arrival, ![m][n] = @ \o arrival]
      BY <2>2 DEF Connect
    <3>3. \A x, y \in Node : events[x][y] \o arrival \in Seq(Honest)
      BY <2>1, <3>1, ConcatProperties
    <3> HIDE DEF arrival
    <3>4. n # m
      BY <2>2 DEF Connect
    <3> QED
      BY <2>1, <3>2, <3>3, <3>4 DEF Inv, Queues
  <2>3. CASE Disconnect(n, m)
    <3> DEFINE closed == <<[type |-> "Closed"]>>
    <3>1. closed \in Seq(Honest)
      BY EventsMade
    <3>2. events' = [events EXCEPT ![n][m] = closed, ![m][n] = closed]
      BY <2>3 DEF Disconnect
    <3> HIDE DEF closed
    <3> QED
      BY <2>1, <3>1, <3>2 DEF Inv, Queues
  <2> QED
    BY <2>2, <2>3
<1>5. events' \in Queues(Event)
  BY <1>4, QueuesTyped
<1>6. TypeOK'
  BY <1>1, <1>3, <1>5 DEF node, Inv, TypeOK, Queues
<1> QED
  BY <1>2, <1>4, <1>6 DEF Inv

\* The event at the head of a queue.
LEMMA HeadHonest ==
    ASSUME Inv, NEW n \in Node, NEW m \in Node, events[n][m] # <<>>
    PROVE  Head(events[n][m]) \in Honest /\ Head(events[n][m]) \in Event
PROOF
<1>1. events[n][m] \in Seq(Honest)
  BY DEF Inv, Queues
<1> QED
  BY <1>1, HeadTailProperties DEF Honest

\* The chains and the answers of the handlers.
LEMMA HandlerSends ==
    ASSUME Inv, NEW n \in Node, NEW m \in Node, Handle(n, m)
    PROVE  /\ published' = published
           /\ stamp' = stamp
           /\ chain' \in [Node -> Seq(Block)]
           /\ \A x \in Node : chain'[x] = chain[x] \/ chain'[x] \in published
           /\ events[n][m] # <<>>
           /\ \/ \E ms \in Seq(Honest) : events' = Handled(n, m, ms)
              \/ \E ms \in Seq(Honest) :
                    events' = Sent([events EXCEPT ![n][m] = Tail(@)], n, topics'[n], ms)
PROOF
<1>0. /\ chain \in [Node -> Seq(Block)] /\ published \subseteq Seq(Block)
      /\ pool \in [Node -> SUBSET Nat] /\ chain[n] \in published
      /\ <<>> \in Seq(Honest)
  BY EmptySeq DEF Inv, TypeOK, ChainsInv
<1>1. CASE Established(n, m) \/ Closed(n, m) \/ NewTx(n, m) \/ MempoolTxs(n, m)
  <2>1. /\ UNCHANGED <<chain, published, stamp>>
        /\ events[n][m] # <<>>
        /\ events' = Handled(n, m, <<>>)
    BY <1>1 DEF Established, Closed, NewTx, MempoolTxs, Next1
  <2> QED
    BY <1>0, <2>1
<1>2. CASE Subscribed(n, m)
  <2>1. UNCHANGED <<chain, published, stamp>> /\ events[n][m] # <<>>
    BY <1>2 DEF Subscribed, Next1
  <2>2. PICK shared \in {{}, pool[n]} :
          events' = Sent([events EXCEPT ![n][m] = Tail(@)], n, topics'[n],
                         IF shared = {} THEN <<Request(n)>>
                         ELSE <<Request(n), [type |-> "MempoolTxs", txs |-> shared]>>)
    BY <1>2 DEF Subscribed
  <2> DEFINE msg == [type |-> "MempoolTxs", txs |-> shared]
  <2>3. msg \in Honest /\ Request(n) \in Honest
    <3>1. shared \in SUBSET Nat
      BY <1>0
    <3>2. <<Request(n)>> \in Seq(Honest)
      BY RequestMade
    <3> QED
      BY <3>1, <3>2, EventsMade
  <2> HIDE DEF msg
  <2>4. <<Request(n)>> \in Seq(Honest) /\ <<Request(n), msg>> \in Seq(Honest)
    BY <2>3
  <2> QED
    BY <1>0, <2>1, <2>2, <2>4 DEF msg
<1>3. CASE NewBlock(n, m)
  <2> DEFINE block == Head(events[n][m]).block
             extends == block.index = Len(chain[n]) /\ block.previous_hash = Tip(n).hash
             ms == IF ~extends /\ block.index > Len(chain[n]) THEN <<Request(n)>> ELSE <<>>
  <2>1. /\ events[n][m] # <<>> /\ stamp' = stamp
        /\ events' = Handled(n, m, ms)
    BY <1>3 DEF NewBlock, Next1
  <2>2. ms \in Seq(Honest)
    BY <1>0, RequestMade
  <2> HIDE DEF ms
  <2> QED
    BY <1>0, <1>3, <2>1, <2>2, Moves
<1>4. CASE GetBlocks(n, m)
  <2> DEFINE request == Head(events[n][m])
             start == ServeFrom(chain[n], request.from_height, request.from_hash)
             batch == [type |-> "BlocksBatch", blocks |-> chain[n], start |-> start]
             ms == IF start > Len(chain[n]) \/ ~Fits(chain[n], start) THEN <<>>
                   ELSE <<batch>>
  <2>1. /\ events[n][m] # <<>> /\ UNCHANGED <<chain, published, stamp>>
        /\ events' = Handled(n, m, ms)
        /\ request.type = "GetBlocks"
    BY <1>4 DEF GetBlocks, Next1, node
  <2>2. start \in Nat /\ start >= 1
    <3>1. request.from_height \in Nat
      BY <2>1, HeadHonest, EventHolds
    <3> QED
      BY <3>1 DEF ServeFrom
  <2> HIDE DEF start
  <2>3. ASSUME ~(start > Len(chain[n])) PROVE batch \in Honest
    <3>1. start \in 1..Len(chain[n])
      BY <1>0, <2>2, <2>3, PublishedFacts
    <3> QED
      BY <1>0, <3>1, EventsMade
  <2> HIDE DEF batch
  <2>4. ms \in Seq(Honest)
    BY <1>0, <2>3
  <2> HIDE DEF ms
  <2> QED
    BY <1>0, <2>1, <2>4
<1>5. CASE BlocksBatch(n, m)
  <2>1. events[n][m] # <<>> /\ stamp' = stamp /\ events' = Handled(n, m, <<>>)
    BY <1>5 DEF BlocksBatch, Next1
  <2> QED
    BY <1>0, <1>5, <2>1, Moves
<1> QED
  BY <1>1, <1>2, <1>3, <1>4, <1>5 DEF Handle

\* The rest of the state after a handler.
LEMMA HandlerTypes ==
    ASSUME Inv, NEW n \in Node, NEW m \in Node, Handle(n, m)
    PROVE  /\ pool' \in [Node -> SUBSET Nat]
           /\ synced' \in [Node -> BOOLEAN]
           /\ has_peers' \in [Node -> BOOLEAN]
           /\ tx_buffer' \in [Node -> SUBSET Nat]
           /\ links' = links
           /\ topics' \in [Node -> SUBSET Node]
           /\ connects' = connects
PROOF
<1>0. /\ pool \in [Node -> SUBSET Nat] /\ synced \in [Node -> BOOLEAN]
      /\ has_peers \in [Node -> BOOLEAN] /\ tx_buffer \in [Node -> SUBSET Nat]
      /\ topics \in [Node -> SUBSET Node]
  BY DEF Inv, TypeOK
<1>1. CASE Established(n, m) \/ Closed(n, m)
  BY <1>0, <1>1 DEF Established, Closed
<1>2. CASE Subscribed(n, m)
  BY <1>0, <1>2 DEF Subscribed
<1>3. CASE NewBlock(n, m) \/ GetBlocks(n, m)
  BY <1>0, <1>3 DEF NewBlock, GetBlocks, node
<1>4. CASE BlocksBatch(n, m)
  <2> DEFINE more == {tx \in tx_buffer[n] : Valid(n, tx)'}
  <2>1. /\ \/ /\ synced' = [synced EXCEPT ![n] = TRUE]
              /\ pool' = [pool EXCEPT ![n] = @ \cup more]
              /\ tx_buffer' = [tx_buffer EXCEPT ![n] = {}]
           \/ UNCHANGED <<synced, pool, tx_buffer>>
        /\ UNCHANGED <<has_peers, links, topics, connects>>
    BY <1>4 DEF BlocksBatch
  <2>2. more \in SUBSET Nat
    BY <1>0
  <2> HIDE DEF more
  <2>3. [pool EXCEPT ![n] = @ \cup more] \in [Node -> SUBSET Nat]
    BY <1>0, <2>2
  <2>4. /\ [synced EXCEPT ![n] = TRUE] \in [Node -> BOOLEAN]
        /\ [tx_buffer EXCEPT ![n] = {}] \in [Node -> SUBSET Nat]
    BY <1>0
  <2> QED
    BY <1>0, <2>1, <2>3, <2>4
<1>5. CASE NewTx(n, m)
  <2>1. Head(events[n][m]).tx \in Nat
    BY <1>5, HeadHonest, EventHolds DEF NewTx, Next1
  <2> QED
    BY <1>0, <1>5, <2>1 DEF NewTx
<1>6. CASE MempoolTxs(n, m)
  <2>1. Head(events[n][m]).txs \in SUBSET Nat
    BY <1>6, HeadHonest, EventHolds DEF MempoolTxs, Next1
  <2> QED
    BY <1>0, <1>6, <2>1 DEF MempoolTxs
<1> QED
  BY <1>1, <1>2, <1>3, <1>4, <1>5, <1>6 DEF Handle

LEMMA HandleSteps ==
    ASSUME Inv, NEW n \in Node, NEW m \in Node, Handle(n, m)
    PROVE  Inv'
PROOF
<1>1. /\ published' = published /\ stamp' = stamp
      /\ chain' \in [Node -> Seq(Block)]
      /\ \A x \in Node : chain'[x] = chain[x] \/ chain'[x] \in published
      /\ events[n][m] # <<>>
      /\ \/ \E ms \in Seq(Honest) : events' = Handled(n, m, ms)
         \/ \E ms \in Seq(Honest) :
               events' = Sent([events EXCEPT ![n][m] = Tail(@)], n, topics'[n], ms)
  BY HandlerSends
<1>2. ChainsInv' /\ Honest' = Honest
  BY <1>1, ChainsKept
<1>3. events' \in Queues(Honest)
  <2> DEFINE q == [events EXCEPT ![n][m] = Tail(@)]
  <2>1. events \in Queues(Honest)
    BY DEF Inv
  <2>2. q \in Queues(Honest)
    <3>1. \A x, y \in Node : events[x][y] \in Seq(Honest)
      BY <2>1 DEF Queues
    <3>2. Tail(events[n][m]) \in Seq(Honest)
      BY <1>1, <3>1, HeadTailProperties
    <3> QED
      BY <2>1, <3>1, <3>2 DEF Queues
  <2>3. CASE \E ms \in Seq(Honest) : events' = Handled(n, m, ms)
    BY <1>1, <2>1, <2>3, HandledIs
  <2>4. CASE \E ms \in Seq(Honest) : events' = Sent(q, n, topics'[n], ms)
    <3> HIDE DEF q
    <3> QED
      BY <2>2, <2>4, SentIs
  <2> QED
    BY <1>1, <2>3, <2>4
<1>4. events' \in Queues(Event)
  BY <1>3, QueuesTyped
<1>5. TypeOK'
  BY <1>1, <1>4, HandlerTypes DEF Inv, TypeOK, Queues
<1> QED
  BY <1>2, <1>3, <1>5 DEF Inv

LEMMA NextInv == Inv /\ [Next]_vars => Inv'
PROOF
<1> SUFFICES ASSUME Inv, [Next]_vars PROVE Inv'
  OBVIOUS
<1>1. CASE UNCHANGED vars
  <2>1. ChainsInv' /\ Honest' = Honest
    BY <1>1, ChainsKept DEF vars, node, net
  <2>2. TypeOK' /\ events' = events
    BY <1>1 DEF vars, node, net, Inv, TypeOK
  <2> QED
    BY <2>1, <2>2 DEF Inv
<1>2. CASE \E n \in Node : Mine(n) \/ Tick(n)
  BY <1>2, OwnSteps DEF Tick
<1>3. CASE \E n \in User : Pay(n) \/ Sync(n)
  BY <1>3, OwnSteps, NodeSyncAssumption DEF Sync
<1>4. CASE \E n, m \in Node : Connect(n, m) \/ Disconnect(n, m) \/ Handle(n, m)
  BY <1>4, LinkSteps, HandleSteps
<1> QED
  BY <1>1, <1>2, <1>3, <1>4 DEF Next

LEMMA SpecInv == Spec => []Inv
PROOF
  BY InitInv, NextInv, PTL DEF Spec

\* Queues, buffers and flags keep their types: no handler meets a message it
\* cannot read, and no request starts below genesis (handle_network_message).
THEOREM SyncTypes == Spec => []TypeOK
PROOF
<1>1. Inv => TypeOK
  BY DEF Inv
<1> QED
  BY <1>1, SpecInv, PTL

\* A step of the nodes is a step of the abstract specification, or none.
LEMMA StepRefines ==
    ASSUME Inv, Next
    PROVE  Abstract!Next \/ UNCHANGED <<chain, published>>
PROOF
<1>1. ASSUME NEW n \in Node, Mine(n) PROVE Abstract!Next
  <2> DEFINE own == chain[n]
             block == [index |-> Len(own), hash |-> stamp + 1, previous_hash |-> Tip(n).hash]
             new == Append(own, block)
  <2>1. /\ chain' = [chain EXCEPT ![n] = new]
        /\ published' = published \cup {new}
        /\ Len(new) = Len(own) + 1 /\ new[Len(own) + 1] = block
    BY <1>1, MineChains
  <2>2. chain'[n] = new
    BY <2>1 DEF Inv, TypeOK
  <2>3. \A c \in published : \A i \in DOMAIN c : c[i].hash # stamp + 1
    <3>1. \A c \in published : \A i \in DOMAIN c : c[i].hash \in Nat /\ c[i].hash <= stamp
      BY PublishedFacts DEF Inv, ChainsInv, Chained
    <3> QED
      BY <3>1 DEF Inv, TypeOK
  <2>4. Tip(n).hash = own[Len(own)].hash
    BY PublishedFacts DEF Inv, ChainsInv, Tip
  <2>5. block.index = Len(own) /\ block.hash = stamp + 1 /\ block.previous_hash = Tip(n).hash
    OBVIOUS
  <2> HIDE DEF block
  <2>6. Abstract!Extend(n)
    BY <2>1, <2>2, <2>3, <2>4, <2>5 DEF Abstract!Extend, Abstract!Fresh
  <2> QED
    BY <2>6 DEF Abstract!Next
<1>2. ASSUME NEW n \in Node, NEW m \in Node, NewBlock(n, m) \/ BlocksBatch(n, m)
      PROVE  Abstract!Next \/ UNCHANGED <<chain, published>>
  <2>1. CASE chain' = chain
    BY <1>2, <2>1, Moves
  <2>2. CASE \E c \in published : /\ Len(c) > Len(chain[n])
                                  /\ chain' = [chain EXCEPT ![n] = c]
    BY <1>2, <2>2, Moves DEF Abstract!Next, Abstract!Adopt
  <2> QED
    BY <1>2, <2>1, <2>2, Moves
<1>3. ASSUME NEW n \in Node, Pay(n) \/ Ask(n) PROVE UNCHANGED <<chain, published>>
  BY <1>3 DEF Pay, Ask, node
<1>4. ASSUME NEW n \in Node, NEW m \in Node,
             \/ Connect(n, m) \/ Disconnect(n, m)
             \/ Established(n, m) \/ Closed(n, m) \/ Subscribed(n, m)
             \/ GetBlocks(n, m) \/ NewTx(n, m) \/ MempoolTxs(n, m)
      PROVE  UNCHANGED <<chain, published>>
  BY <1>4 DEF Connect, Disconnect, Established, Closed, Subscribed, GetBlocks, NewTx,
              MempoolTxs, node
<1> QED
  BY <1>1, <1>2, <1>3, <1>4, NodeSyncAssumption DEF Next, Tick, Sync, Handle

\* Nodes that synchronise over connections implement the longest-chain
\* specification, whatever the order of requests, batches and disconnections.
THEOREM SyncImplementsLongestChain == Spec => ImplementsLongestChain
PROOF
<1>1. Init => Abstract!Init
  BY DEF Init, Abstract!Init
<1>2. Inv /\ [Next]_vars => [Abstract!Next]_<<chain, published>>
  BY StepRefines DEF vars, node
<1> QED
  BY <1>1, <1>2, SpecInv, PTL DEF Spec, ImplementsLongestChain, Abstract!Spec

-----------------------------------------------------------------------------
\* Two nodes, and what one still has to hear from the other.
\*
\* Of two nodes, a chain that one adopts is one the other has held. So a batch that
\* is longer than the chain it meets still shows the chain of its sender, and a
\* request still shows where the two chains part: no batch that matters is dropped.

\* The first chain is a part of the second.
Within(c, d) == Len(c) <= Len(d) /\ \A k \in 1..Len(c) : c[k] = d[k]

\* The events that may wait at a node with the chain `to' from one with `from'.
Timely(to, from) ==
    {e \in Event :
        /\ e.type = "NewBlock" => e.block.index < Len(from)
        /\ e.type = "BlocksBatch" =>
              /\ Len(e.blocks) <= Len(from)
              /\ e.start <= Len(to) + 1
              /\ \/ Len(e.blocks) <= Len(to)
                 \/ /\ Within(e.blocks, from)
                    /\ e.start > 1 => to[e.start - 1] = e.blocks[e.start - 1]
        /\ e.type = "GetBlocks" =>
              /\ e.from_height + 1 <= Len(from)
              /\ \/ from[e.from_height + 1].hash = e.from_hash
                 \/ /\ e.from_height + 1 <= Len(to)
                    /\ to[e.from_height + 1].hash # e.from_hash}

\* The events that tell of the last block of a chain.
Current(c) ==
    {e \in Event :
        \/ e.type = "NewBlock" /\ e.block.index + 1 = Len(c)
        \/ e.type = "BlocksBatch" /\ Len(e.blocks) = Len(c)}

Kind(types) == {e \in Event : e.type \in types}

Message == Kind({"NewBlock", "GetBlocks", "BlocksBatch", "NewTx", "MempoolTxs"})

\* Some event of a set waits in a queue.
Waiting(q, S) == \E i \in DOMAIN q : q[i] \in S

\* What tells of a connection comes before what is sent over it.
Rank(e) == IF e.type \in {"Closed", "Established"} THEN 0
           ELSE IF e.type = "Subscribed" THEN 1 ELSE 2

Ordered(q) == \A i, j \in DOMAIN q : i <= j => Rank(q[i]) <= Rank(q[j])

\* A node knows its peer to be subscribed unless it is still to be told, and
\* asks it as soon as it knows.
LinkInv(n, m) ==
    /\ Ordered(events[n][m])
    /\ {n, m} \notin links => m \notin topics[n] /\ events[n][m] \in Seq(Kind({"Closed"}))
    /\ {n, m} \in links /\ m \notin topics[n] => Waiting(events[n][m], Kind({"Subscribed"}))
    /\ Waiting(events[n][m], Kind({"Established"}))
          => Waiting(events[n][m], Kind({"Subscribed"}))
    /\ {n, m} \in links /\ m \in topics[n] /\ n \notin topics[m]
          => Waiting(events[m][n], Kind({"GetBlocks"}))

\* Every chain a node has held fits into a message.
AllFit == \A c \in published : Fits(c, 1)

\* A node that is far behind is about to hear of the last block of its peer, while
\* no message is too long.
NewsInv(n, m) ==
    AllFit /\ {n, m} \in links =>
        \/ Len(chain[m]) <= Len(chain[n]) + 1
        \/ Waiting(events[n][m], Kind({"Established", "Subscribed"}))
        \/ Waiting(events[m][n], Kind({"GetBlocks"}))
        \/ Waiting(events[n][m], Current(chain[m]))

TimelyInv(n, m) == events[n][m] \in Seq(Timely(chain[n], chain[m]))

\* No node is its own peer.
SelfInv == \A n \in Node : {n, n} \notin links /\ n \notin topics[n] /\ events[n][n] = <<>>

PairInv ==
    \A n, m \in Node : n # m => LinkInv(n, m) /\ TimelyInv(n, m) /\ NewsInv(n, m)

NewsSpecInv == Inv /\ SelfInv /\ PairInv

\* One of three nodes is one of the other two.
AtMostTwo == \A x, y, z \in Node : x = y \/ y = z \/ x = z

-----------------------------------------------------------------------------
\* Queues in order.

LEMMA TailWaiting ==
    ASSUME NEW S, NEW q \in Seq(S), q # <<>>, NEW T
    PROVE  /\ Waiting(Tail(q), T) => Waiting(q, T)
           /\ Waiting(q, T) /\ Head(q) \notin T => Waiting(Tail(q), T)
PROOF
<1>1. /\ Tail(q) \in Seq(S) /\ Len(q) \in Nat /\ DOMAIN q = 1..Len(q)
      /\ Len(Tail(q)) = Len(q) - 1 /\ DOMAIN Tail(q) = 1..(Len(q) - 1)
      /\ \A i \in 1..(Len(q) - 1) : Tail(q)[i] = q[i + 1]
      /\ Head(q) = q[1]
  BY HeadTailProperties, LenProperties
<1>2. ASSUME Waiting(Tail(q), T) PROVE Waiting(q, T)
  <2>1. PICK i \in 1..(Len(q) - 1) : q[i + 1] \in T
    BY <1>1, <1>2 DEF Waiting
  <2>2. i + 1 \in DOMAIN q
    BY <1>1
  <2> QED
    BY <2>1, <2>2 DEF Waiting
<1>3. ASSUME Waiting(q, T), Head(q) \notin T PROVE Waiting(Tail(q), T)
  <2>1. PICK i \in 1..Len(q) : q[i] \in T
    BY <1>1, <1>3 DEF Waiting
  <2>2. i # 1
    BY <1>1, <1>3, <2>1
  <2>3. i - 1 \in DOMAIN Tail(q) /\ Tail(q)[i - 1] = q[i]
    BY <1>1, <2>2
  <2> QED
    BY <2>1, <2>3 DEF Waiting
<1> QED
  BY <1>2, <1>3

LEMMA ConcatWaiting ==
    ASSUME NEW S, NEW q \in Seq(S), NEW ms \in Seq(S), NEW T
    PROVE  Waiting(q \o ms, T) <=> Waiting(q, T) \/ Waiting(ms, T)
PROOF
<1>1. /\ Len(q) \in Nat /\ DOMAIN q = 1..Len(q)
      /\ Len(ms) \in Nat /\ DOMAIN ms = 1..Len(ms)
      /\ DOMAIN (q \o ms) = 1..(Len(q) + Len(ms))
      /\ \A i \in 1..(Len(q) + Len(ms)) :
            (q \o ms)[i] = IF i <= Len(q) THEN q[i] ELSE ms[i - Len(q)]
  BY ConcatProperties, LenProperties
<1>2. ASSUME Waiting(q \o ms, T) PROVE Waiting(q, T) \/ Waiting(ms, T)
  <2>1. PICK i \in 1..(Len(q) + Len(ms)) : (q \o ms)[i] \in T
    BY <1>1, <1>2 DEF Waiting
  <2>2. CASE i <= Len(q)
    BY <1>1, <2>1, <2>2 DEF Waiting
  <2>3. CASE ~(i <= Len(q))
    <3>1. i - Len(q) \in DOMAIN ms /\ ms[i - Len(q)] \in T
      BY <1>1, <2>1, <2>3
    <3> QED
      BY <3>1 DEF Waiting
  <2> QED
    BY <2>2, <2>3
<1>3. ASSUME Waiting(q, T) PROVE Waiting(q \o ms, T)
  <2>1. PICK i \in 1..Len(q) : q[i] \in T
    BY <1>1, <1>3 DEF Waiting
  <2>2. i \in 1..(Len(q) + Len(ms)) /\ i <= Len(q)
    BY <1>1
  <2> QED
    BY <1>1, <2>1, <2>2 DEF Waiting
<1>4. ASSUME Waiting(ms, T) PROVE Waiting(q \o ms, T)
  <2>1. PICK i \in 1..Len(ms) : ms[i] \in T
    BY <1>1, <1>4 DEF Waiting
  <2>2. /\ Len(q) + i \in 1..(Len(q) + Len(ms)) /\ ~(Len(q) + i <= Len(q))
        /\ (Len(q) + i) - Len(q) = i
    BY <1>1
  <2>3. (q \o ms)[Len(q) + i] = ms[i]
    BY <1>1, <2>2
  <2> QED
    BY <1>1, <2>1, <2>2, <2>3 DEF Waiting
<1> QED
  BY <1>2, <1>3, <1>4

LEMMA TailOrdered ==
    ASSUME NEW S, NEW q \in Seq(S), q # <<>>, Ordered(q)
    PROVE  Ordered(Tail(q)) /\ \A i \in DOMAIN q : Rank(Head(q)) <= Rank(q[i])
PROOF
<1>1. /\ Tail(q) \in Seq(S) /\ Len(q) \in Nat /\ Len(q) > 0 /\ DOMAIN q = 1..Len(q)
      /\ DOMAIN Tail(q) = 1..(Len(q) - 1)
      /\ \A i \in 1..(Len(q) - 1) : Tail(q)[i] = q[i + 1]
      /\ Head(q) = q[1]
  BY HeadTailProperties, LenProperties, EmptySeq
<1>2. Ordered(Tail(q))
  <2> SUFFICES ASSUME NEW i \in 1..(Len(q) - 1), NEW j \in 1..(Len(q) - 1), i <= j
               PROVE  Rank(q[i + 1]) <= Rank(q[j + 1])
    BY <1>1 DEF Ordered
  <2>1. i + 1 \in DOMAIN q /\ j + 1 \in DOMAIN q /\ i + 1 <= j + 1
    BY <1>1
  <2> QED
    BY <2>1 DEF Ordered
<1>3. \A i \in DOMAIN q : 1 \in DOMAIN q /\ 1 <= i
  BY <1>1
<1> QED
  BY <1>1, <1>2, <1>3 DEF Ordered

\* A queue with events of the same or a higher rank behind it.
LEMMA ConcatOrdered ==
    ASSUME NEW S, NEW q \in Seq(S), NEW ms \in Seq(S), Ordered(q), Ordered(ms),
           NEW r \in 0..2, \A i \in DOMAIN q : Rank(q[i]) <= r,
           \A i \in DOMAIN ms : r <= Rank(ms[i])
    PROVE  Ordered(q \o ms)
PROOF
<1>1. /\ Len(q) \in Nat /\ DOMAIN q = 1..Len(q)
      /\ Len(ms) \in Nat /\ DOMAIN ms = 1..Len(ms)
      /\ DOMAIN (q \o ms) = 1..(Len(q) + Len(ms))
      /\ \A i \in 1..(Len(q) + Len(ms)) :
            (q \o ms)[i] = IF i <= Len(q) THEN q[i] ELSE ms[i - Len(q)]
  BY ConcatProperties, LenProperties
<1>2. \A e : Rank(e) \in 0..2
  BY DEF Rank
<1> SUFFICES ASSUME NEW i \in DOMAIN (q \o ms), NEW j \in DOMAIN (q \o ms), i <= j
             PROVE  Rank((q \o ms)[i]) <= Rank((q \o ms)[j])
  BY DEF Ordered
<1>3. CASE j <= Len(q)
  <2>1. i \in DOMAIN q /\ j \in DOMAIN q /\ (q \o ms)[i] = q[i] /\ (q \o ms)[j] = q[j]
    BY <1>1, <1>3
  <2> QED
    BY <2>1 DEF Ordered
<1>4. CASE i <= Len(q) /\ ~(j <= Len(q))
  <2>1. /\ i \in DOMAIN q /\ j - Len(q) \in DOMAIN ms
        /\ (q \o ms)[i] = q[i] /\ (q \o ms)[j] = ms[j - Len(q)]
    BY <1>1, <1>4
  <2>2. Rank(q[i]) <= r /\ r <= Rank(ms[j - Len(q)])
    BY <2>1
  <2>3. Rank(q[i]) \in 0..2 /\ Rank(ms[j - Len(q)]) \in 0..2
    BY <1>2
  <2> QED
    BY <2>1, <2>2, <2>3
<1>5. CASE ~(i <= Len(q))
  <2>1. /\ i - Len(q) \in DOMAIN ms /\ j - Len(q) \in DOMAIN ms /\ i - Len(q) <= j - Len(q)
        /\ (q \o ms)[i] = ms[i - Len(q)] /\ (q \o ms)[j] = ms[j - Len(q)]
    BY <1>1, <1>5
  <2> QED
    BY <2>1 DEF Ordered
<1> QED
  BY <1>3, <1>4, <1>5

\* Messages wait behind everything else.
LEMMA MessagesOrdered ==
    ASSUME NEW q \in Seq(Event), Ordered(q), NEW ms \in Seq(Message)
    PROVE  Ordered(q \o ms)
PROOF
<1>1. Message \subseteq Event /\ \A e \in Message : Rank(e) = 2
  BY DEF Message, Kind, Rank
<1>2. ms \in Seq(Event) /\ \A i \in DOMAIN ms : Rank(ms[i]) = 2
  <2>1. \A i \in DOMAIN ms : ms[i] \in Message
    BY ElementOfSeq, LenProperties
  <2> QED
    BY <1>1, <2>1, SeqWidens
<1>3. Ordered(ms)
  BY <1>2 DEF Ordered
<1>4. \A i \in DOMAIN q : Rank(q[i]) <= 2
  BY DEF Rank
<1> QED
  BY <1>2, <1>3, <1>4, ConcatOrdered

-----------------------------------------------------------------------------
\* What waits stays timely: when a chain grows,
LEMMA GrowthKeepsTimely ==
    ASSUME NEW own \in Seq(Block), NEW new \in Seq(Block), NEW other \in Seq(Block),
           Within(own, new)
    PROVE  Timely(own, other) \subseteq Timely(new, other)
             /\ Timely(other, own) \subseteq Timely(other, new)
PROOF
<1>1. /\ Len(own) \in Nat /\ Len(new) \in Nat /\ Len(other) \in Nat
      /\ Len(own) <= Len(new) /\ \A k \in 1..Len(own) : new[k] = own[k]
  BY DEF Within
<1>2. ASSUME NEW e \in Timely(own, other) PROVE e \in Timely(new, other)
  <2>1. e \in Event
    BY <1>2 DEF Timely
  <2>2. CASE e.type = "BlocksBatch"
    <3>1. e.start \in Nat /\ e.blocks \in Seq(Block) /\ Len(e.blocks) \in Nat
      BY <2>1, <2>2, EventHolds
    <3>2. /\ Len(e.blocks) <= Len(other)
          /\ e.start <= Len(own) + 1
          /\ \/ Len(e.blocks) <= Len(own)
             \/ /\ Within(e.blocks, other)
                /\ e.start > 1 => own[e.start - 1] = e.blocks[e.start - 1]
      BY <1>2, <2>2 DEF Timely
    <3>3. e.start > 1 => e.start - 1 \in 1..Len(own)
      BY <1>1, <3>1, <3>2
    <3>4. /\ e.start <= Len(new) + 1
          /\ Len(e.blocks) <= Len(own) => Len(e.blocks) <= Len(new)
          /\ e.start > 1 => new[e.start - 1] = own[e.start - 1]
      BY <1>1, <3>1, <3>2, <3>3
    <3> QED
      BY <2>1, <2>2, <3>2, <3>4 DEF Timely
  <2>3. CASE e.type = "GetBlocks"
    <3>1. e.from_height \in Nat
      BY <2>1, <2>3, EventHolds
    <3>2. /\ e.from_height + 1 <= Len(other)
          /\ \/ other[e.from_height + 1].hash = e.from_hash
             \/ /\ e.from_height + 1 <= Len(own)
                /\ own[e.from_height + 1].hash # e.from_hash
      BY <1>2, <2>3 DEF Timely
    <3>3. e.from_height + 1 <= Len(own) =>
             e.from_height + 1 <= Len(new) /\ new[e.from_height + 1] = own[e.from_height + 1]
      BY <1>1, <3>1
    <3> QED
      BY <2>1, <2>3, <3>2, <3>3 DEF Timely
  <2>4. CASE e.type \notin {"BlocksBatch", "GetBlocks"}
    BY <1>2, <2>1, <2>4 DEF Timely
  <2> QED
    BY <2>2, <2>3, <2>4
<1>3. ASSUME NEW e \in Timely(other, own) PROVE e \in Timely(other, new)
  <2>1. e \in Event
    BY <1>3 DEF Timely
  <2>2. CASE e.type = "BlocksBatch"
    <3>1. Len(e.blocks) \in Nat
      BY <2>1, <2>2, EventHolds
    <3>2. /\ Len(e.blocks) <= Len(own)
          /\ e.start <= Len(other) + 1
          /\ \/ Len(e.blocks) <= Len(other)
             \/ /\ Within(e.blocks, own)
                /\ e.start > 1 => other[e.start - 1] = e.blocks[e.start - 1]
      BY <1>3, <2>2 DEF Timely
    <3>3. Len(e.blocks) <= Len(new)
      BY <1>1, <3>1, <3>2
    <3>4. Within(e.blocks, own) => Within(e.blocks, new)
      BY <1>1, <3>1 DEF Within
    <3> QED
      BY <2>1, <2>2, <3>2, <3>3, <3>4 DEF Timely
  <2>3. CASE e.type = "GetBlocks"
    <3>1. e.from_height \in Nat
      BY <2>1, <2>3, EventHolds
    <3>2. /\ e.from_height + 1 <= Len(own)
          /\ \/ own[e.from_height + 1].hash = e.from_hash
             \/ /\ e.from_height + 1 <= Len(other)
                /\ other[e.from_height + 1].hash # e.from_hash
      BY <1>3, <2>3 DEF Timely
    <3>3. e.from_height + 1 <= Len(new) /\ new[e.from_height + 1] = own[e.from_height + 1]
      BY <1>1, <3>1, <3>2
    <3> QED
      BY <2>1, <2>3, <3>2, <3>3 DEF Timely
  <2>4. CASE e.type = "NewBlock"
    <3>1. e.block.index \in Nat /\ e.block.index < Len(own)
      BY <1>3, <2>1, <2>4, EventHolds DEF Timely, Block
    <3>2. e.block.index < Len(new)
      BY <1>1, <3>1
    <3> QED
      BY <2>1, <2>4, <3>2 DEF Timely
  <2>5. CASE e.type \notin {"BlocksBatch", "GetBlocks", "NewBlock"}
    BY <1>3, <2>1, <2>5 DEF Timely
  <2> QED
    BY <2>2, <2>3, <2>4, <2>5
<1> QED
  BY <1>2, <1>3

\* and when it is replaced by a longer part of the chain of the peer.
LEMMA AdoptionKeepsTimely ==
    ASSUME NEW own \in Seq(Block), NEW new \in Seq(Block), NEW other \in Seq(Block),
           Len(own) < Len(new), Within(new, other)
    PROVE  Timely(own, other) \subseteq Timely(new, other)
             /\ Timely(other, own) \subseteq Timely(other, new)
PROOF
<1>1. /\ Len(own) \in Nat /\ Len(new) \in Nat /\ Len(other) \in Nat
      /\ Len(new) <= Len(other) /\ \A k \in 1..Len(new) : new[k] = other[k]
  BY DEF Within
<1>2. ASSUME NEW e \in Timely(own, other) PROVE e \in Timely(new, other)
  <2>1. e \in Event
    BY <1>2 DEF Timely
  <2>2. CASE e.type = "BlocksBatch"
    <3>1. e.start \in Nat /\ e.blocks \in Seq(Block) /\ Len(e.blocks) \in Nat
      BY <2>1, <2>2, EventHolds
    <3>2. /\ Len(e.blocks) <= Len(other)
          /\ e.start <= Len(own) + 1
          /\ \/ Len(e.blocks) <= Len(own)
             \/ Within(e.blocks, other)
      BY <1>2, <2>2 DEF Timely
    <3>3. e.start <= Len(new) + 1
      BY <1>1, <3>1, <3>2
    <3>4. CASE Len(e.blocks) <= Len(new)
      BY <2>1, <2>2, <3>2, <3>3, <3>4 DEF Timely
    <3>5. CASE ~(Len(e.blocks) <= Len(new))
      <4>1. Within(e.blocks, other)
        BY <1>1, <3>1, <3>2, <3>5
      <4>2. ASSUME e.start > 1 PROVE new[e.start - 1] = e.blocks[e.start - 1]
        <5>1. e.start - 1 \in 1..Len(new) /\ e.start - 1 \in 1..Len(e.blocks)
          BY <1>1, <3>1, <3>2, <3>5, <4>2
        <5> QED
          BY <1>1, <4>1, <5>1 DEF Within
      <4> QED
        BY <2>1, <2>2, <3>2, <3>3, <4>1, <4>2 DEF Timely
    <3> QED
      BY <3>4, <3>5
  <2>3. CASE e.type = "GetBlocks"
    <3>1. e.from_height \in Nat
      BY <2>1, <2>3, EventHolds
    <3>2. /\ e.from_height + 1 <= Len(other)
          /\ \/ other[e.from_height + 1].hash = e.from_hash
             \/ e.from_height + 1 <= Len(own)
      BY <1>2, <2>3 DEF Timely
    <3>3. e.from_height + 1 <= Len(own) =>
             /\ e.from_height + 1 <= Len(new)
             /\ new[e.from_height + 1] = other[e.from_height + 1]
      BY <1>1, <3>1
    <3> QED
      BY <2>1, <2>3, <3>2, <3>3 DEF Timely
  <2>4. CASE e.type \notin {"BlocksBatch", "GetBlocks"}
    BY <1>2, <2>1, <2>4 DEF Timely
  <2> QED
    BY <2>2, <2>3, <2>4
<1>3. ASSUME NEW e \in Timely(other, own) PROVE e \in Timely(other, new)
  <2>1. e \in Event
    BY <1>3 DEF Timely
  <2>2. CASE e.type = "BlocksBatch"
    <3>1. Len(e.blocks) \in Nat
      BY <2>1, <2>2, EventHolds
    <3>2. Len(e.blocks) <= Len(own) /\ e.start <= Len(other) + 1
      BY <1>3, <2>2 DEF Timely
    <3>3. Len(e.blocks) <= Len(new) /\ Len(e.blocks) <= Len(other)
      BY <1>1, <3>1, <3>2
    <3> QED
      BY <2>1, <2>2, <3>2, <3>3 DEF Timely
  <2>3. CASE e.type = "GetBlocks"
    <3>1. e.from_height \in Nat
      BY <2>1, <2>3, EventHolds
    <3>2. e.from_height + 1 <= Len(own)
      BY <1>3, <2>3 DEF Timely
    <3>3. /\ e.from_height + 1 <= Len(new) /\ e.from_height + 1 <= Len(other)
          /\ new[e.from_height + 1] = other[e.from_height + 1]
      BY <1>1, <3>1, <3>2
    <3> QED
      BY <2>1, <2>3, <3>3 DEF Timely
  <2>4. CASE e.type = "NewBlock"
    <3>1. e.block.index \in Nat /\ e.block.index < Len(own)
      BY <1>3, <2>1, <2>4, EventHolds DEF Timely, Block
    <3>2. e.block.index < Len(new)
      BY <1>1, <3>1
    <3> QED
      BY <2>1, <2>4, <3>2 DEF Timely
  <2>5. CASE e.type \notin {"BlocksBatch", "GetBlocks", "NewBlock"}
    BY <1>3, <2>1, <2>5 DEF Timely
  <2> QED
    BY <2>2, <2>3, <2>4, <2>5
<1> QED
  BY <1>2, <1>3

-----------------------------------------------------------------------------
\* What fits whole fits in parts, and did before more was held.
LEMMA PartFits ==
    ASSUME AllFit, NEW c \in published, Len(c) \in Nat, NEW s \in Nat, s >= 1
    PROVE  Fits(c, s)
PROOF
  BY NodeSyncAssumption DEF AllFit, Fits

LEMMA FitBefore == published \subseteq published' /\ AllFit' => AllFit
PROOF
  BY DEF AllFit, Fits

\* A step of node n, whose peer is m: it may take an event from its queue, and
\* sends some messages.
Takes(n, m) == events[n][m] # <<>> /\ events'[n][m] = Tail(events[n][m])

Acts(n, m, ms) ==
    /\ ms \in Seq(Message)
    /\ links' = links
    /\ topics'[m] = topics[m]
    /\ \/ topics'[n] = topics[n] /\ events'[n][m] = events[n][m]
       \/ /\ Takes(n, m)
          /\ Head(events[n][m]).type # "Subscribed"
          /\ topics'[n] = topics[n]
       \/ /\ Takes(n, m)
          /\ Head(events[n][m]).type = "Subscribed"
          /\ topics'[n] = topics[n] \cup {m}
          /\ Waiting(ms, Kind({"GetBlocks"}))
    /\ events'[m][n] = IF m \in topics'[n] THEN events[m][n] \o ms ELSE events[m][n]

\* What waits before and after such a step.
LEMMA ActsWaiting ==
    ASSUME Inv, NEW n \in Node, NEW m \in Node, NEW ms, Acts(n, m, ms), NEW T
    PROVE  /\ events[n][m] \in Seq(Event) /\ events[m][n] \in Seq(Event) /\ ms \in Seq(Event)
           /\ Waiting(events'[n][m], T) => Waiting(events[n][m], T)
           /\ Waiting(events[n][m], T) =>
                 \/ Waiting(events'[n][m], T)
                 \/ Takes(n, m) /\ Head(events[n][m]) \in T
           /\ Waiting(events[m][n], T) => Waiting(events'[m][n], T)
           /\ Waiting(events'[m][n], T) => Waiting(events[m][n], T) \/ Waiting(ms, T)
           /\ m \in topics'[n] /\ Waiting(ms, T) => Waiting(events'[m][n], T)
PROOF
<1>1. /\ events[n][m] \in Seq(Event) /\ events[m][n] \in Seq(Event)
      /\ ms \in Seq(Event)
  <2>1. Message \subseteq Event
    BY DEF Message, Kind
  <2> QED
    BY <2>1, SeqWidens DEF Acts, Inv, TypeOK
<1>2. events'[n][m] = events[n][m] \/ Takes(n, m)
  BY DEF Acts
<1>3. ASSUME Takes(n, m)
      PROVE  /\ Waiting(events'[n][m], T) => Waiting(events[n][m], T)
             /\ Waiting(events[n][m], T) /\ Head(events[n][m]) \notin T
                   => Waiting(events'[n][m], T)
  BY <1>1, <1>3, TailWaiting DEF Takes
<1>4. events'[m][n] = IF m \in topics'[n] THEN events[m][n] \o ms ELSE events[m][n]
  BY DEF Acts
<1>5. Waiting(events[m][n] \o ms, T) <=> Waiting(events[m][n], T) \/ Waiting(ms, T)
  BY <1>1, ConcatWaiting
<1> QED
  BY <1>1, <1>2, <1>3, <1>4, <1>5

\* The ranks of what waits.
LEMMA RankOrder ==
    ASSUME NEW q \in Seq(Event), q # <<>>, Ordered(q)
    PROVE  /\ Head(q) \in Event
           /\ Head(q).type = "Subscribed" => ~Waiting(q, Kind({"Established"}))
           /\ Head(q) \in Message => ~Waiting(q, Kind({"Established", "Subscribed"}))
                                     /\ ~Waiting(q, Kind({"Subscribed"}))
PROOF
<1>1. Head(q) \in Event /\ \A i \in DOMAIN q : Rank(Head(q)) <= Rank(q[i])
  BY HeadTailProperties, TailOrdered
<1>2. Head(q).type = "Subscribed" => Rank(Head(q)) = 1
  BY DEF Rank
<1>3. Head(q) \in Message => Rank(Head(q)) = 2
  BY DEF Rank, Message, Kind
<1>4. /\ \A e \in Kind({"Established"}) : Rank(e) = 0
      /\ \A e \in Kind({"Subscribed"}) : Rank(e) = 1
      /\ \A e \in Kind({"Established", "Subscribed"}) : Rank(e) \in {0, 1}
  BY DEF Rank, Kind
<1> QED
  BY <1>1, <1>2, <1>3, <1>4 DEF Waiting

\* No message is of these kinds.
LEMMA MessagesOnly ==
    ASSUME NEW ms \in Seq(Message)
    PROVE  ~Waiting(ms, Kind({"Established"})) /\ ~Waiting(ms, Kind({"Subscribed"}))
PROOF
<1>1. \A i \in DOMAIN ms : ms[i] \in Message
  BY ElementOfSeq, LenProperties
<1> QED
  BY <1>1 DEF Waiting, Message, Kind

LEMMA ActsLink ==
    ASSUME Inv, NEW n \in Node, NEW m \in Node, n # m, LinkInv(n, m), LinkInv(m, n),
           NEW ms, Acts(n, m, ms)
    PROVE  LinkInv(n, m)' /\ LinkInv(m, n)'
PROOF
<1> DEFINE q == events[n][m]
           r == events[m][n]
           Sub == Kind({"Subscribed"})
           Est == Kind({"Established"})
           Get == Kind({"GetBlocks"})
           Cls == Kind({"Closed"})
<1>1. /\ links' = links /\ topics'[m] = topics[m] /\ ms \in Seq(Message)
      /\ m \in topics[n] => m \in topics'[n]
      /\ (m \in topics'[n] /\ m \notin topics[n]) =>
            (Takes(n, m) /\ Head(q).type = "Subscribed" /\ Waiting(ms, Get))
      /\ (Takes(n, m) /\ Head(q).type = "Subscribed") =>
            (m \in topics'[n] \/ events'[n][m] = events[n][m])
  BY DEF Acts
<1>2. q \in Seq(Event) /\ r \in Seq(Event) /\ {m, n} = {n, m}
  BY ActsWaiting
<1>3. Ordered(events'[n][m]) /\ Ordered(events'[m][n])
  <2>1. Ordered(q) /\ Ordered(r)
    BY DEF LinkInv
  <2>2. Takes(n, m) => Ordered(Tail(q))
    BY <1>2, <2>1, TailOrdered DEF Takes
  <2>3. Ordered(r \o ms)
    BY <1>1, <1>2, <2>1, MessagesOrdered
  <2> QED
    BY <2>1, <2>2, <2>3 DEF Acts, Takes
<1>4. ASSUME {n, m} \notin links
      PROVE  /\ m \notin topics'[n] /\ events'[n][m] \in Seq(Cls)
             /\ n \notin topics'[m] /\ events'[m][n] \in Seq(Cls)
  <2>1. m \notin topics[n] /\ q \in Seq(Cls) /\ n \notin topics[m] /\ r \in Seq(Cls)
    BY <1>2, <1>4 DEF LinkInv
  <2>2. q # <<>> => Tail(q) \in Seq(Cls) /\ Head(q) \in Cls
    BY <2>1, HeadTailProperties
  <2>3. m \notin topics'[n]
    BY <1>1, <2>1, <2>2 DEF Takes, Kind
  <2> QED
    BY <1>1, <2>1, <2>2, <2>3 DEF Acts, Takes
<1>5. ASSUME {n, m} \in links, m \notin topics'[n] PROVE Waiting(events'[n][m], Sub)
  <2>1. Waiting(q, Sub)
    BY <1>1, <1>5 DEF LinkInv
  <2>2. events'[n][m] = q \/ ~Takes(n, m) \/ Head(q) \notin Sub
    BY <1>1, <1>5 DEF Kind
  <2> HIDE DEF Sub, q
  <2> QED
    BY <2>1, <2>2, ActsWaiting DEF q
<1>6. ASSUME {n, m} \in links, n \notin topics'[m] PROVE Waiting(events'[m][n], Sub)
  <2>1. Waiting(r, Sub)
    BY <1>1, <1>2, <1>6 DEF LinkInv
  <2> QED
    BY <2>1, ActsWaiting
<1>7. ASSUME Waiting(events'[n][m], Est) PROVE Waiting(events'[n][m], Sub)
  <2>1. Waiting(q, Est)
    BY <1>7, ActsWaiting
  <2>2. Waiting(q, Sub)
    BY <2>1 DEF LinkInv
  <2>3. Takes(n, m) => Head(q) \notin Sub
    <3>1. ASSUME Takes(n, m) PROVE Head(q).type # "Subscribed"
      BY <1>2, <2>1, <3>1, RankOrder DEF Takes, LinkInv
    <3> QED
      BY <3>1 DEF Kind
  <2> HIDE DEF Sub, q
  <2> QED
    BY <2>2, <2>3, ActsWaiting DEF q
<1>8. ASSUME Waiting(events'[m][n], Est) PROVE Waiting(events'[m][n], Sub)
  <2>1. Waiting(r, Est)
    BY <1>1, <1>8, ActsWaiting, MessagesOnly
  <2>2. Waiting(r, Sub)
    BY <2>1 DEF LinkInv
  <2> QED
    BY <2>2, ActsWaiting
<1>9. ASSUME {n, m} \in links, m \in topics'[n], n \notin topics'[m]
      PROVE  Waiting(events'[m][n], Get)
  <2>1. CASE m \in topics[n]
    <3>1. Waiting(r, Get)
      BY <1>1, <1>9, <2>1 DEF LinkInv
    <3> QED
      BY <3>1, ActsWaiting
  <2>2. CASE m \notin topics[n]
    <3>1. Waiting(ms, Get)
      BY <1>1, <1>9, <2>2
    <3> QED
      BY <1>9, <3>1, ActsWaiting
  <2> QED
    BY <2>1, <2>2
<1>10. ASSUME {n, m} \in links, n \in topics'[m], m \notin topics'[n]
       PROVE  Waiting(events'[n][m], Get)
  <2>1. Waiting(q, Get) /\ Waiting(q, Sub)
    BY <1>1, <1>2, <1>10 DEF LinkInv
  <2>2. Takes(n, m) => Head(q) \notin Get
    <3>1. ASSUME Takes(n, m) PROVE Head(q) \notin Message
      BY <1>2, <2>1, <3>1, RankOrder DEF Takes, LinkInv
    <3> QED
      BY <3>1 DEF Kind, Message
  <2> HIDE DEF Get, q
  <2> QED
    BY <2>1, <2>2, ActsWaiting DEF q
<1> HIDE DEF q, r, Sub, Est, Get, Cls
<1>11. LinkInv(n, m)'
  BY <1>1, <1>3, <1>4, <1>5, <1>7, <1>9 DEF LinkInv, Sub, Est, Get, Cls
<1>12. LinkInv(m, n)'
  BY <1>1, <1>2, <1>3, <1>4, <1>6, <1>8, <1>10 DEF LinkInv, Sub, Est, Get, Cls
<1> QED
  BY <1>11, <1>12

\* Such a step keeps what waits timely if its chain only grows, or becomes a
\* longer part of the chain of the peer.
LEMMA ActsTimely ==
    ASSUME Inv, NEW n \in Node, NEW m \in Node, n # m, TimelyInv(n, m), TimelyInv(m, n),
           NEW ms, Acts(n, m, ms), ms \in Seq(Timely(chain[m], chain'[n])),
           chain'[m] = chain[m], chain'[n] \in Seq(Block),
           \/ Within(chain[n], chain'[n])
           \/ Len(chain[n]) < Len(chain'[n]) /\ Within(chain'[n], chain[m])
    PROVE  TimelyInv(n, m)' /\ TimelyInv(m, n)'
PROOF
<1> DEFINE own == chain[n]
           new == chain'[n]
           other == chain[m]
<1>1. own \in Seq(Block) /\ new \in Seq(Block) /\ other \in Seq(Block)
  BY DEF Inv, TypeOK
<1>2. events[n][m] \in Seq(Timely(own, other)) /\ events[m][n] \in Seq(Timely(other, own))
  BY DEF TimelyInv
<1>3. \/ Within(own, new)
      \/ Len(own) < Len(new) /\ Within(new, other)
  OBVIOUS
<1>4. ms \in Seq(Timely(other, new))
  OBVIOUS
<1> HIDE DEF own, new, other
<1>5. /\ Timely(own, other) \subseteq Timely(new, other)
      /\ Timely(other, own) \subseteq Timely(other, new)
  BY <1>1, <1>3, GrowthKeepsTimely, AdoptionKeepsTimely
<1>6. events[n][m] \in Seq(Timely(new, other)) /\ events[m][n] \in Seq(Timely(other, new))
  BY <1>2, <1>5, SeqWidens
<1>7. events[n][m] # <<>> => Tail(events[n][m]) \in Seq(Timely(new, other))
  BY <1>6, HeadTailProperties
<1>8. events[m][n] \o ms \in Seq(Timely(other, new))
  BY <1>4, <1>6, ConcatProperties
<1>9. /\ events'[n][m] \in Seq(Timely(new, other))
      /\ events'[m][n] \in Seq(Timely(other, new))
  BY <1>6, <1>7, <1>8 DEF Acts, Takes
<1> QED
  BY <1>9 DEF TimelyInv, new, other

\* It leaves the node that takes it with news if the event it took was not the
\* last news, or made the node ask or catch up.
LEMMA ActsNewsOwn ==
    ASSUME Inv, NEW n \in Node, NEW m \in Node, n # m, LinkInv(n, m), LinkInv(m, n),
           NewsInv(n, m), NEW ms, Acts(n, m, ms), published \subseteq published',
           chain'[m] = chain[m], chain'[n] \in Seq(Block), Len(chain[n]) <= Len(chain'[n]),
           Takes(n, m) /\ {n, m} \in links /\ Head(events[n][m]) \in Current(chain[m]) =>
              \/ Len(chain[m]) <= Len(chain'[n]) + 1
              \/ Waiting(ms, Kind({"GetBlocks"})) /\ m \in topics[n]
    PROVE  NewsInv(n, m)'
PROOF
<1> DEFINE q == events[n][m]
           r == events[m][n]
           Get == Kind({"GetBlocks"})
           Sub == Kind({"Subscribed"})
           New == Kind({"Established", "Subscribed"})
           Cur == Current(chain[m])
<1>1. links' = links /\ (m \in topics[n] => m \in topics'[n])
  BY DEF Acts
<1> SUFFICES ASSUME {n, m} \in links, AllFit'
             PROVE  \/ Len(chain[m]) <= Len(chain'[n]) + 1
                    \/ Waiting(events'[n][m], New)
                    \/ Waiting(events'[m][n], Get)
                    \/ Waiting(events'[n][m], Cur)
  BY <1>1 DEF NewsInv
<1>2. /\ Len(chain[n]) \in Nat /\ Len(chain[m]) \in Nat /\ Len(chain'[n]) \in Nat
      /\ q \in Seq(Event)
  BY ActsWaiting DEF Inv, TypeOK
<1>3. Waiting(ms, Get) /\ m \in topics'[n] => Waiting(events'[m][n], Get)
  BY ActsWaiting
<1>4. CASE Len(chain[m]) <= Len(chain[n]) + 1
  BY <1>2, <1>4
<1>5. CASE Waiting(q, New)
  <2>1. CASE Waiting(events'[n][m], New)
    BY <2>1
  <2>2. CASE ~Waiting(events'[n][m], New)
    <3>1. Takes(n, m) /\ Head(q) \in New
      BY <1>5, <2>2, ActsWaiting
    <3>2. CASE Head(q).type = "Subscribed"
      <4>1. (Waiting(ms, Get) /\ m \in topics'[n]) \/ events'[n][m] = q
        BY <3>1, <3>2 DEF Acts
      <4> QED
        BY <1>3, <1>5, <4>1
    <3>3. CASE Head(q).type # "Subscribed"
      <4>1. Head(q).type = "Established"
        BY <3>1, <3>3 DEF Kind
      <4>2. Waiting(q, Kind({"Established"}))
        <5>1. Head(q) = q[1] /\ 1 \in DOMAIN q /\ Head(q) \in Event
          BY <1>2, <3>1, HeadTailProperties, LenProperties, EmptySeq DEF Takes
        <5> QED
          BY <4>1, <5>1 DEF Waiting, Kind
      <4>3. Waiting(q, Sub)
        BY <4>2 DEF LinkInv
      <4>4. Head(q) \notin Sub
        BY <4>1 DEF Kind
      <4>5. Waiting(events'[n][m], Sub)
        BY <4>3, <4>4, ActsWaiting
      <4> QED
        BY <4>5 DEF Waiting, Kind
    <3> QED
      BY <3>2, <3>3
  <2> QED
    BY <2>1, <2>2
<1>6. CASE Waiting(r, Get)
  BY <1>6, ActsWaiting
<1>7. CASE Waiting(q, Cur)
  <2>1. CASE Waiting(events'[n][m], Cur)
    BY <2>1
  <2>2. CASE ~Waiting(events'[n][m], Cur)
    <3>1. Takes(n, m) /\ Head(q) \in Cur
      BY <1>7, <2>2, ActsWaiting
    <3>2. \/ Len(chain[m]) <= Len(chain'[n]) + 1
          \/ Waiting(ms, Get) /\ m \in topics[n]
      BY <3>1
    <3> QED
      BY <1>1, <1>3, <3>2
  <2> QED
    BY <2>1, <2>2
<1> QED
  BY <1>4, <1>5, <1>6, <1>7, FitBefore DEF NewsInv

\* It leaves the peer with news if the chain is told of, or is one the peer has
\* held, and if a request is answered.
LEMMA ActsNewsPeer ==
    ASSUME Inv, NEW n \in Node, NEW m \in Node, n # m, LinkInv(n, m), LinkInv(m, n),
           NewsInv(m, n), NEW ms, Acts(n, m, ms), chain'[m] = chain[m],
           published \subseteq published',
           \/ {n, m} \in links /\ Len(chain'[n]) <= Len(chain[m]) + 1
           \/ events'[n][m] = events[n][m] /\ (AllFit' => Waiting(ms, Current(chain'[n])))
           \/ /\ chain'[n] = chain[n]
              /\ AllFit /\ Takes(n, m) /\ {n, m} \in links
                    /\ Head(events[n][m]).type = "GetBlocks" =>
                    \/ Len(chain[n]) <= Len(chain[m]) + 1
                    \/ Waiting(ms, Current(chain[n])) /\ m \in topics[n]
    PROVE  NewsInv(m, n)'
PROOF
<1>0. ASSUME NEW T, Waiting(events[m][n], T)
      PROVE  Waiting(events'[m][n], T)
  BY <1>0, ActsWaiting
<1> DEFINE q == events[n][m]
           r == events[m][n]
           Get == Kind({"GetBlocks"})
           Sub == Kind({"Subscribed"})
           New == Kind({"Established", "Subscribed"})
           Cur == Current(chain'[n])
<1>1. /\ links' = links /\ (m \in topics[n] => m \in topics'[n])
      /\ {m, n} = {n, m}
  BY DEF Acts
<1> SUFFICES ASSUME {n, m} \in links, AllFit'
             PROVE  \/ Len(chain'[n]) <= Len(chain[m]) + 1
                    \/ Waiting(events'[m][n], New)
                    \/ Waiting(events'[n][m], Get)
                    \/ Waiting(events'[m][n], Cur)
  BY <1>1 DEF NewsInv
<1>2. Waiting(ms, Cur) /\ m \in topics'[n] => Waiting(events'[m][n], Cur)
  BY ActsWaiting
<1>3. CASE events'[n][m] = q /\ Waiting(ms, Cur)
  <2>1. CASE m \in topics'[n]
    BY <1>2, <1>3, <2>1
  <2>2. CASE m \notin topics'[n]
    <3>1. m \notin topics[n]
      BY <1>1, <2>2
    <3>2. CASE n \in topics[m]
      <4>1. Waiting(q, Get)
        BY <1>1, <3>1, <3>2 DEF LinkInv
      <4> QED
        BY <1>3, <4>1
    <3>3. CASE n \notin topics[m]
      <4>1. Waiting(r, Sub)
        BY <1>1, <3>3 DEF LinkInv
      <4>2. Waiting(events'[m][n], Sub)
        BY <4>1, ActsWaiting
      <4> QED
        BY <4>2 DEF Waiting, Kind
    <3> QED
      BY <3>2, <3>3
  <2> QED
    BY <2>1, <2>2
<1>4. CASE /\ chain'[n] = chain[n]
           /\ AllFit /\ Takes(n, m) /\ {n, m} \in links /\ Head(q).type = "GetBlocks" =>
                 \/ Len(chain[n]) <= Len(chain[m]) + 1
                 \/ Waiting(ms, Current(chain[n])) /\ m \in topics[n]
  <2>1. CASE Waiting(r, New) \/ Waiting(r, Cur)
    BY <1>0, <2>1
  <2>2. CASE Waiting(q, Get)
    <3>1. CASE Waiting(events'[n][m], Get)
      BY <3>1
    <3>2. CASE ~Waiting(events'[n][m], Get)
      <4>1. Takes(n, m) /\ Head(q) \in Get
        BY <2>2, <3>2, ActsWaiting
      <4>2. \/ Len(chain[n]) <= Len(chain[m]) + 1
            \/ Waiting(ms, Current(chain[n])) /\ m \in topics[n]
        BY <1>4, <4>1, FitBefore DEF Kind
      <4> QED
        BY <1>1, <1>2, <1>4, <4>2
    <3> QED
      BY <3>1, <3>2
  <2>3. CASE Len(chain[n]) <= Len(chain[m]) + 1
    BY <1>4, <2>3
  <2> QED
    BY <1>1, <1>4, <2>1, <2>2, <2>3, FitBefore DEF NewsInv
<1> QED
  BY <1>3, <1>4

-----------------------------------------------------------------------------
\* The steps of a node, one by one.

Pair(n, m) ==
    /\ LinkInv(n, m) /\ LinkInv(m, n)
    /\ TimelyInv(n, m) /\ TimelyInv(m, n)
    /\ NewsInv(n, m) /\ NewsInv(m, n)

\* A step that leaves the chains alone.
LEMMA QuietActs ==
    ASSUME Inv, NEW n \in Node, NEW m \in Node, n # m, Pair(n, m), NEW ms, Acts(n, m, ms),
           chain' = chain, published' = published, ms \in Seq(Timely(chain[m], chain[n])),
           Takes(n, m) /\ {n, m} \in links /\ Head(events[n][m]) \in Current(chain[m]) =>
              \/ Len(chain[m]) <= Len(chain[n]) + 1
              \/ Waiting(ms, Kind({"GetBlocks"})) /\ m \in topics[n],
           AllFit /\ Takes(n, m) /\ {n, m} \in links
                /\ Head(events[n][m]).type = "GetBlocks" =>
              \/ Len(chain[n]) <= Len(chain[m]) + 1
              \/ Waiting(ms, Current(chain[n])) /\ m \in topics[n]
    PROVE  Pair(n, m)'
PROOF
<1>1. /\ chain'[m] = chain[m] /\ chain'[n] = chain[n] /\ chain'[n] \in Seq(Block)
      /\ Len(chain[n]) <= Len(chain'[n]) /\ Within(chain[n], chain'[n])
      /\ ms \in Seq(Timely(chain[m], chain'[n]))
  BY DEF Inv, TypeOK, Within
<1>2. LinkInv(n, m)' /\ LinkInv(m, n)'
  BY ActsLink DEF Pair
<1>3. TimelyInv(n, m)' /\ TimelyInv(m, n)'
  BY <1>1, ActsTimely DEF Pair
<1>4. NewsInv(n, m)'
  BY <1>1, ActsNewsOwn DEF Pair
<1>5. NewsInv(m, n)'
  BY <1>1, ActsNewsPeer DEF Pair
<1> QED
  BY <1>2, <1>3, <1>4, <1>5 DEF Pair

\* A step whose chain grows.
LEMMA GrowthActs ==
    ASSUME Inv, NEW n \in Node, NEW m \in Node, n # m, Pair(n, m), NEW ms, Acts(n, m, ms),
           chain'[m] = chain[m], chain'[n] \in Seq(Block), Len(chain[n]) < Len(chain'[n]),
           Within(chain[n], chain'[n]) \/ Within(chain'[n], chain[m]),
           ms \in Seq(Timely(chain[m], chain'[n])),
           Takes(n, m) /\ {n, m} \in links /\ Head(events[n][m]) \in Current(chain[m]) =>
              Len(chain[m]) <= Len(chain'[n]) + 1,
           published \subseteq published',
           \/ {n, m} \in links /\ Len(chain'[n]) <= Len(chain[m]) + 1
           \/ events'[n][m] = events[n][m] /\ (AllFit' => Waiting(ms, Current(chain'[n])))
    PROVE  Pair(n, m)'
PROOF
<1>1. Len(chain[n]) <= Len(chain'[n])
  BY DEF Inv, TypeOK
<1>2. LinkInv(n, m)' /\ LinkInv(m, n)'
  BY ActsLink DEF Pair
<1>3. TimelyInv(n, m)' /\ TimelyInv(m, n)'
  BY ActsTimely DEF Pair
<1>4. NewsInv(n, m)'
  BY <1>1, ActsNewsOwn DEF Pair
<1>5. NewsInv(m, n)'
  BY ActsNewsPeer DEF Pair
<1> QED
  BY <1>2, <1>3, <1>4, <1>5 DEF Pair

\* How sending and handling act.
LEMMA SentActs ==
    ASSUME Inv, SelfInv, NEW n \in Node, NEW m \in Node, n # m, NEW ms \in Seq(Message),
           events' = Sent(events, n, topics[n], ms), topics' = topics, links' = links
    PROVE  Acts(n, m, ms) /\ events'[n][m] = events[n][m]
PROOF
<1>1. events \in Queues(Event) /\ ms \in Seq(Event)
  <2>1. Message \subseteq Event
    BY DEF Message, Kind
  <2> QED
    BY <2>1, SeqWidens DEF Inv, TypeOK, Queues
<1>2. \A x, y \in Node : events'[x][y] =
         IF x \in topics[n] /\ y = n THEN events[x][y] \o ms ELSE events[x][y]
  BY <1>1, SentIs
<1> QED
  BY <1>2 DEF Acts

LEMMA HandledActs ==
    ASSUME Inv, SelfInv, NEW n \in Node, NEW m \in Node, n # m, NEW ms \in Seq(Message),
           events[n][m] # <<>>, Head(events[n][m]).type # "Subscribed",
           events' = Handled(n, m, ms), topics' = topics, links' = links
    PROVE  Acts(n, m, ms) /\ Takes(n, m)
PROOF
<1>1. events \in Queues(Event) /\ ms \in Seq(Event)
  <2>1. Message \subseteq Event
    BY DEF Message, Kind
  <2> QED
    BY <2>1, SeqWidens DEF Inv, TypeOK, Queues
<1>2. \A x, y \in Node :
         LET rest == IF x = n /\ y = m THEN Tail(events[n][m]) ELSE events[x][y]
         IN  events'[x][y] = IF x \in topics[n] /\ y = n THEN rest \o ms ELSE rest
  BY <1>1, HandledIs
<1>3. Takes(n, m)
  BY <1>2 DEF Takes
<1> QED
  BY <1>2, <1>3 DEF Acts

\* A request shows the tip.
LEMMA RequestTimely ==
    ASSUME Inv, NEW n \in Node, NEW m \in Node
    PROVE  /\ Request(n) \in Message /\ Request(n) \in Kind({"GetBlocks"})
           /\ Request(n) \in Timely(chain[m], chain[n])
PROOF
<1>1. chain[n] \in published
  BY DEF Inv, ChainsInv
<1>2. Len(chain[n]) \in Nat /\ Len(chain[n]) > 0 /\ Tip(n) = chain[n][Len(chain[n])]
  BY <1>1, PublishedFacts DEF Tip
<1>3. /\ Request(n).type = "GetBlocks"
      /\ Request(n).from_height + 1 = Len(chain[n])
      /\ Request(n).from_hash = chain[n][Len(chain[n])].hash
  BY <1>2 DEF Request
<1>4. Request(n) \in Event
  <2>1. <<Request(n)>> \in Seq(Honest)
    BY RequestMade
  <2> QED
    BY <2>1 DEF Honest
<1> QED
  BY <1>2, <1>3, <1>4 DEF Message, Kind, Timely

\* The events handled are timely; messages come over a connection both know of.
LEMMA HeadFacts ==
    ASSUME Inv, NEW n \in Node, NEW m \in Node, Pair(n, m), events[n][m] # <<>>
    PROVE  /\ Head(events[n][m]) \in Timely(chain[n], chain[m])
           /\ Head(events[n][m]) \in Message => {n, m} \in links /\ m \in topics[n]
PROOF
<1> DEFINE q == events[n][m]
<1>1. q \in Seq(Timely(chain[n], chain[m])) /\ q \in Seq(Event) /\ LinkInv(n, m)
  BY DEF Pair, TimelyInv, Inv, TypeOK
<1>2. Head(q) \in Timely(chain[n], chain[m])
  BY <1>1, HeadTailProperties
<1>3. ASSUME Head(q) \in Message PROVE {n, m} \in links /\ m \in topics[n]
  <2>1. ~Waiting(q, Kind({"Subscribed"}))
    BY <1>1, <1>3, RankOrder DEF LinkInv
  <2>2. q \notin Seq(Kind({"Closed"}))
    <3>1. q \in Seq(Kind({"Closed"})) => Head(q) \in Kind({"Closed"})
      BY HeadTailProperties
    <3> QED
      BY <1>3, <3>1 DEF Kind, Message
  <2> QED
    BY <1>1, <2>1, <2>2 DEF LinkInv
<1> QED
  BY <1>2, <1>3

\* Who keeps its queue takes nothing from it.
LEMMA KeepsTakesNot ==
    ASSUME Inv, NEW n \in Node, NEW m \in Node, events'[n][m] = events[n][m]
    PROVE  ~Takes(n, m)
PROOF
<1> DEFINE q == events[n][m]
<1>1. q \in Seq(Event)
  BY DEF Inv, TypeOK
<1>2. Takes(n, m) => q # <<>> /\ Tail(q) = q
  BY DEF Takes
<1> HIDE DEF q
<1>3. q # <<>> => Len(Tail(q)) = Len(q) - 1 /\ Len(q) \in Nat
  BY <1>1, HeadTailProperties, LenProperties
<1>4. q # <<>> => Tail(q) # q
  BY <1>3
<1> QED
  BY <1>2, <1>4

\* Mining, asking and paying.
LEMMA OwnNews ==
    ASSUME Inv, SelfInv, NEW n \in Node, NEW m \in Node, n # m, Pair(n, m),
           Mine(n) \/ Pay(n) \/ Ask(n)
    PROVE  Pair(n, m)'
PROOF
<1>1. CASE Mine(n)
  <2> DEFINE own == chain[n]
             block == [index |-> Len(own), hash |-> stamp + 1, previous_hash |-> Tip(n).hash]
             new == Append(own, block)
             msg == [type |-> "NewBlock", block |-> block]
             ms == IF block.hash \in Large THEN <<>> ELSE <<msg>>
  <2>1. /\ block \in Block /\ new \in Seq(Block)
        /\ chain' = [chain EXCEPT ![n] = new]
        /\ Len(new) = Len(own) + 1
        /\ new[Len(own) + 1] = block
        /\ \A k \in 1..Len(own) : new[k] = own[k]
        /\ published' = published \cup {new}
    BY <1>1, MineChains
  <2>2. /\ topics' = topics /\ links' = links
        /\ events' = Sent(events, n, topics[n], ms)
    BY <1>1 DEF Mine
  <2>3. block.index = Len(own)
    OBVIOUS
  <2> HIDE DEF block, new
  <2>4. chain'[n] = new /\ chain'[m] = chain[m] /\ own \in Seq(Block) /\ Len(own) \in Nat
    BY <2>1 DEF Inv, TypeOK
  <2>5. msg \in Event /\ msg.type = "NewBlock" /\ msg.block = block
    BY <2>1 DEF Event
  <2> HIDE DEF msg
  <2>6. msg \in Message /\ msg \in Timely(chain[m], new) /\ msg \in Current(new)
    BY <2>1, <2>3, <2>4, <2>5 DEF Message, Kind, Timely, Current
  <2>7. <<msg>> \in Seq(Message) /\ <<>> \in Seq(Message)
    BY <2>6
  <2>8. /\ Waiting(<<msg>>, Current(new))
        /\ <<msg>> \in Seq(Timely(chain[m], new)) /\ <<>> \in Seq(Timely(chain[m], new))
    BY <2>6 DEF Waiting
  <2>9. AllFit' => Waiting(ms, Current(new))
    <3>1. AllFit' => block.hash \notin Large
      <4>1. new \in published' /\ Len(own) + 1 \in 1..Len(new)
        BY <2>1, <2>4
      <4> QED
        BY <2>1, <4>1 DEF AllFit, Fits
    <3> QED
      BY <2>8, <3>1
  <2>10. ms \in Seq(Message) /\ ms \in Seq(Timely(chain[m], new))
    BY <2>7, <2>8
  <2> HIDE DEF ms
  <2>11. Acts(n, m, ms) /\ events'[n][m] = events[n][m]
    BY <2>2, <2>10, SentActs
  <2>12. Within(own, new) /\ Len(own) < Len(new)
    BY <2>1, <2>4 DEF Within
  <2>13. ~Takes(n, m)
    BY <2>11, KeepsTakesNot
  <2> QED
    BY <2>1, <2>4, <2>9, <2>10, <2>11, <2>12, <2>13, GrowthActs
<1>2. CASE Pay(n) \/ Ask(n)
  <2>1. chain' = chain /\ topics' = topics /\ links' = links /\ published' = published
    BY <1>2 DEF Pay, Ask, node
  <2>2. PICK msg : /\ events' = Sent(events, n, topics[n], <<msg>>)
                   /\ msg \in Message /\ msg \in Timely(chain[m], chain[n])
    <3>1. CASE Ask(n)
      BY <3>1, RequestTimely DEF Ask
    <3>2. CASE Pay(n)
      <4>1. PICK i \in 2..Len(chain[n]) :
              events' = Sent(events, n, topics[n], <<[type |-> "NewTx", tx |-> chain[n][i].hash]>>)
        BY <3>2 DEF Pay
      <4>2. chain[n][i].hash \in Nat
        <5>1. chain[n] \in published
          BY DEF Inv, ChainsInv
        <5>2. i \in 1..Len(chain[n])
          BY <5>1, PublishedFacts
        <5> QED
          BY <5>1, <5>2, PublishedFacts
      <4> DEFINE msg == [type |-> "NewTx", tx |-> chain[n][i].hash]
      <4>3. msg \in Event /\ msg.type = "NewTx"
        BY <4>2 DEF Event
      <4>4. msg \in Message /\ msg \in Timely(chain[m], chain[n])
        BY <4>3 DEF Message, Kind, Timely
      <4> QED
        BY <4>1, <4>4
    <3> QED
      BY <1>2, <3>1, <3>2
  <2>3. Acts(n, m, <<msg>>) /\ events'[n][m] = events[n][m]
    <3>1. <<msg>> \in Seq(Message)
      BY <2>2
    <3> QED
      BY <2>1, <2>2, <3>1, SentActs
  <2>4. ~Takes(n, m)
    BY <2>3, KeepsTakesNot
  <2>5. <<msg>> \in Seq(Timely(chain[m], chain[n]))
    BY <2>2
  <2> QED
    BY <2>1, <2>3, <2>4, <2>5, QuietActs
<1> QED
  BY <1>1, <1>2
\* Events that tell only of the connection, or of transactions.
LEMMA IdleNews ==
    ASSUME Inv, SelfInv, NEW n \in Node, NEW m \in Node, n # m, Pair(n, m),
           Established(n, m) \/ Closed(n, m) \/ NewTx(n, m) \/ MempoolTxs(n, m)
    PROVE  Pair(n, m)'
PROOF
<1>1. /\ events[n][m] # <<>> /\ events' = Handled(n, m, <<>>)
      /\ chain' = chain /\ topics' = topics /\ links' = links /\ published' = published
      /\ Head(events[n][m]).type \in {"Established", "Closed", "NewTx", "MempoolTxs"}
  BY DEF Established, Closed, NewTx, MempoolTxs, Next1
<1>2. /\ Head(events[n][m]).type # "Subscribed" /\ Head(events[n][m]).type # "GetBlocks"
      /\ Head(events[n][m]) \notin Current(chain[m])
  BY <1>1 DEF Current
<1>3. <<>> \in Seq(Message) /\ <<>> \in Seq(Timely(chain[m], chain[n]))
  BY EmptySeq
<1>4. Acts(n, m, <<>>)
  BY <1>1, <1>2, <1>3, HandledActs
<1> QED
  BY <1>1, <1>2, <1>3, <1>4, QuietActs

\* A peer that joins a topic is asked.
LEMMA SubscribedNews ==
    ASSUME Inv, SelfInv, NEW n \in Node, NEW m \in Node, n # m, Pair(n, m),
           Subscribed(n, m)
    PROVE  Pair(n, m)'
PROOF
<1>0. PICK shared \in {{}, pool[n]} :
        events' = Sent([events EXCEPT ![n][m] = Tail(@)], n, topics'[n],
                       IF shared = {} THEN <<Request(n)>>
                       ELSE <<Request(n), [type |-> "MempoolTxs", txs |-> shared]>>)
  BY DEF Subscribed
<1> DEFINE msg == [type |-> "MempoolTxs", txs |-> shared]
           ms == IF shared = {} THEN <<Request(n)>> ELSE <<Request(n), msg>>
           q == [events EXCEPT ![n][m] = Tail(@)]
<1>1. /\ events[n][m] # <<>> /\ Head(events[n][m]).type = "Subscribed"
      /\ events' = Sent(q, n, topics'[n], ms)
      /\ chain' = chain /\ links' = links /\ published' = published
      /\ topics' = [topics EXCEPT ![n] = @ \cup {m}]
  BY <1>0 DEF Subscribed, Next1
<1>2. topics'[n] = topics[n] \cup {m} /\ topics'[m] = topics[m]
  BY <1>1 DEF Inv, TypeOK
<1> DEFINE S == Message \cap Timely(chain[m], chain[n])
<1>3. msg \in S
  <2>1. shared \in SUBSET Nat
    BY DEF Inv, TypeOK
  <2>2. msg \in Event /\ msg.type = "MempoolTxs"
    BY <2>1 DEF Event
  <2> QED
    BY <2>2 DEF Message, Kind, Timely
<1>4. Request(n) \in S /\ Request(n) \in Kind({"GetBlocks"})
  BY RequestTimely
<1> HIDE DEF S, msg
<1>5. ms \in Seq(S) /\ Waiting(ms, Kind({"GetBlocks"}))
  BY <1>3, <1>4 DEF Waiting
<1> HIDE DEF ms
<1>6. ms \in Seq(Message) /\ ms \in Seq(Timely(chain[m], chain[n])) /\ ms \in Seq(Event)
  <2>1. S \subseteq Message /\ S \subseteq Timely(chain[m], chain[n]) /\ S \subseteq Event
    BY DEF S, Message, Kind
  <2> QED
    BY <1>5, <2>1, SeqWidens
<1>7. q \in Queues(Event) /\ \A x, y \in Node :
         q[x][y] = IF x = n /\ y = m THEN Tail(events[n][m]) ELSE events[x][y]
  <2>1. Tail(events[n][m]) \in Seq(Event)
    BY <1>1, HeadTailProperties DEF Inv, TypeOK
  <2> QED
    BY <2>1 DEF Inv, TypeOK, Queues
<1> HIDE DEF q
<1>8. \A x, y \in Node : events'[x][y] =
         IF x \in topics'[n] /\ y = n THEN q[x][y] \o ms ELSE q[x][y]
  BY <1>1, <1>6, <1>7, SentIs
<1>9. /\ events'[n][m] = Tail(events[n][m])
      /\ events'[m][n] = IF m \in topics'[n] THEN events[m][n] \o ms ELSE events[m][n]
  BY <1>7, <1>8
<1>10. Acts(n, m, ms)
  BY <1>1, <1>2, <1>5, <1>6, <1>9 DEF Acts, Takes
<1>11. /\ Head(events[n][m]).type # "GetBlocks"
       /\ Head(events[n][m]) \notin Current(chain[m])
  BY <1>1 DEF Current
<1> QED
  BY <1>1, <1>6, <1>10, <1>11, QuietActs
\* A request is answered with what follows the tip it shows: the requester has the
\* block before it.
LEMMA RequestNews ==
    ASSUME Inv, SelfInv, NEW n \in Node, NEW m \in Node, n # m, Pair(n, m),
           GetBlocks(n, m)
    PROVE  Pair(n, m)'
PROOF
<1> DEFINE request == Head(events[n][m])
           h == request.from_height + 1
           start == ServeFrom(chain[n], request.from_height, request.from_hash)
           batch == [type |-> "BlocksBatch", blocks |-> chain[n], start |-> start]
           ms == IF start > Len(chain[n]) \/ ~Fits(chain[n], start) THEN <<>>
                 ELSE <<batch>>
<1>1. /\ events[n][m] # <<>> /\ request.type = "GetBlocks" /\ events' = Handled(n, m, ms)
      /\ chain' = chain /\ topics' = topics /\ links' = links
      /\ published' = published
  BY DEF GetBlocks, Next1, node
<1>2. /\ chain[n] \in published /\ chain[m] \in published
      /\ chain[n] \in Seq(Block) /\ chain[m] \in Seq(Block)
      /\ Len(chain[n]) \in Nat /\ Len(chain[n]) > 0 /\ DOMAIN chain[n] = 1..Len(chain[n])
      /\ Len(chain[m]) \in Nat /\ Len(chain[m]) > 0 /\ DOMAIN chain[m] = 1..Len(chain[m])
  BY PublishedFacts DEF Inv, ChainsInv
<1>3. /\ request \in Timely(chain[n], chain[m]) /\ request \in Event
      /\ {n, m} \in links /\ m \in topics[n]
  <2>1. request \in Event
    BY <1>1, HeadHonest
  <2>2. request \in Message
    BY <1>1, <2>1 DEF Message, Kind
  <2> QED
    BY <1>1, <2>1, <2>2, HeadFacts
<1>4. /\ request.from_height \in Nat /\ h <= Len(chain[m])
      /\ \/ chain[m][h].hash = request.from_hash
         \/ h <= Len(chain[n]) /\ chain[n][h].hash # request.from_hash
  BY <1>1, <1>3, EventHolds DEF Timely
<1>5. \/ start = 1
      \/ /\ start = h + 1 /\ h \in DOMAIN chain[n] /\ h \in DOMAIN chain[m]
         /\ chain[n][h].hash = request.from_hash
  <2>1. h \in Nat /\ request.from_height + 2 = h + 1 /\ (h >= 1)
    BY <1>4
  <2>2. h \in DOMAIN chain[n] => h \in DOMAIN chain[m]
    BY <1>2, <1>4, <2>1
  <2>3. start = IF h \in DOMAIN chain[n] /\ chain[n][h].hash = request.from_hash
                THEN h + 1 ELSE 1
    BY <2>1 DEF ServeFrom
  <2> HIDE DEF h, start, request
  <2> QED
    BY <2>2, <2>3
<1> HIDE DEF start
<1>6. ASSUME start > 1
      PROVE  chain[m][start - 1] = chain[n][start - 1]
  <2>1. /\ start = h + 1 /\ h \in DOMAIN chain[n] /\ h \in DOMAIN chain[m] /\ h \in Nat
        /\ chain[n][h].hash = request.from_hash
    BY <1>4, <1>5, <1>6
  <2>2. chain[m][h].hash = chain[n][h].hash
    BY <1>4, <2>1
  <2>3. h \in 1..h
    BY <1>2, <2>1
  <2>4. chain[m][h] = chain[n][h]
    BY <1>2, <2>1, <2>2, <2>3 DEF Inv, ChainsInv, SamePast
  <2>5. start - 1 = h
    BY <2>1
  <2> QED
    BY <2>4, <2>5
<1>7. start \in Nat /\ start >= 1 /\ start <= Len(chain[m]) + 1
  BY <1>2, <1>4, <1>5
<1>8. start > Len(chain[n]) => Len(chain[n]) <= Len(chain[m])
  BY SMTT(30), <1>2, <1>4, <1>5
<1>9. /\ batch \in Event /\ batch.type = "BlocksBatch"
      /\ batch.blocks = chain[n] /\ batch.start = start
  BY <1>2, <1>7 DEF Event
<1> HIDE DEF batch
<1>10. Within(chain[n], chain[n])
  BY <1>2 DEF Within
<1>11. /\ batch \in Message /\ batch \in Current(chain[n])
       /\ batch \in Timely(chain[m], chain[n])
  BY <1>2, <1>6, <1>7, <1>9, <1>10 DEF Message, Kind, Current, Timely
<1>12. /\ ms \in Seq(Message) /\ ms \in Seq(Timely(chain[m], chain[n]))
       /\ \/ start > Len(chain[n])
          \/ ~Fits(chain[n], start)
          \/ Waiting(ms, Current(chain[n]))
  <2>1. <<>> \in Seq(Message) /\ <<>> \in Seq(Timely(chain[m], chain[n]))
    BY EmptySeq
  <2>2. <<batch>> \in Seq(Message) /\ <<batch>> \in Seq(Timely(chain[m], chain[n]))
    BY <1>11
  <2>3. Waiting(<<batch>>, Current(chain[n]))
    BY <1>11 DEF Waiting
  <2> QED
    BY <2>1, <2>2, <2>3
<1> HIDE DEF ms
<1>13. Acts(n, m, ms)
  BY <1>1, <1>12, HandledActs
<1>14. request \notin Current(chain[m])
  BY <1>1 DEF Current
<1>15. AllFit => \/ Len(chain[n]) <= Len(chain[m]) + 1
                 \/ Waiting(ms, Current(chain[n])) /\ m \in topics[n]
  <2>1. AllFit => Fits(chain[n], start)
    BY <1>2, <1>7, PartFits
  <2> QED
    BY <1>2, <1>3, <1>8, <1>12, <2>1
<1> QED
  BY <1>1, <1>12, <1>13, <1>14, <1>15, QuietActs

\* A block extends the chain, is one ahead at most, or makes the node ask.
LEMMA BlockNews ==
    ASSUME Inv, SelfInv, NEW n \in Node, NEW m \in Node, n # m, Pair(n, m),
           NewBlock(n, m)
    PROVE  Pair(n, m)'
PROOF
<1> DEFINE event == Head(events[n][m])
           block == event.block
           own == chain[n]
           extends == block.index = Len(own) /\ block.previous_hash = Tip(n).hash
           asks == ~extends /\ block.index > Len(own)
           ms == IF asks THEN <<Request(n)>> ELSE <<>>
<1>1. /\ events[n][m] # <<>> /\ event.type = "NewBlock" /\ events' = Handled(n, m, ms)
      /\ topics' = topics /\ links' = links
      /\ extends => /\ chain' = [chain EXCEPT ![n] = Append(own, block)]
                    /\ published' = published \cup {Append(own, block)}
      /\ ~extends => chain' = chain /\ published' = published
  BY DEF NewBlock, Next1
<1>2. /\ own \in Seq(Block) /\ Len(own) \in Nat /\ chain[m] \in Seq(Block)
      /\ Len(chain[m]) \in Nat /\ chain \in [Node -> Seq(Block)]
  BY DEF Inv, TypeOK
<1>3. /\ event \in Timely(own, chain[m]) /\ event \in Event
      /\ {n, m} \in links /\ m \in topics[n]
  <2>1. event \in Event
    BY <1>1, HeadHonest
  <2>2. event \in Message
    BY <1>1, <2>1 DEF Message, Kind
  <2> QED
    BY <1>1, <2>1, <2>2, HeadFacts
<1>4. /\ block \in Block /\ block.index \in Nat /\ block.index < Len(chain[m])
      /\ event \in Current(chain[m]) => block.index + 1 = Len(chain[m])
      /\ event.type # "GetBlocks" /\ event.type # "Subscribed"
  BY <1>1, <1>3, EventHolds DEF Timely, Block, Current
<1>5. CASE extends
  <2>1. ms = <<>>
    BY <1>5
  <2>2. <<>> \in Seq(Message) /\ <<>> \in Seq(Timely(chain[m], chain'[n]))
    BY EmptySeq
  <2> DEFINE new == Append(own, block)
  <2>3. /\ new \in Seq(Block) /\ Len(new) = Len(own) + 1
        /\ \A k \in 1..Len(own) : new[k] = own[k]
    BY <1>2, <1>4, AppendProperties
  <2>4. /\ chain' = [chain EXCEPT ![n] = new] /\ block.index = Len(own)
        /\ published \subseteq published'
    BY <1>1, <1>5
  <2> HIDE DEF new
  <2>5. chain'[n] = new /\ chain'[m] = chain[m]
    <3>1. chain' = [chain EXCEPT ![n] = new] /\ chain \in [Node -> Seq(Block)] /\ n # m
      BY <1>2, <2>4
    <3> QED
      BY ONLY <3>1, n \in Node, m \in Node
  <2>6. /\ Within(own, new) /\ Len(own) < Len(new) /\ Len(new) <= Len(chain[m]) + 1
        /\ event \in Current(chain[m]) => Len(chain[m]) <= Len(new) + 1
    <3>1. Within(own, new) /\ Len(own) < Len(new)
      BY <1>2, <2>3 DEF Within
    <3>2. block.index = Len(own)
      BY <2>4
    <3> HIDE DEF block, own, event
    <3> QED
      BY <1>2, <1>4, <2>3, <3>1, <3>2
  <2>7. Acts(n, m, <<>>)
    BY <1>1, <1>4, <2>1, <2>2, HandledActs
  <2> QED
    BY <1>3, <2>2, <2>3, <2>4, <2>5, <2>6, <2>7, GrowthActs
<1>6. CASE ~extends
  <2>1. chain' = chain /\ published' = published
    BY <1>1, <1>6
  <2>2. /\ ms \in Seq(Message) /\ ms \in Seq(Timely(chain[m], chain[n]))
        /\ asks => Waiting(ms, Kind({"GetBlocks"}))
    <3>1. <<>> \in Seq(Message) /\ <<>> \in Seq(Timely(chain[m], chain[n]))
      BY EmptySeq
    <3>2. /\ <<Request(n)>> \in Seq(Message)
          /\ <<Request(n)>> \in Seq(Timely(chain[m], chain[n]))
          /\ Waiting(<<Request(n)>>, Kind({"GetBlocks"}))
      BY RequestTimely DEF Waiting
    <3> QED
      BY <3>1, <3>2
  <2>3. event \in Current(chain[m]) => asks \/ Len(chain[m]) <= Len(own) + 1
    BY SMTT(30), <1>2, <1>4, <1>6
  <2> HIDE DEF ms, asks, extends
  <2>4. Acts(n, m, ms)
    BY <1>1, <1>4, <2>2, HandledActs
  <2> QED
    BY <1>3, <1>4, <2>1, <2>2, <2>3, <2>4, QuietActs
<1> QED
  BY <1>5, <1>6

\* A batch is no longer than the chain it meets, or is taken whole.
LEMMA BatchNews ==
    ASSUME Inv, SelfInv, NEW n \in Node, NEW m \in Node, n # m, Pair(n, m),
           BlocksBatch(n, m)
    PROVE  Pair(n, m)'
PROOF
<1> DEFINE event == Head(events[n][m])
           blocks == event.blocks
           s == event.start
           own == chain[n]
           other == chain[m]
           merged == Merge(own, blocks, s)
           adopted == Replaceable(own, merged)
<1>1. /\ events[n][m] # <<>> /\ event.type = "BlocksBatch" /\ events' = Handled(n, m, <<>>)
      /\ topics' = topics /\ links' = links
      /\ chain' = [chain EXCEPT ![n] = IF adopted THEN merged ELSE @]
      /\ published' = IF adopted THEN published \cup {merged} ELSE published
  BY DEF BlocksBatch, Next1
<1>2. /\ own \in Seq(Block) /\ Len(own) \in Nat /\ other \in Seq(Block)
      /\ Len(other) \in Nat /\ chain \in [Node -> Seq(Block)]
  BY DEF Inv, TypeOK
<1>3. /\ event \in Timely(own, other) /\ event \in Honest
      /\ {n, m} \in links /\ m \in topics[n]
  <2>1. event \in Honest /\ event \in Event
    BY <1>1, HeadHonest
  <2>2. event \in Message
    BY <1>1, <2>1 DEF Message, Kind
  <2> QED
    BY <1>1, <2>1, <2>2, HeadFacts
<1>4. /\ blocks \in published /\ s \in 1..Len(blocks)
      /\ Len(blocks) <= Len(other) /\ s <= Len(own) + 1
      /\ \/ Len(blocks) <= Len(own)
         \/ /\ Within(blocks, other)
            /\ s > 1 => own[s - 1] = blocks[s - 1]
      /\ event \in Current(other) => Len(blocks) = Len(other)
      /\ event.type # "GetBlocks" /\ event.type # "Subscribed"
  BY <1>1, <1>3 DEF Timely, Current, Honest
<1>5. own \in published
  BY DEF Inv, ChainsInv
<1>6. <<>> \in Seq(Message) /\ \A S : <<>> \in Seq(S)
  BY EmptySeq
<1>7. Acts(n, m, <<>>)
  BY <1>1, <1>4, <1>6, HandledActs
<1> HIDE DEF blocks, s
<1>8. blocks \in Seq(Block) /\ Len(blocks) \in Nat
  BY <1>4, PublishedFacts
<1>9. \/ merged = own /\ Len(own) + 1 \notin s..Len(blocks)
      \/ \E cut \in s..Len(blocks) : Spliced(merged, own, blocks, s, cut)
  BY <1>2, <1>4, <1>8, MergeShape
<1> HIDE DEF merged
<1>10. CASE Len(blocks) <= Len(own)
  <2>1. Len(merged) <= Len(own)
    BY <1>2, <1>9, <1>10 DEF Spliced
  <2>2. merged \in Seq(Block)
    BY <1>2, <1>9 DEF Spliced
  <2>3. ~adopted
    <3>1. Len(merged) \in Nat
      BY <2>2
    <3> QED
      BY <1>2, <2>1, <3>1 DEF Replaceable
  <2>4. chain' = chain /\ published' = published
    BY <1>1, <1>2, <2>3
  <2>5. event \in Current(other) => Len(other) <= Len(own) + 1
    BY <1>2, <1>4, <1>8, <1>10
  <2> HIDE DEF adopted
  <2> QED
    BY <1>4, <1>6, <1>7, <2>4, <2>5, QuietActs
<1>11. CASE ~(Len(blocks) <= Len(own))
  <2>1. Len(own) + 1 \in s..Len(blocks)
    BY <1>2, <1>4, <1>8, <1>11
  <2>2. PICK cut \in s..Len(blocks) : Spliced(merged, own, blocks, s, cut)
    BY <1>9, <2>1
  <2>3. ASSUME cut > 1 PROVE own[cut - 1].hash = blocks[cut - 1].hash
    <3>1. CASE cut = s
      BY <1>4, <1>11, <2>3, <3>1
    <3>2. CASE cut # s
      <4>1. cut - 1 \in s..(cut - 1) /\ cut - 1 <= Len(own)
        BY <1>2, <1>4, <1>8, <2>2, <3>2 DEF Spliced
      <4> QED
        BY <2>2, <4>1 DEF Spliced
    <3> QED
      BY <3>1, <3>2
  <2>4. merged = blocks
    BY <1>4, <1>5, <2>2, <2>3, SplicedIsBatch
  <2>5. adopted
    <3>1. \A i \in 2..Len(blocks) : blocks[i].previous_hash = blocks[i - 1].hash
      BY <1>4, PublishedFacts
    <3>2. Len(blocks) > Len(own)
      BY <1>2, <1>8, <1>11
    <3> QED
      BY <2>4, <3>1, <3>2 DEF Replaceable
  <2>6. chain'[n] = blocks /\ chain'[m] = other /\ published \subseteq published'
    BY <1>1, <1>2, <2>4, <2>5
  <2>7. /\ Within(blocks, other) /\ Len(own) < Len(blocks)
        /\ Len(blocks) <= Len(other) + 1
        /\ event \in Current(other) => Len(other) <= Len(blocks) + 1
    BY <1>2, <1>4, <1>8, <1>11
  <2> QED
    BY <1>3, <1>6, <1>7, <1>8, <2>6, <2>7, GrowthActs
<1> QED
  BY <1>10, <1>11
-----------------------------------------------------------------------------
\* Connections.

\* What waits for the handlers when two nodes have connected.
LEMMA ArrivalOrdered ==
    ASSUME NEW arrival,
           arrival = <<[type |-> "Established"]>>
                       \o [i \in 1..Topics |-> [type |-> "Subscribed"]]
    PROVE  /\ arrival \in Seq(Kind({"Established", "Subscribed"})) /\ Ordered(arrival)
           /\ Waiting(arrival, Kind({"Established"})) /\ Waiting(arrival, Kind({"Subscribed"}))
PROOF
<1> DEFINE S == Kind({"Established", "Subscribed"})
           est == [type |-> "Established"]
           sub == [type |-> "Subscribed"]
           first == <<est>>
           rest == [i \in 1..Topics |-> sub]
<1>1. /\ est \in S /\ est \in Kind({"Established"}) /\ Rank(est) = 0
      /\ sub \in S /\ sub \in Kind({"Subscribed"}) /\ Rank(sub) = 1
  BY DEF Kind, Event, Rank
<1> HIDE DEF S, est, sub
<1>2. Topics \in Nat /\ Topics >= 1
  BY NodeSyncAssumption
<1>3. /\ first \in Seq(S) /\ Len(first) = 1 /\ DOMAIN first = 1..1 /\ first[1] = est
      /\ rest \in Seq(S) /\ DOMAIN rest = 1..Topics /\ \A i \in 1..Topics : rest[i] = sub
  BY <1>1, <1>2
<1>4. arrival = first \o rest
  BY DEF est, sub
<1> HIDE DEF first, rest
<1>5. Waiting(first, Kind({"Established"})) /\ Waiting(rest, Kind({"Subscribed"}))
  <2>1. 1 \in DOMAIN first /\ 1 \in DOMAIN rest
    BY <1>2, <1>3
  <2>2. first[1] = est /\ rest[1] = sub
    BY <1>3, <2>1
  <2> QED
    BY <1>1, <2>1, <2>2 DEF Waiting
<1>6. /\ Ordered(first) /\ Ordered(rest)
      /\ \A i \in DOMAIN first : Rank(first[i]) <= 0
      /\ \A i \in DOMAIN rest : 0 <= Rank(rest[i])
  <2>1. \A i \in DOMAIN first : first[i] = est
    BY <1>3
  <2>2. \A i \in DOMAIN rest : rest[i] = sub
    BY <1>3
  <2>3. \A i \in DOMAIN first : Rank(first[i]) = 0
    BY ONLY <1>1, <2>1
  <2>4. \A i \in DOMAIN rest : Rank(rest[i]) = 1
    BY ONLY <1>1, <2>2
  <2> QED
    BY <2>3, <2>4 DEF Ordered
<1>7. Ordered(first \o rest)
  <2>1. 0 \in 0..2
    OBVIOUS
  <2> QED
    BY ONLY <1>3, <1>6, <2>1, ConcatOrdered
<1>8. first \o rest \in Seq(S)
  BY ONLY <1>3, ConcatProperties
<1>9. /\ Waiting(first \o rest, Kind({"Established"}))
      /\ Waiting(first \o rest, Kind({"Subscribed"}))
  BY ONLY <1>3, <1>5, ConcatWaiting
<1> QED
  BY <1>4, <1>7, <1>8, <1>9 DEF S

\* One side of a new connection.
LEMMA ArrivalSide ==
    ASSUME Inv, NEW n \in Node, NEW m \in Node, LinkInv(n, m), TimelyInv(n, m),
           {n, m} \notin links,
           NEW arrival \in Seq(Kind({"Established", "Subscribed"})), Ordered(arrival),
           Waiting(arrival, Kind({"Established"})), Waiting(arrival, Kind({"Subscribed"})),
           events'[n][m] = events[n][m] \o arrival, {n, m} \in links',
           topics' = topics, chain' = chain
    PROVE  LinkInv(n, m)' /\ TimelyInv(n, m)' /\ NewsInv(n, m)'
PROOF
<1> DEFINE q == events[n][m]
           S == Kind({"Established", "Subscribed"})
<1>1. arrival \in Seq(S)
  OBVIOUS
<1>2. /\ Ordered(q) /\ m \notin topics[n] /\ q \in Seq(Kind({"Closed"}))
      /\ q \in Seq(Event) /\ q \in Seq(Timely(chain[n], chain[m]))
  BY DEF LinkInv, TimelyInv, Inv, TypeOK
<1>3. S \subseteq Event /\ S \subseteq Timely(chain[n], chain[m])
  BY DEF Kind, Timely
<1>4. arrival \in Seq(Event) /\ arrival \in Seq(Timely(chain[n], chain[m]))
  BY <1>1, <1>3, SeqWidens
<1>5. \A i \in DOMAIN q : Rank(q[i]) <= 0
  <2>1. \A i \in DOMAIN q : q[i] \in Kind({"Closed"})
    BY <1>2, ElementOfSeq, LenProperties
  <2> QED
    BY <2>1 DEF Kind, Rank
<1>6. (\A i \in DOMAIN arrival : 0 <= Rank(arrival[i])) /\ 0 \in 0..2
  BY DEF Rank
<1>7. Ordered(q \o arrival)
  BY <1>2, <1>4, <1>5, <1>6, ConcatOrdered
<1>8. /\ Waiting(q \o arrival, Kind({"Established"}))
      /\ Waiting(q \o arrival, Kind({"Subscribed"}))
  BY <1>2, <1>4, ConcatWaiting
<1>9. q \o arrival \in Seq(Timely(chain[n], chain[m]))
  BY <1>2, <1>4, ConcatProperties
<1>10. LinkInv(n, m)'
  BY <1>2, <1>7, <1>8 DEF LinkInv
<1>11. TimelyInv(n, m)'
  BY <1>9 DEF TimelyInv
<1>12. Waiting(q \o arrival, S)
  BY <1>8 DEF Waiting, Kind
<1>13. NewsInv(n, m)'
  BY <1>12 DEF NewsInv
<1> QED
  BY <1>10, <1>11, <1>13

LEMMA ConnectNews ==
    ASSUME Inv, NEW n \in Node, NEW m \in Node, Pair(n, m), Connect(n, m)
    PROVE  Pair(n, m)'
PROOF
<1> DEFINE arrival == <<[type |-> "Established"]>>
                        \o [i \in 1..Topics |-> [type |-> "Subscribed"]]
<1>1. /\ n # m /\ {n, m} \notin links /\ links' = links \cup {{n, m}}
      /\ events' = [events EXCEPT ![n][m] = @ \o arrival, ![m][n] = @ \o arrival]
      /\ chain' = chain /\ topics' = topics
  BY DEF Connect, node
<1> HIDE DEF arrival
<1>2. /\ events'[n][m] = events[n][m] \o arrival
      /\ events'[m][n] = events[m][n] \o arrival
  BY <1>1 DEF Inv, TypeOK
<1>3. /\ arrival \in Seq(Kind({"Established", "Subscribed"})) /\ Ordered(arrival)
      /\ Waiting(arrival, Kind({"Established"})) /\ Waiting(arrival, Kind({"Subscribed"}))
  BY ArrivalOrdered DEF arrival
<1>4. LinkInv(n, m)' /\ TimelyInv(n, m)' /\ NewsInv(n, m)'
  BY <1>1, <1>2, <1>3, ArrivalSide DEF Pair
<1>5. LinkInv(m, n)' /\ TimelyInv(m, n)' /\ NewsInv(m, n)'
  <2>1. {m, n} \notin links /\ {m, n} \in links'
    BY <1>1
  <2> QED
    BY <1>1, <1>2, <1>3, <2>1, ArrivalSide DEF Pair
<1> QED
  BY <1>4, <1>5 DEF Pair

LEMMA DisconnectNews ==
    ASSUME Inv, NEW n \in Node, NEW m \in Node, n # m, Disconnect(n, m)
    PROVE  Pair(n, m)'
PROOF
<1> DEFINE closed == [type |-> "Closed"]
<1>1. /\ links' = links \ {{n, m}}
      /\ topics' = [topics EXCEPT ![n] = @ \ {m}, ![m] = @ \ {n}]
      /\ events' = [events EXCEPT ![n][m] = <<closed>>, ![m][n] = <<closed>>]
  BY DEF Disconnect
<1>2. closed \in Kind({"Closed"}) /\ closed.type = "Closed"
  BY DEF Kind, Event
<1>3. \A c, d : closed \in Timely(c, d)
  BY <1>2 DEF Kind, Timely
<1> HIDE DEF closed
<1>4. /\ events'[n][m] = <<closed>> /\ events'[m][n] = <<closed>>
      /\ m \notin topics'[n] /\ n \notin topics'[m]
      /\ {n, m} \notin links' /\ {m, n} \notin links'
  BY <1>1 DEF Inv, TypeOK
<1>5. /\ <<closed>> \in Seq(Kind({"Closed"})) /\ \A c, d : <<closed>> \in Seq(Timely(c, d))
      /\ ~Waiting(<<closed>>, Kind({"Established"}))
      /\ Ordered(<<closed>>)
  <2> DEFINE q == <<closed>>
  <2>1. Len(q) = 1 /\ DOMAIN q = 1..1 /\ q[1] = closed
    OBVIOUS
  <2>2. q \in Seq(Kind({"Closed"})) /\ \A c, d : q \in Seq(Timely(c, d))
    BY <1>2, <1>3
  <2> HIDE DEF q
  <2>3. Rank(closed) = 0
    BY <1>2 DEF Rank
  <2>4. Ordered(q)
    BY <2>1, <2>3 DEF Ordered
  <2>5. ~Waiting(q, Kind({"Established"}))
    BY <1>2, <2>1 DEF Waiting, Kind
  <2> QED
    BY <2>2, <2>4, <2>5 DEF q
<1>6. LinkInv(n, m)' /\ LinkInv(m, n)'
  BY <1>4, <1>5 DEF LinkInv
<1>7. TimelyInv(n, m)' /\ TimelyInv(m, n)'
  BY <1>4, <1>5 DEF TimelyInv
<1>8. NewsInv(n, m)' /\ NewsInv(m, n)'
  BY <1>4 DEF NewsInv
<1> QED
  BY <1>6, <1>7, <1>8 DEF Pair

-----------------------------------------------------------------------------
\* No node is its own peer.

LEMMA SentSelf ==
    ASSUME NEW q \in Queues(Event), NEW n \in Node, NEW to, n \notin to, NEW ms,
           \A x \in Node : q[x][x] = <<>>
    PROVE  \A x \in Node : Sent(q, n, to, ms)[x][x] = <<>>
PROOF
<1> SUFFICES ASSUME NEW x \in Node PROVE Sent(q, n, to, ms)[x][x] = <<>>
  OBVIOUS
<1>1. Sent(q, n, to, ms)[x] = IF x \in to THEN [q[x] EXCEPT ![n] = @ \o ms] ELSE q[x]
  BY DEF Sent
<1>2. CASE x \in to
  <2>1. x # n
    BY <1>2
  <2>2. [q[x] EXCEPT ![n] = @ \o ms][x] = q[x][x]
    BY <2>1 DEF Queues
  <2> QED
    BY <1>1, <1>2, <2>2
<1>3. CASE x \notin to
  BY <1>1, <1>3
<1> QED
  BY <1>2, <1>3

LEMMA SelfNext == Inv /\ SelfInv /\ [Next]_vars => SelfInv'
PROOF
<1> SUFFICES ASSUME Inv, SelfInv, [Next]_vars PROVE SelfInv'
  OBVIOUS
<1>1. /\ events \in Queues(Event) /\ \A x \in Node : events[x][x] = <<>>
      /\ topics \in [Node -> SUBSET Node]
      /\ \A x \in Node : x \notin topics[x] /\ {x, x} \notin links
  BY DEF Inv, TypeOK, Queues, SelfInv
<1>2. CASE UNCHANGED vars
  BY <1>1, <1>2 DEF vars, net, SelfInv
<1>3. ASSUME NEW n \in Node, Mine(n) \/ Pay(n) \/ Ask(n)
      PROVE  SelfInv'
  <2>1. topics' = topics /\ links' = links
    BY <1>3 DEF Mine, Pay, Ask
  <2>2. PICK ms : events' = Sent(events, n, topics[n], ms)
    BY <1>3 DEF Mine, Pay, Ask
  <2> QED
    BY <1>1, <2>1, <2>2, SentSelf DEF SelfInv
<1>4. ASSUME NEW n \in Node, NEW m \in Node, Connect(n, m)
      PROVE  SelfInv'
  <2>1. n # m /\ topics' = topics /\ links' = links \cup {{n, m}}
    BY <1>4 DEF Connect
  <2>2. \A x \in Node : events'[x][x] = events[x][x]
    <3> DEFINE a == <<[type |-> "Established"]>>
                      \o [i \in 1..Topics |-> [type |-> "Subscribed"]]
    <3>1. events' = [events EXCEPT ![n][m] = @ \o a, ![m][n] = @ \o a]
      BY <1>4 DEF Connect
    <3> HIDE DEF a
    <3> QED
      BY <1>1, <2>1, <3>1 DEF Queues
  <2>3. \A x \in Node : {x, x} # {n, m}
    BY <2>1
  <2> QED
    BY <1>1, <2>1, <2>2, <2>3 DEF SelfInv
<1>5. ASSUME NEW n \in Node, NEW m \in Node, Disconnect(n, m)
      PROVE  SelfInv'
  <2>1. /\ {n, m} \in links /\ links' = links \ {{n, m}}
        /\ topics' = [topics EXCEPT ![n] = @ \ {m}, ![m] = @ \ {n}]
    BY <1>5 DEF Disconnect
  <2>2. n # m
    BY <1>1, <2>1
  <2>3. \A x \in Node : x \notin topics'[x]
    BY <1>1, <2>1, <2>2
  <2>4. \A x \in Node : events'[x][x] = events[x][x]
    <3>1. PICK a : events' = [events EXCEPT ![n][m] = a, ![m][n] = a]
      BY <1>5 DEF Disconnect
    <3> QED
      BY <1>1, <2>2, <3>1 DEF Queues
  <2> QED
    BY <1>1, <2>1, <2>3, <2>4 DEF SelfInv
<1>6. ASSUME NEW n \in Node, NEW m \in Node, Handle(n, m)
      PROVE  SelfInv'
  <2>1. events[n][m] # <<>>
    BY <1>6, HandlerSends
  <2>2. n # m
    BY <1>1, <2>1
  <2>3. links' = links /\ (topics' = topics \/ topics' = [topics EXCEPT ![n] = @ \cup {m}])
    BY <1>6 DEF Handle, Established, Closed, Subscribed, NewBlock, GetBlocks, BlocksBatch,
                NewTx, MempoolTxs
  <2>4. \A x \in Node : x \notin topics'[x]
    BY ZenonT(40), <1>1, <2>2, <2>3
  <2> DEFINE q == [events EXCEPT ![n][m] = Tail(@)]
  <2>5. q \in Queues(Event) /\ \A x \in Node : q[x][x] = <<>>
    <3>1. Tail(events[n][m]) \in Seq(Event)
      BY <1>1, <2>1, HeadTailProperties DEF Queues
    <3> QED
      BY <1>1, <2>2, <3>1 DEF Queues
  <2> HIDE DEF q
  <2>6. PICK ms : events' = Sent(q, n, topics[n], ms) \/ events' = Sent(q, n, topics'[n], ms)
    BY <1>6, HandlerSends DEF q, Handled
  <2> QED
    BY <1>1, <2>3, <2>4, <2>5, <2>6, SentSelf DEF SelfInv
<1>7. CASE \E n \in Node : Mine(n) \/ Tick(n)
  BY <1>3, <1>7 DEF Tick
<1>8. CASE \E n \in User : Pay(n) \/ Sync(n)
  BY <1>3, <1>8, NodeSyncAssumption DEF Sync
<1>9. CASE \E n, m \in Node : Connect(n, m) \/ Disconnect(n, m) \/ Handle(n, m)
  BY <1>4, <1>5, <1>6, <1>9
<1> QED
  BY <1>2, <1>7, <1>8, <1>9 DEF Next

-----------------------------------------------------------------------------
\* The invariant of two nodes.

LEMMA InitNews == Init => SelfInv /\ PairInv
PROOF
<1> SUFFICES ASSUME Init PROVE SelfInv /\ PairInv
  OBVIOUS
<1>1. /\ links = {} /\ \A n \in Node : topics[n] = {}
      /\ \A n, m \in Node : events[n][m] = <<>>
  BY DEF Init
<1>2. /\ Ordered(<<>>) /\ \A S : <<>> \in Seq(S) /\ ~Waiting(<<>>, S)
  BY EmptySeq DEF Ordered, Waiting
<1>3. ASSUME NEW n \in Node, NEW m \in Node
      PROVE  LinkInv(n, m) /\ TimelyInv(n, m) /\ NewsInv(n, m)
  BY <1>1, <1>2 DEF LinkInv, TimelyInv, NewsInv
<1> QED
  BY <1>1, <1>3 DEF SelfInv, PairInv

\* What the steps of a node do to it and its peer.
LEMMA NodeNews ==
    ASSUME Inv, SelfInv, NEW n \in Node, NEW m \in Node, n # m, Pair(n, m),
           Mine(n) \/ Pay(n) \/ Ask(n) \/ Handle(n, m) \/ Connect(n, m) \/ Disconnect(n, m)
    PROVE  Pair(n, m)'
PROOF
  BY OwnNews, IdleNews, SubscribedNews, BlockNews, RequestNews, BatchNews, ConnectNews,
     DisconnectNews DEF Handle

LEMMA PairNext ==
    ASSUME AtMostTwo, NewsSpecInv, [Next]_vars, NEW n \in Node, NEW m \in Node, n # m
    PROVE  Pair(n, m)'
PROOF
<1>1. Pair(n, m) /\ Pair(m, n) /\ Inv /\ SelfInv
  BY DEF NewsSpecInv, PairInv, Pair
<1>2. Pair(m, n)' => Pair(n, m)'
  BY DEF Pair
<1>3. \A x \in Node : x = n \/ x = m
  BY DEF AtMostTwo
<1>4. CASE UNCHANGED vars
  BY <1>1, <1>4 DEF vars, node, net, Pair, LinkInv, TimelyInv, NewsInv, AllFit
<1>5. ASSUME NEW x \in Node, Mine(x) \/ Pay(x) \/ Ask(x)
      PROVE  Pair(n, m)'
  <2>1. CASE x = n
    BY <1>1, <1>5, <2>1, OwnNews
  <2>2. CASE x = m
    BY <1>1, <1>2, <1>5, <2>2, OwnNews
  <2> QED
    BY <1>3, <2>1, <2>2
<1>6. ASSUME NEW x \in Node, NEW y \in Node,
             Connect(x, y) \/ Disconnect(x, y) \/ Handle(x, y)
      PROVE  Pair(n, m)'
  <2>1. x # y
    <3>1. Connect(x, y) => x # y
      BY DEF Connect
    <3>2. Disconnect(x, y) => {x, y} \in links
      BY DEF Disconnect
    <3>3. Handle(x, y) => events[x][y] # <<>>
      BY <1>1, HandlerSends
    <3> QED
      BY <1>1, <1>6, <3>1, <3>2, <3>3 DEF SelfInv
  <2>2. CASE x = n
    <3>1. y = m
      BY <1>3, <2>1, <2>2
    <3> QED
      BY <1>1, <1>6, <2>2, <3>1, NodeNews
  <2>3. CASE x = m
    <3>1. y = n
      BY <1>3, <2>1, <2>3
    <3> QED
      BY <1>1, <1>2, <1>6, <2>3, <3>1, NodeNews
  <2> QED
    BY <1>3, <2>2, <2>3
<1>7. CASE \E x \in Node : Mine(x) \/ Tick(x)
  BY <1>5, <1>7 DEF Tick
<1>8. CASE \E x \in User : Pay(x) \/ Sync(x)
  BY <1>5, <1>8, NodeSyncAssumption DEF Sync
<1>9. CASE \E x, y \in Node : Connect(x, y) \/ Disconnect(x, y) \/ Handle(x, y)
  BY <1>6, <1>9
<1> QED
  BY <1>4, <1>7, <1>8, <1>9 DEF Next

LEMMA NewsNext == AtMostTwo /\ NewsSpecInv /\ [Next]_vars => NewsSpecInv'
PROOF
<1> SUFFICES ASSUME AtMostTwo, NewsSpecInv, [Next]_vars PROVE NewsSpecInv'
  OBVIOUS
<1>1. Inv' /\ SelfInv'
  BY NextInv, SelfNext DEF NewsSpecInv
<1>2. \A n, m \in Node : n # m => Pair(n, m)'
  BY PairNext
<1>3. PairInv'
  BY <1>2 DEF PairInv, Pair
<1> QED
  BY <1>1, <1>3 DEF NewsSpecInv

\* What the invariant says of a node that is far behind.
LEMMA NewsShown == NewsSpecInv => (AllFit => NewsOnTheWay)
PROOF
<1> SUFFICES ASSUME NewsSpecInv, AllFit, NEW n \in Node, NEW m \in Node, Together(n, m),
                    Len(chain[m]) > Len(chain[n]) + 1
             PROVE  \/ Pending(n, m, {"Established", "Subscribed", "NewBlock", "BlocksBatch"})
                    \/ Pending(m, n, {"GetBlocks"})
  BY DEF NewsOnTheWay
<1>1. n # m /\ NewsInv(n, m)
  BY DEF NewsSpecInv, SelfInv, PairInv, Together
<1>2. ~(Len(chain[m]) <= Len(chain[n]) + 1)
  <2>1. Len(chain[m]) \in Nat /\ Len(chain[n]) \in Nat
    BY DEF NewsSpecInv, Inv, TypeOK
  <2> QED
    BY <2>1
<1>3. \/ Waiting(events[n][m], Kind({"Established", "Subscribed"}))
      \/ Waiting(events[m][n], Kind({"GetBlocks"}))
      \/ Waiting(events[n][m], Current(chain[m]))
  BY <1>1, <1>2 DEF NewsInv, Together
<1> QED
  BY <1>3 DEF Waiting, Kind, Current, Pending

LEMMA TwoAtMost == ASSUME Cardinality(Node) <= 2 PROVE AtMostTwo
PROOF
<1> SUFFICES ASSUME NEW x \in Node, NEW y \in Node, NEW z \in Node,
                    x # y, y # z, x # z
             PROVE  FALSE
  BY DEF AtMostTwo
<1>1. IsFiniteSet(Node) /\ Cardinality(Node) \in Nat
  BY NodeSyncAssumption, FS_CardinalityType
<1> DEFINE one == {x}
           two == one \cup {y}
           three == two \cup {z}
<1>2. IsFiniteSet(one) /\ Cardinality(one) = 1
  BY FS_Singleton
<1>3. y \notin one /\ z \notin two /\ three \subseteq Node
  OBVIOUS
<1>4. IsFiniteSet(two) /\ Cardinality(two) = 2
  <2> HIDE DEF one
  <2> QED
    BY <1>2, <1>3, FS_AddElement
<1> HIDE DEF two
<1>5. Cardinality(three) = 3
  BY <1>3, <1>4, FS_AddElement
<1> HIDE DEF three
<1>6. Cardinality(three) <= Cardinality(Node)
  BY <1>1, <1>3, FS_Subset
<1> QED
  BY <1>1, <1>5, <1>6

\* Between two nodes no order of blocks, requests and batches, and no loss of a
\* connection, makes a node forget that it is two or more blocks behind, as long as
\* every chain held fits into one message: news of the last block of its peer waits
\* for it, or its request waits for the peer (NewBlock, GetBlocks and BlocksBatch of
\* handle_network_message). Beyond that length GetBlocks is no longer answered.
THEOREM NewsReachesNode ==
    ASSUME Cardinality(Node) <= 2
    PROVE  Spec => [](AllFit => NewsOnTheWay)
PROOF
<1>1. AtMostTwo
  BY TwoAtMost
<1>2. Init => NewsSpecInv
  BY InitInv, InitNews DEF NewsSpecInv
<1>3. NewsSpecInv /\ [Next]_vars => NewsSpecInv'
  BY <1>1, NewsNext
<1> QED
  BY <1>2, <1>3, NewsShown, PTL DEF Spec
=============================================================================
