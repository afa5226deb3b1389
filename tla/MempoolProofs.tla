---------------------------- MODULE MempoolProofs ----------------------------
(***************************************************************************)
(* Proofs of the properties of module Mempool, for every set of            *)
(* transactions and fees.                                                  *)
(***************************************************************************)
EXTENDS Mempool, OpsProofs

Inv == TypeOK /\ PoolConsistent /\ HighestFeesFirst

LEMMA InitInv == Init => Inv
PROOF
<1> SUFFICES ASSUME Init PROVE Inv
  OBVIOUS
<1>1. mempool.entries = <<>> /\ mempool.reserved_inputs = {}
  BY DEF Init, NewPool
<1>2. PoolTxs(mempool) = {}
  BY <1>1 DEF PoolTxs, Range
<1> QED
  BY <1>1, <1>2 DEF Init, NewPool, Inv, TypeOK, Pool, PoolConsistent, Consistent,
                    HighestFeesFirst, Sorted

LEMMA NextInv == Inv /\ [Next]_mempool => Inv'
PROOF
<1> SUFFICES ASSUME Inv, [Next]_mempool PROVE Inv'
  OBVIOUS
<1> USE DEF Inv, TypeOK, PoolConsistent, HighestFeesFirst
<1>1. ASSUME NEW tx \in Offered, NEW fee \in Fees, AddTx(tx, fee) PROVE Inv'
  <2>1. tx \in Tx /\ fee \in Nat
    BY MempoolAssumption
  <2> QED
    BY <1>1, <2>1, AddKeeps DEF AddTx
<1>2. ASSUME NEW ids \in SUBSET Offered, Purge(ids) PROVE Inv'
  BY <1>2, PurgeKeeps DEF Purge
<1>3. CASE UNCHANGED mempool
  BY <1>3
<1> QED
  BY <1>1, <1>2, <1>3 DEF Next

LEMMA SpecInv == Spec => []Inv
PROOF
  BY InitInv, NextInv, PTL DEF Spec

\* The fields of the pool always have their types (mempool.rs struct Mempool).
THEOREM MempoolTypeCorrect == Spec => []TypeOK
PROOF
<1>1. Inv => TypeOK
  BY DEF Inv
<1> QED
  BY <1>1, SpecInv, PTL

\* No sequence of additions and purges leaves two entries that spend one output,
\* or a reservation without an entry (mempool.rs add, purge_confirmed).
THEOREM MempoolConsistent == Spec => []PoolConsistent
PROOF
<1>1. Inv => PoolConsistent
  BY DEF Inv
<1> QED
  BY <1>1, SpecInv, PTL

\* The entries always stand in order of decreasing fee (mempool.rs sort_by).
THEOREM MempoolSorted == Spec => []HighestFeesFirst
PROOF
<1>1. Inv => HighestFeesFirst
  BY DEF Inv
<1> QED
  BY <1>1, SpecInv, PTL

-----------------------------------------------------------------------------
\* The order of the entries, step by step.

\* A transaction has one place.
LEMMA Places ==
    ASSUME NEW pool, Consistent(pool)
    PROVE  /\ \A i \in DOMAIN pool.entries : PlaceOf(pool, pool.entries[i].tx) = i
           /\ \A tx \in PoolTxs(pool) : \E i \in DOMAIN pool.entries :
                 pool.entries[i].tx = tx /\ PlaceOf(pool, tx) = i
PROOF
<1>1. ASSUME NEW i \in DOMAIN pool.entries
      PROVE  PlaceOf(pool, pool.entries[i].tx) = i
  <2>1. \A j \in DOMAIN pool.entries : pool.entries[j].tx = pool.entries[i].tx => j = i
    BY DEF Consistent
  <2> QED
    BY <2>1 DEF PlaceOf
<1>2. \A tx \in PoolTxs(pool) : \E i \in DOMAIN pool.entries : pool.entries[i].tx = tx
  BY DEF PoolTxs, Range
<1> QED
  BY <1>1, <1>2

\* Where add puts the entries: the new one behind those that pay as much, the
\* others in the order they had.
LEMMA AddPlaces ==
    ASSUME NEW pool \in Pool, Sorted(pool), NEW tx \in Tx, NEW fee \in Nat,
           NEW i \in DOMAIN pool.entries
    PROVE  /\ \A j \in DOMAIN pool.entries : i < j =>
                 Precede(Add(pool, tx, fee).entries, pool.entries[i], pool.entries[j])
           /\ pool.entries[i].fee >= fee =>
                 Precede(Add(pool, tx, fee).entries, pool.entries[i],
                         [tx |-> tx, fee |-> fee])
PROOF
<1> DEFINE old == pool.entries
           entry == [tx |-> tx, fee |-> fee]
           s == Append(old, entry)
           new == Add(pool, tx, fee).entries
           last == Len(old) + 1
           order == HigherFeeFirst(s)
<1>1. old \in Seq(Entry) /\ entry \in Entry /\ entry.fee = fee
  BY DEF Pool, Entry
<1>2. /\ s \in Seq(Entry) /\ DOMAIN s = 1..last /\ s[last] = entry
      /\ Len(old) \in Nat /\ DOMAIN old = 1..Len(old)
      /\ \A j \in DOMAIN old : s[j] = old[j] /\ old[j] \in Entry
  BY <1>1, AppendProperties
<1>3. new = Arrange(s, DOMAIN s, order)
  BY DEF Add, SortByFee
<1>4. \A j \in DOMAIN old : i < j => old[i].fee >= old[j].fee
  BY DEF Sorted
<1>5. \A j, k \in DOMAIN s : (s[j].fee > s[k].fee \/ (s[j].fee = s[k].fee /\ j < k))
                              => <<j, k>> \in order
  BY DEF HigherFeeFirst
<1> HIDE DEF s
<1>6. Orders(order, DOMAIN s)
  BY <1>2, FeeOrder
<1> HIDE DEF order, new
<1>7. \A j, k \in DOMAIN s : <<j, k>> \in order => Precede(new, s[j], s[k])
  BY <1>2, <1>3, <1>6, ArrangeOrders
<1> HIDE DEF old, entry
<1>8. \A j \in DOMAIN old : j \in DOMAIN s /\ j < last /\ old[j].fee \in Nat
  BY <1>2 DEF Entry
<1>9. last \in DOMAIN s
  BY <1>2
<1>10. ASSUME NEW j \in DOMAIN old, i < j
       PROVE  Precede(new, old[i], old[j])
  <2>1. old[i].fee > old[j].fee \/ old[i].fee = old[j].fee
    BY <1>4, <1>8, <1>10 DEF old
  <2>2. <<i, j>> \in order
    BY <1>2, <1>5, <1>8, <1>10, <2>1 DEF old
  <2> QED
    BY <1>2, <1>7, <1>8, <2>2 DEF old
<1>11. ASSUME old[i].fee >= fee
       PROVE  Precede(new, old[i], entry)
  <2>1. i \in DOMAIN old
    BY DEF old
  <2>2. old[i].fee > s[last].fee \/ old[i].fee = s[last].fee
    BY <1>1, <1>2, <1>8, <1>11, <2>1
  <2>3. <<i, last>> \in order
    BY <1>2, <1>5, <1>8, <1>9, <2>1, <2>2
  <2> QED
    BY <1>2, <1>7, <1>8, <1>9, <2>1, <2>3
<1> QED
  BY <1>10, <1>11 DEF old, new, entry

\* purge_confirmed leaves the entries in the order they had.
LEMMA PurgePlaces ==
    ASSUME NEW pool \in Pool, NEW ids, NEW i \in DOMAIN pool.entries,
           NEW j \in DOMAIN pool.entries, i < j,
           pool.entries[i].tx \notin ids, pool.entries[j].tx \notin ids
    PROVE  Precede(PurgeConfirmed(pool, ids).entries, pool.entries[i], pool.entries[j])
PROOF
<1> DEFINE old == pool.entries
           new == PurgeConfirmed(pool, ids).entries
           K == DOMAIN old \ {k \in DOMAIN old : old[k].tx \in ids}
<1>1. old \in Seq(Entry)
  BY DEF Pool
<1>2. new = Arrange(old, K, AsListed(old))
  BY DEF PurgeConfirmed
<1>3. Orders(AsListed(old), K) /\ K \in SUBSET DOMAIN old
  BY <1>1, ListOrder
<1>4. i \in K /\ j \in K /\ <<i, j>> \in AsListed(old)
  BY DEF AsListed
<1> HIDE DEF new, old, K
<1>5. Precede(new, old[i], old[j])
  BY <1>1, <1>2, <1>3, <1>4, ArrangeOrders
<1> QED
  BY <1>5 DEF new, old

\* Where a consistent pool has transactions whose entries precede each other.
LEMMA PrecedeInPlace ==
    ASSUME NEW pool, Consistent(pool), NEW e, NEW f, Precede(pool.entries, e, f)
    PROVE  PlaceOf(pool, e.tx) < PlaceOf(pool, f.tx)
PROOF
<1>1. PICK k \in DOMAIN pool.entries, l \in DOMAIN pool.entries :
         k < l /\ pool.entries[k] = e /\ pool.entries[l] = f
  BY DEF Precede
<1>2. PlaceOf(pool, e.tx) = k /\ PlaceOf(pool, f.tx) = l
  BY <1>1, Places
<1> QED
  BY <1>1, <1>2

LEMMA StepInOrder ==
    ASSUME Inv, Inv', Next,
           NEW t \in PoolTxs(mempool) \cap PoolTxs(mempool'),
           NEW u \in PoolTxs(mempool) \cap PoolTxs(mempool'),
           PlaceOf(mempool, t) < PlaceOf(mempool, u)
    PROVE  PlaceOf(mempool', t) < PlaceOf(mempool', u)
PROOF
<1>1. /\ mempool \in Pool /\ Consistent(mempool) /\ Sorted(mempool)
      /\ Consistent(mempool')
  BY DEF Inv, TypeOK, PoolConsistent, HighestFeesFirst
<1>2. PICK i \in DOMAIN mempool.entries :
         mempool.entries[i].tx = t /\ PlaceOf(mempool, t) = i
  BY <1>1, Places
<1>3. PICK j \in DOMAIN mempool.entries :
         mempool.entries[j].tx = u /\ PlaceOf(mempool, u) = j
  BY <1>1, Places
<1>4. i < j
  BY <1>2, <1>3
<1>5. Precede(mempool'.entries, mempool.entries[i], mempool.entries[j])
  <2>1. ASSUME NEW tx \in Offered, NEW fee \in Fees, AddTx(tx, fee)
        PROVE  Precede(mempool'.entries, mempool.entries[i], mempool.entries[j])
    <3>1. mempool' = Add(mempool, tx, fee) /\ tx \in Tx /\ fee \in Nat
      BY <2>1, MempoolAssumption DEF AddTx
    <3>2. Precede(Add(mempool, tx, fee).entries, mempool.entries[i], mempool.entries[j])
      BY <1>1, <1>4, <3>1, AddPlaces
    <3> QED
      BY <3>1, <3>2
  <2>2. ASSUME NEW ids \in SUBSET Offered, Purge(ids)
        PROVE  Precede(mempool'.entries, mempool.entries[i], mempool.entries[j])
    <3>1. mempool' = PurgeConfirmed(mempool, ids)
      BY <2>2 DEF Purge
    <3>2. Range(mempool'.entries) = {e \in Range(mempool.entries) : e.tx \notin ids}
      BY <1>1, <3>1, PurgeKeeps
    <3>3. t \notin ids /\ u \notin ids
      BY <3>2 DEF PoolTxs
    <3>4. Precede(PurgeConfirmed(mempool, ids).entries,
                  mempool.entries[i], mempool.entries[j])
      BY <1>1, <1>2, <1>3, <1>4, <3>3, PurgePlaces
    <3> QED
      BY <3>1, <3>4
  <2> QED
    BY <2>1, <2>2 DEF Next
<1> QED
  BY <1>1, <1>2, <1>3, <1>5, PrecedeInPlace

\* Two entries never change places, whatever comes and goes: equal fees are served
\* in order of arrival (mempool.rs, the stable sort_by of add and the retain of
\* purge_confirmed).
THEOREM EntriesKeepOrder == Spec => NoReordering
PROOF
<1> DEFINE Ordered == \A t, u \in PoolTxs(mempool) \cap PoolTxs(mempool)' :
                         PlaceOf(mempool, t) < PlaceOf(mempool, u)
                            => PlaceOf(mempool', t) < PlaceOf(mempool', u)
<1>1. Inv /\ Inv' /\ [Next]_mempool => [Ordered]_mempool
  BY StepInOrder
<1> HIDE DEF Ordered
<1>2. Spec => [][Ordered]_mempool
  BY <1>1, SpecInv, PTL DEF Spec
<1> QED
  BY <1>2 DEF NoReordering, Ordered

LEMMA StepQueuesBehind ==
    ASSUME Inv, Inv', Next, NEW t \in PoolTxs(mempool), t \in PoolTxs(mempool'),
           NEW u \in PoolTxs(mempool') \ PoolTxs(mempool),
           mempool'.entries[PlaceOf(mempool', t)].fee
              >= mempool'.entries[PlaceOf(mempool', u)].fee
    PROVE  PlaceOf(mempool', t) < PlaceOf(mempool', u)
PROOF
<1>1. /\ mempool \in Pool /\ Consistent(mempool) /\ Sorted(mempool)
      /\ Consistent(mempool')
  BY DEF Inv, TypeOK, PoolConsistent, HighestFeesFirst
<1>2. PICK j \in DOMAIN mempool'.entries :
         mempool'.entries[j].tx = u /\ PlaceOf(mempool', u) = j
  BY <1>1, Places
<1>3. ASSUME NEW ids \in SUBSET Offered, Purge(ids) PROVE FALSE
  <2>1. Range(mempool'.entries) = {e \in Range(mempool.entries) : e.tx \notin ids}
    BY <1>1, <1>3, PurgeKeeps DEF Purge
  <2> QED
    BY <2>1 DEF PoolTxs
<1>4. PICK tx \in Offered, fee \in Fees : AddTx(tx, fee)
  BY <1>3 DEF Next
<1>5. mempool' = Add(mempool, tx, fee) /\ CanAdd(mempool, tx) /\ tx \in Tx /\ fee \in Nat
  BY <1>4, MempoolAssumption DEF AddTx
<1>6. Range(mempool'.entries) = Range(mempool.entries) \cup {[tx |-> tx, fee |-> fee]}
  BY <1>1, <1>5, AddKeeps
<1>7. mempool'.entries[j] = [tx |-> tx, fee |-> fee]
  <2>1. mempool'.entries[j] \in Range(mempool'.entries)
    BY <1>2 DEF Range
  <2>2. mempool'.entries[j] \notin Range(mempool.entries)
    BY <1>2 DEF PoolTxs
  <2> QED
    BY <1>6, <2>1, <2>2
<1>8. PICK i \in DOMAIN mempool.entries : mempool.entries[i].tx = t
  BY <1>1, Places
<1>9. mempool.entries[i].fee >= fee
  <2>1. mempool.entries[i] \in Range(mempool'.entries)
    BY <1>6 DEF Range
  <2>2. PICK k \in DOMAIN mempool'.entries : mempool'.entries[k] = mempool.entries[i]
    BY <2>1 DEF Range
  <2>3. PlaceOf(mempool', t) = k
    BY <1>1, <1>8, <2>2, Places
  <2>4. mempool'.entries[k].fee >= mempool'.entries[j].fee
    BY <1>2, <2>3
  <2> QED
    BY <1>7, <2>2, <2>4
<1>10. Precede(Add(mempool, tx, fee).entries, mempool.entries[i], [tx |-> tx, fee |-> fee])
  BY <1>1, <1>5, <1>9, AddPlaces
<1>11. Precede(mempool'.entries, mempool.entries[i], mempool'.entries[j])
  BY <1>5, <1>7, <1>10
<1> QED
  BY <1>1, <1>2, <1>8, <1>11, PrecedeInPlace

\* A newcomer queues behind every entry that pays at least as much (mempool.rs add).
THEOREM NewcomersQueueBehind == Spec => NoOvertaking
PROOF
<1> DEFINE Behind == \A t \in PoolTxs(mempool), u \in PoolTxs(mempool)' \ PoolTxs(mempool) :
                        t \in PoolTxs(mempool)' =>
                          LET e == mempool'.entries
                              i == PlaceOf(mempool', t)
                              j == PlaceOf(mempool', u)
                          IN  e[i].fee >= e[j].fee => i < j
<1>1. Inv /\ Inv' /\ [Next]_mempool => [Behind]_mempool
  BY StepQueuesBehind
<1> HIDE DEF Behind
<1>2. Spec => [][Behind]_mempool
  BY <1>1, SpecInv, PTL DEF Spec
<1> QED
  BY <1>2 DEF NoOvertaking, Behind
=============================================================================
