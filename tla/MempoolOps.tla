----------------------------- MODULE MempoolOps -----------------------------
(***************************************************************************)
(* The operations of the mempool, as functions of its two fields:          *)
(* models/mempool.rs. A pool is a record [entries, reserved_inputs].       *)
(***************************************************************************)
EXTENDS Ledger

Entry == [tx : Tx, fee : Nat]

Pool == [entries : Seq(Entry), reserved_inputs : SUBSET OutPoint]

NewPool == [entries |-> <<>>, reserved_inputs |-> {}]

\* The elements of s at the positions K, in the order `precedes', a set of
\* pairs of positions: what a stable sort or a retain of a Vec leaves.
Arrange(s, K, precedes) ==
    LET Place(i) == Cardinality({j \in K : <<j, i>> \in precedes}) + 1
    IN  [k \in 1..Cardinality(K) |-> s[CHOOSE i \in K : Place(i) = k]]

AsListed(s) == {p \in (DOMAIN s) \X (DOMAIN s) : p[1] < p[2]}

\* Mutant of HigherFeeFirst: equal fees change places.
LaterFirst(s) ==
    {p \in (DOMAIN s) \X (DOMAIN s) :
        \/ s[p[1]].fee > s[p[2]].fee
        \/ s[p[1]].fee = s[p[2]].fee /\ p[1] > p[2]}

\* sort_by is stable: equal fees keep their order.
HigherFeeFirst(s) ==
    {p \in (DOMAIN s) \X (DOMAIN s) :
        \/ s[p[1]].fee > s[p[2]].fee
        \/ s[p[1]].fee = s[p[2]].fee /\ p[1] < p[2]}

SortByFee(s) == Arrange(s, DOMAIN s, HigherFeeFirst(s))

PoolTxs(pool) == {e.tx : e \in Range(pool.entries)}

PoolContains(pool, tx) == tx \in PoolTxs(pool)

\* Mutant of CanAdd: only the id is checked.
CanAddById(pool, tx) == ~PoolContains(pool, tx)

\* add returns Err for a known id or an input another entry has reserved.
CanAdd(pool, tx) ==
    /\ ~PoolContains(pool, tx)
    /\ Inputs(tx) \cap pool.reserved_inputs = {}

\* Mutant of Add: the entries are not sorted again.
AddUnsorted(pool, tx, fee) ==
    [entries |-> Append(pool.entries, [tx |-> tx, fee |-> fee]),
     reserved_inputs |-> pool.reserved_inputs \cup Inputs(tx)]

\* Mutant of Add: the new entry is put in front of the others.
AddInFront(pool, tx, fee) ==
    [entries |-> SortByFee(<<[tx |-> tx, fee |-> fee]>> \o pool.entries),
     reserved_inputs |-> pool.reserved_inputs \cup Inputs(tx)]

\* Mutant of Add: the id of the entry is reserved instead of its inputs.
AddReservingId(pool, tx, fee) ==
    [entries |-> SortByFee(Append(pool.entries, [tx |-> tx, fee |-> fee])),
     reserved_inputs |-> pool.reserved_inputs \cup {[tx |-> tx, index |-> 0]}]

Add(pool, tx, fee) ==
    [entries |-> SortByFee(Append(pool.entries, [tx |-> tx, fee |-> fee])),
     reserved_inputs |-> pool.reserved_inputs \cup Inputs(tx)]

FirstEntries(pool, limit) ==
    1..(IF Len(pool.entries) < limit THEN Len(pool.entries) ELSE limit)

CollectForBlock(pool, limit) ==
    [i \in FirstEntries(pool, limit) |-> pool.entries[i].tx]

PendingTxs(pool) == CollectForBlock(pool, Len(pool.entries))

\* Mutant of TotalFees: one entry short.
TotalFeesShort(pool, limit) ==
    SumFunction([i \in FirstEntries(pool, limit) \ {limit} |-> pool.entries[i].fee])

\* entries.iter().take(limit).map(fee).sum()
TotalFees(pool, limit) ==
    SumFunction([i \in FirstEntries(pool, limit) |-> pool.entries[i].fee])

\* Mutant of PurgeConfirmed: the inputs of the entries stay reserved.
PurgeEntries(pool, ids) ==
    LET s == pool.entries
    IN  [pool EXCEPT !.entries =
           Arrange(s, {i \in DOMAIN s : s[i].tx \notin ids}, AsListed(s))]

\* Mutant of PurgeConfirmed: the first entries are taken for the confirmed ones.
PurgeFirst(pool, ids) ==
    LET s == pool.entries
        kept == {i \in DOMAIN s : i > Cardinality(ids)}
    IN  [entries |-> Arrange(s, kept, AsListed(s)),
         reserved_inputs |-> UNION {Inputs(s[i].tx) : i \in kept}]

PurgeConfirmed(pool, ids) ==
    LET s == pool.entries
        gone == {i \in DOMAIN s : s[i].tx \in ids}
    IN  [entries |-> Arrange(s, DOMAIN s \ gone, AsListed(s)),
         reserved_inputs |->
            pool.reserved_inputs \ UNION {Inputs(s[i].tx) : i \in gone}]

-----------------------------------------------------------------------------
\* What the pool promises its users.

\* The reserved inputs are the inputs of the entries, and no two entries share
\* one: the pool never holds a double spend and never blocks a free output.
Consistent(pool) ==
    /\ pool.reserved_inputs = UNION {Inputs(tx) : tx \in PoolTxs(pool)}
    /\ \A i, j \in DOMAIN pool.entries :
          i # j => /\ pool.entries[i].tx # pool.entries[j].tx
                   /\ Inputs(pool.entries[i].tx) \cap Inputs(pool.entries[j].tx) = {}

\* The entries are in order of decreasing fee.
Sorted(pool) ==
    \A i, j \in DOMAIN pool.entries :
        i < j => pool.entries[i].fee >= pool.entries[j].fee
=============================================================================
