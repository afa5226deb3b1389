------------------------------ MODULE Mempool -------------------------------
(***************************************************************************)
(* The mempool on its own, under every sequence of calls its users may     *)
(* make: any transaction is offered, and any set of ids is purged          *)
(* (NewBlock purges the ids of a whole block, known to the pool or not).   *)
(***************************************************************************)
EXTENDS MempoolOps

CONSTANTS
    Offered,   \* the transactions users offer
    Fees,      \* the fees users state
    MaxPool    \* bound: the number of entries

ASSUME MempoolAssumption ==
    /\ Offered \subseteq Tx
    /\ \A tx \in Offered : tx.vin # <<>>
    /\ Fees \subseteq Nat
    /\ MaxPool \in Nat

VARIABLE mempool    \* the Mempool struct

TypeOK == mempool \in Pool

Init == mempool = NewPool

AddTx(tx, fee) ==
    /\ Len(mempool.entries) < MaxPool
    /\ CanAdd(mempool, tx)
    /\ mempool' = Add(mempool, tx, fee)

Purge(ids) ==
    mempool' = PurgeConfirmed(mempool, ids)

Next ==
    \/ \E tx \in Offered, fee \in Fees : AddTx(tx, fee)
    \/ \E ids \in SUBSET Offered : Purge(ids)

Spec == Init /\ [][Next]_mempool

-----------------------------------------------------------------------------
\* No double spend is pending and no output stays reserved by an entry that
\* has left, whatever was added and purged (mempool.rs add, purge_confirmed).
PoolConsistent == Consistent(mempool)

\* Miners read the first entries, so these must pay the highest fees after any
\* mix of additions and purges (mempool.rs sort_by in add).
HighestFeesFirst == Sorted(mempool)

PlaceOf(pool, tx) == CHOOSE i \in DOMAIN pool.entries : pool.entries[i].tx = tx

\* Two entries never change places: an entry is overtaken only by one that
\* arrives later, so equal fees are served in order of arrival.
NoReordering ==
    [][\A t, u \in PoolTxs(mempool) \cap PoolTxs(mempool)' :
          PlaceOf(mempool, t) < PlaceOf(mempool, u)
             => PlaceOf(mempool', t) < PlaceOf(mempool', u)]_mempool

\* A newcomer never displaces an entry that pays at least as much from the
\* places before it: later arrivals with the same fee queue behind.
NoOvertaking ==
    [][\A t \in PoolTxs(mempool), u \in PoolTxs(mempool)' \ PoolTxs(mempool) :
          t \in PoolTxs(mempool)' =>
            LET e == mempool'.entries
                i == PlaceOf(mempool', t)
                j == PlaceOf(mempool', u)
            IN  e[i].fee >= e[j].fee => i < j]_mempool
=============================================================================
