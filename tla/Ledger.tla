------------------------------- MODULE Ledger -------------------------------
(***************************************************************************)
(* Transactions, unspent outputs and the validation rules of a chain:      *)
(* models/transaction.rs and the pure part of models/blockchain.rs.        *)
(*                                                                         *)
(* Hashes are ideal: a transaction IS its id, so equal ids mean equal      *)
(* content, and an outpoint holds the transaction that created the output. *)
(* `signer' stands for the public key and the signatures of the inputs.    *)
(* An unspent-output map is the set of its keys: the output an outpoint    *)
(* refers to is found inside the outpoint.                                 *)
(***************************************************************************)
EXTENDS Integers, FiniteSets, SequencesExt

CONSTANTS
    Wallet,        \* key pairs that can sign
    NoWallet,      \* owner of the genesis output, signer of a coinbase
    NoTx,          \* the empty transaction id, ""
    OutPoint,      \* the outputs inputs may refer to; bounds chains of spends
    MaxValue       \* bound: the largest amount; u64::MAX in the code

Value == 0..MaxValue

\* What a coinbase has as its input. The code numbers outputs from 0 and uses
\* u32::MAX here; the model numbers them from 1 and uses 0.
NullOutPoint == [tx |-> NoTx, index |-> 0]

ASSUME LedgerAssumption ==
    /\ NoWallet \notin Wallet
    /\ IsFiniteSet(Wallet)
    /\ NullOutPoint \in OutPoint
    /\ MaxValue \in Nat

Owner == Wallet \cup {NoWallet}

\* `stamp' separates coinbases (their id hashes the clock in nanoseconds); a
\* payment has stamp 0 because signing is deterministic.
Tx == [stamp : Nat, signer : Owner, vin : Seq(OutPoint),
       vout : Seq([value : Value, owner : Owner])]

Inputs(tx) == Range(tx.vin)

Outputs(tx) == {[tx |-> tx, index |-> i] : i \in DOMAIN tx.vout}

OutputOf(op) == op.tx.vout[op.index]

Total(ops) == SumFunction([op \in ops |-> OutputOf(op).value])

OutputTotal(tx) == SumFunction([i \in DOMAIN tx.vout |-> tx.vout[i].value])

IsCoinbase(tx) == tx.vin = <<NullOutPoint>>

Coinbase(stamp, owner, value) ==
    [stamp |-> stamp, signer |-> NoWallet, vin |-> <<NullOutPoint>>,
     vout |-> <<[value |-> value, owner |-> owner]>>]

\* new_unsigned followed by sign_inputs: the change output exists only if there
\* is change.
Payment(from, vin, to, amount, change) ==
    [stamp |-> 0, signer |-> from, vin |-> vin,
     vout |-> IF change = 0 THEN <<[value |-> amount, owner |-> to]>>
              ELSE <<[value |-> amount, owner |-> to],
                     [value |-> change, owner |-> from]>>]

VerifyBasic(tx) ==
    /\ tx.vout # <<>>
    /\ \A i \in DOMAIN tx.vout : tx.vout[i].value > 0

ValidateAgainst(tx, utxos) ==
    /\ VerifyBasic(tx)
    /\ \/ IsCoinbase(tx)
       \/ /\ tx.vin # <<>>
          /\ \A i, j \in DOMAIN tx.vin : tx.vin[i] = tx.vin[j] => i = j
          /\ \A op \in Inputs(tx) : op \in utxos /\ OutputOf(op).owner = tx.signer
          /\ Total(Inputs(tx)) >= OutputTotal(tx)

\* Mutant of Fee: the operands of checked_sub the other way round.
FeeSwapped(tx) ==
    IF IsCoinbase(tx) THEN 0 ELSE OutputTotal(tx) - Total(Inputs(tx))

\* calculate_fee(tx).unwrap_or(0), for a transaction whose inputs are unspent.
Fee(tx) ==
    LET fee == IF IsCoinbase(tx) THEN 0 ELSE Total(Inputs(tx)) - OutputTotal(tx)
    IN  IF fee \in Nat THEN fee ELSE 0

-----------------------------------------------------------------------------
\* Blocks. `hash' is a token: 0 before mining, 1 for genesis, then one per block.
Block == [index : Nat, hash : Nat, previous_hash : Nat, transactions : Seq(Tx),
          reward : Value, difficulty : Nat, timestamp : Nat]

\* The places of a chain that hold a transaction, in the order of the chain.
Positions(chain) ==
    UNION {{<<i, j>> : j \in DOMAIN chain[i].transactions} : i \in DOMAIN chain}

TxAt(chain, p) == chain[p[1]].transactions[p[2]]

Before(p, q) == p[1] < q[1] \/ (p[1] = q[1] /\ p[2] < q[2])

\* Every output ever created; mutant of BuildUtxoSet without the pass over the
\* inputs.
AllOutputs(chain) == UNION {Outputs(TxAt(chain, p)) : p \in Positions(chain)}

\* build_utxo_set: a pass that collects what is spent, then a pass that keeps
\* the outputs that are not.
BuildUtxoSet(chain) ==
    (UNION {Outputs(TxAt(chain, p)) : p \in Positions(chain)})
      \ (UNION {Inputs(TxAt(chain, p)) :
                  p \in {q \in Positions(chain) : ~IsCoinbase(TxAt(chain, q))}})

\* The map after the transactions before position j of txs have been applied to
\* utxos, each removing its inputs and then inserting its outputs: what is left
\* is what was there or was created, and has not been removed since.
UtxosAt(utxos, txs, j) ==
    {op \in utxos : \A k \in 1..(j - 1) : op \notin Inputs(txs[k])}
      \cup (UNION {{op \in Outputs(txs[i]) :
                      \A k \in (i + 1)..(j - 1) : op \notin Inputs(txs[k])} :
                    i \in 1..(j - 1)})

\* Mutant of ReplayUtxos: only the inputs in the block of q are removed.
ReplayThisBlock(chain, q) ==
    UNION {{op \in Outputs(TxAt(chain, p)) :
              \A r \in Positions(chain) :
                  r[1] = q[1] /\ Before(r, q) => op \notin Inputs(TxAt(chain, r))} :
            p \in {r \in Positions(chain) : Before(r, q)}}

\* The same from an empty map over every block of a chain, before position q.
ReplayUtxos(chain, q) ==
    UNION {{op \in Outputs(TxAt(chain, p)) :
              \A r \in Positions(chain) :
                  Before(p, r) /\ Before(r, q) => op \notin Inputs(TxAt(chain, r))} :
            p \in {r \in Positions(chain) : Before(r, q)}}

\* The transaction loop of try_append_block.
TxsApply(txs, utxos) ==
    \A j \in DOMAIN txs :
        IsCoinbase(txs[j]) \/ ValidateAgainst(txs[j], UtxosAt(utxos, txs, j))

\* The transaction loop of try_replace_chain.
ChainReplays(chain) ==
    \A q \in Positions(chain) :
        \/ IsCoinbase(TxAt(chain, q))
        \/ ValidateAgainst(TxAt(chain, q), ReplayUtxos(chain, q))

\* Each block names the hash of the one before it.
Linked(chain) ==
    \A i \in 2..Len(chain) : chain[i].previous_hash = chain[i - 1].hash

-----------------------------------------------------------------------------
\* The inputs create_transaction may select: it sorts the available outputs by
\* value and takes them until the total covers what is needed. Outputs of equal
\* value come in any order (they are iterated from a HashMap).
Selections(available, needed) ==
    LET Sums(vin, k) == Total({vin[i] : i \in 1..k})
        Val(op) == OutputOf(op).value
    IN  {vin \in UNION {[1..k -> available] : k \in 1..Cardinality(available)} :
            /\ \A i, j \in DOMAIN vin : i < j => /\ vin[i] # vin[j]
                                                 /\ Val(vin[i]) <= Val(vin[j])
            /\ \A op \in available \ Range(vin) : Val(op) >= Val(Last(vin))
            /\ Sums(vin, Len(vin)) >= needed
            /\ Sums(vin, Len(vin) - 1) < needed}
=============================================================================
