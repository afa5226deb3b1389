------------------------------- MODULE Queries -------------------------------
(***************************************************************************)
(* What users are told about a chain: the transaction history of an owner  *)
(* (models/history.rs), the balance and the supply (api/routes.rs), and    *)
(* whether the chain is valid (models/blockchain.rs). Pure operators on    *)
(* the chain the handler finds under its lock, and what must hold of them  *)
(* for every chain a node may hold. The order of a history, newest first,  *)
(* is left out.                                                            *)
(***************************************************************************)
EXTENDS Node

TotalOf(owner, ops) == Total({op \in ops : OutputOf(op).owner = owner})

\* Mutant of FeeIn: the inputs are looked up among the unspent outputs, as
\* get_tx does.
FeeInUnspent(c, tx) ==
    LET paid == Total(Inputs(tx) \cap BuildUtxoSet(c)) - OutputTotal(tx)
    IN  IF IsCoinbase(tx) \/ paid < 0 THEN 0 ELSE paid

\* The fee of a transaction, from all outputs of the chain.
FeeIn(c, tx) ==
    LET paid == Total(Inputs(tx) \cap AllOutputs(c)) - OutputTotal(tx)
    IN  IF IsCoinbase(tx) \/ paid < 0 THEN 0 ELSE paid

\* Mutant of Classify: the change is not counted as received.
ClassifyNoChange(c, p, owner) ==
    LET tx       == TxAt(c, p)
        received == TotalOf(owner, Outputs(tx))
        spent    == IF IsCoinbase(tx) THEN 0
                    ELSE TotalOf(owner, Inputs(tx) \cap AllOutputs(c))
    IN  [direction |-> IF spent = 0 THEN "received"
                       ELSE IF received = spent THEN "self" ELSE "sent",
         net |-> IF spent = 0 THEN received ELSE -spent,
         fee |-> FeeIn(c, tx), confirmations |-> Len(c) - p[1] + 1]

\* classify_tx, for a transaction that involves the owner.
Classify(c, p, owner) ==
    LET tx       == TxAt(c, p)
        received == TotalOf(owner, Outputs(tx))
        spent    == IF IsCoinbase(tx) THEN 0
                    ELSE TotalOf(owner, Inputs(tx) \cap AllOutputs(c))
    IN  [direction |-> IF spent = 0 THEN "received"
                       ELSE IF received = spent THEN "self" ELSE "sent",
         net |-> IF received = spent THEN 0 ELSE received - spent,
         fee |-> FeeIn(c, tx), confirmations |-> Len(c) - p[1] + 1]

\* The places of the transactions build_history reports to an owner.
Involving(c, owner) ==
    {p \in Positions(c) :
        \/ TotalOf(owner, Outputs(TxAt(c, p))) # 0
        \/ /\ ~IsCoinbase(TxAt(c, p))
           /\ TotalOf(owner, Inputs(TxAt(c, p)) \cap AllOutputs(c)) # 0}

\* The balance of get_address: reserved outputs count.
AddressBalance(c, owner) == TotalOf(owner, BuildUtxoSet(c))

\* The supply of get_info: what all coinbases paid, the fees in them included.
TotalSupply(c) ==
    SumFunction([p \in {q \in Positions(c) : IsCoinbase(TxAt(c, q))} |->
                    OutputTotal(TxAt(c, p))])

\* is_valid, with ideal hashes and no proof of work: the first block names no
\* previous one, the others name the one before them.
IsValid(c) == c[1].previous_hash = 0 /\ Linked(c)

-----------------------------------------------------------------------------
\* An account book: the net amounts of a history add up to the balance, through
\* payments to oneself, change, spent outputs and reorganisations (classify_tx
\* against build_utxo_set).
HistoryExplainsBalance ==
    \A c \in {chain[n] : n \in Node} : \A owner \in Owner :
        SumFunction([p \in Involving(c, owner) |-> Classify(c, p, owner).net])
            = AddressBalance(c, owner)

\* The fees in the history of an owner, of the transactions it has paid for.
FeesPaid(c, owner) ==
    SumFunction([p \in {q \in Involving(c, owner) :
                           Classify(c, q, owner).direction # "received"} |->
                    Classify(c, p, owner).fee])

\* No value appears or disappears unreported: the supply that get_info shows is
\* the sum of all balances and of the fees in the histories of those who paid.
SupplyExplained ==
    \A c \in {chain[n] : n \in Node} :
        TotalSupply(c) =
            SumFunction([owner \in Owner |->
                            AddressBalance(c, owner) + FeesPaid(c, owner)])
=============================================================================
