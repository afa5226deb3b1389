------------------------------- MODULE MCNode -------------------------------
\* Model checking Node: names and small sets for its constants.
EXTENDS NodeExpectations

CONSTANTS n1, n2, n3, alice, bob

\* Wallets of a node that runs alone, and of two nodes.
OneWallet == (n1 :> alice)
SharedWallet == (n1 :> alice @@ n2 :> alice)
TwoWallets == (n1 :> alice @@ n2 :> bob)

\* Three nodes, for forks that reach a node from two sides.
ThreeWallets == (n1 :> alice @@ n2 :> alice @@ n3 :> bob)

\* Nodes change places together with their wallets.
Exchanges ==
    {p \in Permutations(Node \cup Wallet) :
        \A n \in Node : p[n] \in Node /\ WalletOf[p[n]] = p[WalletOf[n]]}

\* Outputs at most two payments away from a coinbase, so that a received output
\* or a change output can be spent once more.
Outs(txs) == [tx : txs, index : {1, 2}]

TxsFrom(ops) == [stamp : Nat, signer : Owner, vin : Seq(ops),
                 vout : Seq([value : Value, owner : Owner])]

Coinbases == TxsFrom({NullOutPoint})

MCOutPoint == {NullOutPoint} \cup Outs(Coinbases) \cup Outs(TxsFrom(Outs(Coinbases)))

\* No output but those of coinbases can be spent.
CoinbaseOutPoint == {NullOutPoint} \cup Outs(Coinbases)

\* Outputs of the first coinbase and of the payments that spend it: what one payment
\* leaves as change or pays, another can spend.
FirstOutPoint ==
    LET first == Outs({tx \in Coinbases : tx.stamp = 2})
    IN  {NullOutPoint} \cup first \cup Outs(TxsFrom(first))
=============================================================================
