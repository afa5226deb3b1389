----------------------------- MODULE MCMempool ------------------------------
\* Model checking Mempool: transactions that spend overlapping sets of four
\* outputs, three fees, and a pool of up to four entries.
EXTENDS Mempool

CONSTANTS o1, o2, o3, o4, w

MCOutPoint == {o1, o2, o3, o4, NullOutPoint}

MCTx(vin) == [stamp |-> 0, signer |-> w, vin |-> vin,
              vout |-> <<[value |-> 1, owner |-> w]>>]

MCOffered ==
    {MCTx(vin) : vin \in {<<o1>>, <<o2>>, <<o3>>, <<o4>>, <<o1, o2>>, <<o3, o2>>}}
=============================================================================
