SPECIFICATION Spec
CONSTANTS
    o1 = o1
    o2 = o2
    o3 = o3
    o4 = o4
    w = w
    Wallet = {w}
    NoWallet = NoWallet
    NoTx = NoTx
    OutPoint <- MCOutPoint
    MaxValue = 1
    Offered <- MCOffered
    Fees = {0, 1, 2}
    MaxPool = 4
INVARIANTS TypeOK PoolConsistent HighestFeesFirst
PROPERTIES NoReordering NoOvertaking
