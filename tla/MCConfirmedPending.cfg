SPECIFICATION Spec
CONSTANTS
    n1 = n1
    n2 = n2
    n3 = n3
    alice = alice
    bob = bob
    Node = {n1, n2}
    WalletOf <- SharedWallet
    Wallet = {alice}
    NoWallet = NoWallet
    NoTx = NoTx
    OutPoint <- CoinbaseOutPoint
    MaxValue = 12
    GenesisDifficulty = 1
    InitialReward = 2
    HalvingInterval = 100
    RetargetInterval = 100
    TargetBlockTime = 1
    MaxAdjustmentFactor = 4
    MinDifficulty = 1
    MaxDifficulty = 4
    BlockLimit = 2
    Amounts = {1}
    Fees = {1}
    Times = {0}
    MaxStamp = 4
    MaxTxs = 1
    MaxQueue = 0
    MaxBuffer = 0
INVARIANTS ConfirmedNotPending


