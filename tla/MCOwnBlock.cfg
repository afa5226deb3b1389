SPECIFICATION Spec
CONSTANTS
    n1 = n1
    n2 = n2
    n3 = n3
    alice = alice
    bob = bob
    Node = {n1}
    WalletOf <- OneWallet
    Wallet = {alice, bob}
    NoWallet = NoWallet
    NoTx = NoTx
    OutPoint <- MCOutPoint
    MaxValue = 12
    GenesisDifficulty = 1
    InitialReward = 2
    HalvingInterval = 3
    RetargetInterval = 2
    TargetBlockTime = 2
    MaxAdjustmentFactor = 2
    MinDifficulty = 1
    MaxDifficulty = 4
    BlockLimit = 1
    Amounts = {}
    Fees = {1}
    Times = {0}
    MaxStamp = 4
    MaxTxs = 2
    MaxQueue = 1
    MaxBuffer = 0
INVARIANTS OwnBlockAccepted

