SPECIFICATION Spec
CONSTANTS
    n1 = n1
    n2 = n2
    n3 = n3
    alice = alice
    bob = bob
    Node = {n1, n2}
    WalletOf <- TwoWallets
    Wallet = {alice, bob}
    NoWallet = NoWallet
    NoTx = NoTx
    OutPoint <- FirstOutPoint
    MaxValue = 12
    GenesisDifficulty = 1
    InitialReward = 3
    HalvingInterval = 100
    RetargetInterval = 100
    TargetBlockTime = 1
    MaxAdjustmentFactor = 4
    MinDifficulty = 1
    MaxDifficulty = 4
    BlockLimit = 2
    Amounts = {1}
    Fees = {0, 1}
    Times = {0}
    MaxStamp = 5
    MaxTxs = 1
    MaxQueue = 0
    MaxBuffer = 0
INVARIANTS ChainsReplay NoDoubleSpend UtxoSetsAgree HistoryExplainsBalance SupplyExplained
PROPERTIES OnlyConfirmedLeave
SYMMETRY Exchanges
