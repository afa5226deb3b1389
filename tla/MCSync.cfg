SPECIFICATION Spec
CONSTANTS
    Node = {n1, n2}
    n1 = n1
    n2 = n2
    User = {n1}
    Topics = 1
    MaxStamp = 5
    MaxConnects = 2
    MaxSpent = 1
    MaxTxs = 1
    MaxBatch = 4
    Large = {3}
INVARIANTS TypeOK NewsOnTheWay
PROPERTIES ImplementsLongestChain LagAtMostOne UnsyncedOnlyAmongEquals BufferRevisited
