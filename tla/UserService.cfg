CONSTANTS
    Threads = {t1, t2, t3}
    Conns = {c1, c2, c3}
    PoolSize = 2
    MaxCalls = 1
    NoConn = NoConn
    Requests <- MixedRequests
    NoCall = NoCall
    Undecided = Undecided
    NoTx = NoTx
SPECIFICATION Spec
SYMMETRY Symmetry
INVARIANTS
    TypeOK
    CleanConnections
    NoCircularWait
    OnlyWaitersAreBlocked
PROPERTIES
    ImplementsRegistry
CHECK_DEADLOCK FALSE
