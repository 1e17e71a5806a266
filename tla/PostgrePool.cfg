CONSTANTS
    Threads = {t1, t2, t3}
    Conns = {c1, c2, c3}
    PoolSize = 2
    MaxCalls = 2
    NoConn = NoConn
SPECIFICATION FairSpec
INVARIANTS
    TypeOK
    Exclusive
    Conserved
    NoLostWakeup
    NobodySleepsOnClosed
PROPERTIES
    ImplementsConnectionPool
    CallsEnd
CHECK_DEADLOCK FALSE
