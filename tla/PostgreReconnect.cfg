CONSTANTS
    Threads = {t1, t2, t3}
    Conns = {c1, c2, c3}
    PoolSize = 2
    MaxCalls = 2
    NoConn = NoConn

SPECIFICATION Spec
INVARIANTS
    AutoReconnect
CHECK_DEADLOCK FALSE
