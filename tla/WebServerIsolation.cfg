CONSTANTS
    Conns = {c1, c2}
    NoConn = NoConn
    MaxErrors = 1
SPECIFICATION FairSpec
INVARIANTS
    SessionsIsolated
CHECK_DEADLOCK FALSE
