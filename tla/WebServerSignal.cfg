CONSTANTS
    Conns = {c1, c2}
    NoConn = NoConn
    MaxErrors = 1
SPECIFICATION FairSpec
PROPERTIES
    SignalEndsServer
CHECK_DEADLOCK FALSE
