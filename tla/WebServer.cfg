CONSTANTS
    Conns = {c1, c2, c3}
    NoConn = NoConn
    MaxErrors = 1
SPECIFICATION FairSpec
INVARIANTS
    TypeOK
    AcceptLoop
    StopsOnce
    GracefulExit
PROPERTIES
    HandOverInTime
    PeersAreKept
    RunningServerStops
    PeersAreServed
CHECK_DEADLOCK FALSE
