CONSTANTS
    Plans <- MCPlans
    Pipelining = TRUE
    HavePostgres = TRUE
    ResourceDirExists = TRUE
    ApiPaths <- MCApiPaths
    FileKind <- MCFileKind
SPECIFICATION Spec
INVARIANTS
    TypeOK
    SingleChain
    ServedInOrder
    GracefulClose
    ClosedIsQuiet
PROPERTIES
    BuffersStable
    ImplementsExchange
CHECK_DEADLOCK FALSE
