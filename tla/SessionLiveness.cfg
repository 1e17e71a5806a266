CONSTANTS
    Plans <- LivePlans
    Pipelining = FALSE
    HavePostgres = TRUE
    ResourceDirExists = TRUE
    ApiPaths <- MCApiPaths
    FileKind <- MCFileKind
SPECIFICATION FairSpec
PROPERTIES
    ClosedIsReleased
    ResetIsReleased
    SilentIsClosed
    Answered
CHECK_DEADLOCK FALSE
