CONSTANTS
    Plans <- PipelinedPlans
    Pipelining = FALSE
    HavePostgres = TRUE
    ResourceDirExists = TRUE
    ApiPaths <- MCApiPaths
    FileKind <- MCFileKind
SPECIFICATION ReadingClientSpec
PROPERTIES
    IdleIsClosed
CHECK_DEADLOCK FALSE
