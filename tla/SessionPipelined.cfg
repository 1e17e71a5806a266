CONSTANTS
    Plans <- PipelinedPlans
    Pipelining = TRUE
    HavePostgres = TRUE
    ResourceDirExists = TRUE
    ApiPaths <- MCApiPaths
    FileKind <- MCFileKind
SPECIFICATION ReadingClientSpec
PROPERTIES
    PipelinedAnswered
CHECK_DEADLOCK FALSE
