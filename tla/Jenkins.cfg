SPECIFICATION JenkinsSpec
CONSTANTS
    NLines = 2
    NBody = 2
    MaxJobs = 2
    MaxDepth = 8
INVARIANTS
    TypeOK
    StateWithConnection
    UndefinedOnlyAfterRemoteClose
    ParsedFromHeaderEnd
    JobsReported
PROPERTY RequestEnds
CHECK_DEADLOCK FALSE
