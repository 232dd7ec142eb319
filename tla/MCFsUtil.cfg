SPECIFICATION FairSpec
CONSTANTS
    Name <- MCName
    Chunk <- MCChunk
    Jobs <- MCJobs
    MaxPath = 5
    MaxFails = 1
INVARIANTS
    TypeOK
    SourceSafe
    SuccessIsComplete
PROPERTIES
    TouchesOnly
    Ends
CHECK_DEADLOCK FALSE
