SPECIFICATION Spec
CONSTANTS
    Name <- MCName
    Chunk <- MCChunk
    Jobs <- AliasJobs
    MaxPath = 5
    MaxFails = 0
INVARIANT
    SourceSafe
CHECK_DEADLOCK FALSE
