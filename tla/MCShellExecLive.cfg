SPECIFICATION FairSpec
CONSTANTS
    Node <- MCNode
    Lines <- FailingLines
    PipeCap = 1
    Chunks = 2
    MaxFails = 1
PROPERTIES  AllReaped
CHECK_DEADLOCK FALSE
