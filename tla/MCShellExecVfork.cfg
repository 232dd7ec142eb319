SPECIFICATION FairSpec
CONSTANTS
    Node <- MCNode
    Lines <- PipelineLines
    PipeCap = 1
    Chunks = 2
    MaxFails = 0
PROPERTIES Terminates
CHECK_DEADLOCK FALSE
