SPECIFICATION Spec
CONSTANTS
    Node <- MCNode
    Lines <- SafetyLines
    PipeCap = 1
    Chunks = 2
    MaxFails = 0
INVARIANTS TypeOK Wired LineFinished ListInOrder
PROPERTIES PipesEndInTime
CHECK_DEADLOCK FALSE
