SPECIFICATION Spec
CONSTANTS
    p1 = p1
    p2 = p2
    i1 = i1
    i2 = i2
    Procs = {p1, p2}
    Inodes = {i1, i2}
    None = None
    Texts <- MCTexts
    Terminal <- MCTerminal
    MaxBatch = 2
    MaxLinks = 2
    MaxOthers = 3
    InWindow = FALSE
SYMMETRY Symmetric
INVARIANTS
    IInv
    OncePerSource
    CommittedIsConsumed
PROPERTY
    UnlinksOwnSource
CHECK_DEADLOCK FALSE
