SPECIFICATION FairSpec
CONSTANTS
    HeaderSize = 16
    MinGrow = 3
    Requests = {0, 16, 33}
    Chunks = {1}
    HeapStart = 2
    Limit = 8
INVARIANTS TypeOK NoOverlap NoLeak Coalesced RingSorted SearchIsThorough
PROPERTIES ImplementsHeapSpec CallsReturn
CHECK_DEADLOCK FALSE
