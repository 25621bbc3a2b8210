SPECIFICATION FairSpec
CONSTANTS
    HEAP_START = 2
    HEAP_SIZE = 20
    HDR = 3
    HEAP_ALIGNMENT = 2
    MIN_PAYLOAD = 2
    SIZE_MOD = 256
    MASK_MOD = 64
    Requests = {0, 1, 4, 40}
    Alignments = {0, 3, 4}
    CallocArgs <- MCCallocArgs
    Garbage <- MCGarbage
    VALIDATE_LIMIT = 3
    MaxAllocations = 4
    MaxFailed = 1
INVARIANTS
    TypeOK HeapTiling NoAdjacentFree NothingSkipped LiveIsUsed GrantedEnough StatsBalance
PROPERTIES
    StaleFreeIgnored ImplementsHeapSpec CallReturns
