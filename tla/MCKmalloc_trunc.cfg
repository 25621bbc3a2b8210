SPECIFICATION Spec
CONSTANTS
    HEAP_START = 2
    HEAP_SIZE = 20
    HDR = 3
    HEAP_ALIGNMENT = 2
    MIN_PAYLOAD = 2
    SIZE_MOD = 256
    MASK_MOD = 64
    Requests = {1, 66}
    Alignments = {2}
    CallocArgs <- MCCallocArgs
    Garbage <- MCGarbage
    VALIDATE_LIMIT = 3
    MaxAllocations = 2
    MaxFailed = 1
INVARIANT WantCoversRequest
