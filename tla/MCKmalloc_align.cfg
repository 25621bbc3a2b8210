SPECIFICATION Spec
CONSTANTS
    HEAP_START = 16
    HEAP_SIZE = 128
    HDR = 29
    HEAP_ALIGNMENT = 16
    MIN_PAYLOAD = 16
    SIZE_MOD = 65536
    MASK_MOD = 4096
    Requests = {1, 20}
    Alignments = {16, 32}
    CallocArgs <- MCCallocArgs
    Garbage <- MCGarbage
    VALIDATE_LIMIT = 3
    MaxAllocations = 2
    MaxFailed = 1
INVARIANT PayloadAligned
