SPECIFICATION Spec
CONSTANTS
    ENTRIES = 4
    HIGHER_HALF = 2
    STACK_DWORDS = 4
    FrameSizes = {1, 3}
    MaxDepth = 8
CHECK_DEADLOCK FALSE
INVARIANT
    IdentityMapped
