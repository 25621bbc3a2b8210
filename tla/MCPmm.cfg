SPECIFICATION FairSpec
CONSTANTS
    Firmware <- MCFirmware
    MEMORY_MAP_SIZE = 4
    KB = 2
    UINT32 = 64
    FALLBACK_BASE = 4
    FALLBACK_SIZE = 24
    MIN_SIZE = 8
    PAGE_SIZE = 2
    FRAMES_PER_WORD = 4
    WORD_BYTES = 1
    KERNEL_FRAMES = 4
    BITMAP_FLOOR = 8
    HEAP_START = 12
    HEAP_SIZE = 8
    Counts = {0, 1, 2, 3}
INVARIANTS
    TypeOK ReservedNeverHeld BitmapIsExact UsedIsCounted NothingSkipped ManagedIsRAM
PROPERTIES
    ImplementsFrameSpec CallReturns
