SPECIFICATION FairSpec
CONSTANTS
    Lines = {0, 1}
    Glitches = {}
    FirmwareMasks <- MCFirmwareMasks
    Faults = {0}
    FREQUENCY = 100
    UINT32 = 1000000
    Delays = {10}
    KEYBOARD_BUFFER_SIZE = 2
    UINT8 = 2
    Keys = {"S", "Enter"}
    Bytes <- MCBytes
    NONE = NONE
CHECK_DEADLOCK FALSE
INVARIANTS
    TypeOK InterruptPerByte
PROPERTIES
    StrandedOnlyAtRemap ImplementsParts KeyIsRead
