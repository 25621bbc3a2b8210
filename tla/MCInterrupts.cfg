SPECIFICATION FairSpec
CONSTANTS
    Lines = {0, 1, 7, 14}
    Glitches = {7, 14}
    FirmwareMasks <- MCFirmwareMasks
    Faults = {0, 13}
    FREQUENCY = 100
    UINT32 = 1000000
    Delays = {5, 20, 30}
CHECK_DEADLOCK FALSE
INVARIANTS
    TypeOK OnlyFaultsStop EoiBalanced MasksKept
PROPERTIES
    StopsForGood BootCompletes WaitReturns
