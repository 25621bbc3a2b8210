SPECIFICATION Spec
CONSTANTS
    KEYBOARD_BUFFER_SIZE = 4
    UINT8 = 4
    Keys = {"LShift", "RShift", "A"}
INVARIANT
    ShiftFollowsKeys
