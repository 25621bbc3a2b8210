SPECIFICATION FairSpec
CONSTANTS
    KEYBOARD_BUFFER_SIZE = 4
    UINT8 = 4
    Keys = {"LShift", "CapsLock", "A", "F1"}
INVARIANT
    TypeOK
PROPERTIES
    ImplementsKeyQueue CountIsCurrent CharacterIsRead
