SPECIFICATION FairSpec
CONSTANTS
    VGA_WIDTH = 5
    VGA_HEIGHT = 4
    SHELL_BUFFER_SIZE = 6
    SHELL_MAX_ARGS = 2
    SHELL_HISTORY_SIZE = 2
    Printable = {"a", " ", "quote"}
    Ignored = {"tab"}
    Commands <- MCCommands
    MaxKeys = 8
CHECK_DEADLOCK FALSE
INVARIANTS
    TypeOK BlankAhead HistoryIsRecent ArgumentsAreWords CommandIsNamed
PROPERTY
    LineIsParsed
