SPECIFICATION Spec
CONSTANTS
    InitialSize = 10
    PacketBody = 9
    WordLimit = 16
    OldLength = 8
    Texts <- MCTexts
    Sizes = {0, 12}
    RowTypes <- MCRowTypes
    MaxColumns = 2
    MaxTokens = 3
    MaxRows = 2
INVARIANTS MaxReadable
CHECK_DEADLOCK FALSE
