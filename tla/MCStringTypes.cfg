SPECIFICATION Spec
CONSTANTS
    Letters <- MCLetters
    Elements <- MCElements
    Limits <- MCLimits
    MaxSize = 5
    MaxPiece = 2
PROPERTIES EqualStaysEqual OrderKept
CHECK_DEADLOCK FALSE
