SPECIFICATION Spec
CONSTANTS
    kBufferSize <- MCBufferSize
    MaxPiece <- MCPiece
    MaxChars <- MCChars
INVARIANTS
    TypeOK
    NothingLost
    WholeRecordsHandedOver
    NothingStaysBehind
    OnlyLongRecordsFail
