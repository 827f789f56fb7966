SPECIFICATION FairSpec
CONSTANTS
    BufSize <- MCBufSize
    RollSize <- MCRollSize
    Lens <- MCLens
    Left <- MCLeft
    MaxLines <- MCLines
    Null = Null
INVARIANTS
    TypeOK
    WrittenInOrder
    StopTestSound
    StopDrains
    RollBound
PROPERTIES
    ImplementsDurableLog
    StopReturns
    EventuallyWritten
