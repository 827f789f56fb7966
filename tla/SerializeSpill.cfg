SPECIFICATION Spec
CONSTANTS
    ByteBits <- MCByteBits
    BaseSize <- MCBaseSize
    LittleEndian = TRUE
    Values <- MCValues
    Blanks <- MCBlanks
    MaxWrites <- MCWrites
INVARIANTS
    StringIsWhatWasSent
