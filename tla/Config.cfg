SPECIFICATION Spec
CONSTANTS
    Threads <- MCThreads
    Declared <- MCDeclared
    Wanted <- MCWanted
    Docs <- MCDocs
    Settings <- MCSettings
    MaxCalls <- MCCalls
INVARIANTS
    StableHandles
    ChangesAddUp
    LoadTakesEffect
    TextKeepsValue
