SPECIFICATION Spec
CONSTANTS
    Keys <- MCKeys
    maxLevel <- MCLevel
    MaxNodes <- MCNodes
    MaxErases <- MCErases
INVARIANTS
    ErasedIsUnlinked
