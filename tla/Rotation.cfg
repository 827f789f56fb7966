SPECIFICATION RollSpec
CONSTANTS
    Base = 3
    MaxBatches = 3
    MaxRolls = 6
    MaxForeign = 1
INVARIANTS
    NoBatchLost
    HigherNumbersOlder
