SPECIFICATION FairSpec
CONSTANTS
    kMaxNumThreads <- MCMaxNumThreads
    NumArgs <- MCNumArgs
    MaxThreads <- MCThreads
    MaxTasks <- MCTasks
INVARIANTS
    HandshakeSound
    ExecutedOnce
PROPERTIES
    EveryTaskRuns
