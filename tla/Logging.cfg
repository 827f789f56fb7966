SPECIFICATION FairSpec
CONSTANTS
    main = main
    worker = worker
    Threads <- MCThreads
    Main <- main
    MaxRecords <- MCRecords
INVARIANTS
    ShutdownKeepsRecords
    QuietShutdownIsSafe
    OneLogger
PROPERTIES
    ShutdownEnds
