SPECIFICATION FiberSpec
CONSTANTS
    f1 = f1
    f2 = f2
    f3 = f3
    main = main
    null = null
    MaxBroken = 2
    Fibers <- MCFibers
    Main <- main
    None <- null
SYMMETRY Alike
CONSTRAINT FewBroken
INVARIANTS
    CurrentRuns
    NeverOnFreedStack
    OnlyMisuseFails
PROPERTIES
    StrandedStays
