SPECIFICATION FairSpec
CONSTANTS
    c1 = c1
    c2 = c2
    c3 = c3
    Pullers <- MCPullers
    MaxItems <- MCItems
INVARIANTS
    TypeOK
    InOrder
    Accounted
    NoSleepOnItems
PROPERTIES
    EventuallyTaken
