SPECIFICATION FairSpec
CONSTANTS
    MaxCalls = 3
    MaxFragments = 2
    OutBuffer = 2
INVARIANTS
    TypeOK
    OnlyOwnInFlight
PROPERTIES
    OwnAnswerWhileClean
    ImplementsChannel
    CallEnds
CHECK_DEADLOCK FALSE
