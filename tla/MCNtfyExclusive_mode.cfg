CONSTANTS
    StopTicks = 1
    RestartTicks = 2
    MaxRetries = 2
    MaxHeals = 1

SPECIFICATION ReachableSpec

INVARIANTS
    TypeOK
    PauseOnlyExclusive
    LatePumpAtMostOnce

PROPERTIES
    ExclusiveEnds
    SocketReturns
