CONSTANTS
    StopTicks = 1
    RestartTicks = 1
    MaxRetries = 1
    MaxHeals = 1

SPECIFICATION Spec

INVARIANT LoopQuietInExclusive
