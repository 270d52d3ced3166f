SPECIFICATION MCSpec
CONSTANTS
    Depth = 8
    PerPoll = 2
    TimingValues <- MCTimingValues
    Policies <- MCPolicies
    Vols <- MCVols
    CalmMax = 6
    HotMin = 28
    ScaleOf <- MCScaleOf
    ScaleMin = 750
    ScaleMax = 1350
    Bases <- MCBases
    Moves <- MCMoves
    MaxJump = 2
    Rest = 2
    Sanity = 4
    Blocked = 2
    MaxShift = 2
    KeysOf <- MCKeysOf
    Values <- MCValues
    Default <- MCDefault
    Outside = "outside"
CONSTRAINT MCFocus
INVARIANTS RoundDrains StatusMirrors SettingsWhole BootsWhole ReadyNotForgotten
