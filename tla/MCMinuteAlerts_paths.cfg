CONSTANTS
    Window = 2
    Hour = 2
    MaxPerHour <- MCMaxPerHour
    Cooldown <- MCCooldown
    NightCooldown <- MCNightCooldown
    Dwell = 2
    CooldownCap = 2

SPECIFICATION Spec

INVARIANT OneWordPerMinute

PROPERTIES
    ConfluenceIsFresh
    RegimeDwells
