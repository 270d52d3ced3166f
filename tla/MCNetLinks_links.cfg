CONSTANTS
    ApAfter = 2
    CountMod = 4
    RestNeeded = 2
    EventCap = 2

SPECIFICATION LinksSpec

INVARIANT LossIsWorkedOn

PROPERTIES
    WifiReturns
    MqttReturns
