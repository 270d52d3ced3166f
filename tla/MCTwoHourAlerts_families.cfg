CONSTANTS
    Minutes = 90
    Cap = 180
    GlobalCd = 90
    FamilyCd <- MCFamilyCd
    TrendThreshold = 100
    TrendExit = 65
    Ret2h <- MCRet2h
    Ret30m <- MCRet30m
    Ret1d <- MCRet1d
    Ret7d <- MCRet7d

SPECIFICATION TwoHourSpec

INVARIANTS
    SecondariesSpaced
    AcceptedIsPending

PROPERTY PendingLeaves
