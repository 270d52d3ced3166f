CONSTANTS
    up1 = up1
    up2 = up2
    anchor = anchor
    touch = touch
    test1 = test1
    test2 = test2
    s1m = s1m
    NoMsg = NoMsg
    NoSeq = NoSeq
    QSize = 2
    Msgs = {up1, up2, anchor, test1, test2}
    DiagMsgs = {test1, test2}
    SeqIds = {s1m}
    SeqOf <- MCSeqOf
    RetryMod = 2
    RetryDelay <- MCRetryDelay
    DiagRuntime = TRUE
    MaxStreak = 1
    Backoff <- MCBackoff
    RateLimits = {1}
    MaxSend = 1

SPECIFICATION Spec

INVARIANTS
    TypeOK
    OnePendingPerAlert
    NothingOwedIsLost

PROPERTIES
    TestsNeverCostAnAlert
    SilentDuringBackoff
    ImplementsOutbox
