CONSTANTS
    up1 = up1
    up2 = up2
    anchor = anchor
    touch = touch
    test1 = test1
    test2 = test2
    s1m = s1m
    NoMsg = NoMsg
    NoSeq = NoSeq
    QSize = 1
    Msgs = {anchor}
    DiagMsgs = {}
    SeqIds = {s1m}
    SeqOf <- MCSeqOf
    RetryMod = 256
    RetryDelay <- MCRetryDelayLong
    DiagRuntime = FALSE
    MaxStreak = 1
    Backoff <- MCBackoff
    RateLimits = {1}
    MaxSend = 0

SPECIFICATION Spec

PROPERTY LongDelayStays
