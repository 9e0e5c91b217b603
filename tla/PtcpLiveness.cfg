SPECIFICATION FairSpec
CONSTANTS
    Writes <- ClientWrites2
    Closes <- NobodyCloses
    Sizes = {2}
    Idles = {TRUE, FALSE}
    SndBuf = 1
    RcvBuf = 1
    Mss = 1
    Mtus = {}
    CtlLen = 1
    Scale = 1
    Nagling = TRUE
    AckDelay = TRUE
    Results = {"success"}
    Giveup = FALSE
    MaxXmit = 2
    MaxSynXmit = 1
    MaxCwnd = 6
    MaxLoss = 1
    MaxDup = 0
CHECK_DEADLOCK FALSE
PROPERTY EverythingRead
INVARIANT WindowKept
