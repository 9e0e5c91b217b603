SPECIFICATION Spec
CONSTANTS
    Writes <- ClientWrites3
    Closes <- NobodyCloses
    Sizes = {3}
    Idles = {FALSE}
    SndBuf = 5
    RcvBuf = 3
    Mss = 1
    Mtus = {}
    CtlLen = 1
    Scale = 1
    Nagling = FALSE
    AckDelay = FALSE
    Results = {"success"}
    Giveup = TRUE
    MaxXmit = 2
    MaxSynXmit = 1
    MaxCwnd = 14
    MaxLoss = 0
    MaxDup = 1
CHECK_DEADLOCK FALSE
INVARIANT SegmentsTile
INVARIANT TimerRuns
INVARIANT InOrder
