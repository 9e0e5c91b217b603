SPECIFICATION Spec
CONSTANTS
    Writes <- ClientWrites2
    Closes <- BothClose
    Sizes = {2}
    Idles = {FALSE}
    SndBuf = 4
    RcvBuf = 2
    Mss = 2
    Mtus = {1}
    CtlLen = 1
    Scale = 1
    Nagling = FALSE
    AckDelay = FALSE
    Results = {"success", "fail", "too_large"}
    Giveup = FALSE
    MaxXmit = 2
    MaxSynXmit = 1
    MaxCwnd = 14
    MaxLoss = 0
    MaxDup = 0
CHECK_DEADLOCK FALSE
INVARIANT TypeOK
INVARIANT GracefulDelivers
INVARIANT SegmentsTile
PROPERTY IsByteStream
