SPECIFICATION Spec
CONSTANTS
    t1 = t1
    t2 = t2
    Threads = {t1, t2}
    Handlers = {t1, t2}
    Home <- MCHome
    DisposeTo = {}
    Delays = {0}
    TimeMod = 16
    TimeStart = 0
    MaxTime = 0
    MaxCall = 3
    MaxIo = 2
    MaxQuit = 1
    MaxClear = 2
CHECK_DEADLOCK FALSE
INVARIANT NoLostWakeUp
INVARIANT NothingDangles
