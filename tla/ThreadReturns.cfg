SPECIFICATION FairSpec
CONSTANTS
    t1 = t1
    t2 = t2
    Threads = {t1, t2}
    Handlers = {t1, t2}
    Home <- MCHome
    DisposeTo = {t1}
    Delays = {1, 3}
    TimeMod = 64
    TimeStart = 62
    MaxTime = 2
    MaxCall = 2
    MaxIo = 1
    MaxQuit = 0
    MaxClear = 0
CHECK_DEADLOCK FALSE
INVARIANT TypeOK
PROPERTY NotEarly
PROPERTY SendsReturn
PROPERTY PostsDispatched
