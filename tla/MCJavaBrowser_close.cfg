SPECIFICATION Spec
CONSTANTS
    lo = lo
    eth = eth
    ppp = ppp
    Threads = {t1, t2}
    CleanerThread = cleaner
    NoList = NoList
    Native <- MCNative
    Interfaces <- MCInterfaces
    MaxDepth = 2
    MaxCalls = 2
    CloseOverlaps = TRUE
    NestOverlaps = FALSE
INVARIANT NoUseAfterDelete
CHECK_DEADLOCK FALSE
