SPECIFICATION Spec
CONSTANTS
    lo = lo
    eth = eth
    ppp = ppp
    Threads = {t1, t2}
    CleanerThread = cleaner
    NoList = NoList
    Native <- MCNative
    Interfaces <- MCInterfaces
    MaxDepth = 2
    MaxCalls = 2
    CloseOverlaps = FALSE
    NestOverlaps = TRUE
INVARIANT NoDeadlyEmbrace
CHECK_DEADLOCK FALSE
