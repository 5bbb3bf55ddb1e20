\* A program that used a deleted object, or is deadlocked, stops.
SPECIFICATION Spec
CONSTANTS
    lo = lo
    eth = eth
    ppp = ppp
    Threads = {t1, t2}
    CleanerThread = cleaner
    NoList = NoList
    Native <- MCNative
    Interfaces <- MCInterfaces
    MaxDepth = 2
    MaxCalls = 3
    CloseOverlaps = TRUE
    NestOverlaps = TRUE
INVARIANTS
    CacheComplete
    SameOrder
PROPERTIES
    SnapshotStable
    DeleteExcludesIteration
SYMMETRY Symmetry
CHECK_DEADLOCK FALSE
