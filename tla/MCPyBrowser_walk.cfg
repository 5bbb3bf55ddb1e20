SPECIFICATION Spec
CONSTANTS
    Threads = {t1, t2}
    Sizes <- MCSizes
    MaxObjects = 2
    MaxDepth = 2
    MaxCalls = 4
    Disciplined = TRUE
INVARIANT TupleOutlastsWalk
