SPECIFICATION Spec
CONSTANTS
    Threads = {t1, t2}
    None = None
    Systems <- MCSystems
    Shapes <- MCShapes
    MaxCalls = 1
    MaxLoads = 1
INVARIANT NothingCalledWhilePending
