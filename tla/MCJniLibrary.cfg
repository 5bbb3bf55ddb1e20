SPECIFICATION Spec
CONSTANTS
    Threads = {t1, t2}
    None = None
    Systems <- MCSystems
    Shapes <- MCShapes
    MaxCalls = 2
    MaxLoads = 2
INVARIANTS
    TypeOK
    NativesAfterLoad
    StopsAtException
    OneReference
    NoCircularWait
PROPERTY
    CallsEnd
