SPECIFICATION Spec
CONSTANTS
    Threads = {t1, t2}
    Sizes <- MCSizes
    MaxObjects = 2
    MaxDepth = 2
    MaxCalls = 5
    Disciplined = TRUE
SYMMETRY ThreadSymmetry
INVARIANTS
    TypeOK
    ReadsWhatIsThere
    CachedIsComplete
    ReferencesSuffice
    CalledInOrder
PROPERTIES
    AnswersTruly
