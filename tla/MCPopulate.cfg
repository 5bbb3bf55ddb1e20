SPECIFICATION Spec
CONSTANTS
    lo = lo
    eth = eth
    lan = lan
    NoName = NoName
    Names <- MCNames
    InitialKernel <- MCKernel
    Slots <- MCSlots
    MaxIndex = 3
    Builders = {b1}
    MaxDescriptors = 4
    Elsewhere = 1
    MaxChanges = 3
    MaxBuilds = 2
INVARIANTS
    TypeOK
    EverythingAccounted
    HonestScopes
    QuietSnapshot
    LookupsFind
PROPERTY ConstructionEnds
