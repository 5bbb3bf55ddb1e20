SPECIFICATION Spec
CONSTANTS
    lo = lo
    eth = eth
    lan = lan
    NoName = NoName
    Names <- MCNames
    InitialKernel <- MCKernel
    Slots <- MCSlots
    MaxIndex = 3
    Builders = {b1}
    MaxDescriptors = 9
    Elsewhere = 0
    MaxChanges = 1
    MaxBuilds = 1
INVARIANT IndexAsserted
