SPECIFICATION Spec
CONSTANTS
    lo = lo
    eth = eth
    lan = lan
    NoName = NoName
    Names <- MCNames
    InitialKernel <- MCKernel
    Slots <- MCSlots
    MaxIndex = 3
    Builders = {b1}
    MaxDescriptors = 5
    Elsewhere = 0
    MaxChanges = 0
    MaxBuilds = 3
INVARIANT MtuReported
