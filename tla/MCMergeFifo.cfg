CONSTANTS
    activatecontroltrigger = TRUE
    DeltaPacket = 0
    MergedFifoChoke = TRUE
    bit_finetime = 2
    Depth = 3
    NumDepth = 2
    MergedDepth = 3
    HighWater = 0
    MaxPrim = 2
    MaxWindow = 2
    Slices = {0, 1}
SPECIFICATION Spec
INVARIANT ExactlyOnce
INVARIANT WindowComplete
INVARIANT InTimeOrder
INVARIANT SameSliceOnce
INVARIANT ChokeProtects
PROPERTY MergeReturns
