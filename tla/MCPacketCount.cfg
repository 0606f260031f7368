CONSTANTS
    Det <- MCDet
    MaxDelayDet = 0
    fifoDELAY_set <- MCSet
    Latency = 2
    FifoSize = 9
    MaxPrim = 1
    MaxFrame <- MCFrame
    MaxBurst = 2
SPECIFICATION PSpec
INVARIANT TypeOK
INVARIANT Aligned
INVARIANT CountedOnce
INVARIANT NumberMatches
INVARIANT QuietWhenCounting
INVARIANT Realigned
PROPERTY OpenTogether
PROPERTY WindowCloses
