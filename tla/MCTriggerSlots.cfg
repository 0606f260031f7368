CONSTANTS
    Det <- MCDet
    reference_detector = 0
    control_detector = 1
    Cells = 8
    Fine = 2
    Compared = 4
    PerTimestamp = 2
    PerTag = 2
    timecut <- MCCut
    Mask <- MCMask
    ControlMask <- MCControl
    downscaling_set = 1
    control_downscaling_set = 0
    downscaling_reset = TRUE
    Times <- MCTimes
    CalibTimes <- MCCalib
    MaxPrim <- MCPrim
    PerWindow = 2
    MaxWindow = 5
    MaxBurst = 2
SPECIFICATION Spec
INVARIANT Coincidences
INVARIANT TriggersAdvance
PROPERTY EachRequestOnce
CHECK_DEADLOCK FALSE
