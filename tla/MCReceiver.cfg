CONSTANTS
    Modes <- MCModes
    MaxPrim = 1
    MaxWords = 3
    MaxFrame = 2
SPECIFICATION Spec
CHECK_DEADLOCK FALSE
INVARIANT FramesApart
PROPERTY IsPacketWriter
PROPERTY FrameReleased
