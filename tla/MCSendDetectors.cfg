SPECIFICATION Spec
CONSTANTS
    Settings <- MCSettings
    Fixed_Latency = 4
    primitiveDT = 1
    ResetTime = 1
    MACTime = 5
PROPERTIES StopAndResume TriggersKeepDistance ResumesAfterChoke
CHECK_DEADLOCK FALSE
