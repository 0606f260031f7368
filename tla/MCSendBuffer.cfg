SPECIFICATION BufferSpec
CONSTANTS
    Settings <- MCSettings
    Fixed_Latency = 3
    primitiveDT = 1
    ResetTime = 6
    MACTime = 5
    Cells = 6
    SendSize = 2
    Kinds = {"physics", "nim"}
    Late = 2
    FastEdges = {3}
    CalibLatency = 1
    BurstLimit = 1
INVARIANTS NothingLeft
PROPERTIES FixedLatency OwnEvent
