SPECIFICATION SendSpec
CONSTANTS
    Settings <- MCSettings
    Fixed_Latency = 4
    primitiveDT = 2
    ResetTime = 8
    MACTime = 5
    Address = {1, 2}
    FarmSize = 2
    WordGap = 3
    Sync = 5
    MEPEventNumber = 2
    BurstLimit = 2
    PacketsSize = 4
    EventWords = 6
    EOBWords = 5
INVARIANTS BurstComplete PacketsAreWhole EndTakesAll EndWasSent
PROPERTY FarmFollowsDetectors
CHECK_DEADLOCK FALSE
