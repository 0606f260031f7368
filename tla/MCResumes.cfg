SPECIFICATION Spec
CONSTANTS
    Settings <- MCErrors
    Fixed_Latency = 4
    primitiveDT = 1
    ResetTime = 1
    MACTime = 5
PROPERTY Resumes
