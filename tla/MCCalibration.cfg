CONSTANTS
    Size = 8
    Lag = 5
    Gap = 2
    Quiet = 23
    MaxBurst = 3
SPECIFICATION Spec
INVARIANT Prompt
INVARIANT NeverRefused
