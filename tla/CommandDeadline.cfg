SPECIFICATION FairSpec
CONSTANTS
    Timeout = 4
    MaxInstant = 3
    PipeCap = 2
    MaxOutput = 3
INVARIANT NeverPanics
