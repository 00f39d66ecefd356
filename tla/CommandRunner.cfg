SPECIFICATION OrderlySpec
CONSTANTS
    Timeout = 4
    MaxInstant = 100
    PipeCap = 2
    MaxOutput = 3
INVARIANTS
    OutcomeIsTrue
    NoChildLeft
PROPERTY RunReturns
