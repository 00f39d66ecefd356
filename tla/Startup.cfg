SPECIFICATION BootSpec
CONSTANTS
    Lengths = {0, 31, 32}
    MaxRotations = 2
    MaxFaults = 2
INVARIANT ServedTokenTrusted
PROPERTY TokensConverge
CHECK_DEADLOCK FALSE
