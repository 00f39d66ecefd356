SPECIFICATION BootSpec
CONSTANTS
    Lengths = {0, 31, 32}
    MaxRotations = 1
    MaxFaults = 1
INVARIANT SetMeansPinned
CHECK_DEADLOCK FALSE
