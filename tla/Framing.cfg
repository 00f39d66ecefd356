SPECIFICATION Spec
CONSTANTS
    Base = 2
    MaxBody = 3
    IoTimeout = 2
INVARIANTS
    FrameIsExact
    CapIsExact
    TimeIsBounded
PROPERTY FrameEnds
CHECK_DEADLOCK FALSE
