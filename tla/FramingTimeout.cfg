SPECIFICATION Spec
CONSTANTS
    Base = 2
    MaxBody = 3
    IoTimeout = 2
INVARIANT PerConnectionTimeout
CHECK_DEADLOCK FALSE
