SPECIFICATION Spec
CONSTANTS
    Contents = {c1, c2}
    None = None
    Torn = Torn
    MaxOrphans = 2
INVARIANTS
    TypeOK
    NeverTornAtPath
    OkIsDurable
PROPERTIES
    LeftoversOnlyFromRename
    ImplementsAtomicFile
