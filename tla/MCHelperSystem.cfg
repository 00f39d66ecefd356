SPECIFICATION SystemSpec
CONSTANTS
    old = old
    new = new
    bad = bad
    want = want
    NoBody = NoBody
    Bodies <- MCBodies
    Utf8 <- MCBodies
    Parseable = {old, new, bad}
    Rendered = want
    Current = {want}
    Rejected <- MCRejected
    Contents = {old, new, bad}
    Edits <- NoEdits
    Provisioned <- MCProvisioned
    DirLayouts <- MCDirLayouts
    MaxSends = 3
    MaxOutages = 1
INVARIANT AppliedStays
PROPERTY EveryRequestEnds
CHECK_DEADLOCK FALSE
