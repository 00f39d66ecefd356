SPECIFICATION Spec
CONSTANTS
    good = good
    bad = bad
    junk = junk
    want = want
    wantnl = wantnl
    blob = blob
    NoBody = NoBody
    Rendered = want
    Bodies <- MCBodies
    Utf8 = {good, bad, junk, want, wantnl}
    Parseable = {good, bad}
    Current = {want, wantnl}
    Rejected <- MCRejected
    Contents = {good, bad, junk}
    Edits <- MCEdits
    Provisioned <- MCProvisioned
    DirLayouts <- MCDirLayouts
INVARIANTS
    TypeOK
    NoRejectedLeftBehind
    FailedRequestRestores
    AppliedIsLive
    SilentRollbackResyncs
    VerifySound
    CommandBudget
PROPERTY ReloadNeverKillsSshd
