SPECIFICATION Spec
CONSTANTS
    Procs = {p1, p2, p3}
    SocketGid = {p1, p2}
    None = None
    Stray = Stray
INVARIANTS
    ReachableInTheEnd
    NotAllFail
