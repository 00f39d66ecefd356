SPECIFICATION Spec
CONSTANTS
    Procs = {p1, p2}
    SocketGid = {p1}
    None = None
    Stray = Stray
PROPERTY OnlyStaleRemoved
