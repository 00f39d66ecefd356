SPECIFICATION Spec
CONSTANTS
    t1 = t1
    t2 = t2
    Conns = {c1, c2}
    Messages <- MCMessages
    Tokens = {t1, t2}
    NoToken = NoToken
    Enforced = TRUE
    Configured = {"agent"}
    Root = "root"
    Uids = {"agent", "root", "other"}
    NoConn = NoConn
    MaxCrashes = 2
INVARIANT PeerCheckedBeforeBody
