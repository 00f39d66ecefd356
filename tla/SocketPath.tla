----------------------------- MODULE SocketPath ------------------------------
(***************************************************************************)
(* Several helpers and one socket path: HelperServer::bind and the end of  *)
(* run (src/src/server.rs), each call on the path a step of its own.       *)
(* systemd runs one helper; an operator may start another by hand, or put  *)
(* a file at the path.  All calls go by the path's name, so that a helper  *)
(* may act on a socket that is not its own.  Who may connect is the matter *)
(* of HelperServer: a listener is open from bind(2) on, under the umask.   *)
(***************************************************************************)
CONSTANTS
    Procs,      \* helper processes
    SocketGid,  \* those that were given a group for the socket
    None,       \* nothing at the path
    Stray       \* a file at the path that is not a socket

ASSUME PathAssumption ==
    /\ None \notin Procs \cup {Stray} /\ Stray \notin Procs
    /\ SocketGid \subseteq Procs

VARIABLES
    pc,       \* the next call of each process
    path,     \* what is at the path: a socket is named by who bound it
    mode,     \* the permission bits of the socket there
    group,    \* its group: the helper's own, or the one for the agents
    meddled   \* history: someone stopped, died or touched the path by hand

vars == <<pc, path, mode, group, meddled>>

Listening == {"chown", "chmod", "serve"}   \* the listener is open
Steps == {"off", "failed", "stat", "remove", "bind"} \cup Listening

TypeOK ==
    /\ pc \in [Procs -> Steps]
    /\ path \in Procs \cup {None, Stray}
    /\ mode \in {"umask", "0660"}
    /\ group \in {"own", "agents"}
    /\ meddled \in BOOLEAN

\* Nothing, a stray file, or the socket of an earlier run is at the path.
Init ==
    /\ pc = [p \in Procs |-> "off"]
    /\ path \in Procs \cup {None, Stray}
    /\ mode = "umask"
    /\ group = "own"
    /\ meddled = (path = Stray)

Goto(p, s) == pc' = [pc EXCEPT ![p] = s]

Start(p) ==
    /\ pc[p] \in {"off", "failed"}
    /\ Goto(p, "stat")
    /\ UNCHANGED <<path, mode, group, meddled>>

\* symlink_metadata: only a socket is removed.
Stat(p) ==
    /\ pc[p] = "stat"
    /\ \/ path \in Procs /\ Goto(p, "remove")
       \/ path = None /\ Goto(p, "bind")
       \/ path = Stray /\ Goto(p, "failed")
    /\ UNCHANGED <<path, mode, group, meddled>>

\* mutated form: removing the old socket ends the start
AfterRemove == "failed"
\* The socket is gone: bind can go on.
Removed == "bind"

\* remove_file, of whatever is at the path by now; its error ends the start.
RemoveStale(p) ==
    /\ pc[p] = "remove"
    /\ \/ path # None /\ path' = None /\ Goto(p, Removed)
       \/ path = None /\ Goto(p, "failed") /\ UNCHANGED path
    /\ UNCHANGED <<mode, group, meddled>>

\* bind(2) does not replace a name that exists.
NameFree == path = None

Bind(p) ==
    /\ pc[p] = "bind"
    /\ \/ /\ NameFree
          /\ path' = p
          /\ mode' = "umask"
          /\ group' = "own"
          /\ Goto(p, IF p \in SocketGid THEN "chown" ELSE "chmod")
       \/ ~NameFree /\ Goto(p, "failed") /\ UNCHANGED <<path, mode, group>>
    /\ UNCHANGED meddled

\* chown goes by the path: another helper's socket may be there, or nothing,
\* which is an error.
Chown(p) ==
    /\ pc[p] = "chown"
    /\ \/ path # None /\ group' = "agents" /\ Goto(p, "chmod")
       \/ path = None /\ Goto(p, "failed") /\ UNCHANGED group
    /\ UNCHANGED <<path, mode, meddled>>

\* mutated form: the mode is left to the umask
UmaskMode == "umask"
SocketMode == "0660"

\* set_socket_mode goes by the path as well.
SetSocketMode(p) ==
    /\ pc[p] = "chmod"
    /\ \/ path # None /\ mode' = SocketMode /\ Goto(p, "serve")
       \/ path = None /\ Goto(p, "failed") /\ UNCHANGED mode
    /\ UNCHANGED <<path, group, meddled>>

\* The accept loop ends: remove_file, of whatever is there.
Stop(p) ==
    /\ pc[p] = "serve"
    /\ path' = None
    /\ Goto(p, "off")
    /\ meddled' = TRUE
    /\ UNCHANGED <<mode, group>>

\* A helper is killed: its listener closes, the socket stays.
Die(p) ==
    /\ pc[p] \notin {"off", "failed"}
    /\ Goto(p, "off")
    /\ meddled' = TRUE
    /\ UNCHANGED <<path, mode, group>>

Operator ==
    /\ \/ path = None /\ path' = Stray
       \/ path = Stray /\ path' = None
    /\ meddled' = TRUE
    /\ UNCHANGED <<pc, mode, group>>

Next ==
    \/ \E p \in Procs : \/ Start(p) \/ Stat(p) \/ RemoveStale(p) \/ Bind(p)
                        \/ Chown(p) \/ SetSocketMode(p) \/ Stop(p) \/ Die(p)
    \/ Operator

Spec == Init /\ [][Next]_vars

-----------------------------------------------------------------------------
(* Properties *)

\* No helper is between two calls of bind.
Settled == \A p \in Procs : pc[p] \in {"off", "failed", "serve"}

\* Helpers started over each other, and over the stale socket of an earlier run,
\* remove each other's sockets and set each other's modes; yet when all have come
\* to the end of bind, one of them serves at the path, over a socket with the
\* mode and the group its configuration asks for, so that the agent reaches it.
ReachableInTheEnd ==
    ~meddled /\ Settled /\ (\E p \in Procs : pc[p] # "off")
        => \E p \in Procs :
               /\ pc[p] = "serve" /\ path = p
               /\ mode = "0660"
               /\ p \in SocketGid => group = "agents"

\* Helpers that start at the same time get into each other's way, but not all
\* of them fail: as long as nobody stops, dies or touches the path, a helper
\* that fails to start does so because of another that is still on its way.
NotAllFail ==
    ~meddled /\ (\E p \in Procs : pc[p] = "failed")
        => \E p \in Procs : pc[p] \notin {"off", "failed"}

-----------------------------------------------------------------------------
(* What the repository's comments say and the code does not do. *)

\* server.rs on run: "A stale socket from a previous run is removed and
\* recreated": a starting helper removes no socket someone listens on.
OnlyStaleRemoved ==
    [][\A p \in Procs : pc[p] = "remove" /\ pc'[p] = "bind" /\ path \in Procs
            => pc[path] \notin Listening]_vars

\* server.rs on the socket path: "Refuse to clobber a regular file/symlink that
\* someone placed (or mis-configured) at the socket path."
NeverClobbers ==
    [][\A p \in Procs : pc[p] = "remove" /\ pc'[p] = "bind" => path # Stray]_vars
=============================================================================
