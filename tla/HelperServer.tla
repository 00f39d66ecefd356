---------------------------- MODULE HelperServer -----------------------------
(***************************************************************************)
(* The process around the operations: start-up (src/src/bin/               *)
(* mayfly-helper.rs), the socket, the single-threaded accept loop and its  *)
(* three authentication factors (src/src/server.rs, peercred.rs), the stop *)
(* flag (shutdown.rs), and what happens to connections when the helper is  *)
(* stopped, killed or restarted.  What an operation does is HelperOps; here *)
(* it is one step that takes a while and ends well or not.                 *)
(***************************************************************************)
EXTENDS Naturals, Sequences

CONSTANTS
    Conns,       \* connections clients may make, each with one request
    Messages,    \* what a client may be and send: see MessageType
    Tokens,      \* capability tokens load_token accepts
    NoToken,     \* a token file it refuses (symlink, owner, mode, length); none loaded
    Enforced,    \* MAYFLY_HELPER_ALLOWED_UID is set: uid pinning is on
    Configured,  \* the uids it names
    Uids,
    Root,        \* uid 0
    NoConn,      \* no connection is being served
    MaxCrashes   \* bound on how often the helper is killed

\* A frame is a request, bytes that do not decode (or announce too long a
\* body), or one that stops arriving before it is complete.
Frames == {"request", "malformed", "stalled"}
MessageType == [uid : Uids, frame : Frames, current : BOOLEAN, token : Tokens]
NoMessage == [uid |-> "none", frame |-> "none", current |-> FALSE, token |-> NoToken]

\* PeerPolicy::enforced: root is always let in.
AllowedUids == Configured \cup {Root}

ASSUME ServerAssumption ==
    /\ Messages \subseteq MessageType
    /\ NoToken \notin Tokens
    /\ NoConn \notin Conns
    /\ Enforced \in BOOLEAN
    /\ Configured \subseteq Uids /\ Root \in Uids
    /\ MaxCrashes \in Nat

VARIABLES
    proc,       \* where the process is; "off" ended well, "failed" not
    stop,       \* the stop flag the signal handler sets
    token,      \* the token loaded at start-up
    tokenFile,  \* the token file
    path,       \* what is at the socket path: nothing, a socket, something else
    mode,       \* the socket's permission bits: the umask's or SOCKET_MODE
    heard,      \* the socket at the path is the listener of the running process
    backlog,    \* connections waiting to be accepted
    cur,        \* the connection being served
    cred,       \* SO_PEERCRED could be read for it
    response,   \* the Response to it, by its detail; "ok" and "err" are dispatch's
    conn,       \* what each client knows of its connection
    msg,        \* what it sent
    ran,        \* connections whose operation was started
    audits,     \* audit lines per connection
    killed,     \* connections that were being served when the helper was killed
    crashes

life == <<proc, stop, token, crashes>>
sock == <<path, mode, heard>>
serving == <<cur, cred, response>>
peers == <<backlog, conn, msg>>
records == <<ran, audits, killed>>
vars == <<life, tokenFile, sock, serving, peers, records>>

Down == {"off", "failed"}
StartUp == {"probe", "bind", "mode"}
Handling == {"timeouts", "read", "evaluate", "dispatch", "audit", "reply"}
Responses == {"none", "protocol error", "peer not authorized", "peer credentials unavailable",
              "unsupported protocol version", "unauthenticated", "ok", "err"}

TypeOK ==
    /\ proc \in Down \cup StartUp \cup {"loop"} \cup Handling
    /\ stop \in BOOLEAN
    /\ token \in Tokens \cup {NoToken}
    /\ tokenFile \in Tokens \cup {NoToken}
    /\ path \in {"none", "socket", "other"}
    /\ mode \in {"umask", "0660"}
    /\ heard \in BOOLEAN
    /\ backlog \in Seq(Conns)
    /\ cur \in Conns \cup {NoConn}
    /\ cred \in BOOLEAN
    /\ response \in Responses
    /\ conn \in [Conns -> {"new", "queued", "served", "answered", "dropped"}]
    /\ msg \in [Conns -> Messages \cup {NoMessage}]
    /\ ran \subseteq Conns
    /\ audits \in [Conns -> 0..1]
    /\ killed \subseteq Conns
    /\ crashes \in 0..MaxCrashes

Init ==
    /\ proc = "off"
    /\ stop = FALSE
    /\ token = NoToken
    /\ tokenFile \in Tokens
    /\ path \in {"none", "other"}
    /\ mode = "umask"
    /\ heard = FALSE
    /\ backlog = <<>>
    /\ cur = NoConn
    /\ cred = FALSE
    /\ response = "none"
    /\ conn = [c \in Conns |-> "new"]
    /\ msg = [c \in Conns |-> NoMessage]
    /\ ran = {}
    /\ audits = [c \in Conns |-> 0]
    /\ killed = {}
    /\ crashes = 0

-----------------------------------------------------------------------------
(* Start-up *)

\* main and run up to the socket: load_token, the policy and the handlers.
Start ==
    /\ proc \in Down
    /\ stop' = FALSE
    /\ \/ tokenFile \in Tokens /\ token' = tokenFile /\ proc' = "probe"
       \/ token' = NoToken /\ proc' = "failed" /\ tokenFile = NoToken
    /\ UNCHANGED <<crashes, tokenFile, sock, serving, peers, records>>

\* mutated form: a stale socket is left for bind to trip over
KeepStale == path
\* bind removes a socket it finds and nothing else.
Unlinked == IF path = "socket" THEN "none" ELSE path

\* An I/O error of the host (create_dir_all, lstat, remove_file) ends the process
\* as Crash does at this point: that transition stands for both.
ProbeSocketPath ==
    /\ proc = "probe"
    /\ path' = Unlinked
    /\ proc' = IF path = "other" THEN "failed" ELSE "bind"
    /\ UNCHANGED <<stop, token, crashes, tokenFile, mode, heard, serving, peers, records>>

\* UnixListener::bind fails on a path that exists, which it does if someone
\* put a file there since the probe.
BindSocket ==
    /\ proc = "bind"
    /\ \/ path = "none" /\ path' = "socket" /\ mode' = "umask" /\ heard' = TRUE /\ proc' = "mode"
       \/ path # "none" /\ proc' = "failed" /\ UNCHANGED sock
    /\ UNCHANGED <<stop, token, crashes, tokenFile, serving, peers, records>>

\* mutated form: the mode is left to the umask
UmaskMode == "umask"
\* set_socket_mode(SOCKET_MODE)
TightMode == "0660"

\* chown and set_socket_mode, before the first accept.  One that fails ends the
\* process with the socket in place, as Crash does.
SetSocketMode ==
    /\ proc = "mode"
    /\ mode' = TightMode
    /\ proc' = "loop"
    /\ UNCHANGED <<stop, token, crashes, tokenFile, path, heard, serving, peers, records>>

-----------------------------------------------------------------------------
(* One connection, from accept to reply *)

Accept ==
    /\ proc = "loop"
    /\ ~stop
    /\ backlog # <<>>
    /\ cur' = Head(backlog)
    /\ backlog' = Tail(backlog)
    /\ conn' = [conn EXCEPT ![cur'] = "served"]
    /\ proc' = "timeouts"
    /\ UNCHANGED <<stop, token, crashes, tokenFile, sock, cred, response, msg, records>>

\* handle_connection up to the read: a timeout that cannot be set ends it with
\* neither an audit line nor a reply; credentials may or may not be had.
SetTimeouts ==
    /\ proc = "timeouts"
    /\ \/ cred' \in BOOLEAN /\ proc' = "read" /\ UNCHANGED <<cur, conn>>
       \/ /\ conn' = [conn EXCEPT ![cur] = "dropped"]
          /\ cur' = NoConn
          /\ proc' = "loop"
          /\ UNCHANGED cred
    /\ UNCHANGED <<stop, token, crashes, tokenFile, sock, response, backlog, msg, records>>

\* mutated form: no read timeout is set on the connection
WithoutTimeout == msg[cur].frame # "stalled"
\* IO_TIMEOUT ends the read of a frame that does not arrive.
ReadEnds == TRUE

\* read_request: read_frame and decode_request.
ReadRequest ==
    /\ proc = "read"
    /\ ReadEnds
    /\ \/ msg[cur].frame = "request" /\ proc' = "evaluate" /\ UNCHANGED response
       \/ msg[cur].frame # "request" /\ proc' = "audit" /\ response' = "protocol error"
    /\ UNCHANGED <<stop, token, crashes, tokenFile, sock, cur, cred, peers, records>>

\* PeerPolicy::authorize
Authorize(uid) == ~Enforced \/ uid \in AllowedUids

\* mutated form: a peer whose credentials cannot be read is let in
MissingCredPasses ==
    IF cred /\ ~Authorize(msg[cur].uid) THEN "peer not authorized"
    ELSE IF ~msg[cur].current THEN "unsupported protocol version"
    ELSE IF msg[cur].token # token THEN "unauthenticated"
    ELSE "ok"
\* evaluate: the first check that fails decides; "ok" goes on to dispatch.
Verdict ==
    IF cred /\ ~Authorize(msg[cur].uid) THEN "peer not authorized"
    ELSE IF ~cred /\ Enforced THEN "peer credentials unavailable"
    ELSE IF ~msg[cur].current THEN "unsupported protocol version"
    ELSE IF msg[cur].token # token THEN "unauthenticated"
    ELSE "ok"

Evaluate ==
    /\ proc = "evaluate"
    /\ \/ Verdict = "ok" /\ proc' = "dispatch" /\ ran' = ran \cup {cur} /\ UNCHANGED response
       \/ Verdict # "ok" /\ proc' = "audit" /\ response' = Verdict /\ UNCHANGED ran
    /\ UNCHANGED <<stop, token, crashes, tokenFile, sock, cur, cred, peers, audits, killed>>

\* The operation ends (HelperOps).
OperationEnds ==
    /\ proc = "dispatch"
    /\ response' \in {"ok", "err"}
    /\ proc' = "audit"
    /\ UNCHANGED <<stop, token, crashes, tokenFile, sock, cur, cred, peers, records>>

\* mutated form: only successes are logged
SuccessAudited == IF response = "ok" THEN [audits EXCEPT ![cur] = @ + 1] ELSE audits
\* mutated form: a line on the rejection and another on the reply
AuditedTwice == [audits EXCEPT ![cur] = @ + 2]
Audited == [audits EXCEPT ![cur] = @ + 1]

\* audit: one line, before the reply is written.
Audit ==
    /\ proc = "audit"
    /\ audits' = Audited
    /\ proc' = "reply"
    /\ UNCHANGED <<stop, token, crashes, tokenFile, sock, serving, peers, ran, killed>>

\* write_frame: the client gets its answer, or has gone or stalls and does not.
Reply ==
    /\ proc = "reply"
    /\ conn' \in {[conn EXCEPT ![cur] = "answered"], [conn EXCEPT ![cur] = "dropped"]}
    /\ cur' = NoConn
    /\ cred' = FALSE
    /\ response' = "none"
    /\ proc' = "loop"
    /\ UNCHANGED <<stop, token, crashes, tokenFile, sock, backlog, msg, records>>

-----------------------------------------------------------------------------
(* Shutdown, crashes and everyone else *)

\* The listener is closed: connections that wait, or are being served, end.
Hangup ==
    /\ conn' = [c \in Conns |-> IF conn[c] \in {"queued", "served"} THEN "dropped" ELSE conn[c]]
    /\ backlog' = <<>>
    /\ heard' = FALSE
    /\ cur' = NoConn
    /\ cred' = FALSE
    /\ response' = "none"
    /\ UNCHANGED msg

\* The loop sees the stop flag: the socket file is removed, the process ends.
ShutDown ==
    /\ proc = "loop"
    /\ stop
    /\ proc' = "off"
    /\ path' = "none"
    /\ token' = NoToken
    /\ Hangup
    /\ UNCHANGED <<stop, mode, crashes, tokenFile, records>>

\* SIGTERM or SIGINT, any time after the handlers are installed.
Signal ==
    /\ proc \notin Down
    /\ ~stop
    /\ stop' = TRUE
    /\ UNCHANGED <<proc, token, crashes, tokenFile, sock, serving, peers, records>>

\* The process is killed, or the host fails one of its calls at start-up; the
\* socket file stays.
Crash ==
    /\ proc \notin Down
    /\ crashes < MaxCrashes
    /\ crashes' = crashes + 1
    /\ proc' = "failed"
    /\ token' = NoToken
    /\ killed' = killed \cup ({cur} \ {NoConn})
    /\ Hangup
    /\ UNCHANGED <<stop, path, mode, tokenFile, ran, audits>>

\* A client connects to a socket someone listens on, and sends a message.
Connect(c, m) ==
    /\ conn[c] = "new"
    /\ path = "socket" /\ heard
    /\ conn' = [conn EXCEPT ![c] = "queued"]
    /\ msg' = [msg EXCEPT ![c] = m]
    /\ backlog' = Append(backlog, c)
    /\ UNCHANGED <<life, tokenFile, sock, serving, records>>

\* The operator rotates the token file (README.md), or breaks it.
RotateToken ==
    /\ tokenFile' \in (Tokens \cup {NoToken}) \ {tokenFile}
    /\ UNCHANGED <<life, sock, serving, peers, records>>

\* The operator puts a file at the free socket path, or clears it again.
ChangePath ==
    /\ \/ path = "other" /\ path' = "none"
       \/ path = "none" /\ path' = "other"
    /\ UNCHANGED <<life, tokenFile, mode, heard, serving, peers, records>>

ServerStep ==
    \/ ProbeSocketPath \/ BindSocket \/ SetSocketMode \/ Accept \/ SetTimeouts
    \/ ReadRequest \/ Evaluate \/ OperationEnds \/ Audit \/ Reply \/ ShutDown

Next ==
    \/ Start \/ ServerStep \/ Signal \/ Crash \/ RotateToken \/ ChangePath
    \/ \E c \in Conns, m \in Messages : Connect(c, m)

\* Every step of the server ends: reads and writes by IO_TIMEOUT, operations by
\* the command timeouts.  systemd starts a helper that failed again.
Fairness == WF_vars(ServerStep) /\ WF_vars(proc = "failed" /\ Start)

Spec == Init /\ [][Next]_vars
FairSpec == Spec /\ Fairness

-----------------------------------------------------------------------------
(* Properties *)

\* An operation is started only for a connection that passed every factor: a
\* uid the kernel vouched for (when pinning is on), the protocol version, and
\* the token the running helper loaded, however often the file was rotated
\* since; a client that connected before the socket had its mode is no exception.
OnlyAuthenticatedRuns ==
    [][\A c \in ran' \ ran :
          /\ Enforced => cred /\ msg[c].uid \in AllowedUids
          /\ msg[c].frame = "request" /\ msg[c].current
          /\ msg[c].token = token]_vars

\* The audit trail has no gap: a connection that was answered, or whose
\* operation ran, has its line, whether or not the answer arrived, unless the
\* helper was killed while it served it.
AuditTrail ==
    \A c \in Conns :
        (conn[c] = "answered" \/ (c \in ran /\ cur # c)) /\ c \notin killed => audits[c] = 1

\* From the first accept on, the socket at the path is the helper's and has
\* the mode 0660; a helper that is down left at most a socket nobody hears.
SocketIsOurs ==
    /\ proc \in {"loop"} \cup Handling => path = "socket" /\ heard /\ mode = "0660"
    /\ heard => proc \notin Down

\* A client that got through to the socket is answered or hung up on, however
\* slow or broken the connections before it are (accept loop and IO_TIMEOUT).
EveryConnectionEnds ==
    \A c \in Conns : conn[c] = "queued" ~> conn[c] \in {"answered", "dropped"}

\* SIGTERM ends the helper, or it fails to start in the meantime.
StopIsObeyed == stop ~> proc \in Down

\* A helper that was killed serves again once systemd has restarted it, unless
\* its token file or its socket path is unusable or it is stopped: the socket
\* the dead process left behind does not keep it from binding.
ServesAfterCrash ==
    proc = "failed" ~> (proc = "loop" \/ tokenFile = NoToken \/ path = "other" \/ stop)

-----------------------------------------------------------------------------
(* What the repository's documents say and the code does not do. *)

\* docs/helper-socket.json on the peer uid: "Checked before reading the request
\* body.": no body of a peer that is not allowed is ever read.
PeerCheckedBeforeBody ==
    proc = "evaluate" /\ Enforced => cred /\ msg[cur].uid \in AllowedUids
=============================================================================
