------------------------- MODULE HelperServerProofs --------------------------
(***************************************************************************)
(* Proofs about HelperServer, for any clients, messages, tokens and uids,  *)
(* and about Startup, which is what its Start does.                        *)
(***************************************************************************)
EXTENDS HelperServer, Startup, TLAPS

\* Whose socket it is before the first accept, as well as after it.
Listener ==
    /\ SocketIsOurs
    /\ proc = "mode" => path = "socket" /\ heard
    /\ proc \in {"probe", "bind"} => ~heard

\* The queue holds each waiting connection once; the one being served is not
\* in it, and only a whole request gets as far as evaluate.
Queue ==
    /\ \A i \in 1..Len(backlog) : conn[backlog[i]] = "queued"
    /\ \A i, j \in 1..Len(backlog) : backlog[i] = backlog[j] => i = j
    /\ proc \in Handling <=> cur # NoConn
    /\ cur # NoConn => conn[cur] = "served"
    /\ proc \in {"evaluate", "dispatch"} => msg[cur].frame = "request"

\* How far the record of each connection has come.
Trail ==
    /\ AuditTrail
    /\ \A c \in Conns : conn[c] \in {"new", "queued"} => c \notin ran /\ audits[c] = 0
    /\ proc \in {"timeouts", "read", "evaluate", "dispatch", "audit"} => audits[cur] = 0
    /\ proc = "reply" => audits[cur] = 1
    /\ proc \in {"timeouts", "read", "evaluate"} => cur \notin ran

IInv == TypeOK /\ Listener /\ Queue /\ Trail

\* A helper that was never started.
LEMMA InitIInv == Init => IInv
<1> SUFFICES ASSUME Init PROVE IInv
  OBVIOUS
<1> USE ServerAssumption DEF Init
<1>1. TypeOK
  <2>1. crashes \in 0..MaxCrashes /\ audits \in [Conns -> 0..1]
    OBVIOUS
  <2>2. heard \in BOOLEAN /\ stop \in BOOLEAN /\ cred \in BOOLEAN
    OBVIOUS
  <2>3. backlog \in Seq(Conns)
    OBVIOUS
  <2> QED
    BY <2>1, <2>2, <2>3 DEF TypeOK, Down, Responses
<1>2. Listener
  BY DEF Listener, SocketIsOurs, Down, Handling
<1>3. Queue
  BY DEF Queue, Handling
<1>4. Trail
  BY DEF Trail, AuditTrail
<1> QED
  BY <1>1, <1>2, <1>3, <1>4 DEF IInv

\* Every step of the helper, its clients and the operator keeps the types,
\* group by group; one audit line at most, because the connection has none yet.
LEMMA TypeStep == IInv /\ [Next]_vars => TypeOK'
<1> SUFFICES ASSUME TypeOK, Queue, Trail, [Next]_vars PROVE TypeOK'
  BY DEF IInv
<1> USE ServerAssumption DEF Next, ServerStep, Start, ProbeSocketPath, BindSocket, SetSocketMode,
        Accept, SetTimeouts, ReadRequest, ReadEnds, Evaluate, OperationEnds, Audit, Reply, ShutDown, Hangup,
        Signal, Crash, RotateToken, ChangePath, Connect, Down, StartUp, Handling,
        vars, life, sock, serving, peers, records
<1>1. proc' \in Down \cup StartUp \cup {"loop"} \cup Handling
  BY DEF TypeOK
<1>2. stop' \in BOOLEAN /\ heard' \in BOOLEAN /\ cred' \in BOOLEAN
  BY DEF TypeOK
<1>3. token' \in Tokens \cup {NoToken} /\ tokenFile' \in Tokens \cup {NoToken}
  BY DEF TypeOK
<1>4. path' \in {"none", "socket", "other"} /\ mode' \in {"umask", "0660"}
  BY DEF TypeOK, Unlinked, TightMode
<1>5. backlog' \in Seq(Conns) /\ cur' \in Conns \cup {NoConn}
  <2>1. \/ backlog' = backlog \/ backlog' = <<>> \/ \E c \in Conns : backlog' = Append(backlog, c)
        \/ backlog # <<>> /\ backlog' = Tail(backlog)
    BY DEF TypeOK
  <2>2. cur' = cur \/ cur' = NoConn \/ (backlog # <<>> /\ cur' = Head(backlog))
    BY DEF TypeOK
  <2> HIDE DEF Next
  <2>3. backlog \in Seq(Conns) /\ cur \in Conns \cup {NoConn}
    BY DEF TypeOK
  <2>4. backlog # <<>> => Head(backlog) \in Conns /\ Tail(backlog) \in Seq(Conns)
    BY <2>3
  <2>5. \A c \in Conns : Append(backlog, c) \in Seq(Conns)
    BY <2>3
  <2>6. <<>> \in Seq(Conns)
    OBVIOUS
  <2>7. backlog' \in Seq(Conns)
    BY <2>1, <2>3, <2>4, <2>5, <2>6, Zenon
  <2> QED
    BY <2>2, <2>3, <2>4, <2>7, Zenon
<1>6. response' \in Responses
  BY DEF TypeOK, Responses, Verdict
<1>7. conn' \in [Conns -> {"new", "queued", "served", "answered", "dropped"}]
  BY DEF TypeOK
<1>8. msg' \in [Conns -> Messages \cup {NoMessage}]
  <2>1. msg' = msg \/ \E c \in Conns, m \in Messages : msg' = [msg EXCEPT ![c] = m]
    OBVIOUS
  <2> HIDE DEF Next
  <2> QED
    BY <2>1 DEF TypeOK
<1>9. ran' \subseteq Conns /\ killed' \subseteq Conns
  BY DEF TypeOK, Queue
<1>10. audits' \in [Conns -> 0..1]
  <2>1. audits' = audits \/ (proc = "audit" /\ audits' = Audited)
    OBVIOUS
  <2>2. proc = "audit" => cur \in Conns /\ audits[cur] = 0
    BY DEF TypeOK, Queue, Trail
  <2> HIDE DEF Next
  <2> QED
    BY <2>1, <2>2 DEF TypeOK, Audited
<1>11. crashes' \in 0..MaxCrashes
  <2>1. crashes' = crashes \/ (crashes < MaxCrashes /\ crashes' = crashes + 1)
    OBVIOUS
  <2> HIDE DEF Next
  <2> QED
    BY <2>1 DEF TypeOK
<1> QED
  BY <1>1, <1>2, <1>3, <1>4, <1>5, <1>6, <1>7, <1>8, <1>9, <1>10, <1>11 DEF TypeOK

\* The socket is bound, then gets its mode, then is served; no one else
\* replaces a socket.
LEMMA SocketStep == IInv /\ [Next]_vars => Listener'
<1> SUFFICES ASSUME TypeOK, Listener, [Next]_vars PROVE Listener'
  BY DEF IInv
<1> USE DEF TypeOK, Listener, SocketIsOurs, Down, StartUp, Handling,
        life, sock, serving, peers, records
<1>1. CASE Start
  BY <1>1 DEF Start
<1>2. CASE ProbeSocketPath
  BY <1>2 DEF ProbeSocketPath, Unlinked
<1>3. CASE BindSocket
  BY <1>3 DEF BindSocket
<1>4. CASE SetSocketMode
  BY <1>4 DEF SetSocketMode, TightMode
<1>5. CASE Accept
  BY <1>5 DEF Accept
<1>6. CASE ReadRequest
  BY <1>6 DEF ReadRequest, ReadEnds
<1>7. CASE Evaluate
  BY <1>7 DEF Evaluate, Verdict
<1>8. CASE OperationEnds
  BY <1>8 DEF OperationEnds
<1>9. CASE Audit
  BY <1>9 DEF Audit, Audited
<1>10. CASE Reply
  BY <1>10 DEF Reply
<1>11. CASE ShutDown
  BY <1>11 DEF ShutDown, Hangup
<1>12. CASE Signal
  BY <1>12 DEF Signal
<1>13. CASE Crash
  BY <1>13 DEF Crash, Hangup
<1>14. CASE RotateToken
  BY <1>14 DEF RotateToken
<1>15. CASE ChangePath
  BY <1>15 DEF ChangePath
<1>16. ASSUME NEW c \in Conns, NEW m \in Messages, Connect(c, m) PROVE Listener'
  BY <1>16 DEF Connect
<1>17. CASE SetTimeouts
  BY <1>17 DEF SetTimeouts
<1>18. CASE UNCHANGED vars
  BY <1>18 DEF vars
<1> QED
  BY <1>1, <1>2, <1>3, <1>4, <1>5, <1>6, <1>7, <1>8, <1>9, <1>10, <1>11, <1>12,
     <1>13, <1>14, <1>15, <1>16, <1>17, <1>18
  DEF Next, ServerStep

\* Connections are taken from the queue in order and one at a time.
LEMMA QueueStep == IInv /\ [Next]_vars => Queue'
<1> SUFFICES ASSUME TypeOK, Queue, [Next]_vars PROVE Queue'
  BY DEF IInv
<1> USE ServerAssumption DEF TypeOK, Queue, Down, StartUp, Handling,
        life, sock, serving, peers, records
<1>1. CASE Start
  BY <1>1 DEF Start
<1>2. CASE ProbeSocketPath
  BY <1>2 DEF ProbeSocketPath, Unlinked
<1>3. CASE BindSocket
  BY <1>3 DEF BindSocket
<1>4. CASE SetSocketMode
  BY <1>4 DEF SetSocketMode, TightMode
<1>5. CASE Accept
  BY <1>5 DEF Accept
<1>6. CASE ReadRequest
  BY <1>6 DEF ReadRequest, ReadEnds
<1>7. CASE Evaluate
  BY <1>7 DEF Evaluate, Verdict
<1>8. CASE OperationEnds
  BY <1>8 DEF OperationEnds
<1>9. CASE Audit
  BY <1>9 DEF Audit, Audited
<1>10. CASE Reply
  BY <1>10 DEF Reply
<1>11. CASE ShutDown
  BY <1>11 DEF ShutDown, Hangup
<1>12. CASE Signal
  BY <1>12 DEF Signal
<1>13. CASE Crash
  BY <1>13 DEF Crash, Hangup
<1>14. CASE RotateToken
  BY <1>14 DEF RotateToken
<1>15. CASE ChangePath
  BY <1>15 DEF ChangePath
<1>16. ASSUME NEW c \in Conns, NEW m \in Messages, Connect(c, m) PROVE Queue'
  BY <1>16 DEF Connect
<1>17. CASE SetTimeouts
  BY <1>17 DEF SetTimeouts
<1>18. CASE UNCHANGED vars
  BY <1>18 DEF vars
<1> QED
  BY <1>1, <1>2, <1>3, <1>4, <1>5, <1>6, <1>7, <1>8, <1>9, <1>10, <1>11, <1>12,
     <1>13, <1>14, <1>15, <1>16, <1>17, <1>18
  DEF Next, ServerStep

\* An operation is recorded when it is started, its line when it has ended, the
\* answer after that.
LEMMA TrailStep == IInv /\ [Next]_vars => Trail'
<1> SUFFICES ASSUME TypeOK, Queue, Trail, [Next]_vars PROVE Trail'
  BY DEF IInv
<1> USE ServerAssumption DEF TypeOK, Queue, Trail, AuditTrail, Down, StartUp, Handling,
        life, sock, serving, peers, records
<1>1. CASE Start
  BY <1>1 DEF Start
<1>2. CASE ProbeSocketPath
  BY <1>2 DEF ProbeSocketPath, Unlinked
<1>3. CASE BindSocket
  BY <1>3 DEF BindSocket
<1>4. CASE SetSocketMode
  BY <1>4 DEF SetSocketMode, TightMode
<1>5. CASE Accept
  BY <1>5 DEF Accept
<1>6. CASE ReadRequest
  BY <1>6 DEF ReadRequest, ReadEnds
<1>7. CASE Evaluate
  BY <1>7 DEF Evaluate, Verdict
<1>8. CASE OperationEnds
  BY <1>8 DEF OperationEnds
<1>9. CASE Audit
  BY <1>9 DEF Audit, Audited
<1>10. CASE Reply
  BY <1>10 DEF Reply
<1>11. CASE ShutDown
  BY <1>11 DEF ShutDown, Hangup
<1>12. CASE Signal
  BY <1>12 DEF Signal
<1>13. CASE Crash
  BY <1>13 DEF Crash, Hangup
<1>14. CASE RotateToken
  BY <1>14 DEF RotateToken
<1>15. CASE ChangePath
  BY <1>15 DEF ChangePath
<1>16. ASSUME NEW c \in Conns, NEW m \in Messages, Connect(c, m) PROVE Trail'
  BY <1>16 DEF Connect
<1>17. CASE SetTimeouts
  BY <1>17 DEF SetTimeouts
<1>18. CASE UNCHANGED vars
  BY <1>18 DEF vars
<1> QED
  BY <1>1, <1>2, <1>3, <1>4, <1>5, <1>6, <1>7, <1>8, <1>9, <1>10, <1>11, <1>12,
     <1>13, <1>14, <1>15, <1>16, <1>17, <1>18
  DEF Next, ServerStep

\* The invariant holds of every behaviour of the server.
LEMMA Inductive == Spec => []IInv
<1>1. IInv /\ [Next]_vars => IInv'
  BY TypeStep, SocketStep, QueueStep, TrailStep DEF IInv
<1> QED
  BY InitIInv, <1>1, PTL DEF Spec

\* The variables of HelperServer keep their types.
THEOREM ServerTypes == Spec => []TypeOK
<1>1. IInv => TypeOK
  BY DEF IInv
<1> QED
  BY Inductive, <1>1, PTL

\* For any clients: what was answered or run has its audit line (audit before
\* write_frame, one connection at a time).
THEOREM TrailHasNoGap == Spec => []AuditTrail
<1>1. IInv => AuditTrail
  BY DEF IInv, Trail
<1> QED
  BY Inductive, <1>1, PTL

\* From the first accept on the socket at the path is the helper's own, with
\* its mode (bind).
THEOREM SocketStaysOurs == Spec => []SocketIsOurs
<1>1. IInv => SocketIsOurs
  BY DEF IInv, Listener
<1> QED
  BY Inductive, <1>1, PTL

\* For any clients, messages and tokens, whatever was rotated or restarted: no
\* operation starts for a connection that did not pass every factor (evaluate).
THEOREM OnlyAuthenticated == Spec => OnlyAuthenticatedRuns
<1>1. IInv /\ [Next]_vars =>
        [\A c \in ran' \ ran :
            /\ Enforced => cred /\ msg[c].uid \in AllowedUids
            /\ msg[c].frame = "request" /\ msg[c].current
            /\ msg[c].token = token]_vars
  <2> SUFFICES ASSUME TypeOK, Queue, Next, NEW c \in ran' \ ran
               PROVE  /\ Enforced => cred /\ msg[c].uid \in AllowedUids
                      /\ msg[c].frame = "request" /\ msg[c].current
                      /\ msg[c].token = token
    BY DEF IInv
  <2>1. Evaluate /\ Verdict = "ok" /\ c = cur
    <3>1. ran' # ran
      OBVIOUS
    <3>2. Evaluate
      BY <3>1 DEF Next, ServerStep, Start, ProbeSocketPath, BindSocket, SetSocketMode, Accept,
             SetTimeouts, ReadRequest, OperationEnds, Audit, Reply, ShutDown, Signal, Crash,
             RotateToken, ChangePath, Connect, records
    <3> QED
      BY <3>1, <3>2 DEF Evaluate
  <2>2. msg[cur].frame = "request"
    BY <2>1 DEF Evaluate, Queue
  <2>3. Enforced => cred /\ Authorize(msg[cur].uid)
    BY <2>1 DEF Verdict
  <2>4. msg[cur].current /\ msg[cur].token = token
    BY <2>1 DEF Verdict
  <2> QED
    BY <2>1, <2>2, <2>3, <2>4 DEF Authorize
<1> QED
  BY Inductive, <1>1, PTL DEF Spec, OnlyAuthenticatedRuns

-----------------------------------------------------------------------------
(* How far the server has come: what EveryConnectionEnds, StopIsObeyed and   *)
(* ServesAfterCrash rest on, besides the fairness of the server's steps.     *)

\* How many steps of the server there may be before the loop looks at the stop
\* flag and the queue again, or the process has ended.
Stage(p) ==
    IF p \in Down THEN 0
    ELSE IF p = "loop" THEN 1
    ELSE IF p \in {"reply", "mode"} THEN 2
    ELSE IF p \in {"audit", "bind"} THEN 3
    ELSE IF p \in {"dispatch", "probe"} THEN 4
    ELSE IF p = "evaluate" THEN 5
    ELSE IF p = "read" THEN 6
    ELSE 7

\* A connection waits for a process that hears it.
Waiting == backlog # <<>> => heard

\* The queue goes with its listener.
LEMMA WaitingInv == Spec => []Waiting
<1>1. Init => Waiting
  BY DEF Init, Waiting
<1>2. IInv /\ Waiting /\ [Next]_vars => Waiting'
  <2> SUFFICES ASSUME TypeOK, Listener, Waiting, [Next]_vars, backlog' # <<>> PROVE heard'
    BY DEF IInv, Waiting
  <2> USE DEF Waiting, sock, peers
  <2>1. CASE Accept
    <3>1. heard' = heard /\ backlog # <<>>
      BY <2>1 DEF Accept
    <3> QED
      BY <3>1
  <2>2. CASE ShutDown \/ Crash
    BY <2>2 DEF ShutDown, Crash, Hangup
  <2>3. ASSUME NEW c \in Conns, NEW m \in Messages, Connect(c, m) PROVE heard'
    BY <2>3 DEF Connect
  <2>4. CASE BindSocket
    BY <2>4 DEF BindSocket
  <2>5. CASE Start \/ ProbeSocketPath \/ SetSocketMode \/ SetTimeouts \/ ReadRequest \/ Evaluate
             \/ OperationEnds \/ Audit
    BY <2>5 DEF Start, ProbeSocketPath, SetSocketMode, SetTimeouts, ReadRequest, Evaluate, OperationEnds, Audit
  <2>6. CASE Reply \/ Signal \/ RotateToken \/ ChangePath \/ UNCHANGED vars
    BY <2>6 DEF Reply, Signal, RotateToken, ChangePath, vars
  <2> QED
    BY <2>1, <2>2, <2>3, <2>4, <2>5, <2>6 DEF Next, ServerStep
<1> QED
  BY Inductive, <1>1, <1>2, PTL DEF Spec

\* Every step of the server but Accept brings it nearer to the loop or its end.
LEMMA StageFalls ==
    ASSUME ServerStep PROVE Accept \/ Stage(proc') < Stage(proc)
<1> USE DEF Stage, Down
<1>1. CASE ProbeSocketPath
  BY <1>1 DEF ProbeSocketPath
<1>2. CASE BindSocket
  BY <1>2 DEF BindSocket
<1>3. CASE SetSocketMode
  BY <1>3 DEF SetSocketMode
<1>4. CASE ReadRequest
  <2>1. proc = "read" /\ proc' \in {"evaluate", "audit"}
    BY <1>4, Zenon DEF ReadRequest
  <2> QED
    BY <2>1
<1>5. CASE Evaluate
  BY <1>5 DEF Evaluate
<1>6. CASE OperationEnds
  BY <1>6 DEF OperationEnds
<1>7. CASE Audit
  BY <1>7 DEF Audit
<1>8. CASE Reply
  BY <1>8 DEF Reply
<1>9. CASE ShutDown
  BY <1>9 DEF ShutDown
<1>10. CASE SetTimeouts
  <2>1. proc = "timeouts" /\ proc' \in {"read", "loop"}
    BY <1>10, Zenon DEF SetTimeouts
  <2> QED
    BY <2>1
<1> QED
  BY <1>1, <1>2, <1>3, <1>4, <1>5, <1>6, <1>7, <1>8, <1>9, <1>10 DEF ServerStep

\* Only the server's own steps, a kill and a new start change where it is.
LEMMA StageKept ==
    ASSUME [Next]_vars PROVE ServerStep \/ Crash \/ Start \/ proc' = proc
BY DEF Next, Signal, RotateToken, ChangePath, Connect, life, vars

\* Once the stop flag is set every step of the server brings it nearer to its
\* end, from at most seven steps away, and nothing else sets it back: no
\* connection is accepted any more, and only a new start clears the flag (the
\* accept loop checks it first).
THEOREM StopAdvances ==
    Spec => [][stop => /\ Stage(proc) \in 0..7
                       /\ ServerStep => Stage(proc') < Stage(proc)
                       /\ Stage(proc') <= Stage(proc) \/ (proc \in Down /\ ~stop')]_vars
<1>1. ASSUME [Next]_vars, stop
      PROVE  /\ Stage(proc) \in 0..7
             /\ ServerStep => Stage(proc') < Stage(proc)
             /\ Stage(proc') <= Stage(proc) \/ (proc \in Down /\ ~stop')
  <2>1. Stage(proc) \in 0..7 /\ Stage(proc') \in 0..7
    BY DEF Stage
  <2>2. ServerStep => Stage(proc') < Stage(proc)
    <3>1. ~Accept
      BY <1>1 DEF Accept
    <3> QED
      BY <3>1, StageFalls
  <2>3. Crash => Stage(proc') <= Stage(proc)
    <3>1. Crash => Stage(proc') = 0
      BY DEF Crash, Stage, Down
    <3> QED
      BY <2>1, <3>1
  <2>4. Start => proc \in Down /\ ~stop'
    BY DEF Start
  <2> QED
    BY <1>1, <2>1, <2>2, <2>3, <2>4, StageKept
<1> QED
  BY <1>1, PTL DEF Spec

\* How many steps of the server there may be before connection number i of the
\* queue is accepted.
Turn(i, p) == 8 * i + Stage(p)

\* What a step does to the connection number i of the queue.
TurnStep(i) ==
    \/ conn'[backlog[i]] \in {"served", "dropped"}
    \/ \E j \in 1..i :
          /\ j <= Len(backlog') /\ backlog'[j] = backlog[i]
          /\ Turn(j, proc') <= Turn(i, proc)
          /\ ServerStep => Turn(j, proc') < Turn(i, proc)

\* Every step of the server brings each waiting connection nearer to its turn,
\* or ends its wait, however many others arrive meanwhile and whatever those
\* before it sent: the queue is served in order and nothing overtakes (accept
\* loop; a frame that stalls takes one step, which IO_TIMEOUT ends).
THEOREM TurnComes == Spec => [][\A i \in 1..Len(backlog) : TurnStep(i)]_vars
<1>1. ASSUME TypeOK, Listener, Queue, Waiting, [Next]_vars, NEW i \in 1..Len(backlog)
      PROVE  TurnStep(i)
  <2> DEFINE c == backlog[i]
  <2>1. c \in Conns /\ conn[c] = "queued" /\ heard
    BY <1>1 DEF TypeOK, Queue, Waiting
  <2>2. proc \notin Down
    BY <1>1, <2>1 DEF Listener, SocketIsOurs
  <2>3. Stage(proc) \in 0..7 /\ Stage(proc') \in 0..7
    BY DEF Stage
  <2>4. CASE Crash \/ ShutDown
    <3>1. conn'[c] = "dropped"
      BY <2>1, <2>4 DEF Crash, ShutDown, Hangup
    <3> QED
      BY <3>1 DEF TurnStep
  <2>5. CASE Accept
    <3>1. backlog \in Seq(Conns) /\ backlog' = Tail(backlog) /\ proc = "loop" /\ proc' = "timeouts"
      BY <1>1, <2>5 DEF Accept, TypeOK
    <3>2. CASE i = 1
      <4>1. conn'[c] = "served"
        BY <1>1, <2>1, <2>5, <3>2 DEF Accept, TypeOK
      <4> QED
        BY <4>1 DEF TurnStep
    <3>3. CASE i # 1
      <4>1. i - 1 \in 1..i /\ i - 1 <= Len(backlog') /\ backlog'[i - 1] = backlog[i]
        BY <3>1, <3>3
      <4>2. Stage(proc) = 1 /\ Stage(proc') = 7
        BY <3>1 DEF Stage, Down
      <4>3. Turn(i - 1, proc') < Turn(i, proc)
        BY <4>2 DEF Turn
      <4>4. Turn(i - 1, proc') <= Turn(i, proc)
        BY <4>2 DEF Turn
      <4> QED
        BY <4>1, <4>3, <4>4 DEF TurnStep
    <3> QED
      BY <3>2, <3>3
  <2>6. CASE ~Crash /\ ~ShutDown /\ ~Accept
    <3>1. i <= Len(backlog') /\ backlog'[i] = backlog[i]
      <4>1. backlog' = backlog \/ \E d \in Conns : backlog' = Append(backlog, d)
        BY <1>1, <2>6 DEF Next, ServerStep, Start, ProbeSocketPath, BindSocket, SetSocketMode,
           SetTimeouts, ReadRequest, Evaluate, OperationEnds, Audit, Reply, Signal, RotateToken, ChangePath,
           Connect, peers, vars
      <4>2. backlog \in Seq(Conns)
        BY <1>1 DEF TypeOK
      <4> QED
        BY <4>1, <4>2
    <3>2. ServerStep => Stage(proc') < Stage(proc)
      BY <2>6, StageFalls
    <3>3. ~ServerStep => proc' = proc
      <4>1. ~Start
        BY <2>2 DEF Start
      <4> QED
        BY <1>1, <2>6, <4>1, StageKept
    <3>4. Turn(i, proc') <= Turn(i, proc)
      BY <2>3, <3>2, <3>3 DEF Turn
    <3>5. ServerStep => Turn(i, proc') < Turn(i, proc)
      BY <2>3, <3>2 DEF Turn
    <3>6. i \in 1..i
      OBVIOUS
    <3> QED
      BY <3>1, <3>4, <3>5, <3>6 DEF TurnStep
  <2> QED
    BY <2>4, <2>5, <2>6
<1>2. IInv /\ Waiting /\ [Next]_vars => [\A i \in 1..Len(backlog) : TurnStep(i)]_vars
  BY <1>1 DEF IInv
<1> QED
  BY Inductive, WaitingInv, <1>2, PTL DEF Spec

\* The probe leaves no socket for bind to trip over.
Probed == proc = "bind" => path # "socket"

\* Nobody but the helper makes one.
LEMMA ProbedInv == Spec => []Probed
<1>1. Init => Probed
  BY DEF Init, Probed
<1>2. Probed /\ [Next]_vars => Probed'
  <2> SUFFICES ASSUME Probed, [Next]_vars, proc' = "bind" PROVE path' # "socket"
    BY DEF Probed
  <2> USE DEF Probed, Down, life, sock
  <2>1. CASE ProbeSocketPath
    BY <2>1 DEF ProbeSocketPath, Unlinked
  <2>2. CASE ChangePath
    BY <2>2 DEF ChangePath
  <2>3. CASE Signal \/ RotateToken \/ UNCHANGED vars
    BY <2>3 DEF Signal, RotateToken, vars
  <2>4. ASSUME NEW c \in Conns, NEW m \in Messages, Connect(c, m) PROVE path' # "socket"
    BY <2>4 DEF Connect
  <2>5. CASE Start \/ BindSocket \/ SetSocketMode \/ Accept \/ OperationEnds \/ Audit \/ Reply
             \/ ShutDown \/ Crash
    BY <2>5 DEF Start, BindSocket, SetSocketMode, Accept, OperationEnds, Audit, Reply, ShutDown,
       Crash
  <2>6. CASE SetTimeouts \/ ReadRequest \/ Evaluate
    <3>1. proc' \in {"read", "loop", "evaluate", "audit", "dispatch"}
      BY <2>6, Zenon DEF SetTimeouts, ReadRequest, Evaluate
    <3> QED
      BY <3>1
  <2> QED
    BY <2>1, <2>2, <2>3, <2>4, <2>5, <2>6 DEF Next, ServerStep
<1> QED
  BY <1>1, <1>2, PTL DEF Spec

\* A helper fails only when it is killed or the host fails one of its calls at
\* start-up (both are Crash), when its token file is refused, or when what is at
\* its path is no socket: never over a socket that an earlier
\* run left behind, and never over what a client sent (ServesAfterCrash rests on
\* it; bind and run).
THEOREM FailsForAReason ==
    Spec => [][proc' = "failed" =>
                  proc = "failed" \/ Crash \/ tokenFile = NoToken \/ path = "other"]_vars
<1>1. ASSUME TypeOK, Probed, [Next]_vars, proc' = "failed"
      PROVE  proc = "failed" \/ Crash \/ tokenFile = NoToken \/ path = "other"
  <2>1. CASE Start
    BY <1>1, <2>1 DEF Start
  <2>2. CASE ProbeSocketPath
    BY <1>1, <2>2 DEF ProbeSocketPath
  <2>3. CASE BindSocket
    BY <1>1, <2>3 DEF BindSocket, Probed, TypeOK
  <2>4. CASE SetTimeouts \/ ReadRequest \/ Evaluate
    <3>1. proc' \in {"read", "loop", "evaluate", "audit", "dispatch"}
      BY <2>4, Zenon DEF SetTimeouts, ReadRequest, Evaluate
    <3> QED
      BY <1>1, <3>1
  <2>5. CASE SetSocketMode \/ Accept \/ OperationEnds \/ Audit \/ Reply \/ ShutDown
    BY <1>1, <2>5 DEF SetSocketMode, Accept, OperationEnds, Audit, Reply, ShutDown
  <2> QED
    BY <1>1, <2>1, <2>2, <2>3, <2>4, <2>5, StageKept DEF ServerStep
<1>2. IInv /\ Probed /\ [Next]_vars =>
        [proc' = "failed" =>
            proc = "failed" \/ Crash \/ tokenFile = NoToken \/ path = "other"]_vars
  BY <1>1 DEF IInv
<1> QED
  BY Inductive, ProbedInv, <1>2, PTL DEF Spec

-----------------------------------------------------------------------------
(* The accept loop *)

AcceptLoop == INSTANCE SerialLoop WITH
    Clients <- Conns, None <- NoConn, queue <- backlog, current <- cur

\* The server serves connections in the order they came, one at a time, whatever
\* they send and whenever it is stopped, killed or started again; HelperSystem
\* puts the operations behind the same loop (run in server.rs).
THEOREM ConnectionsAreSerial == Spec => AcceptLoop!Spec
<1>1. Init => AcceptLoop!Init
  BY DEF Init, AcceptLoop!Init
<1>2. ASSUME IInv, [Next]_vars PROVE [AcceptLoop!Next]_<<backlog, cur>>
  <2>1. CASE Accept
    <3>1. cur = NoConn
      BY <1>2, <2>1 DEF IInv, Queue, Accept, Handling
    <3> QED
      BY <2>1, <3>1 DEF Accept, AcceptLoop!Next, AcceptLoop!Take
  <2>2. CASE Reply
    <3>1. cur # NoConn
      BY <1>2, <2>2 DEF IInv, Queue, Reply, Handling
    <3> QED
      BY <2>2, <3>1 DEF Reply, AcceptLoop!Next, AcceptLoop!Finish
  <2>3. CASE ShutDown \/ Crash
    BY <2>3 DEF ShutDown, Crash, Hangup, AcceptLoop!Next, AcceptLoop!HangUp
  <2>4. ASSUME NEW c \in Conns, NEW m \in Messages, Connect(c, m) PROVE AcceptLoop!Next
    BY <2>4 DEF Connect, serving, AcceptLoop!Next, AcceptLoop!Arrive
  <2>5. CASE Start \/ ProbeSocketPath \/ BindSocket \/ SetSocketMode \/ ReadRequest \/ Evaluate
    BY <2>5 DEF Start, ProbeSocketPath, BindSocket, SetSocketMode, ReadRequest, Evaluate,
       serving, peers
  <2>6. CASE OperationEnds \/ Audit \/ Signal \/ RotateToken \/ ChangePath \/ UNCHANGED vars
    BY <2>6 DEF OperationEnds, Audit, Signal, RotateToken, ChangePath, vars, serving, peers
  <2>7. CASE SetTimeouts
    <3>1. cur # NoConn
      BY <1>2, <2>7 DEF IInv, Queue, SetTimeouts, Handling
    <3> QED
      BY <2>7, <3>1 DEF SetTimeouts, AcceptLoop!Next, AcceptLoop!Finish
  <2> QED
    BY <1>2, <2>1, <2>2, <2>3, <2>4, <2>5, <2>6, <2>7 DEF Next, ServerStep
<1>3. IInv /\ [Next]_vars => [AcceptLoop!Next]_<<backlog, cur>>
  BY <1>2
<1> QED
  BY Inductive, <1>1, <1>3, PTL DEF Spec, AcceptLoop!Spec

-----------------------------------------------------------------------------
(* What Start loads: the calls of load_token, while an operator rotates the  *)
(* token (module Startup).                                                   *)

\* A rotation moves only a finished file to the path.
Rotation ==
    op \in {"chown", "chmod", "mv"} =>
        /\ staged = [kind |-> "file", owner |-> "root", mode |-> staged.mode, len |-> 64, id |-> staged.id]
        /\ op = "mv" => staged.mode = Allowed

\* What each check found holds of the file that is there at the next one,
\* though it may be another file.
Checked ==
    /\ file.kind \in {"file", "link", "none"}
    /\ pc \in {"owner", "mode", "read"} => file.kind # "link"
    /\ pc \in {"mode", "read"} => file.kind = "file" /\ file.owner = "root"
    /\ pc = "read" => file.mode \subseteq Allowed
    /\ pc \in {"config", "serve"} => Trusted(loaded)

\* Both hold in every reachable state: a move puts a finished file in the place
\* of one that was checked.
LEMMA LoadInv == BootSpec => [](Rotation /\ Checked)
<1>1. BootInit => Rotation /\ Checked
  BY DEF BootInit, Rotation, Checked
<1>2. Rotation /\ Checked /\ [BootNext]_bootVars => (Rotation /\ Checked)'
  <2> SUFFICES ASSUME Rotation, Checked, [BootNext]_bootVars PROVE Rotation' /\ Checked'
    OBVIOUS
  <2> USE DEF Rotation, Checked
  <2>1. CASE Launch
    BY <2>1 DEF Launch, Step
  <2>2. CASE EnsureNotSymlink
    BY <2>2 DEF EnsureNotSymlink, Step
  <2>3. CASE EnsureOwnedByRoot
    BY <2>3 DEF EnsureOwnedByRoot, OwnedByRoot, Step
  <2>4. CASE ValidateMode
    BY <2>4 DEF ValidateMode, ModeAtMost, Step
  <2>5. CASE ReadToken
    <3>1. Rotation' /\ (pc' = "config" \/ pc' = "down") /\ file' = file
      BY <2>5 DEF ReadToken, Step
    <3>2. CASE pc' = "config"
      <4>1. pc = "read" /\ loaded' = file /\ LongEnough
        BY <2>5, <3>2 DEF ReadToken, Step
      <4>2. Trusted(file)
        BY <4>1 DEF Trusted, LongEnough, Allowed
      <4> QED
        BY <3>1, <3>2, <4>1, <4>2 DEF Trusted
    <3> QED
      BY <3>1, <3>2
  <2>6. CASE Configure
    BY <2>6 DEF Configure, Step, Trusted
  <2>7. CASE Die
    BY <2>7 DEF Die
  <2>8. CASE WriteNew
    BY <2>8 DEF WriteNew, Command, Trusted
  <2>9. CASE Chown
    BY <2>9 DEF Chown, Command, Trusted
  <2>10. CASE Chmod
    BY <2>10 DEF Chmod, Command, Trusted, Allowed
  <2>11. CASE Move
    BY <2>11 DEF Move, Command, Trusted
  <2>12. CASE RestartHelper
    BY <2>12 DEF RestartHelper, Command
  <2>13. CASE RestartAgent
    BY <2>13 DEF RestartAgent, Command, Trusted
  <2>14. CASE UNCHANGED bootVars
    BY <2>14 DEF bootVars, Trusted
  <2> QED
    BY <2>1, <2>2, <2>3, <2>4, <2>5, <2>6, <2>7, <2>8, <2>9, <2>10, <2>11, <2>12, <2>13, <2>14
       DEF BootNext, Helper, Finishing
<1> QED
  BY <1>1, <1>2, PTL DEF BootSpec

\* Whatever an earlier installation left at the path, and whenever the token is
\* rotated between the checks and the read, the token a started helper has came
\* from a file to trust (load_token).
THEOREM LoadsTrusted == BootSpec => []ServedTokenTrusted
<1>1. Checked => ServedTokenTrusted
  BY DEF Checked, ServedTokenTrusted
<1> QED
  BY <1>1, LoadInv, PTL

\* The helper has the token that is at the path unless it is about to be
\* restarted, and so has the agent.
Agreed ==
    /\ pc \in {"config", "serve"} /\ op # "restartHelper" => loaded.id = file.id
    /\ op \notin {"restartHelper", "restartAgent"} => agent = file.id

\* A move of the token file is followed by a restart of each of its readers.
LEMMA AgreedInv == BootSpec => []Agreed
<1>1. BootInit => Agreed
  BY DEF BootInit, Agreed
<1>2. Agreed /\ [BootNext]_bootVars => Agreed'
  <2> SUFFICES ASSUME Agreed, [BootNext]_bootVars PROVE Agreed'
    OBVIOUS
  <2> USE DEF Agreed
  <2>1. CASE Launch \/ EnsureNotSymlink \/ EnsureOwnedByRoot \/ ValidateMode
    BY <2>1 DEF Launch, EnsureNotSymlink, EnsureOwnedByRoot, ValidateMode, Step
  <2>2. CASE ReadToken
    BY <2>2 DEF ReadToken, Step
  <2>3. CASE Configure
    BY <2>3 DEF Configure, Step
  <2>4. CASE Die
    BY <2>4 DEF Die
  <2>5. CASE WriteNew \/ Chown \/ Chmod
    BY <2>5 DEF WriteNew, Chown, Chmod, Command
  <2>6. CASE Move
    BY <2>6 DEF Move, Command
  <2>7. CASE RestartHelper
    BY <2>7 DEF RestartHelper, Command
  <2>8. CASE RestartAgent
    BY <2>8 DEF RestartAgent, Command
  <2>9. CASE UNCHANGED bootVars
    BY <2>9 DEF bootVars
  <2> QED
    BY <2>1, <2>2, <2>3, <2>4, <2>5, <2>6, <2>7, <2>8, <2>9 DEF BootNext, Helper, Finishing
<1> QED
  BY <1>1, <1>2, PTL DEF BootSpec

\* Outside the restarts a rotation ends with, a helper that serves and the agent
\* have the same token, whenever the helper died between the steps: what
\* TokensConverge says will be so (load_token reads the file once).
THEOREM TokensAgree ==
    BootSpec => [](pc = "serve" /\ op \notin {"restartHelper", "restartAgent"} => loaded.id = agent)
<1>1. Agreed => (pc = "serve" /\ op \notin {"restartHelper", "restartAgent"} => loaded.id = agent)
  BY DEF Agreed
<1> QED
  BY AgreedInv, <1>1, PTL

\* Calls still to make before the helper serves.
Calls ==
    IF pc = "down" THEN 6
    ELSE IF pc = "symlink" THEN 5
    ELSE IF pc = "owner" THEN 4
    ELSE IF pc = "mode" THEN 3
    ELSE IF pc = "read" THEN 2
    ELSE IF pc = "config" THEN 1
    ELSE 0

\* What is at the two paths.
Files == file \in TokenFile /\ staged \in TokenFile

\* The operator's commands leave nothing else there.
LEMMA FilesInv == BootSpec => []Files
<1>1. BootInit => Files
  BY StartupAssumption DEF BootInit, Files, TokenFile, Bits
<1>2. Files /\ [BootNext]_bootVars => Files'
  <2> SUFFICES ASSUME Files, [BootNext]_bootVars PROVE Files'
    OBVIOUS
  <2> USE StartupAssumption DEF Files, TokenFile
  <2>1. CASE Helper \/ Die
    BY <2>1 DEF Helper, Die, Launch, EnsureNotSymlink, EnsureOwnedByRoot, ValidateMode,
       ReadToken, Configure, Step
  <2>2. CASE WriteNew
    BY <2>2 DEF WriteNew, Command, Bits
  <2>3. CASE Chown
    BY <2>3 DEF Chown, Command
  <2>4. CASE Chmod
    BY <2>4 DEF Chmod, Command, Bits, Allowed
  <2>5. CASE Move
    BY <2>5 DEF Move, Command
  <2>6. CASE RestartHelper \/ RestartAgent \/ UNCHANGED bootVars
    BY <2>6 DEF RestartHelper, RestartAgent, Command, bootVars
  <2> QED
    BY <2>1, <2>2, <2>3, <2>4, <2>5, <2>6 DEF BootNext, Finishing
<1> QED
  BY <1>1, <1>2, PTL DEF BootSpec

\* With a file to trust at the path and root to run it, no call of the start-up
\* refuses: each brings the helper nearer to serving; and no rotation takes the
\* trust away (load_token, and the README's order of chown, chmod and mv).
THEOREM StartAdvances ==
    BootSpec => [][Trusted(file) /\ ValidRoot => /\ Trusted(file)' /\ ValidRoot'
                                                 /\ Helper => Calls' < Calls]_bootVars
<1>1. ASSUME Rotation, Files, BootNext, Trusted(file), ValidRoot
      PROVE  Trusted(file)' /\ ValidRoot' /\ (Helper => Calls' < Calls)
  <2>1. ValidRoot'
    <3>1. env' = env
      BY <1>1 DEF BootNext, Helper, Finishing, Launch, EnsureNotSymlink, EnsureOwnedByRoot,
         ValidateMode, ReadToken, Configure, Step, Die, WriteNew, Chown, Chmod, Move,
         RestartHelper, RestartAgent, Command
    <3> QED
      BY <1>1, <3>1 DEF ValidRoot
  <2>2. Trusted(file)'
    <3>1. CASE Move
      <4>1. file' = staged /\ op = "mv"
        BY <3>1 DEF Move, Command
      <4>2. /\ staged = [kind |-> "file", owner |-> "root", mode |-> staged.mode,
                         len |-> 64, id |-> staged.id]
            /\ staged.mode = Allowed
        BY <1>1, <4>1 DEF Rotation
      <4>3. staged.kind = "file" /\ staged.owner = "root" /\ staged.len = 64
        BY <4>2
      <4>4. Trusted(staged)
        BY <4>2, <4>3 DEF Trusted, Allowed, MIN_TOKEN_LEN
      <4> QED
        BY <4>1, <4>4 DEF Trusted
    <3>2. CASE ~Move
      <4>1. file' = file
        BY <1>1, <3>2 DEF BootNext, Helper, Finishing, Launch, EnsureNotSymlink,
           EnsureOwnedByRoot, ValidateMode, ReadToken, Configure, Step, Die, WriteNew, Chown,
           Chmod, RestartHelper, RestartAgent, Command
      <4> QED
        BY <1>1, <4>1 DEF Trusted
    <3> QED
      BY <3>1, <3>2
  <2>3. ASSUME Helper PROVE Calls' < Calls
    <3> USE DEF Calls, Step
    <3>1. file.kind = "file" /\ OwnedByRoot
      BY <1>1 DEF Trusted, OwnedByRoot
    <3>2. ModeAtMost
      BY <1>1 DEF Trusted, ModeAtMost, Files, TokenFile, Bits, Allowed
    <3>3. LongEnough
      BY <1>1 DEF Trusted, LongEnough, MIN_TOKEN_LEN
    <3>4. CASE Launch
      BY <1>1, <3>4 DEF Launch
    <3>5. CASE EnsureNotSymlink
      BY <3>1, <3>5 DEF EnsureNotSymlink
    <3>6. CASE EnsureOwnedByRoot
      BY <3>1, <3>6 DEF EnsureOwnedByRoot
    <3>7. CASE ValidateMode
      BY <3>1, <3>2, <3>7 DEF ValidateMode
    <3>8. CASE ReadToken
      BY <3>1, <3>3, <3>8 DEF ReadToken
    <3>9. CASE Configure
      BY <3>9 DEF Configure
    <3> QED
      BY <2>3, <3>4, <3>5, <3>6, <3>7, <3>8, <3>9 DEF Helper
  <2> QED
    BY <2>1, <2>2, <2>3
<1>2. Rotation /\ Checked /\ Files /\ [BootNext]_bootVars =>
        [Trusted(file) /\ ValidRoot => /\ Trusted(file)' /\ ValidRoot'
                                       /\ Helper => Calls' < Calls]_bootVars
  BY <1>1
<1> QED
  BY LoadInv, FilesInv, <1>2, PTL DEF BootSpec
=============================================================================
