-------------------------- MODULE SocketPathProofs ---------------------------
(***************************************************************************)
(* Proofs about SocketPath, for any number of helpers.                     *)
(***************************************************************************)
EXTENDS SocketPath, TLAPS

\* Unless someone meddled: once a helper has come past its stat, a free path is
\* about to be bound by somebody, and a socket at the path is being listened on.
Contended ==
    ~meddled =>
        /\ path # Stray
        /\ path = None /\ (\E p \in Procs : pc[p] \in {"remove", "failed"} \cup Listening)
              => \E q \in Procs : pc[q] = "bind"
        /\ path \in Procs /\ (\E p \in Procs : pc[p] \in {"bind", "failed"} \cup Listening)
              => pc[path] \in Listening

\* A helper that has come past its chown or its chmod and whose own socket is at
\* the path has set the group or the mode of that socket.
Provisioned ==
    \A p \in Procs : path = p =>
        /\ pc[p] = "serve" => mode = "0660"
        /\ pc[p] \in {"chmod", "serve"} /\ p \in SocketGid => group = "agents"

IInv == TypeOK /\ Provisioned /\ Contended

\* Nobody has started yet.
LEMMA InitIInv == Init => IInv
<1> SUFFICES ASSUME Init PROVE IInv
  OBVIOUS
<1>1. TypeOK
  BY PathAssumption DEF Init, TypeOK, Steps, Listening
<1>2. Provisioned
  BY DEF Init, Provisioned
<1>3. Contended
  BY PathAssumption DEF Init, Contended, Listening
<1> QED
  BY <1>1, <1>2, <1>3 DEF IInv

\* Every call of bind and of the end of run keeps the types.
LEMMA TypeStep == TypeOK /\ [Next]_vars => TypeOK'
<1> SUFFICES ASSUME TypeOK, [Next]_vars PROVE TypeOK'
  OBVIOUS
<1> USE PathAssumption DEF TypeOK, Steps, Listening, Goto
<1>1. ASSUME NEW p \in Procs, Start(p) PROVE TypeOK'
  BY <1>1 DEF Start
<1>2. ASSUME NEW p \in Procs, Stat(p) PROVE TypeOK'
  BY <1>2 DEF Stat
<1>3. ASSUME NEW p \in Procs, RemoveStale(p) PROVE TypeOK'
  BY <1>3 DEF RemoveStale, Removed
<1>4. ASSUME NEW p \in Procs, Bind(p) PROVE TypeOK'
  BY <1>4 DEF Bind, NameFree
<1>5. ASSUME NEW p \in Procs, Chown(p) PROVE TypeOK'
  BY <1>5 DEF Chown
<1>6. ASSUME NEW p \in Procs, SetSocketMode(p) PROVE TypeOK'
  BY <1>6 DEF SetSocketMode, SocketMode
<1>7. ASSUME NEW p \in Procs, Stop(p) PROVE TypeOK'
  BY <1>7 DEF Stop
<1>8. ASSUME NEW p \in Procs, Die(p) PROVE TypeOK'
  BY <1>8 DEF Die
<1>9. CASE Operator
  BY <1>9 DEF Operator
<1>10. CASE UNCHANGED vars
  BY <1>10 DEF vars
<1> QED
  BY <1>1, <1>2, <1>3, <1>4, <1>5, <1>6, <1>7, <1>8, <1>9, <1>10 DEF Next

\* Only the process that binds a socket can serve over it, and it sets group and
\* mode in between; others can only set the same ones.
LEMMA ModeStep == TypeOK /\ Provisioned /\ [Next]_vars => Provisioned'
<1> SUFFICES ASSUME TypeOK, Provisioned, [Next]_vars PROVE Provisioned'
  OBVIOUS
<1> USE PathAssumption DEF TypeOK, Provisioned, Goto
<1>1. ASSUME NEW p \in Procs, Start(p) PROVE Provisioned'
  BY <1>1 DEF Start
<1>2. ASSUME NEW p \in Procs, Stat(p) PROVE Provisioned'
  BY <1>2 DEF Stat
<1>3. ASSUME NEW p \in Procs, RemoveStale(p) PROVE Provisioned'
  BY <1>3 DEF RemoveStale, Removed
<1>4. ASSUME NEW p \in Procs, Bind(p) PROVE Provisioned'
  BY <1>4 DEF Bind, NameFree
<1>5. ASSUME NEW p \in Procs, Chown(p) PROVE Provisioned'
  BY <1>5 DEF Chown
<1>6. ASSUME NEW p \in Procs, SetSocketMode(p) PROVE Provisioned'
  BY <1>6 DEF SetSocketMode, SocketMode
<1>7. ASSUME NEW p \in Procs, Stop(p) PROVE Provisioned'
  BY <1>7 DEF Stop
<1>8. ASSUME NEW p \in Procs, Die(p) PROVE Provisioned'
  BY <1>8 DEF Die
<1>9. CASE Operator
  BY <1>9 DEF Operator
<1>10. CASE UNCHANGED vars
  BY <1>10 DEF vars
<1> QED
  BY <1>1, <1>2, <1>3, <1>4, <1>5, <1>6, <1>7, <1>8, <1>9, <1>10 DEF Next

\* A helper that removes a socket goes on to bind; one that fails was overtaken
\* by another that did.
LEMMA ContendedStep == TypeOK /\ Contended /\ [Next]_vars => Contended'
<1> SUFFICES ASSUME TypeOK, Contended, [Next]_vars, ~meddled'
             PROVE  Contended'
  BY DEF Contended
<1> USE PathAssumption DEF TypeOK, Goto
<1>0. ~meddled
  BY DEF Next, Start, Stat, RemoveStale, Bind, Chown, SetSocketMode, Stop, Die, Operator, vars
<1> USE <1>0
<1>1. ASSUME NEW p \in Procs, Start(p) PROVE Contended'
  BY <1>1 DEF Start, Contended, Listening
<1>2. ASSUME NEW p \in Procs, Stat(p) PROVE Contended'
  BY <1>2 DEF Stat, Contended, Listening
<1>3. ASSUME NEW p \in Procs, RemoveStale(p) PROVE Contended'
  BY <1>3 DEF RemoveStale, Removed, Contended, Listening
<1>4. ASSUME NEW p \in Procs, Bind(p) PROVE Contended'
  BY <1>4 DEF Bind, NameFree, Contended, Listening
<1>5. ASSUME NEW p \in Procs, Chown(p) PROVE Contended'
  BY <1>5 DEF Chown, Contended, Listening
<1>6. ASSUME NEW p \in Procs, SetSocketMode(p) PROVE Contended'
  BY <1>6 DEF SetSocketMode, SocketMode, Contended, Listening
<1>7. ASSUME NEW p \in Procs, Stop(p) PROVE Contended'
  BY <1>7 DEF Stop, Contended, Listening
<1>8. ASSUME NEW p \in Procs, Die(p) PROVE Contended'
  BY <1>8 DEF Die, Contended, Listening
<1>9. CASE Operator
  BY <1>9 DEF Operator
<1>10. CASE UNCHANGED vars
  BY <1>10 DEF vars, Contended
<1> QED
  BY <1>1, <1>2, <1>3, <1>4, <1>5, <1>6, <1>7, <1>8, <1>9, <1>10 DEF Next

\* The invariant holds of every behaviour of bind and run.
LEMMA Inductive == Spec => []IInv
<1>1. IInv /\ [Next]_vars => IInv'
  BY TypeStep, ModeStep, ContendedStep DEF IInv
<1> QED
  BY InitIInv, <1>1, PTL DEF Spec

\* The variables of SocketPath keep their types for any set of helpers.
THEOREM PathTypes == Spec => []TypeOK
<1>1. IInv => TypeOK
  BY DEF IInv
<1> QED
  BY Inductive, <1>1, PTL

\* Any number of helpers started over each other: when all have come to the end of
\* bind, one serves at the path with the mode and the group it asked for.
THEOREM OneIsReachable == Spec => []ReachableInTheEnd
<1>1. IInv => ReachableInTheEnd
  <2> SUFFICES ASSUME IInv, ~meddled, Settled, NEW p \in Procs, pc[p] # "off"
               PROVE  \E q \in Procs :
                          /\ pc[q] = "serve" /\ path = q
                          /\ mode = "0660"
                          /\ q \in SocketGid => group = "agents"
    BY DEF ReachableInTheEnd
  <2>1. pc[p] \in {"failed"} \cup Listening
    BY DEF Settled, Listening
  <2>2. path \in Procs
    BY <2>1 DEF IInv, TypeOK, Contended, Settled, Listening
  <2>3. pc[path] = "serve"
    BY <2>1, <2>2 DEF IInv, Contended, Settled, Listening
  <2> QED
    BY <2>2, <2>3 DEF IInv, Provisioned
<1> QED
  BY Inductive, <1>1, PTL

\* Any number of helpers that only start: not all of them fail (bind).
THEOREM SomeoneGetsThrough == Spec => []NotAllFail
<1>1. IInv => NotAllFail
  <2> SUFFICES ASSUME IInv, ~meddled, NEW p \in Procs, pc[p] = "failed"
               PROVE  \E q \in Procs : pc[q] \notin {"off", "failed"}
    BY DEF NotAllFail
  <2>1. CASE path = None
    BY <2>1 DEF IInv, Contended
  <2>2. CASE path \in Procs
    BY <2>2 DEF IInv, Contended, Listening
  <2> QED
    BY <2>1, <2>2 DEF IInv, TypeOK, Contended
<1> QED
  BY Inductive, <1>1, PTL
=============================================================================
