--------------------------- MODULE HelperOpsProofs ---------------------------
(***************************************************************************)
(* Proofs about HelperOps, for every set of file contents, every edit an   *)
(* administrator may make and every configuration sshd may reject; and     *)
(* about HelperSystem, which feeds it from a queue, for every number of    *)
(* requests and outages.                                                   *)
(***************************************************************************)
EXTENDS HelperSystem, SequenceTheorems, TLAPS

-----------------------------------------------------------------------------
(* The inductive invariant *)

Early == {"dirs", "include", "compare", "nolink", "capture", "write"}
Verifying == {"verifyCa", "linkCa", "modeCa", "verifyDropin", "linkDropin", "modeDropin"}

\* Which operation, and which call of the commands, a step can belong to; an
\* apply gets past dispatch only with content that parses.
Control ==
    /\ pc \in Early => phase = "early" /\ req.op \notin {"Ping", "VerifyState", "none"}
    /\ pc \in Early \ {"dirs"} => Changing
    /\ pc \in Verifying => phase = "early" /\ req.op = "VerifyState"
    /\ pc \in {"sync", "reload"} => phase \in {"commit", "rollback"}
    /\ pc \in {"validate", "active"} => phase \in {"commit", "rollback", "verify"}
    /\ pc = "restore" => phase = "commit"
    /\ phase \in {"commit", "rollback"} => Changing
    /\ phase = "verify" => req.op = "VerifyState"
    /\ pc \notin {"idle", "down"} /\ Applying => req.content \in Parseable
    /\ pc = "down" => reply = NoReply

\* What holds of the previous contents while a request is under way.
Backup ==
    /\ quiet /\ pc = "write" => prev = View[Target]
    /\ quiet /\ pc \in Early \cup Verifying => View = entry
    /\ quiet /\ InFlux => [View EXCEPT ![Target] = prev] = entry
    /\ quiet /\ phase \in {"rollback", "verify"} /\ pc \notin {"idle", "down"} => View = entry

\* Which files sshd accepts.
Accepted ==
    /\ sound => quiet
    /\ sound /\ ~InFlux => View \notin Rejected
    /\ sound /\ InFlux => [View EXCEPT ![Target] = prev] \notin Rejected
    /\ quiet /\ pc \in {"reload", "active"} => View \notin Rejected

IInv == TypeOK /\ Control /\ Backup /\ Accepted /\ FailedRequestRestores

-----------------------------------------------------------------------------
(* What a request has done so far, for the properties of its success *)

\* The commands a call of validate_reload_verify, or verify_state, has run
\* before the step.
RunBefore(step) ==
    IF step = "restore" THEN 3
    ELSE IF step = "active" /\ phase # "verify" THEN 2
    ELSE IF step \in {"reload", "active"} THEN 1
    ELSE 0

\* A rollback comes after at most three commands of its commit.
Budget ==
    /\ cmds <= 6
    /\ pc \notin {"idle", "down"} => cmds <= RunBefore(pc) + (IF phase = "rollback" THEN 3 ELSE 0)

\* What is in the files, on stable storage and in sshd as a commit, or the
\* rollback of one, goes on.
Progress ==
    /\ quiet /\ InFlux => file[Target] = Regular(Wanted)
    /\ quiet /\ InFlux /\ pc \in {"validate", "reload", "active"} => durable[Target] = file[Target]
    /\ quiet /\ pc = "active" /\ phase # "verify" => loaded = View

\* A managed file that verify_state has passed.
Passed(f, good) ==
    View[f] # NoBody => file[f].kind = "file" /\ file[f].perm # "writable" /\ View[f] \in good

\* Which files verify_state has passed; what it has read of the one it is at is
\* still there.
Verified ==
    /\ quiet /\ pc \in {"linkCa", "modeCa"} => prev = View["ca"]
    /\ quiet /\ pc \in {"linkDropin", "modeDropin"} => prev = View["dropin"]
    /\ quiet /\ pc \in {"verifyDropin", "linkDropin", "modeDropin"} => Passed("ca", Parseable)
    /\ quiet /\ pc \in {"validate", "active"} /\ phase = "verify"
         => Passed("ca", Parseable) /\ Passed("dropin", Current)

\* The requests that ended with is-active succeeding.
EndedWell ==
    /\ Replied
    /\ \/ reply.ok /\ Changing /\ reply.outcome # "NotModified"
       \/ phase = "rollback" /\ log = "none"
       \/ reply.ok /\ req.op = "VerifyState"

\* Whatever reload comes late, those found files sshd accepts.
Settled ==
    /\ EndedWell /\ quiet => View \notin Rejected
    /\ Replied /\ reply.outcome = "Applied" => reply.ok /\ Applying

LInv == Budget /\ Progress /\ Verified /\ Settled
            /\ AppliedIsLive /\ SilentRollbackResyncs /\ VerifySound

-----------------------------------------------------------------------------
(* The agent and the queue *)

\* Requests wait in the order they were sent in, behind the one being served
\* and the one last answered.
Queue ==
    /\ sent \in Seq(Requests)
    /\ inbox \in Seq(Nat)
    /\ serving \in 0..Len(sent)
    /\ answer \in [to : 0..Len(sent), reply : Responses \cup {NoReply}]
    /\ \A i \in 1..Len(inbox) :
            serving < inbox[i] /\ answer.to < inbox[i] /\ inbox[i] <= Len(sent)
    /\ \A i, j \in 1..Len(inbox) : i < j => inbox[i] < inbox[j]
    /\ serving # 0 => answer.to < serving

\* The operation under way is that of the request being served.
Serving ==
    /\ quiet
    /\ serving = 0 => pc \in {"idle", "down"}
    /\ serving # 0 => pc # "down" /\ req = sent[serving]

\* The last request sent, when it was answered Applied, is in the file and on
\* stable storage.
Kept ==
    answer.reply.outcome = "Applied" /\ answer.to = Len(sent)
        => /\ answer.to # 0
           /\ file["ca"].body = sent[answer.to].content
           /\ durable["ca"] = file["ca"]

SInv == IInv /\ LInv /\ Queue /\ Serving /\ Kept

-----------------------------------------------------------------------------
(* Files and views *)

\* Every member of Node has a body, which is what its view shows.
LEMMA NodeBody == \A n \in Node : n.body \in Bodies \cup {NoBody}
  BY DEF Node, Absent

\* What secure_write leaves is a file.
LEMMA RegularIsNode == \A b \in Bodies : Regular(b) \in Node /\ Regular(b).body = b
  BY DEF Regular, Node, Perms

\* The view of a set of files.
LEMMA ViewType == ASSUME file \in [Files -> Node] PROVE View \in Views
  BY NodeBody DEF View, ViewOf, Views

\* Replacing one file replaces its contents in the view.
LEMMA ViewExcept ==
  ASSUME NEW t \in Files, NEW n \in Node, file \in [Files -> Node],
         file' = [file EXCEPT ![t] = n]
  PROVE  /\ file' \in [Files -> Node]
         /\ View' = [View EXCEPT ![t] = n.body]
  BY DEF View, ViewOf

\* The target of a request is a managed file.
LEMMA TargetInFiles == Target \in Files
  BY DEF Target, Files

-----------------------------------------------------------------------------
(* How a request ends, and the steps that only read *)

\* A request that gets to a write has contents for it.
LEMMA WantedIsBody ==
  ASSUME TypeOK, Control, pc \in (Early \ {"dirs"}) \cup {"sync", "restore"}
  PROVE  Wanted \in Bodies
  BY BodyAssumption DEF TypeOK, Control, Early, Changing, Applying, Wanted, Requests, Ops

\* Finish replies.
LEMMA FinishEffect ==
  ASSUME NEW ok \in BOOLEAN, NEW o \in Outcomes, Finish(ok, o)
  PROVE  pc' = "idle" /\ prev' = NoBody /\ reply' \in Responses /\ reply'.ok = ok
  BY DEF Finish, Responses

\* Fail replies that the request failed.
LEMMA FailEffect ==
  ASSUME Fail
  PROVE  pc' = "idle" /\ prev' = NoBody /\ reply' \in Responses /\ ~reply'.ok
  <1>1. FailOutcome \in Outcomes
    BY DEF FailOutcome, Outcomes
  <1> QED BY <1>1, FinishEffect DEF Fail

\* A step before the write that touches no file keeps the invariant when it
\* ends the request or moves on to a step its operation has.
LEMMA ReadingStep ==
  ASSUME IInv, pc \in Early \cup Verifying,
         UNCHANGED <<file, durable, loaded, active, job, phase, req, log, entry, quiet, sound, cmds>>,
         dir' \in [Files -> DirState],
         \/ pc' = "idle" /\ prev' = NoBody /\ reply' \in Responses
         \/ /\ reply' = reply
            /\ prev' \in Bodies \cup {NoBody}
            /\ \/ pc' \in Early \ {"dirs"} /\ Changing
               \/ pc' \in Verifying /\ pc \in Verifying
            /\ pc' = "write" => prev' = View[Target]
  PROVE  IInv'
  <1>0. View' = View /\ Target' = Target /\ Changing' = Changing /\ Applying' = Applying
    BY DEF View, ViewOf, Target, Changing, Applying
  <1>1. TypeOK'
    BY DEF IInv, TypeOK, Early, Verifying, Steps
  <1>2. Control'
    BY <1>0 DEF IInv, Control, Early, Verifying, Changing
  <1>3. Backup'
    BY <1>0 DEF IInv, Backup, Control, InFlux, Early, Verifying
  <1>4. Accepted'
    BY <1>0 DEF IInv, Accepted, Control, InFlux, Early, Verifying
  <1>5. FailedRequestRestores'
    BY <1>0 DEF IInv, FailedRequestRestores, Replied, Backup, Early, Verifying
  <1> QED BY <1>1, <1>2, <1>3, <1>4, <1>5 DEF IInv

\* The steps that only read, and the failures before the rename.
LEMMA ReadingSteps ==
  ASSUME IInv,
         \/ EnsureDirectories \/ EnsureIncludePresent \/ CompareDropin \/ EnsureNotSymlink
         \/ CapturePrevious
  PROVE  IInv'
  <1>0. \A o \in {"Ok", "NotModified"} :
           Finish(TRUE, o) => pc' = "idle" /\ prev' = NoBody /\ reply' \in Responses
    BY FinishEffect DEF Outcomes
  <1>1. CASE EnsureDirectories
    <2>1. dir' \in [Files -> DirState]
      BY <1>1 DEF IInv, TypeOK, EnsureDirectories, Ensured, HalfEnsured, DirState, Files
    <2>2. \/ pc' = "idle" /\ prev' = NoBody /\ reply' \in Responses
          \/ pc' \in {"include", "nolink"} /\ prev' = prev /\ reply' = reply /\ Changing
      BY <1>1, <1>0, FailEffect DEF EnsureDirectories, Goto, Changing
    <2> QED BY <1>1, <2>1, <2>2, ReadingStep
            DEF EnsureDirectories, sshd, hist, Early, IInv, TypeOK
  <1>2. CASE EnsureIncludePresent
    <2>1. \/ pc' = "idle" /\ prev' = NoBody /\ reply' \in Responses
          \/ pc' = "compare" /\ prev' = prev /\ reply' = reply /\ Changing
      BY <1>2, FailEffect DEF EnsureIncludePresent, Goto, IInv, Control, Early
    <2> QED BY <1>2, <2>1, ReadingStep
            DEF EnsureIncludePresent, disk, sshd, hist, Early, IInv, TypeOK
  <1>3. CASE CompareDropin
    <2>1. \/ pc' = "idle" /\ prev' = NoBody /\ reply' \in Responses
          \/ pc' = "nolink" /\ prev' = prev /\ reply' = reply /\ Changing
      BY <1>3, <1>0, FailEffect DEF CompareDropin, Goto, IInv, Control, Early
    <2> QED BY <1>3, <2>1, ReadingStep
            DEF CompareDropin, disk, sshd, hist, Early, IInv, TypeOK
  <1>4. CASE EnsureNotSymlink
    <2>1. \/ pc' = "idle" /\ prev' = NoBody /\ reply' \in Responses
          \/ pc' = "capture" /\ prev' = prev /\ reply' = reply /\ Changing
      BY <1>4, FailEffect DEF EnsureNotSymlink, Goto, IInv, Control, Early
    <2> QED BY <1>4, <2>1, ReadingStep
            DEF EnsureNotSymlink, disk, sshd, hist, Early, IInv, TypeOK
  <1>5. CASE CapturePrevious
    <2>1. View[Target] \in Bodies \cup {NoBody}
      BY ViewType, TargetInFiles DEF IInv, TypeOK, Views
    <2>2. \/ pc' = "idle" /\ prev' = NoBody /\ reply' \in Responses
          \/ pc' = "write" /\ prev' = View[Target] /\ reply' = reply /\ Changing
      BY <1>5, <1>0, FailEffect DEF CapturePrevious, Captured, IInv, Control, Early
    <2> QED BY <1>5, <2>1, <2>2, ReadingStep
            DEF CapturePrevious, disk, sshd, hist, Early, IInv, TypeOK
  <1> QED BY <1>1, <1>2, <1>3, <1>4, <1>5

\* A new request finds files sshd accepts, if any may be counted on.
LEMMA DispatchStep ==
  ASSUME IInv, NEW r \in Requests, Dispatch(r)
  PROVE  IInv'
  <1>0. View' = View /\ pc = "idle" /\ req' = r /\ phase' = "early" /\ entry' = View /\ quiet' /\ sound' = sound
    BY DEF Dispatch, View, ViewOf, disk
  <1>1. \/ pc' = "idle" /\ prev' = NoBody /\ reply' \in Responses
        \/ /\ prev' = prev /\ reply' = NoReply
           /\ \/ /\ pc' = "dirs" /\ r.op \notin {"Ping", "VerifyState", "none"}
                 /\ r.op = "ApplyTrustedCaKeys" => r.content \in Parseable
              \/ pc' = "verifyCa" /\ r.op = "VerifyState"
    <2>1. \A ok \in BOOLEAN, o \in {"Ok", "RolledBack"} :
            Finish(ok, o) => pc' = "idle" /\ prev' = NoBody /\ reply' \in Responses
      BY FinishEffect DEF Outcomes
    <2> QED BY <2>1 DEF Dispatch
  <1>2. TypeOK'
    BY <1>0, <1>1, ViewType DEF IInv, TypeOK, Dispatch, disk, sshd, Steps, Phases, CmdCap
  <1>3. Control'
    BY <1>0, <1>1 DEF Control, Early, Verifying, Changing, Applying
  <1>4. Backup'
    BY <1>0, <1>1 DEF Backup, InFlux, Early, Verifying
  <1>5. Accepted'
    BY <1>0, <1>1 DEF IInv, Accepted, InFlux
  <1>6. FailedRequestRestores'
    BY <1>0 DEF FailedRequestRestores
  <1> QED BY <1>2, <1>3, <1>4, <1>5, <1>6 DEF IInv

-----------------------------------------------------------------------------
(* The write and its rollback *)

\* Writing: the old contents are still known, so putting them back gives the
\* files the request found.
LEMMA WriteStep ==
  ASSUME IInv, Write
  PROVE  IInv'
  <1>0. /\ pc = "write" /\ Target' = Target /\ Changing' = Changing /\ Applying' = Applying /\ Changing
        /\ UNCHANGED <<durable, dir, loaded, active, job, req, log, entry, quiet, sound, cmds>>
    BY DEF Write, Target, Changing, Applying, IInv, Control, Early, sshd, hist
  <1>1. CASE Fail /\ UNCHANGED <<file, phase>>
    BY <1>0, <1>1, FailEffect, ReadingStep DEF Early, IInv, TypeOK
  <1>2. CASE /\ file' = [file EXCEPT ![Target] = Regular(Wanted)]
             /\ phase' = "commit" /\ Goto("sync")
    <2>1. Wanted \in Bodies
      BY <1>0, WantedIsBody DEF IInv, Early
    <2>2. file' \in [Files -> Node] /\ View' = [View EXCEPT ![Target] = Wanted]
      <3>1. Regular(Wanted) \in Node /\ Regular(Wanted).body = Wanted
        BY <2>1, RegularIsNode
      <3> QED BY <1>2, <3>1, TargetInFiles, ViewExcept DEF IInv, TypeOK
    <2>3. View \in [Files -> Bodies \cup {NoBody}]
      BY ViewType DEF IInv, TypeOK, Views
    <2>4. quiet => [View' EXCEPT ![Target] = prev] = View
      BY <1>0, <2>2, <2>3, TargetInFiles DEF IInv, Backup
    <2>5. pc' = "sync" /\ prev' = prev /\ reply' = reply /\ InFlux'
      BY <1>2 DEF Goto, InFlux
    <2>6. TypeOK'
      BY <1>0, <1>2, <2>2, <2>5 DEF IInv, TypeOK, Steps, Phases
    <2>7. Control'
      BY <1>0, <1>2, <2>5 DEF IInv, Control, Early, Verifying
    <2>8. Backup'
      BY <1>0, <1>2, <2>4, <2>5 DEF IInv, Backup, Early, Verifying
    <2>9. Accepted'
      BY <1>0, <2>4, <2>5 DEF IInv, Accepted, InFlux
    <2>10. FailedRequestRestores'
      BY <2>5 DEF FailedRequestRestores, Replied
    <2> QED BY <2>6, <2>7, <2>8, <2>9, <2>10 DEF IInv
  <1> QED BY <1>1, <1>2 DEF Write

\* The directory fsync, after the write or after the restore.
LEMMA SyncStep ==
  ASSUME IInv, SyncDirectory
  PROVE  IInv'
  <1>0. /\ pc = "sync" /\ View' = View /\ Target' = Target /\ Changing' = Changing /\ Applying' = Applying
        /\ UNCHANGED <<file, dir, loaded, active, job, req, entry, quiet, cmds>>
    BY DEF SyncDirectory, View, ViewOf, Target, Changing, Applying, sshd
  <1>1. CASE /\ durable' = [durable EXCEPT ![Target] = file[Target]]
             /\ Goto(AfterWrite) /\ UNCHANGED <<phase, log, sound>>
    <2>1. pc' = "validate" /\ prev' = prev /\ reply' = reply
      BY <1>1 DEF Goto, AfterWrite
    <2>2. TypeOK'
      BY <1>0, <1>1, <2>1, TargetInFiles DEF IInv, TypeOK, Steps
    <2>3. Control'
      BY <1>0, <1>1, <2>1 DEF IInv, Control, Early, Verifying
    <2>4. Backup' /\ Accepted' /\ FailedRequestRestores'
      BY <1>0, <1>1, <2>1
         DEF IInv, Backup, Accepted, FailedRequestRestores, Replied, Early, Verifying, InFlux
    <2> QED BY <2>2, <2>3, <2>4 DEF IInv
  <1>2. CASE /\ phase = "commit" /\ Fail /\ phase' = "unsynced" /\ sound' = FALSE
             /\ UNCHANGED <<durable, log>>
    <2>1. TypeOK'
      BY <1>0, <1>2, FailEffect DEF IInv, TypeOK, Phases
    <2>2. Control'
      BY <1>0, <1>2, FailEffect DEF IInv, Control, Early, Verifying
    <2>3. Backup' /\ Accepted' /\ FailedRequestRestores'
      BY <1>0, <1>2, FailEffect
         DEF IInv, Backup, Accepted, FailedRequestRestores, Replied, Early, Verifying, InFlux
    <2> QED BY <2>1, <2>2, <2>3 DEF IInv
  <1>3. CASE /\ phase = "rollback" /\ Fail /\ log' = "restoreFailed"
             /\ UNCHANGED <<durable, phase, sound>>
    <2>1. TypeOK'
      BY <1>0, <1>3, FailEffect DEF IInv, TypeOK, Phases
    <2>2. Control'
      BY <1>0, <1>3, FailEffect DEF IInv, Control, Early, Verifying
    <2>3. Backup' /\ Accepted' /\ FailedRequestRestores'
      BY <1>0, <1>3, FailEffect
         DEF IInv, Backup, Accepted, FailedRequestRestores, Replied, Early, Verifying, InFlux
    <2> QED BY <2>1, <2>2, <2>3 DEF IInv
  <1> QED BY <1>1, <1>2, <1>3 DEF SyncDirectory

\* The rollback puts the old contents back: the files are the ones the
\* request found, and accepted if those were.
LEMMA RollbackStep ==
  ASSUME IInv, RollbackPath
  PROVE  IInv'
  <1>0. /\ pc = "restore" /\ phase = "commit" /\ InFlux /\ Changing
        /\ Target' = Target /\ Changing' = Changing /\ Applying' = Applying
        /\ UNCHANGED <<durable, dir, loaded, active, job, req, entry, quiet, cmds>>
    BY DEF RollbackPath, IInv, Control, InFlux, Target, Changing, Applying, sshd
  <1>1. CASE /\ file' = [file EXCEPT ![Target] = Restored] /\ phase' = "rollback"
             /\ Goto(IF prev = NoBody THEN "validate" ELSE "sync")
             /\ UNCHANGED <<log, sound>>
    <2>1. Restored \in Node /\ Restored.body = prev
      BY RegularIsNode DEF IInv, TypeOK, Restored, Absent, Node
    <2>2. file' \in [Files -> Node] /\ View' = [View EXCEPT ![Target] = prev]
      BY <1>1, <2>1, TargetInFiles, ViewExcept DEF IInv, TypeOK
    <2>3. pc' \in {"validate", "sync"} /\ prev' = prev /\ reply' = reply /\ ~InFlux'
      BY <1>1 DEF Goto, InFlux
    <2>4. TypeOK'
      BY <1>0, <1>1, <2>2, <2>3 DEF IInv, TypeOK, Steps, Phases
    <2>5. Control'
      BY <1>0, <1>1, <2>3 DEF IInv, Control, Early, Verifying
    <2>6. Backup' /\ Accepted' /\ FailedRequestRestores'
      BY <1>0, <1>1, <2>2, <2>3
         DEF IInv, Backup, Accepted, FailedRequestRestores, Replied, Early, Verifying
    <2> QED BY <2>4, <2>5, <2>6 DEF IInv
  <1>2. CASE /\ Fail /\ log' = "restoreFailed" /\ sound' = FALSE /\ UNCHANGED <<file, phase>>
    <2>1. TypeOK'
      BY <1>0, <1>2, FailEffect DEF IInv, TypeOK
    <2>2. Control'
      BY <1>0, <1>2, FailEffect DEF IInv, Control, Early, Verifying
    <2>3. Backup' /\ Accepted' /\ FailedRequestRestores'
      BY <1>0, <1>2, FailEffect
         DEF IInv, Backup, Accepted, FailedRequestRestores, Replied, Early, Verifying, InFlux
    <2> QED BY <2>1, <2>2, <2>3 DEF IInv
  <1> QED BY <1>1, <1>2 DEF RollbackPath

-----------------------------------------------------------------------------
(* The commands *)

\* Counting a command stays within the cap.
LEMMA CountType == ASSUME cmds \in 0..CmdCap, CountCommand PROVE cmds' \in 0..CmdCap
  BY DEF CountCommand, CmdCap

\* A command that fails: a commit goes to its rollback, anything else ends.
LEMMA CommandErrorStep ==
  ASSUME IInv, pc \in {"validate", "reload", "active"}, CommandError, CountCommand,
         UNCHANGED <<file, durable, dir, loaded, active, phase, req, entry, quiet, sound>>,
         job' \in BOOLEAN
  PROVE  IInv'
  <1>0. View' = View /\ Target' = Target /\ Changing' = Changing /\ Applying' = Applying
    BY DEF View, ViewOf, Target, Changing, Applying
  <1>1. \/ phase = "commit" /\ pc' = "restore" /\ prev' = prev /\ reply' = reply /\ log' = log
        \/ /\ phase \in {"rollback", "verify"} /\ pc' = "idle" /\ prev' = NoBody
           /\ reply' \in Responses /\ log' \in {log, "stillUnhealthy"}
    BY FailEffect DEF CommandError, Goto
  <1>2. TypeOK'
    BY <1>1, CountType DEF IInv, TypeOK, Steps
  <1>3. Control'
    BY <1>0, <1>1 DEF IInv, Control, Early, Verifying
  <1>4. Backup' /\ Accepted' /\ FailedRequestRestores'
    BY <1>0, <1>1
       DEF IInv, Backup, Accepted, FailedRequestRestores, Replied, Early, Verifying, InFlux
  <1> QED BY <1>2, <1>3, <1>4 DEF IInv

\* A command that succeeds and is followed by another.
LEMMA CommandOkStep ==
  ASSUME IInv, pc \in {"validate", "reload"}, pc' \in {"reload", "active"},
         pc' = "reload" => phase # "verify",
         pc = "validate" => View \notin Rejected,
         CountCommand, prev' = prev, reply' = reply, log' = log,
         UNCHANGED <<file, durable, dir, phase, req, entry, quiet, sound>>,
         loaded' \in Views, active' \in BOOLEAN, job' \in BOOLEAN
  PROVE  IInv'
  <1>0. View' = View /\ Target' = Target /\ Changing' = Changing /\ Applying' = Applying
    BY DEF View, ViewOf, Target, Changing, Applying
  <1>1. TypeOK'
    BY CountType DEF IInv, TypeOK, Steps
  <1>2. Control'
    BY <1>0 DEF IInv, Control, Early, Verifying
  <1>3. Backup' /\ Accepted' /\ FailedRequestRestores'
    BY <1>0
       DEF IInv, Backup, Accepted, FailedRequestRestores, Replied, Early, Verifying, InFlux
  <1> QED BY <1>1, <1>2, <1>3 DEF IInv

\* What a reload does to sshd.
LEMMA ReloadedType ==
  ASSUME TypeOK, Reloaded PROVE loaded' \in Views /\ active' \in BOOLEAN
  BY ViewType DEF TypeOK, Reloaded

\* sshd -t, reload and is-active, in whichever call.
LEMMA CommandSteps ==
  ASSUME IInv, ValidateConfig \/ Reload \/ IsActive
  PROVE  IInv'
  <1>1. CASE ValidateConfig
    <2>1. CASE CommandError
      BY <1>1, <2>1, CommandErrorStep DEF ValidateConfig, disk, sshd, IInv, TypeOK
    <2>2. CASE View \notin Rejected /\ Goto(AfterValidate) /\ UNCHANGED log
      BY <1>1, <2>2, CommandOkStep
         DEF ValidateConfig, Goto, AfterValidate, disk, sshd, IInv, TypeOK
    <2> QED BY <1>1, <2>1, <2>2 DEF ValidateConfig
  <1>2. CASE Reload
    <2>1. CASE CommandError /\ UNCHANGED <<loaded, active>> /\ job' \in BOOLEAN
      BY <1>2, <2>1, CommandErrorStep DEF Reload, disk
    <2>2. CASE active /\ Reloaded /\ Goto("active") /\ UNCHANGED <<job, log>>
      BY <1>2, <2>2, ReloadedType, CommandOkStep DEF Reload, Goto, disk, IInv, TypeOK
    <2> QED BY <1>2, <2>1, <2>2 DEF Reload, sshd, IInv, TypeOK
  <1>3. CASE IsActive
    <2>1. CASE CommandError /\ UNCHANGED sound
      BY <1>3, <2>1, CommandErrorStep DEF IsActive, disk, sshd, IInv, TypeOK
    <2>2. CASE /\ active
               /\ \/ phase = "commit" /\ Finish(TRUE, IF Applying THEN "Applied" ELSE "Ok")
                  \/ phase = "rollback" /\ Fail
                  \/ phase = "verify" /\ Finish(TRUE, "Ok")
               /\ sound' = quiet /\ UNCHANGED log
      <3>0. /\ pc = "active" /\ View' = View /\ Target' = Target /\ Changing' = Changing
            /\ Applying' = Applying
            /\ UNCHANGED <<file, durable, dir, loaded, active, job, phase, req, entry, quiet>>
        BY <1>3 DEF IsActive, disk, sshd, View, ViewOf, Target, Changing, Applying
      <3>1. /\ pc' = "idle" /\ prev' = NoBody /\ reply' \in Responses
            /\ phase = "commit" \/ phase = "verify" => reply'.ok
        <4>1. (IF Applying THEN "Applied" ELSE "Ok") \in Outcomes /\ "Ok" \in Outcomes
          BY DEF Outcomes
        <4> QED BY <2>2, <4>1, FinishEffect, FailEffect
      <3>2. TypeOK'
        BY <1>3, <2>2, <3>0, <3>1, CountType DEF IsActive, IInv, TypeOK
      <3>3. Control'
        BY <3>0, <3>1 DEF IInv, Control, Early, Verifying
      <3>4. Backup' /\ Accepted'
        BY <2>2, <3>0, <3>1 DEF IInv, Backup, Accepted, Early, Verifying, InFlux
      <3>5. FailedRequestRestores'
        BY <2>2, <3>0, <3>1 DEF IInv, Control, Backup, FailedRequestRestores, Replied
      <3> QED BY <3>2, <3>3, <3>4, <3>5 DEF IInv
    <2> QED BY <1>3, <2>1, <2>2 DEF IsActive
  <1> QED BY <1>1, <1>2, <1>3

\* verify_state goes on to its next look at a file ...
LooksOn ==
    /\ UNCHANGED <<phase, reply>>
    /\ \/ pc = "verifyCa" /\ pc' = "linkCa" /\ prev' = View["ca"]
       \/ pc = "linkCa" /\ pc' = "modeCa" /\ prev' = prev
       \/ pc = "verifyCa" /\ pc' = "verifyDropin" /\ prev' = NoBody /\ View["ca"] = NoBody
       \/ /\ pc = "modeCa" /\ pc' = "verifyDropin" /\ prev' = NoBody
          /\ NotWritable("ca") /\ prev \in Parseable
       \/ pc = "verifyDropin" /\ pc' = "linkDropin" /\ prev' = View["dropin"]
       \/ pc = "linkDropin" /\ pc' = "modeDropin" /\ prev' = prev

\* ... or is done with both.
LookedAtBoth ==
    /\ phase' = "verify" /\ pc' = "validate" /\ prev' = NoBody /\ reply' = reply
    /\ \/ pc = "verifyDropin" /\ View["dropin"] = NoBody
       \/ pc = "modeDropin" /\ NotWritable("dropin") /\ prev \in Current

\* The steps of verify_state before its commands, and what they leave alone.
LEMMA VerifyEffect ==
  ASSUME VerifyTrustedCa \/ VerifyDropin
  PROVE  /\ pc \in Verifying
         /\ UNCHANGED <<file, durable, dir, loaded, active, job, req, log, entry, quiet, sound, cmds>>
         /\ (Fail /\ UNCHANGED phase) \/ LooksOn \/ LookedAtBoth
  <1>1. CASE VerifyTrustedCa
    <2>1. /\ pc \in Verifying
          /\ UNCHANGED <<file, durable, dir, loaded, active, job, req, log, entry, quiet, sound, cmds>>
          /\ UNCHANGED phase
      BY <1>1 DEF VerifyTrustedCa, ReadTrustedCa, LinkTrustedCa, CheckTrustedCa, Verifying,
                  disk, sshd, hist
    <2>2. Fail \/ LooksOn
      BY <1>1, <2>1
         DEF VerifyTrustedCa, ReadTrustedCa, LinkTrustedCa, CheckTrustedCa, Keep, Goto, LooksOn
    <2> QED BY <2>1, <2>2
  <1>2. CASE VerifyDropin
    <2>1. /\ pc \in Verifying
          /\ UNCHANGED <<file, durable, dir, loaded, active, job, req, log, entry, quiet, sound, cmds>>
      BY <1>2 DEF VerifyDropin, ReadDropin, LinkDropin, CheckDropin, Verifying, disk, sshd, hist
    <2>2. (Fail /\ UNCHANGED phase) \/ LooksOn \/ LookedAtBoth
      BY <1>2 DEF VerifyDropin, ReadDropin, LinkDropin, CheckDropin, Keep, Goto, ToCommands,
                  LooksOn, LookedAtBoth
    <2> QED BY <2>1, <2>2
  <1> QED BY <1>1, <1>2

\* verify_state reads on, or goes on to the commands.
LEMMA VerifyStep ==
  ASSUME IInv, VerifyTrustedCa \/ VerifyDropin
  PROVE  IInv'
  <1>0. /\ pc \in Verifying
        /\ UNCHANGED <<file, durable, dir, loaded, active, job, req, log, entry, quiet, sound, cmds>>
        /\ (Fail /\ UNCHANGED phase) \/ LooksOn \/ LookedAtBoth
    BY VerifyEffect
  <1>1. /\ View' = View /\ Target' = Target /\ Changing' = Changing /\ Applying' = Applying
        /\ View \in Views
    BY <1>0, ViewType DEF View, ViewOf, Target, Changing, Applying, IInv, TypeOK
  <1>2. CASE Fail /\ UNCHANGED phase
    BY <1>0, <1>2, FailEffect, ReadingStep DEF IInv, TypeOK
  <1>3. CASE LooksOn
    <2>1. prev' \in Bodies \cup {NoBody} /\ pc' \in Verifying /\ reply' = reply /\ phase' = phase
      BY <1>1, <1>3 DEF LooksOn, IInv, TypeOK, Views, Files, Verifying
    <2>2. pc' # "write" /\ dir' \in [Files -> DirState]
      BY <1>0, <2>1 DEF Verifying, IInv, TypeOK
    <2> QED BY <1>0, <2>1, <2>2, ReadingStep
  <1>4. CASE LookedAtBoth
    <2>0. phase' = "verify" /\ pc' = "validate" /\ prev' = NoBody /\ reply' = reply
      BY <1>4 DEF LookedAtBoth
    <2>1. TypeOK'
      BY <1>0, <2>0 DEF IInv, TypeOK, Steps, Phases
    <2>2. Control'
      BY <1>0, <1>1, <2>0 DEF IInv, Control, Early, Verifying
    <2>3. Backup' /\ Accepted' /\ FailedRequestRestores'
      BY <1>0, <1>1, <2>0
         DEF IInv, Control, Backup, Accepted, FailedRequestRestores, Replied, Early, Verifying, InFlux
    <2> QED BY <2>1, <2>2, <2>3 DEF IInv
  <1> QED BY <1>0, <1>2, <1>3, <1>4

-----------------------------------------------------------------------------
(* The rest of the host *)

\* Edits, a late reload, sshd starting, crashes, power cuts and restarts.
LEMMA WorldSteps ==
  ASSUME IInv, World
  PROVE  IInv'
  <1>1. CASE OutOfBandEdit
    <2>0. PICK e \in Edits : file' = [file EXCEPT ![e[1]] = e[2]]
      BY <1>1 DEF OutOfBandEdit
    <2>1. file' \in [Files -> Node]
      BY <2>0, WorldAssumption DEF IInv, TypeOK
    <2>2. /\ ~quiet' /\ ~sound' /\ Changing' = Changing /\ Applying' = Applying
          /\ UNCHANGED <<durable, dir, loaded, active, job, pc, phase, req, prev, reply, log, entry, cmds>>
      BY <1>1 DEF OutOfBandEdit, sshd, ctl, Changing, Applying
    <2>3. TypeOK'
      BY <1>1, <2>1, <2>2 DEF OutOfBandEdit, IInv, TypeOK
    <2>4. Control'
      BY <2>2 DEF IInv, Control
    <2>5. Backup' /\ Accepted' /\ FailedRequestRestores'
      BY <2>2 DEF Backup, Accepted, FailedRequestRestores
    <2> QED BY <2>3, <2>4, <2>5 DEF IInv
  <1>2. CASE LateReload \/ SshdStart
    <2>1. UNCHANGED <<file, durable, dir, pc, phase, req, prev, reply, log, entry, quiet, sound, cmds>>
      BY <1>2 DEF LateReload, SshdStart, disk, ctl, hist
    <2>2. loaded' \in Views /\ active' \in BOOLEAN /\ job' \in BOOLEAN
      BY <1>2, ViewType, ReloadedType DEF LateReload, SshdStart, IInv, TypeOK
    <2>3. /\ View' = View /\ Target' = Target /\ Changing' = Changing /\ Applying' = Applying
          /\ InFlux' = InFlux /\ Replied' = Replied
      BY <2>1 DEF View, ViewOf, Target, Changing, Applying, InFlux, Replied
    <2>4. TypeOK'
      BY <2>1, <2>2 DEF IInv, TypeOK
    <2>5. Control' /\ Backup' /\ Accepted' /\ FailedRequestRestores'
      BY <2>1, <2>3 DEF IInv, Control, Backup, Accepted, FailedRequestRestores
    <2> QED BY <2>4, <2>5 DEF IInv
  <1>3. CASE Crash
    <2>1. /\ pc' = "down" /\ prev' = NoBody /\ reply' = NoReply
          /\ sound' = (sound /\ ~InFlux)
          /\ UNCHANGED <<file, durable, dir, loaded, active, phase, req, log, entry, quiet, cmds>>
          /\ View' = View /\ Changing' = Changing /\ Applying' = Applying
      BY <1>3 DEF Crash, disk, View, ViewOf, Changing, Applying
    <2>2. TypeOK'
      <3>1. job' \in BOOLEAN
        BY <1>3 DEF Crash, IInv, TypeOK
      <3>2. sound' \in BOOLEAN
        BY <2>1
      <3> QED BY <2>1, <3>1, <3>2 DEF IInv, TypeOK
    <2>3. Control'
      BY <2>1 DEF IInv, Control, Early, Verifying
    <2>4. Backup' /\ Accepted' /\ FailedRequestRestores'
      BY <2>1 DEF IInv, Backup, Accepted, FailedRequestRestores, Replied, InFlux, Early, Verifying
    <2> QED BY <2>2, <2>3, <2>4 DEF IInv
  <1>4. CASE PowerLoss
    <2>1. /\ pc' = "down" /\ prev' = NoBody /\ reply' = NoReply
          /\ sound' = (sound /\ ~InFlux /\ file' = file)
          /\ UNCHANGED <<dir, phase, req, log, entry, quiet, cmds>>
          /\ Changing' = Changing /\ Applying' = Applying
      BY <1>4 DEF PowerLoss, Changing, Applying
    <2>2. file' \in [Files -> Node] /\ durable' = file'
      BY <1>4 DEF PowerLoss, IInv, TypeOK
    <2>3. ViewOf(file') \in Views
      BY <2>2, NodeBody DEF ViewOf, Views
    <2>4. TypeOK'
      <3>1. job' \in BOOLEAN /\ active' \in BOOLEAN
        BY <1>4 DEF PowerLoss
      <3>2. loaded' \in Views
        BY <1>4, <2>3 DEF PowerLoss, IInv, TypeOK
      <3>3. sound' \in BOOLEAN
        BY <2>1
      <3> QED BY <2>1, <2>2, <3>1, <3>2, <3>3 DEF IInv, TypeOK
    <2>5. Control'
      BY <2>1 DEF IInv, Control, Early, Verifying
    <2>6. sound' => View' = View
      BY <2>1 DEF View, ViewOf
    <2>7. Backup' /\ Accepted' /\ FailedRequestRestores'
      BY <2>1, <2>6 DEF IInv, Backup, Accepted, FailedRequestRestores, Replied, InFlux, Early, Verifying
    <2> QED BY <2>4, <2>5, <2>7 DEF IInv
  <1>5. CASE Restart
    <2>1. /\ pc = "down" /\ pc' = "idle"
          /\ UNCHANGED <<file, durable, dir, loaded, active, job, phase, req, prev, reply, log,
                         entry, quiet, sound, cmds>>
          /\ View' = View /\ Changing' = Changing /\ Applying' = Applying
      BY <1>5 DEF Restart, disk, sshd, hist, View, ViewOf, Changing, Applying
    <2>2. TypeOK'
      BY <2>1 DEF IInv, TypeOK
    <2>3. Control'
      BY <2>1 DEF IInv, Control, Early, Verifying
    <2>4. Backup' /\ Accepted' /\ FailedRequestRestores'
      BY <2>1 DEF IInv, Control, Backup, Accepted, FailedRequestRestores, Replied, InFlux, Early, Verifying
    <2> QED BY <2>2, <2>3, <2>4 DEF IInv
  <1> QED BY <1>1, <1>2, <1>3, <1>4, <1>5 DEF World

-----------------------------------------------------------------------------
(* The second invariant: what a request that ended well has achieved *)

\* Fail never replies Applied, or that all is well.
LEMMA FailReply ==
  ASSUME Fail
  PROVE  pc' = "idle" /\ ~reply'.ok /\ reply'.outcome \in {"RolledBack", "Unhealthy"}
  BY DEF Fail, Finish, FailOutcome

\* What a step of the operation leaves alone.
LEMMA SameRequest ==
  ASSUME UNCHANGED req
  PROVE  Target' = Target /\ Wanted' = Wanted /\ Changing' = Changing /\ Applying' = Applying
  BY DEF Target, Wanted, Changing, Applying

\* A step that leaves the files alone leaves what is read of them alone.
LEMMA SameFiles ==
  ASSUME UNCHANGED file
  PROVE  View' = View /\ \A f, good : Passed(f, good)' = Passed(f, good)
  BY DEF View, ViewOf, Passed

\* No command has run while a request reads; it ends there with an error, with
\* NotModified or with its directories in place.
LEMMA ReadingLive ==
  ASSUME IInv, LInv, pc \in Early \cup Verifying,
         UNCHANGED <<file, durable, loaded, active, phase, req, log, entry, quiet, cmds>>,
         pc' = "idle" =>
            /\ reply'.outcome # "Applied"
            /\ reply'.ok => req.op = "EnsureDirectories" \/ (Changing /\ reply'.outcome = "NotModified"),
         pc' # "idle" => pc' \in Early \/ (pc' \in Verifying /\ Verified')
  PROVE  LInv'
  <1>0. /\ Target' = Target /\ Wanted' = Wanted /\ Changing' = Changing /\ Applying' = Applying
        /\ View' = View
        /\ phase = "early" /\ phase' = "early"
    BY SameRequest, SameFiles DEF IInv, Control, Early, Verifying
  <1>1. Budget'
    BY <1>0 DEF LInv, Budget, RunBefore, Early, Verifying
  <1>2. Progress' /\ Verified'
    BY <1>0 DEF Progress, Verified, InFlux, Early, Verifying
  <1>3. Settled' /\ AppliedIsLive' /\ SilentRollbackResyncs' /\ VerifySound'
    BY <1>0 DEF Settled, EndedWell, AppliedIsLive, SilentRollbackResyncs, VerifySound, Replied,
                Changing, Early, Verifying
  <1> QED BY <1>1, <1>2, <1>3 DEF LInv

\* The steps that only read, and how each may end its request.
LEMMA ReadingStepsLive ==
  ASSUME IInv, LInv,
         \/ EnsureDirectories \/ EnsureIncludePresent \/ CompareDropin \/ EnsureNotSymlink
         \/ CapturePrevious
  PROVE  LInv'
  <1>1. UNCHANGED <<file, durable, loaded, active, phase, req, log, entry, quiet, cmds>>
    BY DEF EnsureDirectories, EnsureIncludePresent, CompareDropin, EnsureNotSymlink,
           CapturePrevious, disk, sshd, hist
  <1>2. pc \in Early
    BY DEF EnsureDirectories, EnsureIncludePresent, CompareDropin, EnsureNotSymlink,
           CapturePrevious, Early
  <1>3. \/ pc' = "idle" /\ ~reply'.ok /\ reply'.outcome # "Applied"
        \/ pc' = "idle" /\ reply'.outcome = "Ok" /\ req.op = "EnsureDirectories"
        \/ pc' = "idle" /\ reply'.outcome = "NotModified" /\ Changing
        \/ pc' \in Early
    <2>1. Fail => pc' = "idle" /\ ~reply'.ok /\ reply'.outcome # "Applied"
      BY FailReply
    <2>2. \A o : Finish(TRUE, o) => pc' = "idle" /\ reply'.outcome = o
      BY DEF Finish
    <2>3. pc \in Early \ {"dirs"} => Changing
      BY DEF IInv, Control
    <2>4. CASE EnsureDirectories
      BY <2>1, <2>2, <2>4 DEF EnsureDirectories, Goto, Early
    <2>5. CASE EnsureIncludePresent \/ EnsureNotSymlink
      BY <2>1, <2>5 DEF EnsureIncludePresent, EnsureNotSymlink, Goto, Early
    <2>6. CASE CompareDropin \/ CapturePrevious
      BY <2>1, <2>2, <2>3, <2>6 DEF CompareDropin, CapturePrevious, Goto, Early
    <2> QED BY <2>4, <2>5, <2>6
  <1> QED BY <1>1, <1>2, <1>3, ReadingLive DEF Early

\* A new request has run no command yet.
LEMMA DispatchLive ==
  ASSUME IInv, NEW r \in Requests, Dispatch(r)
  PROVE  LInv'
  <1>1. /\ req' = r /\ phase' = "early" /\ cmds' = 0
        /\ \/ pc' = "idle" /\ reply'.outcome # "Applied" /\ (reply'.ok => r.op = "Ping")
           \/ pc' \in {"dirs", "verifyCa"}
    BY DEF Dispatch, Finish
  <1>2. Budget'
    BY <1>1 DEF Budget, RunBefore
  <1>3. Progress' /\ Verified'
    BY <1>1 DEF Progress, Verified, InFlux
  <1>4. Settled' /\ AppliedIsLive' /\ SilentRollbackResyncs' /\ VerifySound'
    BY <1>1 DEF Settled, EndedWell, AppliedIsLive, SilentRollbackResyncs, VerifySound, Replied, Changing
  <1> QED BY <1>2, <1>3, <1>4 DEF LInv

\* A step that leaves the request under way: the properties of its end hold of
\* it whatever they say.
LEMMA UnderWay ==
  ASSUME pc' # "idle"
  PROVE  Settled' /\ AppliedIsLive' /\ SilentRollbackResyncs' /\ VerifySound'
  BY DEF Settled, EndedWell, AppliedIsLive, SilentRollbackResyncs, VerifySound, Replied

\* A request that ends with an error, its rollback with one that is logged.
LEMMA EndsBadly ==
  ASSUME pc' = "idle", ~reply'.ok, reply'.outcome # "Applied",
         phase' = "rollback" => log' # "none", cmds' <= 6
  PROVE  LInv'
  <1>1. Budget' /\ Progress' /\ Verified'
    BY DEF Budget, Progress, Verified, InFlux
  <1>2. Settled' /\ AppliedIsLive' /\ SilentRollbackResyncs' /\ VerifySound'
    BY DEF Settled, EndedWell, AppliedIsLive, SilentRollbackResyncs, VerifySound, Replied
  <1> QED BY <1>1, <1>2 DEF LInv

\* The write puts the wanted contents in place ...
LEMMA WriteLive ==
  ASSUME IInv, LInv, Write
  PROVE  LInv'
  <1>0. /\ pc = "write" /\ phase = "early" /\ UNCHANGED <<durable, loaded, active, req, log, entry, quiet, cmds>>
        /\ Target' = Target /\ Wanted' = Wanted
    BY SameRequest DEF Write, IInv, Control, Early, sshd, hist
  <1>1. CASE Fail /\ UNCHANGED <<file, phase>>
    BY <1>0, <1>1, FailReply, EndsBadly DEF LInv, Budget
  <1>2. CASE /\ file' = [file EXCEPT ![Target] = Regular(Wanted)]
             /\ phase' = "commit" /\ Goto("sync")
    <2>1. pc' = "sync" /\ InFlux'
      BY <1>2 DEF Goto, InFlux
    <2>2. (file[Target] = Regular(Wanted))'
      BY <1>0, <1>2, TargetInFiles DEF IInv, TypeOK, Regular
    <2>3. Budget'
      BY <1>0, <1>2, <2>1 DEF LInv, Budget, RunBefore
    <2>4. Progress' /\ Verified'
      BY <1>2, <2>1, <2>2 DEF Progress, Verified
    <2> QED BY <2>1, <2>3, <2>4, UnderWay DEF LInv
  <1> QED BY <1>1, <1>2 DEF Write

\* ... and the fsync of its directory on stable storage.
LEMMA SyncLive ==
  ASSUME IInv, LInv, SyncDirectory
  PROVE  LInv'
  <1>0. /\ pc = "sync" /\ phase \in {"commit", "rollback"}
        /\ UNCHANGED <<file, loaded, active, req, entry, quiet, cmds>>
        /\ Target' = Target /\ Wanted' = Wanted
    BY SameRequest DEF SyncDirectory, IInv, Control, sshd
  <1>1. CASE /\ durable' = [durable EXCEPT ![Target] = file[Target]]
             /\ Goto(AfterWrite) /\ UNCHANGED <<phase, log, sound>>
    <2>1. pc' = "validate"
      BY <1>1 DEF Goto, AfterWrite
    <2>2. durable'[Target'] = file'[Target']
      BY <1>0, <1>1, TargetInFiles DEF IInv, TypeOK
    <2>3. Budget'
      BY <1>0, <1>1, <2>1 DEF LInv, Budget, RunBefore
    <2>4. Progress' /\ Verified'
      BY <1>0, <1>1, <2>1, <2>2 DEF LInv, Progress, Verified, InFlux
    <2> QED BY <2>1, <2>3, <2>4, UnderWay DEF LInv
  <1>2. CASE Fail /\ (phase' = "unsynced" \/ log' = "restoreFailed")
    BY <1>0, <1>2, FailReply, EndsBadly DEF LInv, Budget
  <1> QED BY <1>1, <1>2 DEF SyncDirectory

\* The restore starts the rollback's own three commands, or ends with an error
\* that is logged.
LEMMA RollbackLive ==
  ASSUME IInv, LInv, RollbackPath
  PROVE  LInv'
  <1>0. pc = "restore" /\ phase = "commit" /\ UNCHANGED cmds
    BY DEF RollbackPath, IInv, Control
  <1>1. CASE phase' = "rollback" /\ Goto(IF prev = NoBody THEN "validate" ELSE "sync")
    <2>1. pc' \in {"validate", "sync"} /\ ~InFlux'
      BY <1>1 DEF Goto, InFlux
    <2>2. Budget'
      BY <1>0, <1>1, <2>1 DEF LInv, Budget, RunBefore
    <2>3. Progress' /\ Verified'
      BY <1>1, <2>1 DEF Progress, Verified
    <2> QED BY <2>1, <2>2, <2>3, UnderWay DEF LInv
  <1>2. CASE Fail /\ log' = "restoreFailed"
    BY <1>0, <1>2, FailReply, EndsBadly DEF LInv, Budget
  <1> QED BY <1>1, <1>2 DEF RollbackPath

-----------------------------------------------------------------------------
(* The commands, again *)

\* Each command counts for one.
LEMMA CountOne ==
  ASSUME IInv, LInv, CountCommand
  PROVE  cmds \in Nat /\ cmds' = cmds + 1
  BY DEF IInv, TypeOK, LInv, Budget, CountCommand, CmdCap

\* A command that fails: in a rollback the error is logged.
LEMMA CommandErrorLive ==
  ASSUME IInv, LInv, pc \in {"validate", "reload", "active"}, CommandError, CountCommand,
         UNCHANGED <<file, durable, phase, req, quiet>>
  PROVE  LInv'
  <1>0. cmds \in Nat /\ cmds' = cmds + 1
    BY CountOne
  <1>1. CASE phase = "commit" /\ Goto("restore") /\ UNCHANGED log
    <2>1. pc' = "restore" /\ Target' = Target /\ Wanted' = Wanted
      BY <1>1, SameRequest DEF Goto
    <2>2. Budget'
      BY <1>0, <1>1, <2>1 DEF LInv, Budget, RunBefore
    <2>3. Progress' /\ Verified'
      BY <1>1, <2>1 DEF LInv, Progress, Verified, InFlux
    <2> QED BY <2>1, <2>2, <2>3, UnderWay DEF LInv
  <1>2. CASE Fail /\ phase = "rollback" /\ log' = "stillUnhealthy"
    <2>1. cmds' <= 6
      BY <1>0, <1>2 DEF LInv, Budget, RunBefore
    <2> QED BY <1>2, <2>1, FailReply, EndsBadly
  <1>3. CASE Fail /\ phase = "verify"
    <2>1. cmds' <= 6
      BY <1>0, <1>3 DEF LInv, Budget, RunBefore, IInv, Control
    <2> QED BY <1>3, <2>1, FailReply, EndsBadly
  <1> QED BY <1>1, <1>2, <1>3 DEF CommandError

\* A reload of files sshd accepts loads them and keeps sshd running.
LEMMA GoodReload ==
  ASSUME Reloaded, View \notin Rejected
  PROVE  loaded' = View /\ active' = active
  BY DEF Reloaded

\* sshd -t and the reload: the files are what they were, and are loaded.
LEMMA CommandOkLive ==
  ASSUME IInv, LInv, CountCommand,
         UNCHANGED <<file, durable, phase, req, quiet>>,
         \/ pc = "validate" /\ pc' = AfterValidate /\ UNCHANGED loaded
         \/ pc = "reload" /\ pc' = "active" /\ Reloaded
  PROVE  LInv'
  <1>0. /\ cmds \in Nat /\ cmds' = cmds + 1
        /\ Target' = Target /\ Wanted' = Wanted /\ View' = View
        /\ \A f, good : Passed(f, good)' = Passed(f, good)
    BY CountOne, SameRequest, SameFiles
  <1>1. /\ pc' \in {"reload", "active"}
        /\ phase \in {"commit", "rollback", "verify"}
        /\ pc = "reload" => phase # "verify"
    BY DEF AfterValidate, IInv, Control
  <1>2. Budget'
    BY <1>0, <1>1 DEF LInv, Budget, RunBefore, AfterValidate
  <1>3. quiet /\ pc = "reload" => loaded' = View
    BY GoodReload DEF IInv, Accepted
  <1>4. Progress' /\ Verified'
    BY <1>0, <1>1, <1>3 DEF LInv, Progress, Verified, InFlux, AfterValidate
  <1> QED BY <1>1, <1>2, <1>4, UnderWay DEF LInv

\* A file that verify_state has passed is what VerifySound says of it.
LEMMA PassedIsSound ==
  ASSUME TypeOK, NEW f \in Files, NEW good, Passed(f, good)
  PROVE  /\ View[f] \in good \cup {NoBody}
         /\ View[f] # NoBody => file[f].kind = "file" /\ file[f].perm # "writable"
  <1>1. View[f] = file[f].body /\ file[f] \in Node
    BY DEF View, ViewOf, TypeOK
  <1> QED BY <1>1 DEF Passed

\* is-active is the last command of every call: what it finds running has been
\* written, synced and loaded.
LEMMA IsActiveLive ==
  ASSUME IInv, LInv, pc = "active", CountCommand, active,
         UNCHANGED <<file, durable, loaded, active, phase, req, log, entry, quiet>>,
         \/ phase = "commit" /\ Finish(TRUE, IF Applying THEN "Applied" ELSE "Ok")
         \/ phase = "rollback" /\ Fail
         \/ phase = "verify" /\ Finish(TRUE, "Ok")
  PROVE  LInv'
  <1>0. /\ Target' = Target /\ Wanted' = Wanted /\ Changing' = Changing /\ Applying' = Applying
        /\ View' = View
    BY SameRequest, SameFiles
  <1>1. /\ pc' = "idle"
        /\ phase = "commit" => reply'.outcome = IF Applying THEN "Applied" ELSE "Ok"
        /\ phase # "commit" => reply'.outcome # "Applied"
        /\ phase = "rollback" => ~reply'.ok
        /\ phase \in {"commit", "verify"} => reply'.ok
    BY FailReply DEF Finish
  <1>2. /\ phase \in {"commit", "rollback"} => Changing
        /\ phase = "verify" => req.op = "VerifyState"
        /\ quiet => View \notin Rejected
        /\ quiet /\ phase = "rollback" => View = entry
    BY DEF IInv, Control, Accepted, Backup
  <1>3. Budget' /\ Progress' /\ Verified'
    <2>1. cmds' <= 6
      BY CountOne DEF LInv, Budget, RunBefore
    <2> QED BY <1>1, <2>1 DEF Budget, Progress, Verified, InFlux
  <1>4. Settled'
    BY <1>0, <1>1, <1>2 DEF Settled, EndedWell, Replied
  <1>5. AppliedIsLive'
    <2>1. quiet /\ phase # "verify" => loaded = View
      BY DEF LInv, Progress
    <2>2. quiet /\ phase = "commit" => file[Target] = Regular(Wanted) /\ durable[Target] = file[Target]
      BY DEF LInv, Progress, InFlux
    <2>3. phase # "commit" => ~(Replied /\ reply.ok /\ Changing)'
      BY <1>0, <1>1, <1>2 DEF Changing, IInv, Control
    <2> QED BY <1>0, <2>1, <2>2, <2>3 DEF AppliedIsLive
  <1>6. SilentRollbackResyncs'
    BY <1>0, <1>2 DEF LInv, Progress, SilentRollbackResyncs
  <1>7. VerifySound'
    <2>1. quiet /\ phase = "verify" => Passed("ca", Parseable) /\ Passed("dropin", Current)
      BY DEF LInv, Verified
    <2>2. quiet /\ phase = "verify" =>
             /\ \A f \in Files : View[f] # NoBody => file[f].kind = "file" /\ file[f].perm # "writable"
             /\ View["ca"] \in Parseable \cup {NoBody}
             /\ View["dropin"] \in Current \cup {NoBody}
      BY <2>1, PassedIsSound DEF IInv, Files
    <2>3. phase # "verify" => ~(reply.ok /\ req.op = "VerifyState")'
      BY <1>1, <1>2 DEF Changing, IInv, Control
    <2> QED BY <1>0, <1>2, <2>2, <2>3 DEF VerifySound
  <1> QED BY <1>3, <1>4, <1>5, <1>6, <1>7 DEF LInv

\* sshd -t, reload and is-active, in whichever call.
LEMMA CommandStepsLive ==
  ASSUME IInv, LInv, ValidateConfig \/ Reload \/ IsActive
  PROVE  LInv'
  <1>0. /\ CountCommand /\ pc \in {"validate", "reload", "active"}
        /\ UNCHANGED <<file, durable, phase, req, entry, quiet>>
    BY DEF ValidateConfig, Reload, IsActive, disk
  <1>1. CASE CommandError
    BY <1>0, <1>1, CommandErrorLive
  <1>2. CASE ValidateConfig /\ ~CommandError
    BY <1>0, <1>2, CommandOkLive DEF ValidateConfig, Goto, sshd
  <1>3. CASE Reload /\ ~CommandError
    BY <1>0, <1>3, CommandOkLive DEF Reload, Goto
  <1>4. CASE IsActive /\ ~CommandError
    <2>1. pc = "active" /\ active /\ UNCHANGED <<loaded, active, log>>
      BY <1>4, Zenon DEF IsActive, sshd
    <2>2. \/ phase = "commit" /\ Finish(TRUE, IF Applying THEN "Applied" ELSE "Ok")
          \/ phase = "rollback" /\ Fail
          \/ phase = "verify" /\ Finish(TRUE, "Ok")
      BY <1>4, Zenon DEF IsActive
    <2> QED BY <1>0, <2>1, <2>2, IsActiveLive, Zenon
  <1> QED BY <1>1, <1>2, <1>3, <1>4

\* verify_state goes on only from a file that passed, and both have when it
\* comes to its commands.
LEMMA VerifyLive ==
  ASSUME IInv, LInv, VerifyTrustedCa \/ VerifyDropin
  PROVE  LInv'
  <1>0. /\ pc \in Verifying
        /\ UNCHANGED <<file, durable, loaded, active, req, log, entry, quiet, cmds>>
        /\ (Fail /\ UNCHANGED phase) \/ LooksOn \/ LookedAtBoth
    BY VerifyEffect
  <1>1. View' = View /\ \A f, good : Passed(f, good)' = Passed(f, good)
    BY <1>0, SameFiles
  <1>2. phase = "early"
    BY <1>0 DEF IInv, Control
  <1>3. CASE Fail /\ UNCHANGED phase
    BY <1>0, <1>2, <1>3, FailReply, EndsBadly DEF LInv, Budget
  <1>4. CASE LooksOn
    <2>1. pc' \in Verifying /\ phase' = phase
      BY <1>4 DEF LooksOn, Verifying
    <2>2. quiet /\ pc' \in {"linkCa", "modeCa"} => prev' = View["ca"]
      BY <1>4 DEF LooksOn, LInv, Verified
    <2>3. quiet /\ pc' \in {"linkDropin", "modeDropin"} => prev' = View["dropin"]
      BY <1>4 DEF LooksOn, LInv, Verified
    <2>4. quiet /\ pc' \in {"verifyDropin", "linkDropin", "modeDropin"} => Passed("ca", Parseable)
      BY <1>4 DEF LooksOn, LInv, Verified, Passed, NotWritable
    <2>5. Verified'
      BY <1>0, <1>1, <1>2, <2>1, <2>2, <2>3, <2>4 DEF Verified, Verifying
    <2> QED BY <1>0, <2>1, <2>5, ReadingLive DEF Verifying
  <1>5. CASE LookedAtBoth
    <2>1. pc' = "validate" /\ phase' = "verify" /\ pc \in {"verifyDropin", "modeDropin"}
      BY <1>5 DEF LookedAtBoth
    <2>2. quiet => Passed("ca", Parseable) /\ Passed("dropin", Current)
      BY <1>5 DEF LookedAtBoth, LInv, Verified, Passed, NotWritable
    <2>3. Budget'
      BY <1>0, <1>2, <2>1 DEF LInv, Budget, RunBefore
    <2>4. Progress' /\ Verified'
      BY <1>0, <1>1, <2>1, <2>2 DEF Progress, Verified, InFlux
    <2> QED BY <2>1, <2>3, <2>4, UnderWay DEF LInv
  <1> QED BY <1>0, <1>3, <1>4, <1>5

-----------------------------------------------------------------------------
(* The rest of the host, again *)

\* A reload that comes late, or sshd started again, while the files are ones
\* sshd accepts: it runs afterwards if it ran before, with those files.
LEMMA LateReloadLive ==
  ASSUME IInv, LInv, LateReload \/ SshdStart
  PROVE  LInv'
  <1>1. UNCHANGED <<file, durable, pc, phase, req, prev, reply, log, entry, quiet, cmds>>
    BY DEF LateReload, SshdStart, disk, ctl, hist
  <1>2. /\ Target' = Target /\ Wanted' = Wanted /\ Changing' = Changing /\ Applying' = Applying
        /\ View' = View /\ \A f, good : Passed(f, good)' = Passed(f, good)
    BY <1>1, SameRequest, SameFiles
  <1>3. View \notin Rejected => loaded' \in {loaded, View}
    BY GoodReload DEF LateReload, SshdStart
  <1>4. View \notin Rejected /\ active => active'
    BY GoodReload, Zenon DEF LateReload, SshdStart
  <1>5. Budget'
    BY <1>1 DEF LInv, Budget, RunBefore
  <1>6. Progress'
    <2>1. quiet /\ pc = "active" => View \notin Rejected
      BY DEF IInv, Accepted
    <2> QED BY <1>1, <1>2, <1>3, <2>1 DEF LInv, Progress, InFlux
  <1>7. Verified' /\ Settled'
    BY <1>1, <1>2 DEF LInv, Verified, Settled, EndedWell, Replied
  <1>8. EndedWell /\ quiet => View \notin Rejected
    BY DEF LInv, Settled
  <1>9. AppliedIsLive'
    BY <1>1, <1>2, <1>3, <1>4, <1>8 DEF LInv, AppliedIsLive, EndedWell, Replied
  <1>10. SilentRollbackResyncs'
    BY <1>1, <1>2, <1>3, <1>4, <1>8 DEF LInv, SilentRollbackResyncs, EndedWell, Replied
  <1>11. VerifySound'
    BY <1>1, <1>2, <1>4, <1>8 DEF LInv, VerifySound, EndedWell, Replied
  <1> QED BY <1>5, <1>6, <1>7, <1>9, <1>10, <1>11 DEF LInv

\* An edit ends what can be promised; a crash or a power cut leaves no reply.
LEMMA WorldLive ==
  ASSUME IInv, LInv, World
  PROVE  LInv'
  <1>1. CASE OutOfBandEdit
    <2>1. ~quiet' /\ UNCHANGED <<pc, phase, req, reply, cmds>>
      BY <1>1 DEF OutOfBandEdit, ctl
    <2>2. Budget' /\ Progress' /\ Verified'
      BY <2>1 DEF LInv, Budget, RunBefore, Progress, Verified
    <2>3. Settled'
      BY <2>1 DEF LInv, Settled, Replied, Applying
    <2>4. AppliedIsLive' /\ SilentRollbackResyncs' /\ VerifySound'
      BY <2>1 DEF AppliedIsLive, SilentRollbackResyncs, VerifySound
    <2> QED BY <2>2, <2>3, <2>4 DEF LInv
  <1>2. CASE LateReload \/ SshdStart
    BY <1>2, LateReloadLive
  <1>3. CASE Crash \/ PowerLoss \/ Restart
    <2>1. pc' \in {"down", "idle"} /\ reply' = NoReply /\ UNCHANGED cmds
      BY <1>3 DEF Crash, PowerLoss, Restart, hist, IInv, Control
    <2>2. Budget' /\ Progress' /\ Verified'
      BY <2>1 DEF LInv, Budget, Progress, Verified, InFlux
    <2>3. Settled' /\ AppliedIsLive' /\ SilentRollbackResyncs' /\ VerifySound'
      BY <2>1 DEF Settled, EndedWell, AppliedIsLive, SilentRollbackResyncs, VerifySound, Replied
    <2> QED BY <2>2, <2>3 DEF LInv
  <1> QED BY <1>1, <1>2, <1>3 DEF World

\* Nothing has been asked of a helper that has just been installed.
LEMMA InitLive == ASSUME Init PROVE LInv
  <1>1. pc = "idle" /\ reply = NoReply /\ cmds = 0
    BY DEF Init
  <1>2. Budget /\ Progress /\ Verified
    BY <1>1 DEF Budget, Progress, Verified, InFlux
  <1>3. Settled /\ AppliedIsLive /\ SilentRollbackResyncs /\ VerifySound
    BY <1>1 DEF Settled, EndedWell, AppliedIsLive, SilentRollbackResyncs, VerifySound, Replied
  <1> QED BY <1>2, <1>3 DEF LInv

\* Every step keeps the second invariant, given the first.
LEMMA NextLive == ASSUME IInv, LInv, [Next]_vars PROVE LInv'
  <1>1. CASE \E r \in Requests : Dispatch(r)
    BY <1>1, DispatchLive
  <1>2. CASE HelperStep
    BY <1>2, ReadingStepsLive, WriteLive, SyncLive, CommandStepsLive, RollbackLive, VerifyLive
       DEF HelperStep
  <1>3. CASE World
    BY <1>3, WorldLive
  <1>4. CASE UNCHANGED vars
    <2>1. UNCHANGED <<file, durable, dir, loaded, active, job, pc, phase, req, prev, reply, log,
                      entry, quiet, sound, cmds>>
      BY <1>4 DEF vars, disk, sshd, ctl, hist
    <2>2. /\ Target' = Target /\ Wanted' = Wanted /\ Changing' = Changing /\ Applying' = Applying
          /\ View' = View /\ \A f, good : Passed(f, good)' = Passed(f, good)
      BY <2>1, SameRequest, SameFiles
    <2>3. Budget' /\ Progress' /\ Verified' /\ Settled'
      BY <2>1, <2>2 DEF LInv, Budget, RunBefore, Progress, InFlux, Verified, Settled, EndedWell, Replied
    <2>4. AppliedIsLive' /\ SilentRollbackResyncs' /\ VerifySound'
      BY <2>1, <2>2 DEF LInv, AppliedIsLive, SilentRollbackResyncs, VerifySound, Replied
    <2> QED BY <2>3, <2>4 DEF LInv
  <1> QED BY <1>1, <1>2, <1>3, <1>4 DEF Next

-----------------------------------------------------------------------------
(* The theorems *)

\* The invariant holds of a helper that has just been installed.
LEMMA InitInv == ASSUME Init PROVE IInv
  <1>1. file \in [Files -> Node] /\ durable = file /\ dir \in [Files -> DirState]
    BY WorldAssumption DEF Init
  <1>2. View \in Views
    BY <1>1, ViewType
  <1>3. sound \in BOOLEAN
    BY DEF Init
  <1>4. TypeOK
    <2>1. /\ loaded = View /\ entry = View /\ active = TRUE /\ job = FALSE /\ pc = "idle"
          /\ phase = "early" /\ req = NoRequest /\ prev = NoBody /\ reply = NoReply
          /\ log = "none" /\ quiet = TRUE /\ cmds = 0
      BY DEF Init
    <2>2. cmds \in 0..CmdCap /\ phase \in Phases
      BY <2>1 DEF CmdCap, Phases
    <2>3. active \in BOOLEAN /\ job \in BOOLEAN /\ quiet \in BOOLEAN
      BY <2>1
    <2> QED BY <1>1, <1>2, <1>3, <2>1, <2>2, <2>3 DEF TypeOK
  <1>5. Control
    BY DEF Init, Control, Early, Verifying
  <1>6. Backup /\ Accepted /\ FailedRequestRestores
    BY DEF Init, Backup, Accepted, FailedRequestRestores, Replied, InFlux, Early, Verifying
  <1> QED BY <1>4, <1>5, <1>6 DEF IInv

\* Every step keeps it.
LEMMA NextInv == ASSUME IInv, [Next]_vars PROVE IInv'
  <1>1. CASE \E r \in Requests : Dispatch(r)
    BY <1>1, DispatchStep
  <1>2. CASE HelperStep
    BY <1>2, ReadingSteps, WriteStep, SyncStep, CommandSteps, RollbackStep, VerifyStep
       DEF HelperStep
  <1>3. CASE World
    BY <1>3, WorldSteps
  <1>4. CASE UNCHANGED vars
    <2>1. UNCHANGED <<file, durable, dir, loaded, active, job, pc, phase, req, prev, reply, log,
                      entry, quiet, sound, cmds>>
      BY <1>4 DEF vars, disk, sshd, ctl, hist
    <2>2. View' = View /\ Target' = Target /\ InFlux' = InFlux /\ Replied' = Replied
      BY <2>1 DEF View, ViewOf, Target, InFlux, Replied
    <2>3. TypeOK'
      BY <2>1 DEF IInv, TypeOK
    <2>4. Control'
      BY <2>1 DEF IInv, Control, Changing, Applying
    <2>5. Backup' /\ Accepted' /\ FailedRequestRestores'
      BY <2>1, <2>2 DEF IInv, Backup, Accepted, FailedRequestRestores
    <2> QED BY <2>3, <2>4, <2>5 DEF IInv
  <1> QED BY <1>1, <1>2, <1>3, <1>4 DEF Next

\* The variables of HelperOps keep their types in every behaviour.
THEOREM TypeCorrect == Spec => []TypeOK
  <1>1. IInv => TypeOK
    BY DEF IInv
  <1> QED BY <1>1, InitInv, NextInv, PTL DEF Spec

\* Whatever sshd rejects, and whatever commands, writes and crashes do, the
\* helper leaves no rejected file behind as long as the files were sound.
THEOREM RejectedIsRolledBack == Spec => []NoRejectedLeftBehind
  <1>1. IInv => NoRejectedLeftBehind
    BY DEF IInv, Accepted, NoRejectedLeftBehind, InFlux
  <1> QED BY <1>1, InitInv, NextInv, PTL DEF Spec

\* A failed request leaves the contents it found, for every request, every
\* contents and every point of failure but the two the property names.
THEOREM FailureRestores == Spec => []FailedRequestRestores
  <1>1. IInv => FailedRequestRestores
    BY DEF IInv
  <1> QED BY <1>1, InitInv, NextInv, PTL DEF Spec

\* Both invariants hold in every reachable state.
LEMMA LiveInv == Spec => [](IInv /\ LInv)
  <1>1. Init => IInv /\ LInv
    BY InitInv, InitLive
  <1>2. IInv /\ LInv /\ [Next]_vars => (IInv /\ LInv)'
    BY NextInv, NextLive
  <1> QED BY <1>1, <1>2, PTL DEF Spec

\* A request that ends Applied, or Ok for the drop-in, left the wanted file in
\* place and on stable storage, loaded by an sshd that runs.
THEOREM AppliedReachesSshd == Spec => []AppliedIsLive
  <1>1. IInv /\ LInv => AppliedIsLive
    BY DEF LInv
  <1> QED BY <1>1, LiveInv, PTL

\* A rollback without an error in the log brought the files and sshd back.
THEOREM RollbackResyncs == Spec => []SilentRollbackResyncs
  <1>1. IInv /\ LInv => SilentRollbackResyncs
    BY DEF LInv
  <1> QED BY <1>1, LiveInv, PTL

\* VerifyState's Ok means what it says, whatever was on the disk before.
THEOREM VerifyIsSound == Spec => []VerifySound
  <1>1. IInv /\ LInv => VerifySound
    BY DEF LInv
  <1> QED BY <1>1, LiveInv, PTL

\* Six commands at most for any request, its rollback included.
THEOREM CommandsBounded == Spec => []CommandBudget
  <1>1. IInv /\ LInv => CommandBudget
    BY DEF LInv, Budget, CommandBudget
  <1> QED BY <1>1, LiveInv, PTL

\* Whatever files there are and whatever sshd rejects, no step of the helper
\* stops a running sshd that nothing else interferes with.
THEOREM ReloadKeepsSshd == Spec => ReloadNeverKillsSshd
  <1>1. IInv /\ [Next]_vars => [active /\ ~active' /\ quiet /\ ~job => pc' = "down"]_vars
    <2> SUFFICES ASSUME IInv, Next, active, ~active', quiet, ~job
                 PROVE  pc' = "down"
      OBVIOUS
    <2>1. CASE \E r \in Requests : Dispatch(r)
      BY <2>1, Zenon DEF Dispatch, sshd
    <2>2. CASE HelperStep
      <3>1. CASE Reload
        <4>1. View \notin Rejected
          BY <3>1 DEF Reload, IInv, Accepted
        <4> QED BY <3>1, <4>1, GoodReload, Zenon DEF Reload, sshd
      <3>2. HelperStep /\ ~Reload => UNCHANGED sshd
        BY DEF HelperStep, EnsureDirectories, EnsureIncludePresent, CompareDropin, EnsureNotSymlink,
               CapturePrevious, Write, SyncDirectory, ValidateConfig, IsActive, RollbackPath,
               VerifyTrustedCa, VerifyDropin
      <3> QED BY <2>2, <3>1, <3>2, Zenon DEF sshd
    <2>3. CASE World
      BY <2>3, Zenon DEF World, OutOfBandEdit, LateReload, SshdStart, Crash, PowerLoss, Restart, sshd
    <2> QED BY <2>1, <2>2, <2>3 DEF Next
  <1> QED BY <1>1, InitInv, NextInv, PTL DEF Spec, ReloadNeverKillsSshd

-----------------------------------------------------------------------------
(* The system *)

\* accept takes the head of the queue and leaves its tail.
LEMMA TakesTheHead ==
  ASSUME NEW q \in Seq(Nat), q # <<>>
  PROVE  /\ 1 \in 1..Len(q) /\ RemoveAt(q, OldestAt) \in Seq(Nat)
         /\ Len(RemoveAt(q, OldestAt)) = Len(q) - 1
         /\ \A i \in 1..(Len(q) - 1) : RemoveAt(q, OldestAt)[i] = q[i + 1]
  <1>1. SubSeq(q, 1, 0) = <<>> /\ SubSeq(q, 2, Len(q)) \in Seq(Nat)
    OBVIOUS
  <1>2. RemoveAt(q, OldestAt) = SubSeq(q, 2, Len(q))
    BY <1>1 DEF RemoveAt, OldestAt
  <1>3. Len(q) \in Nat \ {0}
    OBVIOUS
  <1>4. Len(SubSeq(q, 2, Len(q))) = Len(q) - 1
    <2>1. ASSUME NEW n \in Nat, n = Len(q) PROVE Len(SubSeq(q, 2, n)) = n - 1
      <3>1. \A i \in 2..n : q[i] \in Nat
        BY <2>1
      <3>2. Len(SubSeq(q, 2, n)) = IF 2 <= n THEN n - 2 + 1 ELSE 0
        BY <3>1, SubSeqProperties
      <3> QED BY <1>3, <2>1, <3>2
    <2> QED BY <1>3, <2>1
  <1>5. \A i \in 1..(Len(q) - 1) : SubSeq(q, 2, Len(q))[i] = q[i + 1]
    OBVIOUS
  <1> QED BY <1>1, <1>2, <1>3, <1>4, <1>5

\* A step of the operation belongs to a request that is being served.
LEMMA HelperStepServes ==
  ASSUME HelperStep
  PROVE  /\ pc \notin {"idle", "down"} /\ pc' # "down"
         /\ UNCHANGED <<req, quiet>>
  <1>1. /\ Fail => pc' = "idle"
        /\ \A ok, o : Finish(ok, o) => pc' = "idle"
        /\ \A step : Goto(step) => pc' = step
    BY DEF Fail, Finish, Goto
  <1>2. CASE \/ EnsureDirectories \/ EnsureIncludePresent \/ CompareDropin \/ EnsureNotSymlink
             \/ CapturePrevious
    BY <1>1, <1>2 DEF EnsureDirectories, EnsureIncludePresent, CompareDropin, EnsureNotSymlink,
                      CapturePrevious, hist
  <1>3. CASE Write \/ SyncDirectory \/ RollbackPath
    BY <1>1, <1>3 DEF Write, SyncDirectory, RollbackPath, AfterWrite, hist
  <1>4. CASE ValidateConfig \/ Reload \/ IsActive
    <2>1. CommandError => pc' \in {"restore", "idle"}
      BY <1>1 DEF CommandError
    <2> QED BY <1>1, <1>4, <2>1 DEF ValidateConfig, Reload, IsActive, AfterValidate
  <1>5. CASE VerifyTrustedCa \/ VerifyDropin
    BY <1>1, <1>5, VerifyEffect DEF LooksOn, LookedAtBoth, Verifying
  <1> QED BY <1>2, <1>3, <1>4, <1>5 DEF HelperStep

\* Every step of the system is a step of HelperOps, or leaves it alone.
LEMMA SystemStepIsStep ==
  ASSUME Queue, SystemNext
  PROVE  [Next]_vars
  <1>1. CASE Take
    <2>1. inbox[OldestAt] \in 1..Len(sent)
      BY <1>1, TakesTheHead DEF Take, Queue, OldestAt
    <2>2. sent[serving'] \in Requests
      BY <1>1, <2>1 DEF Take, Queue
    <2> QED BY <1>1, <2>2 DEF Take, Next
  <1>2. CASE \E r \in Requests : Send(r)
    BY <1>2 DEF Send
  <1>3. CASE Respond
    BY <1>3 DEF Respond
  <1>4. CASE Operate \/ Host \/ Restarted \/ Outage
    BY <1>4 DEF Operate, Host, Restarted, Outage, Next, World
  <1> QED BY <1>1, <1>2, <1>3, <1>4 DEF SystemNext, ServerLoop

\* A request that is sent goes to the end of the queue.
LEMMA SendInv ==
  ASSUME Queue, Serving, NEW r \in Requests, Send(r)
  PROVE  Queue' /\ Serving' /\ Kept'
  <1>1. /\ sent' = Append(sent, r) /\ inbox' = Append(inbox, Len(sent'))
        /\ UNCHANGED <<serving, answer, pc, req, quiet>>
    BY DEF Send, vars, ctl, hist
  <1>2. /\ sent' \in Seq(Requests) /\ Len(sent') = Len(sent) + 1
        /\ \A i \in 1..Len(sent) : sent'[i] = sent[i]
    BY <1>1 DEF Queue
  <1>3. /\ inbox' \in Seq(Nat) /\ Len(inbox') = Len(inbox) + 1
        /\ inbox'[Len(inbox) + 1] = Len(sent) + 1
        /\ \A i \in 1..Len(inbox) : inbox'[i] = inbox[i]
    BY <1>1, <1>2 DEF Queue
  <1>4. Queue'
    <2>1. /\ serving' \in 0..Len(sent')
          /\ answer' \in [to : 0..Len(sent'), reply : Responses \cup {NoReply}]
          /\ serving' # 0 => answer'.to < serving'
      BY <1>1, <1>2 DEF Queue
    <2>2. /\ serving < Len(sent) + 1 /\ answer.to < Len(sent) + 1
          /\ \A i \in 1..Len(inbox) : inbox[i] \in Nat /\ inbox[i] < Len(sent) + 1
      BY DEF Queue
    <2>3. \A i \in 1..Len(inbox') :
            serving' < inbox'[i] /\ answer'.to < inbox'[i] /\ inbox'[i] <= Len(sent')
      BY <1>1, <1>2, <1>3, <2>2 DEF Queue
    <2>4. \A i, j \in 1..Len(inbox') : i < j => inbox'[i] < inbox'[j]
      <3> TAKE i, j \in 1..Len(inbox')
      <3>0. Len(inbox) \in Nat /\ i \in 1..(Len(inbox) + 1) /\ j \in 1..(Len(inbox) + 1)
        BY <1>3 DEF Queue
      <3>1. CASE j = Len(inbox) + 1
        <4>1. i < j => i \in 1..Len(inbox)
          BY <3>0, <3>1
        <4> QED BY <1>3, <2>2, <3>1, <4>1
      <3>2. CASE j # Len(inbox) + 1
        <4>1. i < j => i \in 1..Len(inbox) /\ j \in 1..Len(inbox)
          BY <3>0, <3>2
        <4>2. i < j => inbox[i] < inbox[j]
          BY <4>1 DEF Queue
        <4> QED BY <1>3, <4>1, <4>2
      <3> QED BY <3>1, <3>2
    <2> QED BY <1>2, <1>3, <2>1, <2>3, <2>4 DEF Queue
  <1>5. Serving'
    BY <1>1, <1>2 DEF Queue, Serving
  <1>6. Kept'
    BY <1>1, <1>2 DEF Queue, Kept
  <1> QED BY <1>4, <1>5, <1>6

\* The request taken is older than every one left in the queue.
LEMMA TakeInv ==
  ASSUME Queue, Serving, Take
  PROVE  Queue' /\ Serving' /\ Kept'
  <1>1. /\ pc = "idle" /\ serving = 0 /\ inbox # <<>>
        /\ serving' = inbox[1] /\ inbox' = RemoveAt(inbox, OldestAt)
        /\ req' = sent[serving'] /\ quiet' /\ pc' # "down"
        /\ UNCHANGED <<sent, answer>>
    BY DEF Take, OldestAt, Dispatch, Finish
  <1>2. /\ inbox' \in Seq(Nat) /\ Len(inbox') = Len(inbox) - 1 /\ 1 \in 1..Len(inbox)
        /\ \A i \in 1..Len(inbox') : inbox'[i] = inbox[i + 1]
    BY <1>1, TakesTheHead DEF Queue
  <1>3. /\ serving' \in 1..Len(sent) /\ answer.to < serving'
        /\ \A i \in 2..Len(inbox) : serving' < inbox[i]
    <2>1. inbox[1] \in 1..Len(sent) /\ answer.to < inbox[1]
      BY <1>1, <1>2 DEF Queue
    <2>2. \A i \in 2..Len(inbox) : i \in 1..Len(inbox) /\ 1 < i
      BY <1>2
    <2>3. \A i \in 2..Len(inbox) : inbox[1] < inbox[i]
      BY <1>2, <2>2 DEF Queue
    <2> QED BY <1>1, <2>1, <2>3
  <1>4. Queue'
    <2>1. Len(inbox) \in Nat /\ \A i \in 1..Len(inbox') : i + 1 \in 2..Len(inbox) /\ i + 1 \in 1..Len(inbox)
      BY <1>2 DEF Queue
    <2>2. \A i \in 1..Len(inbox') :
            serving' < inbox'[i] /\ answer'.to < inbox'[i] /\ inbox'[i] <= Len(sent')
      BY <1>1, <1>2, <1>3, <2>1 DEF Queue
    <2>3. \A i, j \in 1..Len(inbox') : i < j => inbox'[i] < inbox'[j]
      <3> TAKE i, j \in 1..Len(inbox')
      <3>1. i + 1 \in 1..Len(inbox) /\ j + 1 \in 1..Len(inbox) /\ (i < j => i + 1 < j + 1)
        BY <2>1, <1>2
      <3>2. i < j => inbox[i + 1] < inbox[j + 1]
        BY <3>1 DEF Queue
      <3> QED BY <1>2, <3>2
    <2> QED BY <1>1, <1>2, <1>3, <2>2, <2>3 DEF Queue
  <1>5. Serving'
    BY <1>1, <1>3 DEF Serving
  <1>6. Kept'
    BY <1>1, <1>3 DEF Queue, Kept
  <1> QED BY <1>4, <1>5, <1>6

\* An answer of Applied is about the file that was written and synced.
LEMMA RespondInv ==
  ASSUME SInv, Respond
  PROVE  Queue' /\ Serving' /\ Kept'
  <1>1. /\ pc = "idle" /\ serving # 0 /\ serving' = 0
        /\ answer' = [to |-> serving, reply |-> reply] \/ answer' = answer
        /\ UNCHANGED <<sent, inbox, file, durable, pc, req, quiet, reply>>
    BY DEF Respond, vars, disk, ctl, hist
  <1>2. Queue'
    BY <1>1 DEF SInv, Queue, IInv, TypeOK
  <1>3. Serving'
    BY <1>1 DEF SInv, Serving
  <1>4. Kept'
    <2>1. CASE answer' = answer
      BY <1>1, <2>1 DEF SInv, Queue, Kept
    <2>2. CASE answer' = [to |-> serving, reply |-> reply] /\ reply.outcome = "Applied"
      <3>1. Replied /\ reply.ok /\ Applying
        BY <1>1, <2>2 DEF SInv, LInv, Settled, Replied, NoReply
      <3>2. /\ file["ca"] = Regular(req.content) /\ durable["ca"] = file["ca"]
        BY <2>2, <3>1 DEF SInv, Serving, LInv, AppliedIsLive, Applying, Changing, Target, Wanted
      <3>3. file["ca"].body = req.content
        BY <3>2 DEF Regular
      <3> QED BY <1>1, <2>2, <3>2, <3>3 DEF SInv, Serving, Kept
    <2>3. CASE answer' = [to |-> serving, reply |-> reply] /\ reply.outcome # "Applied"
      BY <2>3 DEF Kept
    <2> QED BY <1>1, <2>1, <2>2, <2>3
  <1> QED BY <1>2, <1>3, <1>4

\* A crash empties the queue; a power cut brings back what was synced.
LEMMA OutageInv ==
  ASSUME SInv, Outage
  PROVE  Queue' /\ Serving' /\ Kept'
  <1>1. /\ inbox' = <<>> /\ serving' = 0 /\ pc' = "down"
        /\ UNCHANGED <<sent, answer, quiet>>
    BY DEF Outage, Crash, PowerLoss
  <1>2. Queue'
    BY <1>1 DEF SInv, Queue
  <1>3. Serving'
    BY <1>1 DEF SInv, Serving
  <1>4. durable["ca"] = file["ca"] => file'["ca"] = file["ca"] /\ durable'["ca"] = file["ca"]
    BY DEF Outage, Crash, PowerLoss, disk, Files
  <1>5. Kept'
    BY <1>1, <1>4 DEF SInv, Kept
  <1> QED BY <1>2, <1>3, <1>5

\* Every step of the system keeps its invariant.
LEMMA SystemInv == ASSUME SInv, [SystemNext]_systemVars PROVE SInv'
  <1>1. IInv' /\ LInv'
    <2>1. [Next]_vars
      BY SystemStepIsStep DEF SInv, systemVars
    <2> QED BY <2>1, NextInv, NextLive DEF SInv
  <1>2. CASE \E r \in Requests : Send(r)
    BY <1>1, <1>2, SendInv DEF SInv
  <1>3. CASE Take
    BY <1>1, <1>3, TakeInv DEF SInv
  <1>4. CASE Respond
    BY <1>1, <1>4, RespondInv DEF SInv
  <1>5. CASE Outage
    BY <1>1, <1>5, OutageInv DEF SInv
  <1>6. CASE Operate
    <2>1. /\ pc \notin {"idle", "down"} /\ pc' # "down"
          /\ UNCHANGED <<req, quiet, sent, inbox, serving, answer>>
      BY <1>6, HelperStepServes DEF Operate, channel
    <2>2. serving # 0 /\ answer.to < Len(sent)
      BY <2>1 DEF SInv, Serving, Queue
    <2>3. Queue' /\ Serving' /\ Kept'
      BY <2>1, <2>2 DEF SInv, Serving, Queue, Kept
    <2> QED BY <1>1, <2>3 DEF SInv
  <1>7. CASE Host \/ Restarted \/ UNCHANGED systemVars
    <2>1. /\ UNCHANGED <<req, quiet, sent, inbox, serving, answer, file, durable>>
          /\ pc' = pc \/ (pc = "down" /\ pc' = "idle")
      BY <1>7 DEF Host, Restarted, LateReload, SshdStart, Restart, systemVars, vars, channel,
                  disk, ctl, hist
    <2>2. Queue' /\ Serving' /\ Kept'
      BY <2>1 DEF SInv, Serving, Queue, Kept
    <2> QED BY <1>1, <2>2 DEF SInv
  <1> QED BY <1>2, <1>3, <1>4, <1>5, <1>6, <1>7 DEF SystemNext, ServerLoop

\* It holds at first.
LEMMA SystemInitInv == SystemInit => SInv
  <1> SUFFICES ASSUME SystemInit PROVE SInv
    OBVIOUS
  <1>1. IInv /\ LInv
    BY InitInv, InitLive DEF SystemInit
  <1>2. Queue /\ Serving /\ Kept
    BY DEF SystemInit, Init, NoAnswer, NoReply, Queue, Serving, Kept
  <1> QED BY <1>1, <1>2 DEF SInv

\* What the agent was told is Applied stays in the file until the agent sends
\* something else, however many requests are queued and given up and however
\* often the helper or the host goes down.
THEOREM AppliedIsKept == SystemSpec => []AppliedStays
  <1>1. SInv => AppliedStays
    BY DEF SInv, Kept, AppliedStays, View, ViewOf, Files
  <1> QED BY <1>1, SystemInitInv, SystemInv, PTL DEF SystemSpec

\* The operations under a queue are the operations: whatever was shown of
\* HelperOps, for any sequence of requests, holds of them too.
THEOREM SystemRunsOps == SystemSpec => Spec
  <1>1. SystemInit => Init /\ SInv
    BY SystemInitInv DEF SystemInit
  <1>2. SInv /\ [SystemNext]_systemVars => [Next]_vars
    BY SystemStepIsStep DEF SInv, systemVars
  <1> QED BY <1>1, <1>2, SystemInv, PTL DEF SystemSpec, Spec

-----------------------------------------------------------------------------
(* The files the operations work on *)

CaFile == INSTANCE AtomicFile WITH
    Values <- Node, value <- file["ca"], stable <- durable["ca"]
DropinFile == INSTANCE AtomicFile WITH
    Values <- Node, value <- file["dropin"], stable <- durable["dropin"]

\* What a step does to one managed file.
LEMMA FileStep ==
  ASSUME IInv, [Next]_vars, NEW f \in Files
  PROVE  \/ \E v \in Node : file'[f] = v /\ durable'[f] = durable[f]
         \/ durable'[f] = file[f] /\ file'[f] = file[f]
         \/ file'[f] \in {file[f], durable[f]} /\ durable'[f] = file'[f]
  <1>0. file \in [Files -> Node] /\ durable \in [Files -> Node] /\ Target \in Files
    BY TargetInFiles DEF IInv, TypeOK
  <1>1. CASE Write
    <2>1. pc = "write" => Regular(Wanted) \in Node
      BY WantedIsBody, RegularIsNode DEF IInv, Control, Early
    <2> QED BY <1>0, <1>1, <2>1 DEF Write
  <1>2. CASE SyncDirectory
    BY <1>0, <1>2 DEF SyncDirectory
  <1>3. CASE RollbackPath
    <2>1. Restored \in Node
      BY RegularIsNode DEF IInv, TypeOK, Restored, Node
    <2> QED BY <1>0, <1>3, <2>1 DEF RollbackPath
  <1>4. CASE OutOfBandEdit
    <2>1. PICK e \in Edits : file' = [file EXCEPT ![e[1]] = e[2]] /\ durable' = durable
      BY <1>4 DEF OutOfBandEdit
    <2>2. e[1] \in Files /\ e[2] \in Node
      BY WorldAssumption
    <2> QED BY <1>0, <2>1, <2>2
  <1>5. CASE PowerLoss
    BY <1>5 DEF PowerLoss
  <1>6. CASE file' = file /\ durable' = durable
    BY <1>0, <1>6
  <1>7. CASE \/ EnsureDirectories \/ EnsureIncludePresent \/ CompareDropin \/ EnsureNotSymlink
             \/ CapturePrevious \/ ValidateConfig \/ Reload \/ IsActive
             \/ VerifyTrustedCa \/ VerifyDropin
    <2>1. file' = file /\ durable' = durable
      BY <1>7 DEF EnsureDirectories, EnsureIncludePresent, CompareDropin, EnsureNotSymlink,
                  CapturePrevious, ValidateConfig, Reload, IsActive, VerifyTrustedCa,
                  VerifyDropin, disk
    <2> QED BY <1>6, <2>1
  <1>8. CASE \/ \E r \in Requests : Dispatch(r)
             \/ LateReload \/ SshdStart \/ Crash \/ Restart \/ UNCHANGED vars
    <2>1. file' = file /\ durable' = durable
      BY <1>8 DEF Dispatch, LateReload, SshdStart, Crash, Restart, vars, disk
    <2> QED BY <1>6, <2>1
  <1> QED BY <1>1, <1>2, <1>3, <1>4, <1>5, <1>7, <1>8 DEF Next, HelperStep, World

\* Whatever the operations, an administrator, a crash and a power cut do, each
\* managed file is an atomic file: the interface that secure_write and
\* remove_optional were shown to implement, system call by system call, is all
\* that ops.rs uses of them.
THEOREM FilesAreAtomic == Spec => CaFile!Spec /\ DropinFile!Spec
  <1>1. Init => CaFile!Init /\ DropinFile!Init
    BY InitInv DEF Init, IInv, TypeOK, Files, CaFile!Init, DropinFile!Init
  <1>2. ASSUME IInv, [Next]_vars
        PROVE  /\ [CaFile!Next]_<<file["ca"], durable["ca"]>>
               /\ [DropinFile!Next]_<<file["dropin"], durable["dropin"]>>
    <2>1. "ca" \in Files /\ "dropin" \in Files
      BY DEF Files
    <2>2. [CaFile!Next]_<<file["ca"], durable["ca"]>>
      BY <1>2, <2>1, FileStep DEF CaFile!Next, CaFile!Replace, CaFile!Sync, CaFile!PowerCut
    <2>3. [DropinFile!Next]_<<file["dropin"], durable["dropin"]>>
      BY <1>2, <2>1, FileStep
         DEF DropinFile!Next, DropinFile!Replace, DropinFile!Sync, DropinFile!PowerCut
    <2> QED BY <2>2, <2>3
  <1> QED BY <1>1, <1>2, InitInv, NextInv, PTL DEF Spec, CaFile!Spec, DropinFile!Spec

-----------------------------------------------------------------------------
(* How long a request takes *)

\* The steps a call of the commands takes from this one on, the write's fsync
\* included; ahead of it, those of the handler before it.
StepsAhead(step) ==
    CASE step = "dirs" -> 15
      [] step = "include" -> 14
      [] step = "compare" -> 13
      [] step = "nolink" -> 12
      [] step = "capture" -> 11
      [] step = "write" -> 10
      [] step = "verifyCa" -> 9
      [] step = "linkCa" -> 8
      [] step = "modeCa" -> 7
      [] step = "verifyDropin" -> 6
      [] step \in {"linkDropin", "restore"} -> 5
      [] step \in {"modeDropin", "sync"} -> 4
      [] step = "validate" -> 3
      [] step = "reload" -> 2
      [] step = "active" -> 1
      [] OTHER -> 0

\* A commit may have a rollback of five steps ahead of it as well.
StepsLeft == StepsAhead(pc) + (IF phase = "commit" /\ pc \in {"sync", "validate", "reload", "active"}
                               THEN 5 ELSE 0)

\* What the helper's thread has before it, the requests in the queue included.
Work == 17 * Len(inbox) + StepsLeft + (IF serving = 0 THEN 0 ELSE 1)

\* A request has at most fifteen steps before it.
LEMMA StepsTyped ==
  ASSUME TypeOK
  PROVE  StepsLeft \in 0..15 /\ (pc \in {"idle", "down"} => StepsLeft = 0)
  BY DEF TypeOK, Steps, StepsLeft, StepsAhead

\* Every step of a handler is one less.
LEMMA StepTaken ==
  ASSUME IInv, HelperStep
  PROVE  StepsLeft' < StepsLeft
  <1>0. /\ Fail => pc' = "idle"
        /\ \A ok, o : Finish(ok, o) => pc' = "idle"
        /\ \A step : Goto(step) => pc' = step
    BY DEF Fail, Finish, Goto
  <1>1. CASE \/ EnsureDirectories \/ EnsureIncludePresent \/ CompareDropin \/ EnsureNotSymlink
             \/ CapturePrevious
    <2>1. \/ pc' = "idle" /\ pc \in Early
          \/ pc = "dirs" /\ pc' \in {"include", "nolink"}
          \/ pc = "include" /\ pc' = "compare"
          \/ pc = "compare" /\ pc' = "nolink"
          \/ pc = "nolink" /\ pc' = "capture"
          \/ pc = "capture" /\ pc' = "write"
      BY <1>0, <1>1 DEF EnsureDirectories, EnsureIncludePresent, CompareDropin, EnsureNotSymlink,
                        CapturePrevious, Early
    <2> QED BY <2>1 DEF StepsLeft, StepsAhead, Early
  <1>2. CASE Write
    <2>1. pc = "write" /\ (pc' = "idle" \/ (pc' = "sync" /\ phase' = "commit"))
      BY <1>0, <1>2 DEF Write
    <2> QED BY <2>1 DEF StepsLeft, StepsAhead
  <1>3. CASE SyncDirectory
    <2>1. pc = "sync" /\ (pc' = "idle" \/ (pc' = "validate" /\ phase' = phase))
      BY <1>0, <1>3 DEF SyncDirectory, AfterWrite
    <2> QED BY <2>1 DEF StepsLeft, StepsAhead
  <1>4. CASE ValidateConfig \/ Reload \/ IsActive
    <2>1. CommandError => pc' = "idle" \/ (phase = "commit" /\ pc' = "restore")
      BY <1>0 DEF CommandError
    <2>2. /\ pc \in {"validate", "reload", "active"} /\ phase' = phase
          /\ \/ pc' = "idle"
             \/ phase = "commit" /\ pc' = "restore"
             \/ pc = "validate" /\ pc' \in {"reload", "active"}
             \/ pc = "reload" /\ pc' = "active"
      BY <1>0, <1>4, <2>1 DEF ValidateConfig, Reload, IsActive, AfterValidate
    <2> QED BY <2>2 DEF StepsLeft, StepsAhead
  <1>5. CASE RollbackPath
    <2>1. pc = "restore" /\ (pc' = "idle" \/ (pc' \in {"validate", "sync"} /\ phase' = "rollback"))
      BY <1>0, <1>5 DEF RollbackPath
    <2> QED BY <2>1 DEF StepsLeft, StepsAhead
  <1>6. CASE VerifyTrustedCa \/ VerifyDropin
    <2>1. \/ pc' = "idle" /\ pc \in Verifying
          \/ pc = "verifyCa" /\ pc' \in {"linkCa", "verifyDropin"}
          \/ pc = "linkCa" /\ pc' = "modeCa"
          \/ pc = "modeCa" /\ pc' = "verifyDropin"
          \/ pc = "verifyDropin" /\ pc' = "linkDropin"
          \/ pc = "linkDropin" /\ pc' = "modeDropin"
          \/ pc \in {"verifyDropin", "modeDropin"} /\ pc' = "validate" /\ phase' = "verify"
      BY <1>0, <1>6, VerifyEffect DEF LooksOn, LookedAtBoth
    <2> QED BY <2>1 DEF StepsLeft, StepsAhead, Verifying
  <1> QED BY <1>1, <1>2, <1>3, <1>4, <1>5, <1>6 DEF HelperStep

\* No operation goes on for ever: at every moment a request has at most fifteen
\* steps before it, its rollback included, and each step it takes is one less,
\* whatever fails and whatever else happens on the host (dispatch).
THEOREM HandlersAdvance ==
  Spec => [](StepsLeft \in 0..15) /\ [][HelperStep => StepsLeft' < StepsLeft]_vars
  <1>1. IInv => StepsLeft \in 0..15
    BY StepsTyped DEF IInv
  <1>2. IInv /\ [Next]_vars => [HelperStep => StepsLeft' < StepsLeft]_vars
    BY StepTaken
  <1> QED BY <1>1, <1>2, InitInv, NextInv, PTL DEF Spec

\* How much there is of each, and nothing of a request that has ended.
Counted ==
    /\ Len(inbox) \in Nat
    /\ StepsLeft \in 0..15
    /\ pc \in {"idle", "down"} => StepsLeft = 0

\* The loop gets through its queue: every step of the helper's thread leaves it
\* with less to do, and only a request the agent sends gives it more; neither
\* sshd and its late reloads, nor a crash, nor a restart does.
THEOREM LoopAdvances ==
  SystemSpec => /\ [](Work \in Nat)
                /\ [][ServerLoop => Work' < Work]_systemVars
                /\ [][Host \/ Restarted \/ Outage => Work' <= Work]_systemVars
  <1>0. (SInv => Counted) /\ (Counted => Work \in Nat)
    <2>1. SInv => Counted
      BY StepsTyped DEF SInv, IInv, Queue, Counted
    <2>2. Counted => Work \in Nat
      BY DEF Counted, Work
    <2> QED BY <2>1, <2>2
  <1>1. ASSUME SInv, Counted, Counted', ServerLoop PROVE Work' < Work
    <2>1. /\ Len(inbox) \in Nat /\ Len(inbox') \in Nat
          /\ StepsLeft \in 0..15 /\ StepsLeft' \in 0..15
          /\ pc \in {"idle", "down"} => StepsLeft = 0
          /\ pc' \in {"idle", "down"} => StepsLeft' = 0
      BY <1>1 DEF Counted
    <2>2. CASE Take
      <3>1. Len(inbox') = Len(inbox) - 1
        BY <1>1, <2>2, TakesTheHead DEF Take, SInv, Queue
      <3>2. pc = "idle" /\ serving = 0
        BY <2>2 DEF Take
      <3> QED BY <2>1, <3>1, <3>2 DEF Work
    <2>3. CASE Operate
      <3>1. StepsLeft' < StepsLeft
        BY <1>1, <2>3, StepTaken DEF Operate, SInv
      <3>2. inbox' = inbox /\ serving' = serving
        BY <2>3 DEF Operate, channel
      <3> QED BY <2>1, <3>1, <3>2 DEF Work
    <2>4. CASE Respond
      <3>1. pc = "idle" /\ pc' = "idle" /\ serving # 0 /\ serving' = 0 /\ inbox' = inbox
        BY <2>4 DEF Respond, vars, ctl
      <3> QED BY <2>1, <3>1 DEF Work
    <2> QED BY <1>1, <2>2, <2>3, <2>4 DEF ServerLoop
  <1>2. ASSUME Counted, Counted', Host \/ Restarted \/ Outage PROVE Work' <= Work
    <2>1. /\ Len(inbox) \in Nat /\ Len(inbox') \in Nat
          /\ StepsLeft \in 0..15 /\ StepsLeft' \in 0..15
          /\ pc \in {"idle", "down"} => StepsLeft = 0
          /\ pc' \in {"idle", "down"} => StepsLeft' = 0
      BY <1>2 DEF Counted
    <2>2. CASE Host
      <3>1. UNCHANGED <<pc, phase, inbox, serving>>
        BY <2>2 DEF Host, LateReload, SshdStart, ctl, channel
      <3>2. StepsLeft' = StepsLeft
        BY <3>1 DEF StepsLeft, StepsAhead
      <3> QED BY <2>1, <3>1, <3>2 DEF Work
    <2>3. CASE Restarted
      <3>1. pc = "down" /\ pc' = "idle" /\ UNCHANGED <<inbox, serving>>
        BY <2>3 DEF Restarted, Restart, channel
      <3> QED BY <2>1, <3>1 DEF Work
    <2>4. CASE Outage
      <3>1. pc' = "down" /\ inbox' = <<>> /\ serving' = 0
        BY <2>4 DEF Outage, Crash, PowerLoss
      <3> QED BY <2>1, <3>1 DEF Work
    <2> QED BY <1>2, <2>2, <2>3, <2>4
  <1>3. SInv /\ Counted /\ Counted' =>
            /\ [ServerLoop => Work' < Work]_systemVars
            /\ [Host \/ Restarted \/ Outage => Work' <= Work]_systemVars
    BY <1>1, <1>2
  <1> QED BY <1>0, <1>3, SystemInitInv, SystemInv, PTL DEF SystemSpec

-----------------------------------------------------------------------------
(* The queue in front of the operations *)

RequestLoop == INSTANCE SerialLoop WITH
    Clients <- 1..MaxSends, None <- 0, queue <- inbox, current <- serving

\* The agent's requests go through the loop that HelperServer implements with
\* its connections, so that what composes the two is the same: in order, one at
\* a time, all of them lost when the helper dies (run in server.rs).
THEOREM RequestsAreSerial == SystemSpec => RequestLoop!Spec
  <1>1. SystemInit => RequestLoop!Init
    BY DEF SystemInit, RequestLoop!Init
  <1>2. ASSUME SInv, [SystemNext]_systemVars
        PROVE  [RequestLoop!Next]_<<inbox, serving>>
    <2>0. inbox \in Seq(Nat) /\ sent \in Seq(Requests)
      BY <1>2 DEF SInv, Queue
    <2>1. ASSUME NEW r \in Requests, Send(r) PROVE RequestLoop!Next
      <3>1. inbox' = Append(inbox, Len(sent')) /\ serving' = serving
        BY <2>1 DEF Send
      <3>2. Len(sent') \in 1..MaxSends
        <4>1. sent' = Append(sent, r) /\ Len(sent) < MaxSends
          BY <2>1 DEF Send
        <4>2. Len(sent') = Len(sent) + 1 /\ Len(sent) \in Nat
          BY <2>0, <4>1
        <4> QED BY <4>1, <4>2, SystemAssumption
      <3> QED BY <3>1, <3>2 DEF RequestLoop!Next, RequestLoop!Arrive
    <2>2. CASE Take
      <3>1. /\ serving = 0 /\ inbox # <<>> /\ serving' = inbox[1]
            /\ inbox' = RemoveAt(inbox, OldestAt)
        BY <2>2 DEF Take, OldestAt
      <3>2. serving' = Head(inbox)
        BY <2>0, <3>1
      <3>3. inbox' = Tail(inbox)
        <4>1. /\ inbox' \in Seq(Nat) /\ Len(inbox') = Len(inbox) - 1
              /\ \A i \in 1..(Len(inbox) - 1) : inbox'[i] = inbox[i + 1]
          BY <2>0, <3>1, TakesTheHead
        <4>2. /\ Tail(inbox) \in Seq(Nat) /\ Len(Tail(inbox)) = Len(inbox) - 1
              /\ \A i \in 1..(Len(inbox) - 1) : Tail(inbox)[i] = inbox[i + 1]
          BY <2>0, <3>1
        <4>3. Len(inbox') = Len(Tail(inbox)) /\ \A i \in 1..Len(inbox') : inbox'[i] = Tail(inbox)[i]
          BY <4>1, <4>2
        <4> QED BY <4>1, <4>2, <4>3, SeqEqual
      <3> QED BY <3>1, <3>2, <3>3 DEF RequestLoop!Next, RequestLoop!Take
    <2>3. CASE Respond
      BY <2>3 DEF Respond, RequestLoop!Next, RequestLoop!Finish
    <2>4. CASE Outage
      BY <2>4 DEF Outage, RequestLoop!Next, RequestLoop!HangUp
    <2>5. CASE Operate \/ Host \/ Restarted \/ UNCHANGED systemVars
      BY <2>5 DEF Operate, Host, Restarted, systemVars, channel
    <2> QED BY <1>2, <2>1, <2>2, <2>3, <2>4, <2>5 DEF SystemNext, ServerLoop
  <1>3. SInv /\ [SystemNext]_systemVars => [RequestLoop!Next]_<<inbox, serving>>
    BY <1>2
  <1> QED BY <1>1, <1>3, SystemInitInv, SystemInv, PTL DEF SystemSpec, RequestLoop!Spec
=============================================================================
