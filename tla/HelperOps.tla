------------------------------ MODULE HelperOps ------------------------------
(***************************************************************************)
(* The privileged operations of mayfly-helper (src/src/ops.rs): dispatch,  *)
(* ensure_directories, install_sshd_dropin, apply_trusted_ca_keys,         *)
(* verify_state and the rollback they share, run one request at a time by  *)
(* a single thread against a file system and an sshd that change and fail  *)
(* on their own.                                                           *)
(*                                                                         *)
(* One action per step of the handlers at which another actor (an          *)
(* administrator editing the files, a reload that finishes late, a crash,  *)
(* a power cut) can come in between.  File contents are abstract bodies;   *)
(* what the code can tell apart of them is given by constants.             *)
(***************************************************************************)
EXTENDS Naturals

CONSTANTS
    Bodies,      \* the contents a managed file may have
    NoBody,      \* what reading a missing file gives (None)
    Utf8,        \* bodies String::from_utf8 accepts
    Parseable,   \* bodies TrustedCaKeys::parse accepts
    Rendered,    \* sshd_config::render_dropin(trusted_ca_path)
    Current,     \* bodies equal to Rendered up to trailing white space
    Rejected,    \* configurations sshd -t rejects
    Contents,    \* bodies clients ask to apply
    Edits,       \* the out-of-band edits: pairs of a file and its new state
    Provisioned, \* managed files the helper may find at its first start
    DirLayouts   \* managed directories it may find

Files == {"ca", "dropin"}          \* trusted_ca_path, dropin_path
Views == [Files -> Bodies \cup {NoBody}]

Perms == {"ok", "writable", "foreign"}   \* 0644 root / group- or world-writable / not root's
Absent == [kind |-> "absent", body |-> NoBody, perm |-> "ok"]
Regular(b) == [kind |-> "file", body |-> b, perm |-> "ok"]  \* as secure_write leaves it
Node == {Absent} \cup [kind : {"file"}, body : Bodies, perm : Perms]
                 \cup [kind : {"link"}, body : Bodies \cup {NoBody}, perm : {"ok"}]
    \* the body of a link is its target's; NoBody when it dangles

\* A path that is missing, a directory with another mode, a 0755 directory, a
\* symlink, or something that is not a directory at all.
DirState == {"missing", "loose", "safe", "link", "file"}

ASSUME BodyAssumption ==
    /\ NoBody \notin Bodies
    /\ Utf8 \subseteq Bodies
    /\ Parseable \subseteq Utf8
    /\ Current \subseteq Utf8
    /\ Rendered \in Current
    /\ Contents \subseteq Utf8
ASSUME WorldAssumption ==
    /\ Rejected \subseteq Views
    /\ Edits \subseteq Files \X Node
    /\ Provisioned \subseteq [Files -> Node]
    /\ DirLayouts \subseteq [Files -> DirState]

VARIABLES
    file,     \* the managed paths as processes see them
    durable,  \* the managed paths as stable storage holds them
    dir,      \* their parent directories
    loaded,   \* the view sshd last loaded
    active,   \* sshd is running
    job,      \* a reload whose systemctl was killed is still queued
    pc,       \* the helper's next step; "idle" between requests, "down" when dead
    phase,    \* which call of the sshd commands pc is in, or how the request ended
    req,      \* the request being served, or the last one
    prev,     \* the bytes read of a managed file: the local `previous` of the
              \* changes, those verify_state has yet to check (`bytes`, `on_disk`)
    reply,    \* the last Response
    log,      \* the error rollback_path logged
    entry,    \* history: the views when the request arrived
    quiet,    \* history: no out-of-band edit since the request arrived
    sound,    \* history: the helper may count on sshd accepting the files
    cmds      \* history: external commands run for this request, capped at CmdCap

disk == <<file, durable, dir>>
sshd == <<loaded, active, job>>
ctl  == <<pc, phase, req, prev, reply, log>>
hist == <<entry, quiet, sound, cmds>>
vars == <<disk, sshd, ctl, hist>>

Ops == {"Ping", "EnsureDirectories", "InstallSshdDropin", "ApplyTrustedCaKeys", "VerifyState"}
Requests == [op : Ops \ {"ApplyTrustedCaKeys"}, content : {NoBody}]
            \cup [op : {"ApplyTrustedCaKeys"}, content : Contents \cup {NoBody}]
NoRequest == [op |-> "none", content |-> NoBody]

Outcomes == {"Ok", "Applied", "RolledBack", "NotModified", "Unhealthy"}
Responses == [ok : BOOLEAN, outcome : Outcomes]
NoReply == [ok |-> FALSE, outcome |-> "none"]

Steps == {"dirs", "include", "compare", "nolink", "capture", "write", "sync", "validate",
          "reload", "active", "restore",
          "verifyCa", "linkCa", "modeCa", "verifyDropin", "linkDropin", "modeDropin"}
Phases == {"early", "unsynced", "commit", "rollback", "verify"}

CmdCap == 7   \* one above the most commands a request runs

ViewOf(fs) == [f \in Files |-> fs[f].body]
View == ViewOf(file)

Applying == req.op = "ApplyTrustedCaKeys"
Target == IF req.op = "InstallSshdDropin" THEN "dropin" ELSE "ca"
Wanted == IF req.op = "InstallSshdDropin" THEN Rendered ELSE req.content

\* A path below something that is not a directory: every call on it fails.
Reachable(f) == dir[f] # "file"

TypeOK ==
    /\ file \in [Files -> Node]
    /\ durable \in [Files -> Node]
    /\ dir \in [Files -> DirState]
    /\ loaded \in Views
    /\ active \in BOOLEAN
    /\ job \in BOOLEAN
    /\ pc \in Steps \cup {"idle", "down"}
    /\ phase \in Phases
    /\ req \in Requests \cup {NoRequest}
    /\ prev \in Bodies \cup {NoBody}
    /\ reply \in Responses \cup {NoReply}
    /\ log \in {"none", "restoreFailed", "stillUnhealthy"}
    /\ entry \in Views
    /\ quiet \in BOOLEAN
    /\ sound \in BOOLEAN
    /\ cmds \in 0..CmdCap

Init ==
    /\ file \in Provisioned
    /\ durable = file
    /\ dir \in DirLayouts
    /\ \A f \in Files : dir[f] \in {"missing", "file"} => file[f] = Absent
    /\ loaded = View
    /\ active = TRUE
    /\ job = FALSE
    /\ pc = "idle"
    /\ phase = "early"
    /\ req = NoRequest
    /\ prev = NoBody
    /\ reply = NoReply
    /\ log = "none"
    /\ entry = View
    /\ quiet = TRUE
    /\ sound = (View \notin Rejected)
    /\ cmds = 0

-----------------------------------------------------------------------------
(* How a handler goes on, or ends with a Response. *)

Goto(step) == pc' = step /\ UNCHANGED <<prev, reply>>

Finish(ok, outcome) ==
    /\ pc' = "idle"
    /\ reply' = [ok |-> ok, outcome |-> outcome]
    /\ prev' = NoBody

FailOutcome == IF Applying THEN "RolledBack" ELSE "Unhealthy"
Fail == Finish(FALSE, FailOutcome)

\* One request, taken from the socket: dispatch matches on its operation.
\* Content that is missing or does not parse ends an apply at once.
Dispatch(r) ==
    /\ pc = "idle"
    /\ req' = r
    /\ phase' = "early"
    /\ log' = "none"
    /\ entry' = View
    /\ quiet' = TRUE
    /\ cmds' = 0
    /\ \/ r.op = "Ping" /\ Finish(TRUE, "Ok")
       \/ r.op = "ApplyTrustedCaKeys" /\ r.content \notin Parseable /\ Finish(FALSE, "RolledBack")
       \/ /\ \/ r.op \in {"EnsureDirectories", "InstallSshdDropin"}
             \/ r.op = "ApplyTrustedCaKeys" /\ r.content \in Parseable
          /\ pc' = "dirs" /\ reply' = NoReply /\ UNCHANGED prev
       \/ /\ r.op = "VerifyState"
          /\ pc' = "verifyCa" /\ reply' = NoReply /\ UNCHANGED prev
    /\ UNCHANGED <<disk, sshd, sound>>

-----------------------------------------------------------------------------
(* The steps before a managed file is written. *)

\* ensure_directory on one path, when it succeeds; a path that exists and is
\* not a directory only has its mode changed.
Ensured(d) == IF d \in {"missing", "loose"} THEN "safe" ELSE d

\* ... and when it fails: a directory may have been created without its mode.
HalfEnsured(d) == IF d = "missing" THEN {"missing", "loose"} ELSE {d}

EnsureDirectories ==
    /\ pc = "dirs"
    /\ \/ /\ \A f \in Files : dir[f] # "link"
          /\ dir' = [f \in Files |-> Ensured(dir[f])]
          /\ \/ req.op = "EnsureDirectories" /\ Finish(TRUE, "Ok")
             \/ req.op = "InstallSshdDropin" /\ Goto("include")
             \/ req.op = "ApplyTrustedCaKeys" /\ Goto("nolink")
       \/ \E d \in HalfEnsured(dir["ca"]) : dir' = [dir EXCEPT !["ca"] = d] /\ Fail
       \/ /\ dir["ca"] # "link"
          /\ \E d \in HalfEnsured(dir["dropin"]) :
                dir' = [dir EXCEPT !["ca"] = Ensured(@), !["dropin"] = d]
          /\ Fail
    /\ UNCHANGED <<file, durable, sshd, phase, req, log, hist>>

\* ensure_include_present: the main sshd_config, which no one here writes,
\* includes the drop-in directory or it does not (or cannot be read).
EnsureIncludePresent ==
    /\ pc = "include"
    /\ Goto("compare") \/ Fail
    /\ UNCHANGED <<disk, sshd, phase, req, log, hist>>

\* install_sshd_dropin reads the drop-in: nothing to do when it is current.
\* Fail also stands for a read error.
CompareDropin ==
    /\ pc = "compare"
    /\ \/ Fail
       \/ /\ Reachable("dropin")
          /\ \/ View["dropin"] \in Current /\ Finish(TRUE, "NotModified")
             \/ View["dropin"] \in (Utf8 \cup {NoBody}) \ Current /\ Goto("nolink")
    /\ UNCHANGED <<disk, sshd, phase, req, log, hist>>

\* security::ensure_not_symlink: a missing path passes.
NotSymlink(f) == Reachable(f) /\ file[f].kind # "link"

EnsureNotSymlink ==
    /\ pc = "nolink"
    /\ Fail \/ (NotSymlink(Target) /\ Goto("capture"))
    /\ UNCHANGED <<disk, sshd, phase, req, log, hist>>

\* mutated form: the previous contents are not kept
CapturedNothing == NoBody
\* The contents a rollback will put back.
Captured == View[Target]

\* let previous = read_optional(..); an apply of what is there already is done.
CapturePrevious ==
    /\ pc = "capture"
    /\ \/ Fail
       \/ /\ Reachable(Target)
          /\ \/ Applying /\ View["ca"] = req.content /\ Finish(TRUE, "NotModified")
             \/ /\ Applying => View["ca"] # req.content
                /\ pc' = "write" /\ prev' = Captured /\ UNCHANGED reply
    /\ UNCHANGED <<disk, sshd, phase, req, log, hist>>

-----------------------------------------------------------------------------
(* secure_write, up to and with the rename, then the directory fsync. *)

\* security::secure_write(path, desired): Fail is any error before the rename.
Write ==
    /\ pc = "write"
    /\ \/ Fail /\ UNCHANGED <<file, phase>>
       \/ /\ Reachable(Target)
          /\ file' = [file EXCEPT ![Target] = Regular(Wanted)]
          /\ phase' = "commit"
          /\ Goto("sync")
    /\ UNCHANGED <<durable, dir, sshd, req, log, hist>>

\* mutated form: sshd is reloaded before the configuration is validated
ReloadFirst == "reload"
\* validate_reload_verify runs `sshd -t` before anything else.
AfterWrite == "validate"

\* fsync_dir.  When it fails the handler returns with the rename done: `?`
\* leaves it before validate_reload_verify and so before rollback_path.
SyncDirectory ==
    /\ pc = "sync"
    /\ \/ /\ durable' = [durable EXCEPT ![Target] = file[Target]]
          /\ Goto(AfterWrite)
          /\ UNCHANGED <<phase, log, sound>>
       \/ /\ phase = "commit"
          /\ Fail
          /\ phase' = "unsynced"
          /\ sound' = FALSE
          /\ UNCHANGED <<durable, log>>
       \/ /\ phase = "rollback"
          /\ Fail
          /\ log' = "restoreFailed"
          /\ UNCHANGED <<durable, phase, sound>>
    /\ UNCHANGED <<file, dir, sshd, req, entry, quiet, cmds>>

-----------------------------------------------------------------------------
(* sshd -t, systemctl reload, systemctl is-active: the calls of            *)
(* validate_reload_verify, made for a commit and again for its rollback,   *)
(* and, without the reload, by verify_state.                               *)

CountCommand == cmds' = IF cmds < CmdCap THEN cmds + 1 ELSE cmds

\* mutated form: the error is returned without a rollback
ErrorWithoutRollback == Fail /\ UNCHANGED log
\* mutated form: a rollback that does not bring sshd back is tried again
RetriedRollback ==
    \/ phase \in {"commit", "rollback"} /\ Goto("restore") /\ UNCHANGED log
    \/ phase = "verify" /\ Fail /\ UNCHANGED log
\* A command failed or timed out.  The commit is rolled back; a rollback only
\* logs the failure; verify_state reports it.
CommandError ==
    \/ phase = "commit" /\ Goto("restore") /\ UNCHANGED log
    \/ phase = "rollback" /\ Fail /\ log' = "stillUnhealthy"
    \/ phase = "verify" /\ Fail /\ UNCHANGED log

\* mutated form: a restored file is not loaded into sshd again
NoReloadInRollback == IF phase = "commit" THEN "reload" ELSE "active"
\* mutated form: the new file is not loaded into sshd
NoReload == "active"
AfterValidate == IF phase = "verify" THEN "active" ELSE "reload"

\* sshd accepts only configurations outside Rejected; the command may also
\* fail, or be killed at its deadline, on one sshd would accept.
ValidateConfig ==
    /\ pc = "validate"
    /\ CountCommand
    /\ \/ View \notin Rejected /\ Goto(AfterValidate) /\ UNCHANGED log
       \/ CommandError
    /\ UNCHANGED <<disk, sshd, phase, req, entry, quiet, sound>>

\* What a reload does to an sshd that is running: it reads the files anew,
\* and does not survive a configuration it rejects.
Reloaded ==
    IF View \in Rejected
    THEN active' = FALSE /\ UNCHANGED loaded
    ELSE loaded' = View /\ UNCHANGED active

\* A systemctl killed at its deadline leaves its job with the service manager.
Reload ==
    /\ pc = "reload"
    /\ CountCommand
    /\ \/ active /\ Reloaded /\ Goto("active") /\ UNCHANGED <<job, log>>
       \/ CommandError /\ UNCHANGED sshd
       \/ CommandError /\ job' = TRUE /\ UNCHANGED <<loaded, active>>
    /\ UNCHANGED <<disk, phase, req, entry, quiet, sound>>

\* The last command.  Its success ends a commit or a verification well; a
\* rollback ends with the error that caused it.
IsActive ==
    /\ pc = "active"
    /\ CountCommand
    /\ \/ /\ active
          /\ \/ phase = "commit" /\ Finish(TRUE, IF Applying THEN "Applied" ELSE "Ok")
             \/ phase = "rollback" /\ Fail
             \/ phase = "verify" /\ Finish(TRUE, "Ok")
          /\ sound' = quiet
          /\ UNCHANGED log
       \/ CommandError /\ UNCHANGED sound
    /\ UNCHANGED <<disk, sshd, phase, req, entry, quiet>>

-----------------------------------------------------------------------------
(* rollback_path: put the previous contents back, or remove the file. *)

\* mutated form: a file that did not exist is restored as well
RestoredAlways == Regular(prev)
Restored == IF prev = NoBody THEN Absent ELSE Regular(prev)

\* remove_optional, unlike secure_write, does not sync the directory.
RollbackPath ==
    /\ pc = "restore"
    /\ \/ /\ file' = [file EXCEPT ![Target] = Restored]
          /\ phase' = "rollback"
          /\ Goto(IF prev = NoBody THEN "validate" ELSE "sync")
          /\ UNCHANGED <<log, sound>>
       \/ /\ Fail
          /\ log' = "restoreFailed"
          /\ sound' = FALSE
          /\ UNCHANGED <<file, phase>>
    /\ UNCHANGED <<durable, dir, sshd, req, entry, quiet, cmds>>

-----------------------------------------------------------------------------
(* verify_state, up to its commands: each managed file is read, then looked *)
(* at twice more by path, and what was read is checked at the end.         *)

\* The handler goes on with what it has read.
Keep(step, bytes) == pc' = step /\ prev' = bytes /\ UNCHANGED reply

\* mutated form: verify_state only asks that the file is there
Exists(f) == Reachable(f) /\ file[f].kind = "file"
\* ensure_not_group_or_world_writable, by lstat: a file removed meanwhile is an
\* error, and the mode of a symlink is 0777.
NotWritable(f) == Reachable(f) /\ file[f].kind = "file" /\ file[f].perm # "writable"

\* read_optional(trusted_ca_path): a missing file, or a link to nothing, is skipped.
ReadTrustedCa ==
    /\ pc = "verifyCa"
    /\ \/ Fail
       \/ Reachable("ca") /\ View["ca"] = NoBody /\ Keep("verifyDropin", NoBody)
       \/ Reachable("ca") /\ View["ca"] # NoBody /\ Keep("linkCa", View["ca"])

LinkTrustedCa ==
    /\ pc = "linkCa"
    /\ Fail \/ (NotSymlink("ca") /\ Goto("modeCa"))

CheckTrustedCa ==
    /\ pc = "modeCa"
    /\ Fail \/ (NotWritable("ca") /\ prev \in Parseable /\ Keep("verifyDropin", NoBody))

VerifyTrustedCa ==
    /\ ReadTrustedCa \/ LinkTrustedCa \/ CheckTrustedCa
    /\ UNCHANGED <<disk, sshd, phase, req, log, hist>>

\* Both files have passed, or were not there: on to sshd -t.
ToCommands == phase' = "verify" /\ Keep("validate", NoBody)

\* read_optional_string(dropin_path)
ReadDropin ==
    /\ pc = "verifyDropin"
    /\ \/ Fail /\ UNCHANGED phase
       \/ Reachable("dropin") /\ View["dropin"] = NoBody /\ ToCommands
       \/ /\ Reachable("dropin")
          /\ View["dropin"] \in Utf8
          /\ Keep("linkDropin", View["dropin"])
          /\ UNCHANGED phase

LinkDropin ==
    /\ pc = "linkDropin"
    /\ Fail \/ (NotSymlink("dropin") /\ Goto("modeDropin"))
    /\ UNCHANGED phase

CheckDropin ==
    /\ pc = "modeDropin"
    /\ \/ Fail /\ UNCHANGED phase
       \/ NotWritable("dropin") /\ prev \in Current /\ ToCommands

VerifyDropin ==
    /\ ReadDropin \/ LinkDropin \/ CheckDropin
    /\ UNCHANGED <<disk, sshd, req, log, hist>>

-----------------------------------------------------------------------------
(* Everything else that happens on the host. *)

\* Between the rename and the end of the commands the new file is on disk
\* without being accepted: a helper that dies there leaves it behind.
InFlux == phase = "commit" /\ pc \in {"sync", "validate", "reload", "active", "restore"}

\* Another root process changes a managed file.
OutOfBandEdit ==
    \E e \in Edits :
        /\ dir[e[1]] \notin {"missing", "file"}
        /\ file' = [file EXCEPT ![e[1]] = e[2]]
        /\ quiet' = FALSE
        /\ sound' = FALSE
        /\ UNCHANGED <<durable, dir, sshd, ctl, entry, cmds>>

\* The job of a reload that timed out is run, or dropped.
LateReload ==
    /\ job
    /\ job' = FALSE
    /\ (active /\ Reloaded) \/ UNCHANGED <<loaded, active>>
    /\ UNCHANGED <<disk, ctl, hist>>

\* The service manager, or an administrator, starts sshd again.
SshdStart ==
    /\ ~active
    /\ View \notin Rejected
    /\ active' = TRUE
    /\ loaded' = View
    /\ UNCHANGED <<disk, job, ctl, hist>>

\* The helper is killed.  A systemctl it was waiting for may have queued its job.
Crash ==
    /\ pc # "down"
    /\ pc' = "down"
    /\ prev' = NoBody
    /\ reply' = NoReply
    /\ job' \in {job, pc = "reload" \/ job}
    /\ sound' = (sound /\ ~InFlux)
    /\ UNCHANGED <<disk, loaded, active, phase, req, log, entry, quiet, cmds>>

\* The host loses power and boots: a file is what was synced or what was last
\* written, and sshd starts if it accepts what it finds.
PowerLoss ==
    /\ file' \in {fs \in [Files -> {file[f] : f \in Files} \cup {durable[f] : f \in Files}] :
                    \A f \in Files : fs[f] \in {file[f], durable[f]}}
    /\ durable' = file'
    /\ job' = FALSE
    /\ active' = (ViewOf(file') \notin Rejected)
    /\ loaded' = IF active' THEN ViewOf(file') ELSE loaded
    /\ pc' = "down"
    /\ prev' = NoBody
    /\ reply' = NoReply
    /\ sound' = (sound /\ ~InFlux /\ file' = file)
    /\ UNCHANGED <<dir, phase, req, log, entry, quiet, cmds>>

\* systemd starts the helper again (Restart=on-failure): it has no state on disk.
Restart ==
    /\ pc = "down"
    /\ pc' = "idle"
    /\ UNCHANGED <<disk, sshd, phase, req, prev, reply, log, hist>>

HelperStep ==
    \/ EnsureDirectories \/ EnsureIncludePresent \/ CompareDropin \/ EnsureNotSymlink
    \/ CapturePrevious \/ Write \/ SyncDirectory \/ ValidateConfig \/ Reload \/ IsActive
    \/ RollbackPath \/ VerifyTrustedCa \/ VerifyDropin

World == OutOfBandEdit \/ LateReload \/ SshdStart \/ Crash \/ PowerLoss \/ Restart

Next == (\E r \in Requests : Dispatch(r)) \/ HelperStep \/ World

Spec == Init /\ [][Next]_vars

-----------------------------------------------------------------------------
(* Properties *)

Replied == pc = "idle" /\ reply # NoReply
Changing == req.op \in {"InstallSshdDropin", "ApplyTrustedCaKeys"}

\* Between requests, and when the helper is dead, the files on disk are ones
\* sshd accepts, as long as the last accepted state was only changed by the
\* helper and the helper neither died inside a commit nor had the restore or
\* the directory fsync of a write fail (ops.rs: a bad file is rolled back).
NoRejectedLeftBehind == pc \in {"idle", "down"} /\ sound => View \notin Rejected

\* A request that failed left the managed files with the contents they had
\* when it arrived, whichever step failed, unless the directory fsync of the
\* write or the restore itself failed (the rollback in ops.rs).
FailedRequestRestores ==
    Replied /\ ~reply.ok /\ quiet /\ phase # "unsynced" /\ log # "restoreFailed"
        => View = entry

\* Applied (or Ok, for the drop-in) means: the wanted file is in place with
\* its mode and on stable storage, and a running sshd has loaded just that.
AppliedIsLive ==
    Replied /\ reply.ok /\ Changing /\ reply.outcome # "NotModified" /\ quiet
        => /\ file[Target] = Regular(Wanted)
           /\ durable[Target] = file[Target]
           /\ loaded = View
           /\ active

\* A rollback that logged no error did not only restore the file: sshd runs
\* and has loaded the restored files again (rollback_path reloads).
SilentRollbackResyncs ==
    Replied /\ phase = "rollback" /\ log = "none" /\ quiet
        => View = entry /\ loaded = View /\ active

\* What VerifyState's Ok promises of the host: no managed file that can be
\* read is a link, writable by others, corrupt or drifted, sshd accepts the
\* files and runs (verify_state).
VerifySound ==
    Replied /\ reply.ok /\ req.op = "VerifyState" /\ quiet
        => /\ \A f \in Files : View[f] # NoBody =>
                file[f].kind = "file" /\ file[f].perm # "writable"
           /\ View["ca"] \in Parseable \cup {NoBody}
           /\ View["dropin"] \in Current \cup {NoBody}
           /\ View \notin Rejected
           /\ active

\* No request runs more than six commands, so six command timeouts bound the
\* time the single-threaded helper is away from its socket.
CommandBudget == cmds <= 6

\* The helper's own reload never takes a running sshd down: unless someone
\* else edits the files or a reload of an earlier request is still queued,
\* sshd only stops in a power cut (validate_reload_verify validates first).
ReloadNeverKillsSshd ==
    [][active /\ ~active' /\ quiet /\ ~job => pc' = "down"]_vars

-----------------------------------------------------------------------------
(* What the repository's comments and documents say and the code does not do. *)

\* protocol.rs on Outcome::RolledBack: "An apply failed and the previous file
\* was restored."
RolledBackMeansRestored ==
    Replied /\ reply.outcome = "RolledBack" /\ quiet => View["ca"] = entry["ca"]

\* README.md: the helper performs "only declarative, convergent operations":
\* a request that succeeded, NotModified included, left sshd with its file.
SuccessIsLive ==
    Replied /\ reply.ok /\ Changing /\ quiet => loaded[Target] = View[Target]

\* ops.rs: "It never leaves the host with an SSH configuration `sshd`
\* rejected.": not when the helper is started again either.
NeverRestartsOnRejected == pc = "idle" /\ reply = NoReply => View \notin Rejected

\* ops.rs on verify_state: "Beyond ownership/permission checks": a managed file
\* another user owns does not verify.
VerifyChecksOwnership ==
    Replied /\ reply.ok /\ req.op = "VerifyState" /\ quiet
        => \A f \in Files : View[f] # NoBody => file[f].perm # "foreign"

\* ops.rs on ensure_directories: "Ensure the managed directories exist with
\* safe ownership/permissions."
EnsuredMeansDirectories ==
    Replied /\ reply.ok /\ req.op = "EnsureDirectories" => \A f \in Files : dir[f] = "safe"
====
