--------------------------- MODULE CommandRunner -----------------------------
(***************************************************************************)
(* SystemSshdControl::run (src/src/sshd_control.rs): one external command, *)
(* polled until it ends or its deadline passes, killed and reaped then,    *)
(* with its stderr read from a pipe once it has ended.  The command writes *)
(* to the pipe, leaves children of its own behind or hangs as it likes.    *)
(***************************************************************************)
EXTENDS Naturals

CONSTANTS
    Timeout,     \* command_timeout, in poll intervals
    MaxInstant,  \* the last Instant the clock can represent
    PipeCap,     \* what the stderr pipe holds
    MaxOutput    \* bound on what one command writes to stderr

ASSUME RunnerAssumption ==
    /\ Timeout \in Nat \ {0}     \* from_env drops a zero
    /\ MaxInstant \in Nat
    /\ PipeCap \in Nat /\ MaxOutput \in Nat

VARIABLES
    proc,      \* where run is; "panic" when the thread unwinds
    outcome,   \* the RunOutcome of the last call
    clock,     \* Instant::now(), from the start of the call
    child,     \* the child: "zombie" has exited and was not waited for
    code,      \* how it ended: on its own, with 0 or not, or by SIGKILL
    owes,      \* what it has still to write to stderr before it exits
    pipe,      \* what is in the pipe
    heirs      \* a descendant holds the pipe's write end

runner == <<proc, outcome>>
cmd == <<child, code, owes, heirs>>
vars == <<runner, clock, cmd, pipe>>

RunOutcome == {"Success", "Failed", "TimedOut"}
Deadline == Timeout
ClockCap == Timeout + 2   \* later instants are not told apart

TypeOK ==
    /\ proc \in {"ready", "tryWait", "late", "kill", "drain", "panic"}
    /\ outcome \in RunOutcome \cup {"none"}
    /\ clock \in 0..ClockCap
    /\ child \in {"none", "running", "zombie", "reaped"}
    /\ code \in {"none", "zero", "nonzero", "killed"}
    /\ owes \in 0..MaxOutput
    /\ pipe \in 0..PipeCap
    /\ heirs \in BOOLEAN

Init ==
    /\ proc = "ready" /\ outcome = "none"
    /\ clock = 0
    /\ child = "none" /\ code = "none" /\ owes = 0
    /\ pipe = 0
    /\ heirs = FALSE

Return(o) == proc' = "ready" /\ outcome' = o

\* The next command is spawned with a pipe of its own, or cannot be; then
\* Instant::now() + command_timeout, which panics past the last Instant.
Spawn ==
    /\ proc = "ready"
    /\ clock' = 0 /\ code' = "none" /\ pipe' = 0 /\ heirs' = FALSE
    /\ \/ /\ Return("Failed")
          /\ child' = "none" /\ owes' = 0
       \/ /\ proc' = IF Deadline <= MaxInstant THEN "tryWait" ELSE "panic"
          /\ outcome' = "none"
          /\ child' = "running" /\ owes' \in 0..MaxOutput

\* try_wait: it reaps a child that has exited.  An error also ends in a kill.
TryWait ==
    /\ proc = "tryWait"
    /\ \/ child = "zombie" /\ proc' = "drain" /\ child' = "reaped" /\ UNCHANGED outcome
       \/ child = "running" /\ proc' = "late" /\ UNCHANGED <<child, outcome>>
       \/ Return("Failed") /\ child' = "reaped"
    /\ code' = IF child = "running" /\ child' = "reaped" THEN "killed" ELSE code
    /\ UNCHANGED <<clock, owes, pipe, heirs>>

\* mutated form: the deadline is not looked at
NeverOverdue == FALSE
Overdue == clock >= Deadline

\* The nap between two polls is the clock's business.
CheckDeadline ==
    /\ proc = "late"
    /\ proc' = IF Overdue THEN "kill" ELSE "tryWait"
    /\ UNCHANGED <<outcome, clock, cmd, pipe>>

\* mutated form: the killed child is not waited for
Unreaped == "zombie"
WaitedFor == "reaped"

\* child.kill(); child.wait(): the child may have exited since the last poll.
KillAndWait ==
    /\ proc = "kill"
    /\ Return("TimedOut")
    /\ code' = IF child = "running" THEN "killed" ELSE code
    /\ child' = WaitedFor
    /\ UNCHANGED <<clock, owes, pipe, heirs>>

\* mutated form: a command that ended has succeeded
EndedOutcome == "Success"
StatusOutcome == IF code = "zero" THEN "Success" ELSE "Failed"

\* read_child_stderr: read_to_string returns at the end of file, which comes
\* when the last writer has closed the pipe.
ReadChildStderr ==
    /\ proc = "drain"
    /\ ~heirs
    /\ pipe' = 0
    /\ Return(StatusOutcome)
    /\ UNCHANGED <<clock, cmd>>

-----------------------------------------------------------------------------
(* The command *)

ChildWrites ==
    /\ child = "running" /\ owes > 0 /\ pipe < PipeCap
    /\ owes' = owes - 1 /\ pipe' = pipe + 1
    /\ UNCHANGED <<runner, clock, child, code, heirs>>

ChildForks ==
    /\ child = "running" /\ ~heirs
    /\ heirs' = TRUE
    /\ UNCHANGED <<runner, clock, child, code, owes, pipe>>

ChildExits ==
    /\ child = "running" /\ owes = 0
    /\ child' = "zombie"
    /\ code' \in {"zero", "nonzero"}
    /\ UNCHANGED <<runner, clock, owes, pipe, heirs>>

HeirExits ==
    /\ heirs
    /\ heirs' = FALSE
    /\ UNCHANGED <<runner, clock, child, code, owes, pipe>>

Tick ==
    /\ proc # "ready" /\ clock < ClockCap
    /\ clock' = clock + 1
    /\ UNCHANGED <<runner, cmd, pipe>>

RunStep == TryWait \/ CheckDeadline \/ KillAndWait \/ ReadChildStderr

Next ==
    \/ Spawn \/ RunStep \/ Tick
    \/ ChildWrites \/ ChildForks \/ ChildExits \/ HeirExits

\* The helper runs and time passes; of the command nothing is assumed ...
Spec == Init /\ [][Next]_vars
FairSpec == Spec /\ WF_vars(RunStep) /\ WF_vars(Tick)
\* ... or only that what it leaves behind does not live for ever.
OrderlySpec == FairSpec /\ WF_vars(HeirExits)

-----------------------------------------------------------------------------
(* Properties *)

\* run reports what happened: Success only of a command that ended by itself
\* with status 0, whatever it did to its stderr, and TimedOut never before the
\* deadline (the verdict the operations and their rollback act on).
OutcomeIsTrue ==
    /\ outcome = "Success" => code = "zero"
    /\ outcome = "TimedOut" => clock >= Deadline

\* Whichever way run returns, no child of the helper is left running and none
\* as a zombie (kill is always followed by wait).
NoChildLeft == proc = "ready" => child \in {"none", "reaped"}

\* sshd_control.rs on the timeout: "A hung child is killed and treated as a
\* failure so it can never pin the single-threaded helper loop."  It holds
\* when descendants of commands let go of the pipe in the end, also for a
\* command that hangs, or blocks because it has filled the pipe.
RunReturns == proc = "tryWait" ~> proc = "ready"

\* ops.rs on dispatch: "every failure is mapped to a fixed, non-sensitive
\* `Response` so the server can always reply": running a command does not
\* unwind the thread.
NeverPanics == proc # "panic"
=============================================================================
