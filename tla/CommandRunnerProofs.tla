------------------------- MODULE CommandRunnerProofs -------------------------
(***************************************************************************)
(* Proofs about CommandRunner, for any timeout, pipe and output.           *)
(***************************************************************************)
EXTENDS CommandRunner, TLAPS

\* What run knows of the child at each of its steps.
Progress ==
    /\ proc \in {"tryWait", "late", "kill", "drain", "panic"} => outcome = "none"
    /\ proc = "kill" => clock >= Deadline
    /\ proc = "drain" => child = "reaped"

IInv == TypeOK /\ Progress /\ OutcomeIsTrue /\ NoChildLeft

\* No command has been run yet.
LEMMA InitIInv == Init => IInv
<1> SUFFICES ASSUME Init PROVE IInv
  OBVIOUS
<1>1. clock \in 0..ClockCap /\ owes \in 0..MaxOutput /\ pipe \in 0..PipeCap
  BY RunnerAssumption DEF Init, ClockCap
<1>2. TypeOK
  BY <1>1 DEF Init, TypeOK
<1>3. Progress /\ OutcomeIsTrue /\ NoChildLeft
  BY DEF Init, Progress, OutcomeIsTrue, NoChildLeft
<1> QED
  BY <1>2, <1>3 DEF IInv

\* A step of run itself: spawn, poll, deadline, kill, drain.
LEMMA RunStepIInv == IInv /\ (Spawn \/ RunStep) => IInv'
<1> SUFFICES ASSUME IInv, Spawn \/ RunStep PROVE IInv'
  OBVIOUS
<1> USE RunnerAssumption DEF IInv, TypeOK, Progress, OutcomeIsTrue, NoChildLeft,
        RunOutcome, Deadline, ClockCap, Return, cmd
<1>1. CASE Spawn
  <2>1. clock' = 0 /\ pipe' = 0 /\ owes' \in 0..MaxOutput
    BY <1>1 DEF Spawn
  <2>2. clock' \in 0..ClockCap /\ pipe' \in 0..PipeCap
    BY <2>1
  <2>3. CASE Return("Failed") /\ child' = "none"
    BY <1>1, <2>1, <2>2, <2>3 DEF Spawn
  <2>4. CASE proc' \in {"tryWait", "panic"} /\ outcome' = "none" /\ child' = "running"
    BY <1>1, <2>1, <2>2, <2>4 DEF Spawn
  <2> QED
    BY <1>1, <2>3, <2>4 DEF Spawn
<1>2. CASE TryWait
  BY <1>2 DEF TryWait
<1>3. CASE CheckDeadline
  BY <1>3 DEF CheckDeadline, Overdue
<1>4. CASE KillAndWait
  BY <1>4 DEF KillAndWait, WaitedFor
<1>5. CASE ReadChildStderr
  BY <1>5 DEF ReadChildStderr, StatusOutcome
<1> QED
  BY <1>1, <1>2, <1>3, <1>4, <1>5 DEF RunStep

\* A step of the command, of what it leaves behind, or of the clock.
LEMMA CommandIInv ==
    IInv /\ (Tick \/ ChildWrites \/ ChildForks \/ ChildExits \/ HeirExits) => IInv'
<1> SUFFICES ASSUME IInv, Tick \/ ChildWrites \/ ChildForks \/ ChildExits \/ HeirExits
             PROVE  IInv'
  OBVIOUS
<1> USE RunnerAssumption DEF IInv, TypeOK, Progress, OutcomeIsTrue, NoChildLeft,
        RunOutcome, Deadline, ClockCap, runner, cmd
<1>1. CASE Tick
  BY <1>1 DEF Tick
<1>2. CASE ChildWrites
  BY <1>2 DEF ChildWrites
<1>3. CASE ChildForks
  BY <1>3 DEF ChildForks
<1>4. CASE ChildExits
  BY <1>4 DEF ChildExits
<1>5. CASE HeirExits
  BY <1>5 DEF HeirExits
<1> QED
  BY <1>1, <1>2, <1>3, <1>4, <1>5

\* The invariant holds of every behaviour of run and of the command.
LEMMA Inductive == Spec => []IInv
<1>1. IInv /\ [Next]_vars => IInv'
  <2> SUFFICES ASSUME IInv, [Next]_vars PROVE IInv'
    OBVIOUS
  <2>1. CASE UNCHANGED vars
    BY <2>1 DEF vars, runner, cmd, IInv, TypeOK, Progress, OutcomeIsTrue, NoChildLeft
  <2> QED
    BY <2>1, RunStepIInv, CommandIInv DEF Next
<1> QED
  BY InitIInv, <1>1, PTL DEF Spec

\* The variables of CommandRunner keep their types.
THEOREM RunnerTypes == Spec => []TypeOK
<1>1. IInv => TypeOK
  BY DEF IInv
<1> QED
  BY Inductive, <1>1, PTL

\* Whatever the command does, and for every timeout: Success is only said of a
\* command that ended with 0, TimedOut not before the deadline (run).
THEOREM OutcomeNeverLies == Spec => []OutcomeIsTrue
<1>1. IInv => OutcomeIsTrue
  BY DEF IInv
<1> QED
  BY Inductive, <1>1, PTL

\* run returns with no child running and no zombie, for every timeout.
THEOREM AlwaysReaped == Spec => []NoChildLeft
<1>1. IInv => NoChildLeft
  BY DEF IInv
<1> QED
  BY Inductive, <1>1, PTL

-----------------------------------------------------------------------------
(* How far run has come: what RunReturns rests on besides fairness.          *)

\* Steps run may still take once the deadline has passed.
StepsLeft ==
    IF proc = "tryWait" THEN 3
    ELSE IF proc = "late" THEN 2
    ELSE IF proc \in {"kill", "drain"} THEN 1
    ELSE 0

\* read_child_stderr waits: a descendant of the command has the pipe open.
Held == proc = "drain" /\ heirs

\* Once the deadline has passed the poll does not start over: a command that has
\* not ended by then is killed, and run returns without reading its pipe, whoever
\* holds it; of one that has ended only the pipe is left to read.  This bounds the
\* steps of run and not the time: the last one waits as long as a descendant
\* holds the pipe, for ever if it must (CommandPinned.cfg).
THEOREM PollEndsAtDeadline ==
    Spec => [][Overdue =>
                 /\ StepsLeft \in 0..3
                 /\ RunStep => StepsLeft' < StepsLeft /\ ~Held
                 /\ RunStep /\ proc = "late" => proc' = "kill"
                 /\ RunStep /\ proc = "kill" => proc' = "ready" /\ outcome' = "TimedOut"
                 /\ (Overdue' /\ StepsLeft' <= StepsLeft) \/ proc = "ready"]_vars
<1> DEFINE Ends ==
        /\ StepsLeft \in 0..3
        /\ RunStep => StepsLeft' < StepsLeft /\ ~Held
        /\ RunStep /\ proc = "late" => proc' = "kill"
        /\ RunStep /\ proc = "kill" => proc' = "ready" /\ outcome' = "TimedOut"
        /\ (Overdue' /\ StepsLeft' <= StepsLeft) \/ proc = "ready"
<1>1. ASSUME TypeOK, Next, Overdue PROVE Ends
  <2>1. StepsLeft \in 0..3 /\ StepsLeft' \in 0..3
    BY DEF StepsLeft
  <2>2. RunStep => StepsLeft' < StepsLeft
    BY <1>1 DEF RunStep, TryWait, CheckDeadline, KillAndWait, ReadChildStderr, Return, StepsLeft
  <2>3. RunStep => ~Held
    BY DEF RunStep, TryWait, CheckDeadline, KillAndWait, ReadChildStderr, Held
  <2>4. RunStep /\ proc = "late" => proc' = "kill"
    BY <1>1 DEF RunStep, TryWait, CheckDeadline, KillAndWait, ReadChildStderr
  <2>5. RunStep /\ proc = "kill" => proc' = "ready" /\ outcome' = "TimedOut"
    BY DEF RunStep, TryWait, CheckDeadline, KillAndWait, ReadChildStderr, Return
  <2>6. (Overdue' /\ StepsLeft' <= StepsLeft) \/ proc = "ready"
    <3>1. CASE Spawn
      BY <3>1 DEF Spawn
    <3>2. CASE RunStep
      <4>1. clock' = clock
        BY <3>2 DEF RunStep, TryWait, CheckDeadline, KillAndWait, ReadChildStderr
      <4> QED
        BY <1>1, <2>1, <2>2, <3>2, <4>1 DEF Overdue, Deadline
    <3>3. CASE Tick \/ ChildWrites \/ ChildForks \/ ChildExits \/ HeirExits
      <4>1. proc' = proc /\ clock' \in {clock, clock + 1}
        BY <3>3 DEF Tick, ChildWrites, ChildForks, ChildExits, HeirExits, runner
      <4>2. StepsLeft' = StepsLeft
        BY <4>1 DEF StepsLeft
      <4>3. Overdue'
        BY <1>1, <4>1, RunnerAssumption DEF Overdue, Deadline, TypeOK, ClockCap
      <4> QED
        BY <2>1, <4>2, <4>3
    <3> QED
      BY <1>1, <3>1, <3>2, <3>3 DEF Next
  <2> QED
    BY <2>1, <2>2, <2>3, <2>4, <2>5, <2>6
<1>2. IInv /\ [Next]_vars => [Overdue => Ends]_vars
  BY <1>1 DEF IInv
<1> QED
  BY Inductive, <1>2, PTL DEF Spec
=============================================================================
