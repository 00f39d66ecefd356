---------------------------- MODULE HelperSystem -----------------------------
(***************************************************************************)
(* The agent, the socket's queue and the operations together: HelperOps    *)
(* fed by the accept loop of HelperServer.  The agent gives up on a slow   *)
(* answer and sends something newer; what it gave up on stays in the       *)
(* queue, is taken in its turn and run, with nobody to answer to           *)
(* (src/src/server.rs).  A crash of the helper empties the queue.          *)
(***************************************************************************)
EXTENDS HelperOps, Sequences, SequencesExt

CONSTANTS
    MaxSends,    \* bound on the requests the agent sends
    MaxOutages   \* bound on crashes and power cuts

ASSUME SystemAssumption == MaxSends \in Nat /\ MaxOutages \in Nat

VARIABLES
    sent,     \* the requests sent, in order
    inbox,    \* those in the listen queue, by number
    serving,  \* the one the helper has taken, 0 for none
    waiting,  \* the one whose answer the agent waits for, 0 for none
    answer,   \* the last answer the agent got, and to which request
    outages

channel == <<sent, inbox, serving, waiting, answer>>

NoAnswer == [to |-> 0, reply |-> NoReply]

SystemInit ==
    /\ Init
    /\ sent = <<>> /\ inbox = <<>> /\ serving = 0 /\ waiting = 0
    /\ answer = NoAnswer
    /\ outages = 0

\* The agent connects and writes its request; it gives up on the one before.
Send(r) ==
    /\ pc # "down"
    /\ Len(sent) < MaxSends
    /\ sent' = Append(sent, r)
    /\ inbox' = Append(inbox, Len(sent'))
    /\ waiting' = Len(sent')
    /\ UNCHANGED <<vars, serving, answer, outages>>

\* mutated form: the newest connection first
NewestAt == Len(inbox)
\* listener.accept() takes the oldest connection.
OldestAt == 1

\* The loop takes the next connection, whether or not its peer is still there.
Take ==
    /\ pc = "idle" /\ serving = 0 /\ inbox # <<>>
    /\ serving' = inbox[OldestAt]
    /\ inbox' = RemoveAt(inbox, OldestAt)
    /\ Dispatch(sent[serving'])
    /\ UNCHANGED <<sent, waiting, answer, outages>>

\* The operation is over: the response is written, to an agent that waits for
\* it or to a connection nobody reads.
Respond ==
    /\ pc = "idle" /\ serving # 0
    /\ serving' = 0
    /\ answer' = IF waiting = serving THEN [to |-> serving, reply |-> reply] ELSE answer
    /\ waiting' = IF waiting = serving THEN 0 ELSE waiting
    /\ UNCHANGED <<vars, sent, inbox, outages>>

Operate == HelperStep /\ UNCHANGED <<channel, outages>>
Host == (LateReload \/ SshdStart) /\ UNCHANGED <<channel, outages>>
Restarted == Restart /\ UNCHANGED <<channel, outages>>

\* The helper dies: every connection is reset.
Outage ==
    /\ outages < MaxOutages /\ outages' = outages + 1
    /\ Crash \/ PowerLoss
    /\ inbox' = <<>> /\ serving' = 0 /\ waiting' = 0
    /\ UNCHANGED <<sent, answer>>

\* The one thread of the helper.
ServerLoop == Take \/ Operate \/ Respond

SystemNext == (\E r \in Requests : Send(r)) \/ ServerLoop \/ Host \/ Restarted \/ Outage

systemVars == <<vars, channel, outages>>
\* Each step of a handler is a system call or a command killed at its deadline,
\* so a live helper takes it; and systemd restarts a dead one.
SystemSpec ==
    /\ SystemInit /\ [][SystemNext]_systemVars
    /\ WF_systemVars(ServerLoop) /\ WF_systemVars(Restarted)

-----------------------------------------------------------------------------
(* Properties *)

\* An apply the agent was told is Applied is in the file, and stays in it until
\* the agent asks for something else: no request it gave up on earlier and
\* no rollback of one comes after it, and neither a crash nor a power cut
\* takes it back (one connection at a time, in order; fsync before the answer).
AppliedStays ==
    answer.reply.outcome = "Applied" /\ answer.to = Len(sent)
        => View["ca"] = sent[answer.to].content

\* Nobody waits for ever: a request the agent waits for is answered, given up
\* for a newer one or cut off by a crash, behind whatever other requests and
\* rollbacks it had to queue (the loop serves one at a time, and no operation
\* and no rollback goes on for ever).
EveryRequestEnds == \A n \in 1..MaxSends : waiting = n ~> waiting # n
=============================================================================
