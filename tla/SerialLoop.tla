------------------------------ MODULE SerialLoop -----------------------------
(***************************************************************************)
(* What the accept loop of server.rs promises: clients are taken in the    *)
(* order they came, one at a time, each until it is done, and a helper     *)
(* that goes down hangs up on all of them.  HelperServer implements it     *)
(* with its connections, HelperSystem with the agent's requests.           *)
(***************************************************************************)
EXTENDS Sequences

CONSTANTS
    Clients,
    None      \* nobody is being served

VARIABLES
    queue,    \* those who wait, in the order they came
    current   \* the one being served

Init == queue = <<>> /\ current = None

Arrive(c) == queue' = Append(queue, c) /\ UNCHANGED current
Take ==
    /\ current = None /\ queue # <<>>
    /\ current' = Head(queue) /\ queue' = Tail(queue)
Finish == current # None /\ current' = None /\ UNCHANGED queue
HangUp == queue' = <<>> /\ current' = None

Next == (\E c \in Clients : Arrive(c)) \/ Take \/ Finish \/ HangUp

Spec == Init /\ [][Next]_<<queue, current>>
=============================================================================
