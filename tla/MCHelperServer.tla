--------------------------- MODULE MCHelperServer ----------------------------
(***************************************************************************)
(* Values for the constants of HelperServer.                               *)
(***************************************************************************)
EXTENDS HelperServer

CONSTANTS t1, t2

Request(u, v, t) == [uid |-> u, frame |-> "request", current |-> v, token |-> t]

\* The agent with the token before and after a rotation, another member of the
\* group, an old client, and two that send no request.
MCMessages ==
    {Request("agent", TRUE, t1), Request("agent", TRUE, t2), Request("other", TRUE, t1),
     Request("agent", FALSE, t1),
     [uid |-> "agent", frame |-> "malformed", current |-> TRUE, token |-> t1],
     [uid |-> "other", frame |-> "stalled", current |-> TRUE, token |-> t1]}
=============================================================================
