----------------------------- MODULE AtomicFile ------------------------------
(***************************************************************************)
(* What the operations of ops.rs count on when they replace a file: a      *)
(* value that changes in one step, and that after a power cut is the last  *)
(* one written or the last one synced, never anything else.                *)
(***************************************************************************)
CONSTANTS Values

VARIABLES
    value,   \* what a reader of the path sees
    stable   \* what is safely on storage

Init == value \in Values /\ stable = value

\* The path gets a new value, or is removed, in one step.
Replace(v) == value' = v /\ UNCHANGED stable
Sync == stable' = value /\ UNCHANGED value
PowerCut == value' \in {value, stable} /\ stable' = value'

Next == (\E v \in Values : Replace(v)) \/ Sync \/ PowerCut

Spec == Init /\ [][Next]_<<value, stable>>
=============================================================================
