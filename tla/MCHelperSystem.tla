--------------------------- MODULE MCHelperSystem ----------------------------
(***************************************************************************)
(* Values for the constants of HelperSystem: a host with a drop-in, and    *)
(* three CA files one of which sshd rejects.                               *)
(***************************************************************************)
EXTENDS HelperSystem

CONSTANTS old, new, bad, want

MCBodies == {old, new, bad, want}
MCRejected == {v \in Views : v["dropin"] = want /\ v["ca"] \in {NoBody, bad}}
MCProvisioned == {[f \in Files |-> Regular(IF f = "ca" THEN old ELSE want)]}
MCDirLayouts == {[f \in Files |-> "safe"]}
NoEdits == {}
=============================================================================
