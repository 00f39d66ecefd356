----------------------------- MODULE MCHelperOps -----------------------------
(***************************************************************************)
(* Values for the constants of HelperOps.                                  *)
(***************************************************************************)
EXTENDS HelperOps

CONSTANTS good, bad, junk, want, wantnl, blob

\* CA files: good, bad (parses, but sshd rejects it), junk (does not parse);
\* drop-ins: want (what the helper renders), wantnl (the same but for trailing
\* white space), blob (bytes that are not UTF-8).
MCBodies == {good, bad, junk, want, wantnl, blob}

\* sshd does not care for the CA file until a drop-in names it; then it rejects
\* a bad or a missing one.  It rejects a drop-in of binary bytes.
MCRejected ==
    {v \in Views : \/ v["dropin"] \in {want, wantnl} /\ v["ca"] \in {NoBody, bad}
                   \/ v["dropin"] = blob}

Pair(c, d) == [f \in Files |-> IF f = "ca" THEN c ELSE d]
Link(b) == [kind |-> "link", body |-> b, perm |-> "ok"]
Owned(b, p) == [kind |-> "file", body |-> b, perm |-> p]

\* A host before the first request, and one that was set up (the drop-in with
\* another trailing white space, as a template may have it).
FreshHost == Pair(Absent, Absent)
ServedHost == Pair(Regular(good), Regular(wantnl))
MCProvisioned == {FreshHost, ServedHost}
OnlyServed == {ServedHost}

SafeDirs == {Pair("safe", "safe")}
MCDirLayouts == {Pair("safe", "safe"), Pair("missing", "loose"), Pair("file", "link"),
                 Pair("missing", "file")}

NoEdits == {}
MCEdits == {<<"ca", Link(good)>>, <<"ca", Owned(good, "writable")>>,
            <<"dropin", Regular(blob)>>}
ForeignEdit == {<<"ca", Owned(good, "foreign")>>}
=============================================================================
