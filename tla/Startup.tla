------------------------------- MODULE Startup -------------------------------
(***************************************************************************)
(* The start of the helper (src/src/bin/mayfly-helper.rs), call by call,   *)
(* while an operator replaces the capability token the way the README      *)
(* describes.  The helper and the agent each read the token once, when     *)
(* they start, so that the two may disagree; load_token checks the path    *)
(* three times before it reads it, so that the file may change in between. *)
(* The names differ from those of HelperServer, whose Start this is, so    *)
(* that one module can extend both.                                        *)
(***************************************************************************)
EXTENDS Integers

CONSTANTS
    Lengths,       \* token lengths of the files that may be found
    MaxRotations,  \* bound on token rotations
    MaxFaults      \* bound on crashes and I/O errors of the helper

ASSUME StartupAssumption ==
    Lengths \subseteq Nat /\ MaxRotations \in Nat /\ MaxFaults \in Nat

Bits == {"ur", "uw", "gr", "gw", "or"}   \* permission bits told apart
Unset == -1
Garbled == -2     \* set to something that is no number
AgentUid == 1000
DefaultTimeout == 15

\* What is at the token path; the fields of a link are its target's.
TokenFile == [kind : {"file", "link", "none"}, owner : {"root", "other"},
              mode : SUBSET Bits, len : Lengths \cup {64}, id : 0..MaxRotations]
Environment == [euid : {0, AgentUid}, allowed_uid : {Unset, Garbled, AgentUid},
                timeout : {Unset, Garbled, 0, 5}]

VARIABLES
    pc,        \* the helper's next call (symlink, owner, mode, read, config, serve), or "down"
    file,      \* the token path
    staged,    \* helper.token.new
    op,        \* the operator's next command
    loaded,    \* the token the helper serves, and the file it came from
    agent,     \* the id of the token the agent uses
    env,       \* the user and the environment the helper is run with
    config,    \* what the helper has made of it
    faults     \* how often the helper has died, up to MaxFaults

bootVars == <<pc, file, staged, op, loaded, agent, env, config, faults>>

NoConfig == [uids |-> {}, enforced |-> FALSE, timeout |-> DefaultTimeout]

\* Whatever an earlier installation left behind, good or not.
BootInit ==
    /\ pc = "down" /\ op = "idle" /\ faults = 0
    /\ file \in [kind : {"file", "link", "none"}, owner : {"root", "other"},
                 mode : {{"ur", "uw"}, {"ur", "uw", "gr"}, {"ur", "uw", "gr", "gw"},
                         {"ur", "uw", "gr", "or"}},
                 len : Lengths, id : {0}]
    /\ staged = [file EXCEPT !.kind = "none"]
    /\ loaded = [file EXCEPT !.kind = "none"]
    /\ agent = 0
    /\ env \in Environment
    /\ config = NoConfig

-----------------------------------------------------------------------------
(* load_token *)

Step(from, holds, to) ==
    /\ pc = from
    /\ pc' = IF holds THEN to ELSE "down"
    /\ UNCHANGED <<file, staged, op, agent, env, faults>>

ValidRoot == env.euid = 0
Launch ==
    /\ Step("down", ValidRoot, "symlink")
    /\ config' = NoConfig
    /\ UNCHANGED loaded

\* A path where nothing is is no symlink.
EnsureNotSymlink == Step("symlink", file.kind # "link", "owner") /\ UNCHANGED <<loaded, config>>

OwnedByRoot == file.owner = "root"
EnsureOwnedByRoot ==
    Step("owner", file.kind # "none" /\ OwnedByRoot, "mode") /\ UNCHANGED <<loaded, config>>

Allowed == {"ur", "uw", "gr"}   \* 0640
\* mutated form: the bits every allowed file has are asked for, no others refused
HasAllowed == Allowed \ {"gr"} \subseteq file.mode
\* mode & !allowed == 0
ModeAtMost == file.mode \subseteq Allowed
ValidateMode ==
    Step("mode", file.kind # "none" /\ ModeAtMost, "read") /\ UNCHANGED <<loaded, config>>

MIN_TOKEN_LEN == 32
\* mutated form: the 32 bytes are taken for 65 characters, with a newline
WithNewline == file.len >= 2 * MIN_TOKEN_LEN + 1
\* Of the trimmed contents; the empty token is refused as well.
LongEnough == file.len # 0 /\ file.len >= MIN_TOKEN_LEN
ReadToken ==
    /\ Step("read", file.kind # "none" /\ LongEnough, "config")
    /\ loaded' = IF pc' = "config" THEN file ELSE loaded
    /\ UNCHANGED config

-----------------------------------------------------------------------------
(* The rest of run: the environment, then the server *)

\* v.trim().parse().ok()
Parsed(v) == IF v = Garbled THEN Unset ELSE v

UsableTimeout(v) == v > 0

peer_policy(v) ==
    [uids |-> IF Parsed(v) = Unset THEN {} ELSE {Parsed(v), 0}, enforced |-> Parsed(v) # Unset]
command_timeout(v) == IF UsableTimeout(Parsed(v)) THEN Parsed(v) ELSE DefaultTimeout

Configure ==
    /\ Step("config", TRUE, "serve")
    /\ config' = [uids |-> peer_policy(env.allowed_uid).uids,
                  enforced |-> peer_policy(env.allowed_uid).enforced,
                  timeout |-> command_timeout(env.timeout)]
    /\ UNCHANGED loaded

\* An I/O error of a call, a crash: the unit has Restart=on-failure.
Die ==
    /\ pc # "down" /\ faults < MaxFaults
    /\ pc' = "down" /\ faults' = faults + 1
    /\ UNCHANGED <<file, staged, op, loaded, agent, env, config>>

-----------------------------------------------------------------------------
(* The operator: README, "Capability token rotation" *)

Command(from, to) == op = from /\ op' = to /\ UNCHANGED <<loaded, env, config, faults>>

\* head -c 32 /dev/urandom | ... > helper.token.new, under some umask
WriteNew ==
    /\ Command("idle", "chown")
    /\ file.id < MaxRotations
    /\ \E m \in {{"ur", "uw"}, {"ur", "uw", "gr", "or"}} :
            staged' = [kind |-> "file", owner |-> "root", mode |-> m, len |-> 64, id |-> file.id + 1]
    /\ UNCHANGED <<pc, file, agent>>
Chown == Command("chown", "chmod") /\ UNCHANGED <<pc, file, staged, agent>>
Chmod ==
    /\ Command("chmod", "mv")
    /\ staged' = [staged EXCEPT !.mode = Allowed]
    /\ UNCHANGED <<pc, file, agent>>
Move ==
    /\ Command("mv", "restartHelper")
    /\ file' = staged /\ staged' = [staged EXCEPT !.kind = "none"]
    /\ UNCHANGED <<pc, agent>>
\* systemctl restart does not wait until the helper listens.
RestartHelper ==
    /\ Command("restartHelper", "restartAgent")
    /\ pc' = "down"
    /\ UNCHANGED <<file, staged, agent>>
RestartAgent ==
    /\ Command("restartAgent", "idle")
    /\ agent' = file.id
    /\ UNCHANGED <<pc, file, staged>>

Helper == \/ Launch \/ EnsureNotSymlink \/ EnsureOwnedByRoot \/ ValidateMode
          \/ ReadToken \/ Configure
Finishing == Chown \/ Chmod \/ Move \/ RestartHelper \/ RestartAgent

BootNext == Helper \/ Die \/ WriteNew \/ Finishing

\* The helper runs, and is started again by systemd; an operator who has begun
\* a rotation finishes it.
BootSpec == BootInit /\ [][BootNext]_bootVars /\ WF_bootVars(Helper) /\ WF_bootVars(Finishing)

-----------------------------------------------------------------------------
(* Properties *)

Trusted(f) ==
    /\ f.kind = "file" /\ f.owner = "root" /\ f.len >= MIN_TOKEN_LEN
    /\ \A b \in {"gw", "or"} : b \notin f.mode

\* The token the helper serves came from a file that is no symlink, root's,
\* neither group-writable nor open to others, and long enough, though it may
\* not be the file any of the checks looked at: the README's rotation puts only
\* a finished file at the path (load_token, "rejected fail-closed").
ServedTokenTrusted == pc \in {"config", "serve"} => Trusted(loaded)

\* The helper and the agent end up with the same token, whenever the helper
\* died and was started again between the steps of a rotation, unless the file
\* was never one to trust or the helper not run as root (token read once at start-up; "rotate atomically").
TokensConverge ==
    <>[](pc = "serve" /\ loaded.id = agent) \/ []~(Trusted(file) /\ ValidRoot)

-----------------------------------------------------------------------------
(* What the repository's documents say and the code does not do. *)

\* README on MAYFLY_HELPER_ALLOWED_UID: "fail-closed when enforced, and disabled
\* with a startup warning when unset"; the binary: "When unset, uid pinning is
\* disabled": a helper whose unit sets the variable pins the peer's uid.
SetMeansPinned == pc = "serve" /\ env.allowed_uid # Unset => config.enforced
=============================================================================
