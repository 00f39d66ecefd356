----------------------------- MODULE SecureWrite -----------------------------
(***************************************************************************)
(* security::secure_write and atomic_replace (src/src/security.rs), system *)
(* call by system call, with the removal ops.rs uses for a file that did   *)
(* not exist before.  Any call can fail, the process can be killed and the *)
(* host can lose power between any two of them.                            *)
(***************************************************************************)
EXTENDS Naturals

CONSTANTS
    Contents,    \* what may be written
    None,        \* no file, no temporary file, no request
    Torn,        \* data that is not whole: not all written, or lost before storage
    MaxOrphans   \* bound on the temporary files left behind

ASSUME OrphanBound == MaxOrphans \in Nat

\* A file: its data, whether its mode is the one asked for (a temporary file
\* starts out with mode 0600) and whether its data is on storage.
Data == Contents \cup {Torn}
Inode == [data : Data, moded : BOOLEAN, synced : BOOLEAN]
Complete(c) == [data |-> c, moded |-> TRUE, synced |-> TRUE]

ASSUME SentinelAssumption == None \notin Contents \cup Inode /\ Torn \notin Contents

VARIABLES
    dst,      \* the file at the destination path, or None
    sdst,     \* the one the directory on storage names
    tmp,      \* the temporary file, or None
    pc,       \* the next call
    arg,      \* the contents to write
    armed,    \* dropping tmp deletes it (NamedTempFile before keep)
    result,   \* how the last call of secure_write ended
    orphans   \* temporary files nobody will delete

vars == <<dst, sdst, tmp, pc, arg, armed, result, orphans>>

Steps == {"idle", "chmod", "write", "fsync", "keep", "rename", "fsyncDir"}

TypeOK ==
    /\ dst \in Inode \cup {None}
    /\ sdst \in Inode \cup {None}
    /\ tmp \in Inode \cup {None}
    /\ pc \in Steps
    /\ arg \in Contents \cup {None}
    /\ armed \in BOOLEAN
    /\ result \in {"none", "ok", "err"}
    /\ orphans \in 0..MaxOrphans

Init ==
    /\ dst \in {None} \cup {Complete(c) : c \in Contents}
    /\ sdst = dst
    /\ tmp = None
    /\ pc = "idle"
    /\ arg = None
    /\ armed = FALSE
    /\ result = "none"
    /\ orphans = 0

\* A leftover is counted; the bound is a limit of the model, not of the code.
Leave == orphans < MaxOrphans /\ orphans' = orphans + 1

\* The `?` after a call: the function returns, and tmp is dropped, which
\* deletes the file as long as it is armed.
Fail ==
    /\ pc' = "idle"
    /\ result' = "err"
    /\ tmp' = None
    /\ armed' = FALSE
    /\ IF tmp # None /\ ~armed THEN Leave ELSE UNCHANGED orphans
    /\ UNCHANGED <<dst, sdst, arg>>

-----------------------------------------------------------------------------
\* mutated form: a temporary file that does not delete itself
PlainFile == FALSE
\* NamedTempFile deletes its file when it is dropped.
SelfDeleting == TRUE

\* secure_write(path, c, mode): NamedTempFile::new_in(parent).
Begin(c) ==
    /\ pc = "idle"
    /\ arg' = c
    /\ \/ /\ tmp' = [data |-> Torn, moded |-> FALSE, synced |-> FALSE]
          /\ armed' = SelfDeleting
          /\ pc' = "chmod"
          /\ result' = "none"
       \/ result' = "err" /\ UNCHANGED <<tmp, armed, pc>>
    /\ UNCHANGED <<dst, sdst, orphans>>

SetPermissions ==
    /\ pc = "chmod"
    /\ \/ tmp' = [tmp EXCEPT !.moded = TRUE] /\ pc' = "write"
          /\ UNCHANGED <<dst, sdst, arg, armed, result, orphans>>
       \/ Fail

\* mutated form: the data is renamed into place without having been synced
WriteAllNoSync == "keep"
\* sync_all comes before keep and the rename.
AfterWriteAll == "fsync"

\* mutated form: no contents reach the temporary file
NoPayload == None
Payload == arg

\* write_all: an error leaves part of the data in a file that is then deleted.
WriteAll ==
    /\ pc = "write"
    /\ \/ tmp' = [tmp EXCEPT !.data = Payload] /\ pc' = AfterWriteAll
          /\ UNCHANGED <<dst, sdst, arg, armed, result, orphans>>
       \/ Fail

SyncAll ==
    /\ pc = "fsync"
    /\ \/ tmp' = [tmp EXCEPT !.synced = TRUE] /\ pc' = "keep"
          /\ UNCHANGED <<dst, sdst, arg, armed, result, orphans>>
       \/ Fail

Keep ==
    /\ pc = "keep"
    /\ \/ armed' = FALSE /\ pc' = "rename"
          /\ UNCHANGED <<dst, sdst, tmp, arg, result, orphans>>
       \/ Fail

\* atomic_replace.  Nothing deletes the temporary file of a rename that fails.
Rename ==
    /\ pc = "rename"
    /\ \/ dst' = tmp /\ tmp' = None /\ pc' = "fsyncDir"
          /\ UNCHANGED <<sdst, arg, armed, result, orphans>>
       \/ Fail

\* mutated form: the rename is not made durable
NotSynced == sdst
Synced == dst

FsyncDir ==
    /\ pc = "fsyncDir"
    /\ \/ sdst' = Synced /\ pc' = "idle" /\ result' = "ok"
          /\ UNCHANGED <<dst, tmp, arg, armed, orphans>>
       \/ Fail

\* remove_optional: no directory fsync.
Remove ==
    /\ pc = "idle"
    /\ dst' = None
    /\ result' = "none"
    /\ UNCHANGED <<sdst, tmp, pc, arg, armed, orphans>>

-----------------------------------------------------------------------------
\* The process is killed: no destructor runs.
Crash ==
    /\ pc # "idle"
    /\ pc' = "idle"
    /\ result' = "none"
    /\ tmp' = None
    /\ armed' = FALSE
    /\ IF tmp # None THEN Leave ELSE UNCHANGED orphans
    /\ UNCHANGED <<dst, sdst, arg>>

\* What a power cut leaves of a file: unsynced data may be lost.
Survives(n) ==
    IF n = None \/ n.synced THEN {n} ELSE {n, [n EXCEPT !.data = Torn]}

\* Power is lost: the path is what the directory on storage, or the one in
\* memory, named.
PowerLoss ==
    /\ dst' \in Survives(dst) \cup Survives(sdst)
    /\ sdst' = dst'
    /\ pc' = "idle"
    /\ result' = "none"
    /\ tmp' = None
    /\ armed' = FALSE
    /\ \/ tmp # None /\ Leave
       \/ UNCHANGED orphans
    /\ UNCHANGED arg

Next ==
    \/ \E c \in Contents : Begin(c)
    \/ SetPermissions \/ WriteAll \/ SyncAll \/ Keep \/ Rename \/ FsyncDir
    \/ Remove \/ Crash \/ PowerLoss

Spec == Init /\ [][Next]_vars

-----------------------------------------------------------------------------
(* Properties *)

\* Whoever opens the path, at any time and after any crash, gets no file or
\* one whole file that was written on purpose, with the mode asked for: the
\* contents are moved into place only once they are complete and synced.
NeverTornAtPath ==
    \A n \in {dst, sdst} : n # None => n.data # Torn /\ n.moded

\* secure_write returned Ok: the contents are in place, and on storage.
OkIsDurable == result = "ok" => dst = Complete(arg) /\ sdst = dst

\* A temporary file is left in the managed directory only by a process that
\* was killed or by a rename that failed, not by a full disk, a failed write
\* or a failed fsync (NamedTempFile deletes itself until keep).
LeftoversOnlyFromRename ==
    [][orphans' > orphans /\ result' = "err" => pc = "rename"]_vars

\* The calls implement an atomic file: HelperOps treats each managed file as
\* one (its variables file and durable).
A == INSTANCE AtomicFile WITH
        Values <- {None} \cup {Complete(c) : c \in Contents},
        value <- dst,
        stable <- sdst

ImplementsAtomicFile == A!Spec
=============================================================================
