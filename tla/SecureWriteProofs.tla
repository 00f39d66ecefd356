-------------------------- MODULE SecureWriteProofs --------------------------
(***************************************************************************)
(* Proofs about SecureWrite, for any set of contents: the file at the path *)
(* is always whole, Ok means durable, and the system calls implement the   *)
(* atomic file of AtomicFile.                                              *)
(***************************************************************************)
EXTENDS SecureWrite, TLAPS

Whole == {None} \cup {Complete(c) : c \in Contents}
BeforeRename == {"chmod", "write", "fsync", "keep", "rename"}

\* How far the temporary file is at each step.
Progress ==
    /\ pc \in BeforeRename => tmp # None /\ arg \in Contents
    /\ pc \in BeforeRename \ {"chmod"} => tmp.moded = TRUE
    /\ pc \in {"fsync", "keep", "rename"} => tmp.data = arg
    /\ pc \in {"keep", "rename"} => tmp.synced = TRUE
    /\ pc \in BeforeRename \ {"rename"} => armed
    /\ pc \in {"idle", "fsyncDir"} => tmp = None
    /\ pc = "fsyncDir" => dst = Complete(arg)
    /\ pc # "idle" => result = "none"

IInv == TypeOK /\ dst \in Whole /\ sdst \in Whole /\ Progress /\ OkIsDurable

\* Whole files are files, and the rename moves a whole file.
LEMMA WholeIsInode == \A n \in Whole : n \in Inode \cup {None}
  <1>1. \A c \in Contents : Complete(c) \in Inode
    BY DEF Complete, Inode, Data
  <1> QED BY <1>1 DEF Whole

LEMMA RenamesWhole ==
  ASSUME IInv, pc = "rename" PROVE tmp = Complete(arg) /\ tmp \in Whole
  <1>1. tmp \in Inode /\ arg \in Contents /\ tmp.moded = TRUE /\ tmp.data = arg /\ tmp.synced = TRUE
    BY DEF IInv, TypeOK, Progress, BeforeRename
  <1>2. tmp = [data |-> arg, moded |-> TRUE, synced |-> TRUE]
    BY <1>1 DEF Inode
  <1> QED BY <1>1, <1>2 DEF Complete, Whole

\* A power cut does nothing to a whole file.
LEMMA WholeSurvives == \A n \in Whole : Survives(n) = {n}
  BY DEF Whole, Complete, Survives

\* A call that fails leaves the path as it was.
LEMMA FailStep == ASSUME IInv, pc # "idle", Fail PROVE IInv'
  <1>1. TypeOK'
    <2>1. orphans' \in 0..MaxOrphans
      BY OrphanBound DEF IInv, TypeOK, Fail, Leave
    <2> QED BY <2>1 DEF IInv, TypeOK, Fail, Steps
  <1>2. dst' \in Whole /\ sdst' \in Whole
    BY DEF IInv, Fail
  <1>3. Progress' /\ OkIsDurable'
    BY DEF Fail, Progress, OkIsDurable, BeforeRename
  <1> QED BY <1>1, <1>2, <1>3 DEF IInv

\* Initially the path holds a whole file or none.
LEMMA InitInv == ASSUME Init PROVE IInv
  <1>1. dst \in Whole /\ sdst \in Whole
    BY DEF Init, Whole
  <1>2. TypeOK
    <2>1. 0 \in 0..MaxOrphans
      BY OrphanBound
    <2> QED BY <1>1, <2>1, WholeIsInode DEF Init, TypeOK, Steps
  <1>3. Progress /\ OkIsDurable
    BY DEF Init, Progress, OkIsDurable, BeforeRename
  <1> QED BY <1>1, <1>2, <1>3 DEF IInv

\* Every call keeps the invariant.
LEMMA NextInv == ASSUME IInv, [Next]_vars PROVE IInv'
  <1>1. ASSUME NEW c \in Contents, Begin(c) PROVE IInv'
    <2>1. [data |-> Torn, moded |-> FALSE, synced |-> FALSE] \in Inode
      BY DEF Inode, Data
    <2>2. TypeOK'
      BY <1>1, <2>1 DEF Begin, SelfDeleting, IInv, TypeOK, Steps
    <2>3. [data |-> Torn, moded |-> FALSE, synced |-> FALSE] # None
      BY <2>1, SentinelAssumption
    <2>4. Progress' /\ OkIsDurable'
      BY <1>1, <2>3 DEF Begin, SelfDeleting, IInv, Progress, OkIsDurable, BeforeRename
    <2> QED BY <1>1, <2>2, <2>4 DEF Begin, IInv
  <1>2. CASE SetPermissions
    <2>1. CASE Fail
      BY <1>2, <2>1, FailStep DEF SetPermissions
    <2>2. CASE /\ tmp' = [tmp EXCEPT !.moded = TRUE] /\ pc' = "write"
               /\ UNCHANGED <<dst, sdst, arg, armed, result, orphans>>
      <3>1. tmp \in Inode /\ tmp' \in Inode /\ tmp'.moded = TRUE
        BY <1>2, <2>2 DEF SetPermissions, IInv, TypeOK, Progress, BeforeRename, Inode
      <3>2. TypeOK'
        BY <2>2, <3>1 DEF IInv, TypeOK, Steps
      <3>3. Progress' /\ OkIsDurable'
        BY <1>2, <2>2, <3>1, SentinelAssumption
           DEF SetPermissions, IInv, Progress, OkIsDurable, BeforeRename
      <3> QED BY <2>2, <3>2, <3>3 DEF IInv
    <2> QED BY <1>2, <2>1, <2>2 DEF SetPermissions
  <1>3. CASE WriteAll
    <2>1. CASE Fail
      BY <1>3, <2>1, FailStep DEF WriteAll
    <2>2. CASE /\ tmp' = [tmp EXCEPT !.data = Payload] /\ pc' = AfterWriteAll
               /\ UNCHANGED <<dst, sdst, arg, armed, result, orphans>>
      <3>1. tmp \in Inode /\ tmp' \in Inode /\ tmp'.data = arg /\ tmp'.moded = tmp.moded
        BY <1>3, <2>2 DEF WriteAll, Payload, IInv, TypeOK, Progress, BeforeRename, Inode, Data
      <3>2. TypeOK'
        BY <2>2, <3>1 DEF IInv, TypeOK, Steps, AfterWriteAll
      <3>3. Progress' /\ OkIsDurable'
        BY <1>3, <2>2, <3>1, SentinelAssumption
           DEF WriteAll, AfterWriteAll, IInv, Progress, OkIsDurable, BeforeRename
      <3> QED BY <2>2, <3>2, <3>3 DEF IInv
    <2> QED BY <1>3, <2>1, <2>2 DEF WriteAll
  <1>4. CASE SyncAll
    <2>1. CASE Fail
      BY <1>4, <2>1, FailStep DEF SyncAll
    <2>2. CASE /\ tmp' = [tmp EXCEPT !.synced = TRUE] /\ pc' = "keep"
               /\ UNCHANGED <<dst, sdst, arg, armed, result, orphans>>
      <3>1. /\ tmp \in Inode /\ tmp' \in Inode /\ tmp'.synced = TRUE
            /\ tmp'.moded = tmp.moded /\ tmp'.data = tmp.data
        BY <1>4, <2>2 DEF SyncAll, IInv, TypeOK, Progress, BeforeRename, Inode
      <3>2. TypeOK'
        BY <2>2, <3>1 DEF IInv, TypeOK, Steps
      <3>3. Progress' /\ OkIsDurable'
        BY <1>4, <2>2, <3>1, SentinelAssumption
           DEF SyncAll, IInv, Progress, OkIsDurable, BeforeRename
      <3> QED BY <2>2, <3>2, <3>3 DEF IInv
    <2> QED BY <1>4, <2>1, <2>2 DEF SyncAll
  <1>5. CASE Keep
    <2>1. CASE Fail
      BY <1>5, <2>1, FailStep DEF Keep
    <2>2. CASE /\ armed' = FALSE /\ pc' = "rename"
               /\ UNCHANGED <<dst, sdst, tmp, arg, result, orphans>>
      <3>1. TypeOK'
        BY <2>2 DEF IInv, TypeOK, Steps
      <3>2. Progress' /\ OkIsDurable'
        BY <1>5, <2>2 DEF Keep, IInv, Progress, OkIsDurable, BeforeRename
      <3> QED BY <2>2, <3>1, <3>2 DEF IInv
    <2> QED BY <1>5, <2>1, <2>2 DEF Keep
  <1>6. CASE Rename
    <2>1. CASE Fail
      BY <1>6, <2>1, FailStep DEF Rename
    <2>2. CASE /\ dst' = tmp /\ tmp' = None /\ pc' = "fsyncDir"
               /\ UNCHANGED <<sdst, arg, armed, result, orphans>>
      <3>1. tmp = Complete(arg) /\ tmp \in Whole
        BY <1>6, RenamesWhole DEF Rename
      <3>2. TypeOK'
        BY <2>2 DEF IInv, TypeOK, Steps
      <3>3. Progress' /\ OkIsDurable'
        BY <1>6, <2>2, <3>1 DEF Rename, IInv, Progress, OkIsDurable, BeforeRename, Complete
      <3> QED BY <2>2, <3>1, <3>2, <3>3 DEF IInv
    <2> QED BY <1>6, <2>1, <2>2 DEF Rename
  <1>7. CASE FsyncDir
    <2>1. CASE Fail
      BY <1>7, <2>1, FailStep DEF FsyncDir
    <2>2. CASE /\ sdst' = Synced /\ pc' = "idle" /\ result' = "ok"
               /\ UNCHANGED <<dst, tmp, arg, armed, orphans>>
      <3>1. TypeOK'
        BY <2>2 DEF IInv, TypeOK, Steps, Synced
      <3>2. Progress' /\ OkIsDurable'
        BY <1>7, <2>2 DEF FsyncDir, Synced, IInv, Progress, OkIsDurable, BeforeRename, Complete
      <3> QED BY <2>2, <3>1, <3>2 DEF IInv, Synced
    <2> QED BY <1>7, <2>1, <2>2 DEF FsyncDir
  <1>8. CASE Remove
    <2>1. TypeOK'
      BY <1>8 DEF Remove, IInv, TypeOK
    <2>2. Progress' /\ OkIsDurable'
      BY <1>8 DEF Remove, IInv, Progress, OkIsDurable, BeforeRename
    <2> QED BY <1>8, <2>1, <2>2 DEF Remove, IInv, Whole
  <1>9. CASE Crash
    <2>1. orphans' \in 0..MaxOrphans
      BY <1>9, OrphanBound DEF Crash, Leave, IInv, TypeOK
    <2>2. TypeOK'
      BY <1>9, <2>1 DEF Crash, IInv, TypeOK, Steps
    <2>3. Progress' /\ OkIsDurable'
      BY <1>9 DEF Crash, Progress, OkIsDurable, BeforeRename
    <2> QED BY <1>9, <2>2, <2>3 DEF Crash, IInv
  <1>10. CASE PowerLoss
    <2>1. orphans' \in 0..MaxOrphans
      BY <1>10, OrphanBound DEF PowerLoss, Leave, IInv, TypeOK
    <2>2. dst' \in {dst, sdst} /\ sdst' = dst'
      BY <1>10, WholeSurvives DEF PowerLoss, IInv
    <2>3. TypeOK'
      BY <1>10, <2>1, <2>2 DEF PowerLoss, IInv, TypeOK, Steps
    <2>4. Progress' /\ OkIsDurable'
      BY <1>10 DEF PowerLoss, Progress, OkIsDurable, BeforeRename
    <2> QED BY <2>2, <2>3, <2>4 DEF IInv
  <1>11. CASE UNCHANGED vars
    BY <1>11 DEF vars, IInv, TypeOK, Progress, OkIsDurable
  <1> QED
    BY <1>1, <1>2, <1>3, <1>4, <1>5, <1>6, <1>7, <1>8, <1>9, <1>10, <1>11 DEF Next

-----------------------------------------------------------------------------
(* The theorems *)

\* The variables of SecureWrite keep their types in every behaviour.
THEOREM TypeCorrect == Spec => []TypeOK
  <1>1. IInv => TypeOK
    BY DEF IInv
  <1> QED BY <1>1, InitInv, NextInv, PTL DEF Spec

\* The path never shows a partial file, for any contents and any crash.
THEOREM PathIsWhole == Spec => []NeverTornAtPath
  <1>1. ASSUME NEW n \in Whole, n # None PROVE n.data # Torn /\ n.moded
    <2>1. PICK c \in Contents : n = Complete(c)
      BY <1>1 DEF Whole
    <2> QED BY <2>1, SentinelAssumption DEF Complete
  <1>2. IInv => NeverTornAtPath
    BY <1>1 DEF IInv, NeverTornAtPath
  <1> QED BY <1>2, InitInv, NextInv, PTL DEF Spec

\* Ok from secure_write means the contents are in place and on storage.
THEOREM OkMeansDurable == Spec => []OkIsDurable
  <1>1. IInv => OkIsDurable
    BY DEF IInv
  <1> QED BY <1>1, InitInv, NextInv, PTL DEF Spec

\* A call that fails leaves a temporary file behind only when it is the rename.
THEOREM OnlyRenameLeaks == Spec => LeftoversOnlyFromRename
  <1>1. ASSUME IInv, Next, orphans' > orphans, result' = "err" PROVE pc = "rename"
    <2>1. orphans \in Nat /\ orphans' # orphans
      <3>1. orphans \in 0..MaxOrphans /\ MaxOrphans \in Nat
        BY <1>1, OrphanBound DEF IInv, TypeOK
      <3> QED BY <1>1, <3>1
    <2>2. Fail /\ pc # "idle"
      BY <1>1, <2>1 DEF Next, Begin, Remove, Crash, PowerLoss, SetPermissions, WriteAll,
         SyncAll, Keep, Rename, FsyncDir
    <2>3. tmp # None /\ ~armed
      BY <2>1, <2>2 DEF Fail
    <2> QED BY <1>1, <2>2, <2>3 DEF IInv, TypeOK, Progress, BeforeRename, Steps
  <1>2. ASSUME IInv, [Next]_vars
        PROVE  [orphans' > orphans /\ result' = "err" => pc = "rename"]_vars
    BY <1>1, <1>2
  <1> QED BY <1>2, InitInv, NextInv, PTL DEF Spec, LeftoversOnlyFromRename

\* secure_write and remove_optional implement the atomic file HelperOps uses.
THEOREM Refinement == Spec => ImplementsAtomicFile
  <1>1. Init => A!Init
    BY DEF Init, A!Init
  <1>2. ASSUME IInv, [Next]_vars PROVE [A!Next]_<<dst, sdst>>
    <2>1. CASE Rename
      <3>1. UNCHANGED <<dst, sdst>> \/ (dst' = tmp /\ sdst' = sdst)
        BY <2>1 DEF Rename, Fail
      <3>2. tmp \in Whole
        BY <1>2, <2>1, RenamesWhole DEF Rename
      <3> QED BY <3>1, <3>2 DEF A!Next, A!Replace, Whole
    <2>2. CASE Remove
      BY <2>2 DEF Remove, A!Next, A!Replace
    <2>3. CASE FsyncDir
      BY <2>3 DEF FsyncDir, Fail, Synced, A!Next, A!Sync
    <2>4. CASE PowerLoss
      BY <1>2, <2>4, WholeSurvives DEF PowerLoss, IInv, A!Next, A!PowerCut
    <2>5. CASE \/ \E c \in Contents : Begin(c)
               \/ SetPermissions \/ WriteAll \/ SyncAll \/ Keep \/ Crash
      BY <2>5 DEF Begin, SetPermissions, WriteAll, SyncAll, Keep, Crash, Fail
    <2>6. CASE UNCHANGED vars
      BY <2>6 DEF vars
    <2> QED BY <1>2, <2>1, <2>2, <2>3, <2>4, <2>5, <2>6 DEF Next
  <1> QED BY <1>1, <1>2, InitInv, NextInv, PTL DEF Spec, ImplementsAtomicFile, A!Spec
=============================================================================
