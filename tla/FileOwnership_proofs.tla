------------------------ MODULE FileOwnership_proofs ------------------------
(***************************************************************************)
(* For any number of callers and processes, and any number of crashes: the *)
(* lock of file-ownership.ts excludes until a lock file is orphaned.       *)
(***************************************************************************)
EXTENDS FileOwnership, TLAPS

\* Whoever is past the check of the owner has seen a dead one, and a live
\* caller's marker exists only while it is recovering.
RecoveryInv ==
  /\ \A c \in Callers : pc[c] = "check" => seen[c] \in Callers
  /\ \A c \in Callers : pc[c] \in Recovering => seen[c] \in Callers /\ Dead(seen[c])
  /\ \A c \in Callers : marker[c] # "absent" /\ ~Dead(c) => pc[c] \in Recovering

\* What orphaned stands for: it is set once a dead token is in the file, and it
\* takes one to get a recovery past its second look.
OrphanInv ==
  /\ file \in Callers /\ Dead(file) => orphaned
  /\ orphaned => \E c \in Callers : Dead(c)
  /\ \A c \in Callers : pc[c] \in {"recover_read", "recover_unlink"} => orphaned

\* Without an orphan the file names every caller whose link succeeded.
OwnerInv == ~orphaned => \A c \in Callers : pc[c] \in Owning => file = c

IInv == TypeOK /\ RecoveryInv /\ OrphanInv /\ OwnerInv

LEMMA InitInv == Init => IInv
  BY NoFileAssumption DEF Init, IInv, TypeOK, RecoveryInv, OrphanInv, OwnerInv, PCs, Waiting, Inside, Linked, Recovering, Owning, Dead

USE DEF PCs, Waiting, Owning, Inside, Linked, Recovering, Dead, Goto

\* The inductive step for each group of steps; the last one is the end of a
\* process, whichever way it comes.
LEMMA AcquireInv ==
  ASSUME IInv, NEW c \in Callers, Acquire(c) PROVE IInv'
<1> USE NoFileAssumption DEF IInv, TypeOK, RecoveryInv, OrphanInv, OwnerInv, MarkedCallers
<1>1. CASE Attempt(c)
  BY <1>1 DEF Attempt, StartScan
<1>2. CASE EndScan1(c)
  BY <1>2 DEF EndScan1, LeaveScan
<1>3. CASE LinkFile(c)
  BY <1>3 DEF LinkFile, StartScan
<1>4. CASE LinkExists(c)
  BY <1>4 DEF LinkExists
<1>5. CASE EndScan2(c)
  BY <1>5 DEF EndScan2, LeaveScan
<1> QED BY <1>1, <1>2, <1>3, <1>4, <1>5 DEF Acquire

LEMMA ScanInv ==
  ASSUME IInv, NEW c \in Callers, ScanMarker(c) PROVE IInv'
<1> USE NoFileAssumption DEF IInv, TypeOK, RecoveryInv, OrphanInv, OwnerInv
<1> PICK m \in Callers : ReadTornMarker(c, m) \/ ReadLiveMarker(c, m) \/ ReadDeadMarker(c, m)
  BY DEF ScanMarker
<1>1. CASE ReadTornMarker(c, m)
  BY <1>1 DEF ReadTornMarker, LeaveScan
<1>2. CASE ReadLiveMarker(c, m)
  BY <1>2 DEF ReadLiveMarker
<1>3. CASE ReadDeadMarker(c, m)
  BY <1>3 DEF ReadDeadMarker, RemoveMarker
<1> QED BY <1>1, <1>2, <1>3

LEMMA ReleaseInv ==
  ASSUME IInv, NEW c \in Callers, Release(c) PROVE IInv'
<1> USE NoFileAssumption DEF IInv, TypeOK, RecoveryInv, OrphanInv, OwnerInv
<1>1. CASE Leave(c)
  BY <1>1 DEF Leave
<1>2. CASE ReleaseRead(c)
  BY <1>2 DEF ReleaseRead
<1>3. CASE ReleaseUnlink(c)
  BY <1>3 DEF ReleaseUnlink
<1> QED BY <1>1, <1>2, <1>3 DEF Release

LEMMA DieInv ==
  ASSUME IInv, NEW p \in Procs, \E x \in Callers : ProcOf[x] = p, Die(p) PROVE IInv'
<1> USE NoFileAssumption DEF IInv, TypeOK, RecoveryInv, OrphanInv, OwnerInv, Die
<1>1. TypeOK'
  OBVIOUS
<1>2. RecoveryInv'
  OBVIOUS
<1>3. OrphanInv'
  OBVIOUS
<1>4. OwnerInv'
  OBVIOUS
<1> QED BY <1>1, <1>2, <1>3, <1>4

LEMMA RecoverInv ==
  ASSUME IInv, NEW c \in Callers, Recover(c) PROVE IInv'
<1> USE NoFileAssumption DEF IInv, TypeOK, RecoveryInv, OrphanInv, OwnerInv
<1>1. CASE Inspect(c)
  BY <1>1 DEF Inspect
<1>2. CASE CheckOwner(c)
  BY <1>2 DEF CheckOwner
<1>3. CASE CreateMarker(c)
  BY <1>3 DEF CreateMarker
<1>4. CASE WriteMarker(c)
  BY <1>4 DEF WriteMarker
<1>5. CASE Recheck(c)
  BY <1>5 DEF Recheck
<1>6. CASE RecoverRead(c)
  BY <1>6 DEF RecoverRead
<1>7. CASE Unmark(c)
  BY <1>7 DEF Unmark, RemoveMarker
<1>8. CASE RecoverUnlink(c)
  BY <1>8 DEF RecoverUnlink
<1>9. CASE Recovered(c)
  BY <1>9 DEF Recovered
<1>10. CASE RecoverUnlinkMissing(c)
  <2>1. CASE Die(ProcOf[c])
    BY <2>1, DieInv, ProcOfAssumption
  <2>2. CASE ~Die(ProcOf[c])
    BY <2>2, <1>10 DEF RecoverUnlinkMissing
  <2> QED BY <2>1, <2>2
<1> QED BY <1>1, <1>2, <1>3, <1>4, <1>5, <1>6, <1>7, <1>8, <1>9, <1>10 DEF Recover

LEMMA StepInv == IInv /\ [Next]_vars => IInv'
<1> SUFFICES ASSUME IInv, [Next]_vars PROVE IInv'
  OBVIOUS
<1>1. ASSUME NEW c \in Callers,
             Acquire(c) \/ ScanMarker(c) \/ Release(c) \/ Recover(c) PROVE IInv'
  BY <1>1, AcquireInv, ScanInv, ReleaseInv, RecoverInv
<1>2. ASSUME NEW c \in Callers, GiveUp(c) PROVE IInv'
  BY <1>2 DEF GiveUp, IInv, TypeOK, RecoveryInv, OrphanInv, OwnerInv
<1>3. ASSUME NEW p \in Procs, Crash(p) PROVE IInv'
  BY <1>3, DieInv DEF Crash
<1>4. CASE UNCHANGED vars
  BY <1>4 DEF vars, IInv, TypeOK, RecoveryInv, OrphanInv, OwnerInv
<1> QED BY <1>1, <1>2, <1>3, <1>4 DEF Next

THEOREM Invariance == Spec => []IInv
  BY InitInv, StepInv, PTL DEF Spec

\* Every variable keeps its type.
THEOREM TypeCorrect == Spec => []TypeOK
  BY Invariance, PTL DEF IInv

\* Two protected actions on one path never overlap unless a process died with
\* its token in the lock file.
THEOREM Exclusion == Spec => []ExclusionUntilOrphaned
<1>1. IInv => ExclusionUntilOrphaned
  BY DEF IInv, OwnerInv, ExclusionUntilOrphaned, MutualExclusion
<1> QED BY <1>1, Invariance, PTL

---------------------------------------------------------------------------
\* The action properties: when a living caller leaves its file behind, ...
Leaks(c) == pc[c] \in Owning /\ file = c /\ pc'[c] \notin Owning \cup {"dead"} /\ file' = c
TornMarkerMet(c) ==
  /\ pc[c] = "scan2"
  /\ \E m \in Callers : marker[m] = "torn" /\ (Dead(m) \/ Dead(seen[m]))

LEMMA StepLeaks ==
  ASSUME IInv, [Next]_vars, NEW c \in Callers, Leaks(c)
  PROVE  TornMarkerMet(c)
<1> USE NoFileAssumption DEF Leaks, TornMarkerMet, IInv, TypeOK
<1>1. ASSUME NEW d \in Callers, Acquire(d) PROVE FALSE
  BY <1>1 DEF Acquire, Attempt, StartScan, EndScan1, EndScan2, LeaveScan, LinkFile, LinkExists
<1>2. ASSUME NEW d \in Callers, ScanMarker(d) PROVE TornMarkerMet(c)
  <2>1. PICK m \in Callers : ReadTornMarker(d, m)
    BY <1>2 DEF ScanMarker, ReadTornMarker, ReadLiveMarker, ReadDeadMarker
  <2>2. d = c /\ pc[c] = "scan2" /\ marker[m] = "torn"
    BY <2>1 DEF ReadTornMarker, LeaveScan
  <2>3. Dead(m) \/ Dead(seen[m])
    BY <2>2 DEF RecoveryInv
  <2> QED BY <2>2, <2>3
<1>3. ASSUME NEW d \in Callers, Release(d) PROVE FALSE
  BY <1>3 DEF Release, Leave, ReleaseRead, ReleaseUnlink
<1>4. ASSUME NEW d \in Callers, Recover(d) PROVE FALSE
  BY <1>4 DEF Recover, Inspect, CheckOwner, CreateMarker, WriteMarker, Recheck, RecoverRead,
     Unmark, RecoverUnlink, RecoverUnlinkMissing, Recovered, Die
<1>5. ASSUME NEW d \in Callers, GiveUp(d) PROVE FALSE
  BY <1>5 DEF GiveUp
<1>6. ASSUME NEW p \in Procs, Crash(p) PROVE FALSE
  BY <1>6 DEF Crash, Die
<1>7. CASE UNCHANGED vars
  BY <1>7 DEF vars
<1> QED BY <1>1, <1>2, <1>3, <1>4, <1>5, <1>6, <1>7 DEF Next

\* A living caller leaves its token in the lock file only when its second scan
\* met an unwritten marker, and that marker's recovery is of a dead owner's file
\* or its process is dead itself.
THEOREM LeaksOnlyThere == Spec => LeakNeedsTornMarker
<1>1. IInv /\ [Next]_vars => [\A c \in Callers : Leaks(c) => TornMarkerMet(c)]_vars
  BY StepLeaks
<1>2. Spec => [][\A c \in Callers : Leaks(c) => TornMarkerMet(c)]_vars
  BY <1>1, Invariance, PTL DEF Spec
<1> QED BY <1>2 DEF LeakNeedsTornMarker, Leaks, TornMarkerMet

\* ... and who takes a holder's file away.
FileLeaves(c) == pc[c] \in Inside /\ file = c /\ file' # c

LEMMA StepKeepsFile ==
  ASSUME IInv, [Next]_vars, NEW c \in Callers, FileLeaves(c)
  PROVE  pc[c] = "release_unlink" \/ orphaned'
<1> USE NoFileAssumption DEF FileLeaves, IInv, TypeOK, OrphanInv, OwnerInv
<1>1. ASSUME NEW d \in Callers, Acquire(d)
      PROVE  FALSE
  BY <1>1 DEF Acquire, Attempt, EndScan1, LinkFile, LinkExists, EndScan2
<1>2. ASSUME NEW d \in Callers, ScanMarker(d)
      PROVE  FALSE
  BY <1>2 DEF ScanMarker, ReadTornMarker, ReadLiveMarker, ReadDeadMarker
<1>3. ASSUME NEW d \in Callers, Release(d)
      PROVE  pc[c] = "release_unlink" \/ orphaned'
  BY <1>3 DEF Release, Leave, ReleaseRead, ReleaseUnlink
<1>4. ASSUME NEW d \in Callers, Recover(d)
      PROVE  orphaned'
  <2>1. RecoverUnlink(d)
    BY <1>4 DEF Recover, Inspect, CheckOwner, CreateMarker, WriteMarker, Recheck,
       RecoverRead, Unmark, Recovered, RecoverUnlinkMissing, Die
  <2> QED BY <2>1 DEF RecoverUnlink
<1>5. CASE \E d \in Callers : GiveUp(d)
  BY <1>5 DEF GiveUp
<1>6. CASE \E p \in Procs : Crash(p)
  BY <1>6 DEF Crash, Die
<1>7. CASE UNCHANGED vars
  BY <1>7 DEF vars
<1> QED BY <1>1, <1>2, <1>3, <1>4, <1>5, <1>6, <1>7 DEF Next

\* Nobody but the holder takes a holder's lock file away, until a process has
\* died with its token in it.
THEOREM KeepsFile == Spec => HolderKeepsFile
<1>1. IInv /\ [Next]_vars =>
        [\A c \in Callers : FileLeaves(c) => pc[c] = "release_unlink" \/ orphaned']_vars
  BY StepKeepsFile
<1>2. Spec => [][\A c \in Callers : FileLeaves(c) => pc[c] = "release_unlink" \/ orphaned']_vars
  BY <1>1, Invariance, PTL DEF Spec
<1> QED BY <1>2 DEF HolderKeepsFile, FileLeaves

---------------------------------------------------------------------------
\* Refinement of OwnershipLock.
LEMMA InitRefines == Init => Abs!Init
  BY DEF Init, Abs!Init

LEMMA StepRefines == IInv /\ [Next]_vars => [Abs!Next]_Abs!vars
<1> SUFFICES ASSUME IInv, [Next]_vars PROVE [Abs!Next]_Abs!vars
  OBVIOUS
<1> USE DEF IInv, TypeOK, Abs!Next, Abs!vars
<1>1. ASSUME NEW c \in Callers, EndScan2(c) PROVE [Abs!Next]_Abs!vars
  <2>1. CASE live[c]
    BY <1>1, <2>1 DEF EndScan2, LeaveScan
  <2>2. CASE ~live[c]
    <3>1. ~orphaned => {x \in Callers : pc[x] = "held"} = {}
      BY <1>1 DEF EndScan2, OwnerInv
    <3>2. {x \in Callers : pc[x] = "held"}' = {x \in Callers : pc[x] = "held"} \cup {c}
      BY <1>1, <2>2 DEF EndScan2, LeaveScan
    <3>3. Abs!Acquire(c)
      BY <1>1, <3>1, <3>2 DEF EndScan2, Abs!Acquire
    <3> QED BY <3>3
  <2> QED BY <2>1, <2>2
<1>2. ASSUME NEW c \in Callers, Leave(c) PROVE [Abs!Next]_Abs!vars
  <2>1. {x \in Callers : pc[x] = "held"}' = {x \in Callers : pc[x] = "held"} \ {c}
    BY <1>2 DEF Leave
  <2>2. Abs!Release(c)
    BY <1>2, <2>1 DEF Leave, Abs!Release
  <2> QED BY <2>2
<1>3. ASSUME NEW p \in Procs, Die(p) PROVE [Abs!Next]_Abs!vars
  <2>1. Abs!Die
    BY <1>3 DEF Die, Abs!Die, OwnerInv
  <2> QED BY <2>1
<1>4. ASSUME NEW c \in Callers, Acquire(c), ~EndScan2(c) PROVE [Abs!Next]_Abs!vars
  BY <1>4 DEF Acquire, Attempt, StartScan, EndScan1, LeaveScan, LinkFile, LinkExists
<1>5. ASSUME NEW c \in Callers, ScanMarker(c) PROVE [Abs!Next]_Abs!vars
  BY <1>5 DEF ScanMarker, ReadTornMarker, LeaveScan, ReadLiveMarker, ReadDeadMarker, RemoveMarker
<1>6. ASSUME NEW c \in Callers, Release(c), ~Leave(c) PROVE [Abs!Next]_Abs!vars
  BY <1>6 DEF Release, ReleaseRead, ReleaseUnlink
<1>7. ASSUME NEW c \in Callers, Recover(c) PROVE [Abs!Next]_Abs!vars
  <2>1. CASE Die(ProcOf[c])
    BY <1>3, <2>1, ProcOfAssumption
  <2>2. CASE ~Die(ProcOf[c])
    BY <1>7, <2>2 DEF Recover, Inspect, CheckOwner, CreateMarker, WriteMarker, Recheck,
       RecoverRead, Unmark, RemoveMarker, RecoverUnlink, Recovered, RecoverUnlinkMissing
  <2> QED BY <2>1, <2>2
<1>8. CASE \E c \in Callers : GiveUp(c)
  BY <1>8 DEF GiveUp
<1>9. CASE \E p \in Procs : Crash(p)
  BY <1>3, <1>9 DEF Crash
<1>10. CASE UNCHANGED vars
  BY <1>10 DEF vars
<1> QED BY <1>1, <1>2, <1>4, <1>5, <1>6, <1>7, <1>8, <1>9, <1>10 DEF Next

\* withFileOwnershipLock implements OwnershipLock.
THEOREM Refinement == Spec => ImplementsOwnershipLock
  BY InitRefines, StepRefines, Invariance, PTL DEF Spec, ImplementsOwnershipLock, Abs!Spec
=============================================================================
