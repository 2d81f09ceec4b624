--------------------------- MODULE FileOwnership ---------------------------
(***************************************************************************)
(* packages/core/src/file-ownership.ts: the advisory lock under every      *)
(* store of the Core.  A lock is one file, created with link(2) so that    *)
(* only one contender creates it, and holding the owner's token and pid.   *)
(* A contender that finds the file of a dead process writes a marker of    *)
(* its own into the directory <path>.recovery, looks again, and unlinks    *)
(* the file.                                                               *)
(*                                                                         *)
(* The model is of ONE lock path.  Each step below is one file-system call *)
(* (the await between two of them is where others run).  A token is a      *)
(* fresh UUID in the code; here it is the caller that wrote it, which is   *)
(* as good: a caller is sequential, so it never has two tokens to compare. *)
(* Callers of the same process (concurrent requests of one server) die     *)
(* together.                                                               *)
(***************************************************************************)
EXTENDS FiniteSets, Naturals

CONSTANTS
  Callers,      \* concurrent calls of withFileOwnershipLock on this path
  Procs,        \* operating-system processes
  ProcOf,       \* the process a caller runs in
  MaxCrashes,   \* bound: no process is killed once this many are dead
  CanTimeout,   \* whether timeoutMs may elapse
  NoFile        \* the lock file does not exist

ASSUME ProcOfAssumption == ProcOf \in [Callers -> Procs]
ASSUME NoFileAssumption == NoFile \notin Callers

VARIABLES
  pc,           \* pc[c]: the next file-system call of caller c
  file,         \* the token in the lock file, or NoFile
  marker,       \* marker[c]: the recovery marker c created
  todo,         \* todo[c]: names readdir returned that c has not read yet
  live,         \* live[c]: c's scan has met a marker of a living process
  seen,         \* seen[c]: the owner c read in recoverDeadFileOwnership
  orphaned      \* history: a process has died while its token was in file

vars == <<pc, file, marker, todo, live, seen, orphaned>>

\* Program points of tryAcquireFileOwnership after its link succeeded ...
Linked == {"scan2", "backoff", "backoff_unlink"}
\* ... of withFileOwnershipLock from the action to the end of its finally.
Inside == {"held", "release", "release_unlink"}
Owning == Linked \cup Inside
\* Program points of recoverDeadFileOwnership.
Recovering == {"mark", "write", "recheck", "recover_read", "recover_unlink", "unmark"}
\* The whole retry loop, before the lock is held.
Waiting == {"scan1", "link", "inspect", "check", "retry"} \cup Linked \cup Recovering
PCs == {"idle", "dead"} \cup Waiting \cup Inside

Dead(c) == pc[c] = "dead"
MarkedCallers == {m \in Callers : marker[m] # "absent"}

Init ==
  /\ pc = [c \in Callers |-> "idle"]
  /\ file = NoFile
  /\ marker = [c \in Callers |-> "absent"]
  /\ todo = [c \in Callers |-> {}]
  /\ live = [c \in Callers |-> FALSE]
  /\ seen = [c \in Callers |-> NoFile]
  /\ orphaned = FALSE

Goto(c, next) == pc' = [pc EXCEPT ![c] = next]

---------------------------------------------------------------------------
(* hasLiveRecovery, called before and after the link.                      *)

\* readdir of the recovery directory (a missing directory has no names).
StartScan(c, at) ==
  /\ Goto(c, at)
  /\ todo' = [todo EXCEPT ![c] = MarkedCallers]
  /\ live' = [live EXCEPT ![c] = FALSE]

\* The scan is over, with the outcome the caller acts on.
LeaveScan(c, next) ==
  /\ Goto(c, next)
  /\ todo' = [todo EXCEPT ![c] = {}]
  /\ live' = [live EXCEPT ![c] = FALSE]

\* The call enters the loop, or takes another turn of it.
Attempt(c) ==
  /\ pc[c] \in {"idle", "retry"}
  /\ StartScan(c, "scan1")
  /\ UNCHANGED <<file, marker, seen, orphaned>>

\* A marker that was created but not yet written does not parse: the error
\* leaves the scan, and tryAcquireFileOwnership, and the caller's call.  After
\* the link it leaves the lock file behind.
ReadTornMarker(c, m) ==
  /\ pc[c] \in {"scan1", "scan2"}
  /\ m \in todo[c]
  /\ marker[m] = "torn"
  /\ LeaveScan(c, "idle")
  /\ UNCHANGED <<file, marker, seen, orphaned>>

ReadLiveMarker(c, m) ==
  /\ pc[c] \in {"scan1", "scan2"}
  /\ m \in todo[c]
  /\ marker[m] = "written"
  /\ ~Dead(m)
  /\ todo' = [todo EXCEPT ![c] = @ \ {m}]
  /\ live' = [live EXCEPT ![c] = TRUE]
  /\ UNCHANGED <<pc, file, marker, seen, orphaned>>

\* A marker leaves the directory: whoever still has its name reads ENOENT.
RemoveMarker(m) ==
  /\ marker' = [marker EXCEPT ![m] = "absent"]
  /\ todo' = [x \in Callers |-> todo[x] \ {m}]

ReadDeadMarker(c, m) ==
  /\ pc[c] \in {"scan1", "scan2"}
  /\ m \in todo[c]
  /\ marker[m] = "written"
  /\ Dead(m)
  /\ RemoveMarker(m)
  /\ UNCHANGED <<pc, file, live, seen, orphaned>>

EndScan1(c) ==
  /\ pc[c] = "scan1"
  /\ todo[c] = {}
  /\ LeaveScan(c, IF live[c] THEN "inspect" ELSE "link")
  /\ UNCHANGED <<file, marker, seen, orphaned>>

EndScan2(c) ==
  /\ pc[c] = "scan2"
  /\ todo[c] = {}
  /\ LeaveScan(c, IF live[c] THEN "backoff" ELSE "held")
  /\ UNCHANGED <<file, marker, seen, orphaned>>

---------------------------------------------------------------------------
(* tryAcquireFileOwnership: link, and the way back.                        *)

\* Slip: rename(2) in place of link(2) takes the path over.
LinkFileByRename(c) ==
  /\ pc[c] = "link"
  /\ file' = c
  /\ StartScan(c, "scan2")
  /\ UNCHANGED <<marker, seen, orphaned>>

\* link(2) of the complete temporary file, and the second readdir.
LinkFile(c) ==
  /\ pc[c] = "link"
  /\ file = NoFile
  /\ file' = c
  /\ StartScan(c, "scan2")
  /\ UNCHANGED <<marker, seen, orphaned>>

LinkExists(c) ==
  /\ pc[c] = "link"
  /\ file # NoFile
  /\ Goto(c, "inspect")
  /\ UNCHANGED <<file, marker, todo, live, seen, orphaned>>

\* releaseFileOwnership reads the file ...
ReleaseRead(c) ==
  /\ \/ pc[c] = "release" /\ Goto(c, IF file = c THEN "release_unlink" ELSE "idle")
     \/ pc[c] = "backoff" /\ Goto(c, IF file = c THEN "backoff_unlink" ELSE "inspect")
  /\ UNCHANGED <<file, marker, todo, live, seen, orphaned>>

\* ... and then unlinks the path, whatever is there by then.  Nothing there
\* (ENOENT) is swallowed at the end of withFileOwnershipLock, and thrown to the
\* caller of tryAcquireFileOwnership.
ReleaseUnlink(c) ==
  /\ \/ pc[c] = "release_unlink" /\ Goto(c, "idle")
     \/ pc[c] = "backoff_unlink" /\ Goto(c, IF file = NoFile THEN "idle" ELSE "inspect")
  /\ file' = NoFile
  /\ UNCHANGED <<marker, todo, live, seen, orphaned>>

\* The protected action returns or throws: either way the finally runs.
Leave(c) ==
  /\ pc[c] = "held"
  /\ Goto(c, "release")
  /\ UNCHANGED <<file, marker, todo, live, seen, orphaned>>

---------------------------------------------------------------------------
(* recoverDeadFileOwnership.                                               *)

Inspect(c) ==
  /\ pc[c] = "inspect"
  /\ \/ file = NoFile /\ Goto(c, "retry") /\ UNCHANGED seen
     \/ file # NoFile /\ Goto(c, "check") /\ seen' = [seen EXCEPT ![c] = file]
  /\ UNCHANGED <<file, marker, todo, live, orphaned>>

\* Slip: the owner's liveness is not looked at.
CheckOwnerNot(c) ==
  /\ pc[c] = "check"
  /\ Goto(c, "mark")
  /\ UNCHANGED <<file, marker, todo, live, seen, orphaned>>

\* isFileOwnershipOwnerAlive: signal 0, and the start time of the process.
CheckOwner(c) ==
  /\ pc[c] = "check"
  /\ \/ ~Dead(seen[c]) /\ Goto(c, "retry") /\ seen' = [seen EXCEPT ![c] = NoFile]
     \/ Dead(seen[c]) /\ Goto(c, "mark") /\ UNCHANGED seen
  /\ UNCHANGED <<file, marker, todo, live, orphaned>>

\* Slip: the marker is a copy of the owner record that was read.
CreateMarkerOfOwner(c) ==
  /\ pc[c] = "mark"
  /\ Goto(c, "write")
  /\ marker' = [marker EXCEPT ![c] = seen[c]]
  /\ UNCHANGED <<file, todo, live, seen, orphaned>>

\* writeFile with flag "wx" creates the marker empty, then fills it.
CreateMarker(c) ==
  /\ pc[c] = "mark"
  /\ Goto(c, "write")
  /\ marker' = [marker EXCEPT ![c] = "torn"]
  /\ UNCHANGED <<file, todo, live, seen, orphaned>>

WriteMarker(c) ==
  /\ pc[c] = "write"
  /\ Goto(c, "recheck")
  /\ marker' = [marker EXCEPT ![c] = "written"]
  /\ UNCHANGED <<file, todo, live, seen, orphaned>>

\* Slip: the second look takes any owner for somebody else's.
RecheckGivesUp(c) ==
  /\ pc[c] = "recheck"
  /\ Goto(c, "unmark")
  /\ UNCHANGED <<file, marker, todo, live, seen, orphaned>>

Recheck(c) ==
  /\ pc[c] = "recheck"
  /\ Goto(c, IF file = seen[c] THEN "recover_read" ELSE "unmark")
  /\ UNCHANGED <<file, marker, todo, live, seen, orphaned>>

\* `return releaseFileOwnership(...)` is not awaited inside the try: the
\* finally's unlink of the marker runs at the same time as the release.
RecoverRead(c) ==
  /\ pc[c] = "recover_read"
  /\ Goto(c, IF file = seen[c] THEN "recover_unlink" ELSE "unmark")
  /\ UNCHANGED <<file, marker, todo, live, seen, orphaned>>

Unmark(c) ==
  /\ pc[c] \in {"recover_read", "recover_unlink", "unmark"}
  /\ marker[c] = "written"
  /\ RemoveMarker(c)
  /\ UNCHANGED <<pc, file, live, seen, orphaned>>

RecoverUnlink(c) ==
  /\ pc[c] = "recover_unlink"
  /\ file # NoFile
  /\ file' = NoFile
  /\ Goto(c, "unmark")
  /\ UNCHANGED <<marker, todo, live, seen, orphaned>>

\* Both halves are over: back to the loop of withFileOwnershipLock.
Recovered(c) ==
  /\ pc[c] = "unmark"
  /\ marker[c] = "absent"
  /\ Goto(c, "retry")
  /\ seen' = [seen EXCEPT ![c] = NoFile]
  /\ UNCHANGED <<file, marker, todo, live, orphaned>>

GiveUp(c) ==
  /\ CanTimeout
  /\ pc[c] = "retry"
  /\ Goto(c, "idle")
  /\ UNCHANGED <<file, marker, todo, live, seen, orphaned>>

---------------------------------------------------------------------------
(* The end of a process, between any two calls.                            *)

Die(p) ==
  LET gone == {c \in Callers : ProcOf[c] = p} IN
  /\ pc' = [c \in Callers |-> IF c \in gone THEN "dead" ELSE pc[c]]
  /\ todo' = [c \in Callers |-> IF c \in gone THEN {} ELSE todo[c]]
  /\ live' = [c \in Callers |-> IF c \in gone THEN FALSE ELSE live[c]]
  /\ seen' = [c \in Callers |-> IF c \in gone THEN NoFile ELSE seen[c]]
  /\ orphaned' = (orphaned \/ file \in gone)
  /\ UNCHANGED <<file, marker>>

Crash(p) ==
  /\ \E c \in Callers : ProcOf[c] = p /\ ~Dead(c)
  /\ Cardinality({ProcOf[c] : c \in {x \in Callers : Dead(x)}}) < MaxCrashes
  /\ Die(p)

\* The unlink of the recovered file meets ENOENT.  While the finally still
\* awaits the marker's unlink, the rejected promise has no handler, and an
\* unhandled rejection ends a Node process; afterwards it is thrown.
RecoverUnlinkMissing(c) ==
  /\ pc[c] = "recover_unlink"
  /\ file = NoFile
  /\ \/ marker[c] = "written" /\ Die(ProcOf[c])
     \/ /\ marker[c] = "absent"
        /\ Goto(c, "idle")
        /\ seen' = [seen EXCEPT ![c] = NoFile]
        /\ UNCHANGED <<file, marker, todo, live, orphaned>>

---------------------------------------------------------------------------
Acquire(c) == Attempt(c) \/ EndScan1(c) \/ LinkFile(c) \/ LinkExists(c) \/ EndScan2(c)
ScanMarker(c) ==
  \E m \in Callers : ReadTornMarker(c, m) \/ ReadLiveMarker(c, m) \/ ReadDeadMarker(c, m)
Release(c) == Leave(c) \/ ReleaseRead(c) \/ ReleaseUnlink(c)
Recover(c) ==
  \/ Inspect(c) \/ CheckOwner(c) \/ CreateMarker(c) \/ WriteMarker(c) \/ Recheck(c)
  \/ RecoverRead(c) \/ Unmark(c) \/ RecoverUnlink(c) \/ RecoverUnlinkMissing(c)
  \/ Recovered(c)

Next ==
  \/ \E c \in Callers : Acquire(c) \/ ScanMarker(c) \/ Release(c) \/ Recover(c) \/ GiveUp(c)
  \/ \E p \in Procs : Crash(p)

\* A call that was made runs on: the event loop resumes it when its file-system
\* call returns, its 10 ms wait ends and its protected action settles.  Nobody
\* is obliged to make a call.
Fairness ==
  \A c \in Callers :
    WF_vars(/\ pc[c] # "idle"
            /\ Acquire(c) \/ ScanMarker(c) \/ Release(c) \/ Recover(c))

Spec == Init /\ [][Next]_vars
FairSpec == Spec /\ Fairness

---------------------------------------------------------------------------
TypeOK ==
  /\ pc \in [Callers -> PCs]
  /\ file \in Callers \cup {NoFile}
  /\ marker \in [Callers -> {"absent", "torn", "written"}]
  /\ todo \in [Callers -> SUBSET Callers]
  /\ live \in [Callers -> BOOLEAN]
  /\ seen \in [Callers -> Callers \cup {NoFile}]
  /\ orphaned \in BOOLEAN

\* What every store takes for granted of withFileOwnershipLock: two protected
\* actions on one path never overlap.
MutualExclusion ==
  \A c, d \in Callers : pc[c] = "held" /\ pc[d] = "held" => c = d

\* The protocol excludes as long as no process has died with its token in the
\* lock file; deaths elsewhere in the protocol are harmless.
ExclusionUntilOrphaned == ~orphaned => MutualExclusion

\* A caller that has linked the file and lives on never goes without unlinking
\* it, with one exception: its second scan met the marker of a recovery of a dead
\* owner's file that was created and not yet filled.  What it leaves then blocks
\* the path until its process ends.
LeakNeedsTornMarker ==
  [][\A c \in Callers :
       pc[c] \in Owning /\ file = c /\ pc'[c] \notin Owning \cup {"dead"} /\ file' = c =>
         /\ pc[c] = "scan2"
         /\ \E m \in Callers : marker[m] = "torn" /\ (Dead(m) \/ Dead(seen[m]))]_vars

\* Until a lock has been orphaned, nobody but the holder takes the lock file of
\* a holder away: neither a recovery nor a release read the path before it was
\* linked and unlinks it afterwards.
HolderKeepsFile ==
  [][\A c \in Callers :
       pc[c] \in Inside /\ file = c /\ file' # c =>
         pc[c] = "release_unlink" \/ orphaned']_vars

\* A file whose owner is dead does not stay while somebody still wants the lock,
\* unless another process died between creating its recovery marker and filling
\* it: nothing removes such a marker, and every scan throws on it.
DeadFileRecovered ==
  \A d \in Callers :
    (file = d /\ Dead(d)) ~>
      \/ file # d
      \/ \A c \in Callers : pc[c] \notin Waiting
      \/ \E m \in Callers : Dead(m) /\ marker[m] = "torn"

\* withFileOwnershipLock keeps the promise its users rely on: the protected
\* actions that run behave as OwnershipLock allows.
Abs == INSTANCE OwnershipLock WITH holders <- {c \in Callers : pc[c] = "held"}
ImplementsOwnershipLock == Abs!Spec

=============================================================================
