----------------------------- MODULE Profiles_proofs -------------------------
(***************************************************************************)
(* Harbor's profiles, for any number of operations, materials, identities  *)
(* and keys. ProfileRecovery: whatever step of a restoration fails or is   *)
(* the last before a crash, the owner's material is kept, and no session   *)
(* starts on a half made switch; a switch that stops half way either leaves*)
(* an apply whose status is unfinished for good, or no profile beside a    *)
(* staging tree. IdentityMutations: whatever is interrupted, an identity in*)
(* repair is paired with the key that repairs it, and a delete is completed*)
(* when nothing is left.                                                   *)
(***************************************************************************)
EXTENDS ProfileRecovery, IdentityMutations, TLAPS

\* What an owner can have: a profile that is there, and a configuration.
Owned == [material : Materials, environment : Environments]

Found(a) == plan[a].current

\* What the step of a task says of it.
TaskInv ==
  /\ task.next # "none" => task.of \in Operations /\ status[task.of] = "running"
  /\ task.next = "none" => task.of = NoOperation
  /\ task.next = "copy" => task.of \in Backups
  /\ task.next \in {"check"} \cup SwitchSteps => task.of \in Applies /\ plan[task.of] # NoPlan
  /\ task.next = "save" /\ task.result = "manual_recovery_required" => task.of \in Applies
  /\ profileOwner = "recovery" <=> task.next \in SwitchSteps
  /\ profileOwner = "recovery" => ~Unfinished(task.of)
  /\ task.next \in {"none", "copy", "check"} => task.done = "nothing"

\* A plan has found an owner's profile, and a backup that is completed.
PlanInv ==
  /\ \A a \in Applies : plan[a] # NoPlan =>
       Found(a) \in Owned /\ plan[a].from \in Backups /\ saved[plan[a].from] # NoBackup
  /\ \A b \in Backups : saved[b] # NoBackup => saved[b].holds \in Owned
  /\ task.next = "save" /\ task.of \in Backups /\ task.result = "completed" => task.found \in Owned

\* While every other apply is settled, backups hold what belongs together.
BackupInv == ~Unfinished(task.of) =>
  /\ \A b \in Backups : saved[b].holds = saved[b].was
  /\ task.next = "save" /\ task.of \in Backups /\ task.result = "completed" =>
       task.found = task.was

\* And so does what is in place, or else there is no profile beside a staging tree.
Isolated == profileDir = NoMaterial /\ staged # {} /\ environment = whole.environment
WholeInv ==
  /\ profileOwner # "recovery" /\ ~Unfinished(task.of)
       /\ ~(task.next = "save" /\ task.result = "manual_recovery_required") =>
     Current = whole \/ Isolated
  /\ profileOwner = "session" => Current = whole

\* How far a switch, or its undoing, has come.
SwitchInv == LET a == task.of IN profileOwner = "recovery" =>
  /\ whole = Found(a)
  /\ task.done = "nothing" => Current = whole
  /\ task.done # "nothing" /\ task.next # "undone" => before[a] = whole.material
  /\ task.done # "restored" => environment = whole.environment
  /\ task.next \in {"stage", "isolate"} => task.done = "nothing"
  /\ task.next \in {"switch", "environment"} => task.done = "isolated"
  /\ task.next = "switch" => profileDir = NoMaterial
  /\ task.next \in {"environment", "verify"} => profileDir = Restored(a).material
  /\ task.next \in {"verify", "undo_environment"} => task.done = "restored"
  /\ a \in staged /\ task.done # "nothing" => profileDir = NoMaterial /\ task.done = "isolated"
  /\ task.next \in {"undo_switch", "undo_rename"} =>
       task.done # "nothing" /\ environment = whole.environment
  /\ task.next \in {"undo_environment", "undo_switch", "undo_rename", "undone"} => a \notin staged
  /\ task.next = "undone" => Current = whole

RecoveryInv ==
  /\ RecoveryTypeOK /\ TaskInv /\ PlanInv /\ BackupInv /\ WholeInv /\ SwitchInv /\ MaterialKept

\* The vocabulary of the actions and of the invariant's parts.
USE RecoveryAssumption
USE DEF RecoveryInv, RecoveryTypeOK, Operations, Pairs, Results, Tasks, SwitchSteps,
        UnfinishedStatuses, materialVars, Owned, Pair, Current, NoPair, NoBackup, NoPlan, NoTask,
        Found, Goes, Restored
-----------------------------------------------------------------------------
(* What a step does to the task, and the two ways an operation ends early. *)

LEMMA TaskEnds ==
  ASSUME task \in Tasks, NEW r \in Results, Ends(r)
  PROVE  /\ task' \in Tasks /\ task'.next = "save" /\ task'.result = r
         /\ task'.of = task.of /\ task'.done = task.done
         /\ task'.found = task.found /\ task'.was = task.was
  BY DEF Ends

\* A backup, or an apply whose plan does not hold, is rejected with nothing done.
LEMMA Rejects ==
  ASSUME RecoveryInv, task.next \in {"copy", "check"},
         Ends("rejected"),
         UNCHANGED profileOwner,
         UNCHANGED <<environment, status, saved, plan, whole>>,
         UNCHANGED materialVars
  PROVE  RecoveryInv'
<1>8. /\ task' \in Tasks /\ task'.next = "save" /\ task'.result = "rejected"
      /\ task'.of = task.of /\ task'.done = task.done
  BY TaskEnds
<1>1. RecoveryTypeOK' BY <1>8
<1>2. TaskInv' BY <1>8 DEF TaskInv
<1>3. PlanInv' BY <1>8 DEF PlanInv
<1>4. BackupInv' BY <1>8 DEF BackupInv, Unfinished
<1>5. WholeInv' BY <1>8 DEF WholeInv, Unfinished, Isolated
<1>6. SwitchInv' BY <1>8 DEF SwitchInv
<1>7. MaterialKept' BY DEF MaterialKept
<1> QED BY <1>1, <1>2, <1>3, <1>4, <1>5, <1>6, <1>7

\* What a switch has left is left to the owner.
LEMMA OperationEnds ==
  ASSUME RecoveryInv, task.next \in SwitchSteps,
         profileOwner' = "nobody",
         Ends("manual_recovery_required"),
         UNCHANGED <<environment, status, saved, plan, whole>>,
         UNCHANGED materialVars
  PROVE  RecoveryInv'
<1>8. /\ task' \in Tasks /\ task'.next = "save" /\ task'.result = "manual_recovery_required"
      /\ task'.of = task.of /\ task'.done = task.done
  BY TaskEnds
<1>1. RecoveryTypeOK' BY <1>8
<1>2. TaskInv' BY <1>8 DEF TaskInv
<1>3. PlanInv' BY <1>8 DEF PlanInv
<1>4. BackupInv' BY <1>8 DEF BackupInv, Unfinished
<1>5. WholeInv' BY <1>8 DEF WholeInv
<1>6. SwitchInv' BY DEF SwitchInv
<1>7. MaterialKept' BY DEF MaterialKept
<1> QED BY <1>1, <1>2, <1>3, <1>4, <1>5, <1>6, <1>7

-----------------------------------------------------------------------------
(* One lemma for each action, one step for each part of the invariant. *)

LEMMA StepLaunchProfile ==
  ASSUME RecoveryInv, LaunchProfile
  PROVE  RecoveryInv'
<1>1. RecoveryTypeOK' BY DEF LaunchProfile
<1>2. TaskInv' BY DEF TaskInv, LaunchProfile
<1>3. PlanInv' BY DEF PlanInv, LaunchProfile
<1>4. BackupInv' BY DEF BackupInv, Unfinished, LaunchProfile
<1>5. WholeInv' BY DEF WholeInv, Unfinished, TaskInv, Isolated, Residue, LaunchProfile
<1>6. SwitchInv' BY DEF SwitchInv, LaunchProfile
<1>7. MaterialKept' BY DEF MaterialKept, LaunchProfile
<1> QED BY <1>1, <1>2, <1>3, <1>4, <1>5, <1>6, <1>7

LEMMA StepCloseProfile ==
  ASSUME RecoveryInv, CloseProfile
  PROVE  RecoveryInv'
<1>1. RecoveryTypeOK' BY DEF CloseProfile
<1>2. TaskInv' BY DEF TaskInv, CloseProfile
<1>3. PlanInv' BY DEF PlanInv, CloseProfile
<1>4. BackupInv' BY DEF BackupInv, Unfinished, CloseProfile
<1>5. WholeInv' BY DEF WholeInv, CloseProfile
<1>6. SwitchInv' BY DEF SwitchInv, CloseProfile
<1>7. MaterialKept' BY DEF MaterialKept, CloseProfile
<1> QED BY <1>1, <1>2, <1>3, <1>4, <1>5, <1>6, <1>7

LEMMA StepBrowse ==
  ASSUME RecoveryInv, NEW m \in Materials, Browse(m)
  PROVE  RecoveryInv'
<1>1. RecoveryTypeOK' BY DEF TaskInv, Browse
<1>2. TaskInv' BY DEF TaskInv, Browse
<1>3. PlanInv' BY DEF PlanInv, Browse
<1>4. BackupInv' BY DEF BackupInv, Unfinished, Browse
<1>5. WholeInv' BY DEF WholeInv, Browse
<1>6. SwitchInv' BY DEF SwitchInv, Browse
<1>7. MaterialKept' BY DEF MaterialKept, Browse
<1> QED BY <1>1, <1>2, <1>3, <1>4, <1>5, <1>6, <1>7

LEMMA StepEditEnvironment ==
  ASSUME RecoveryInv, NEW e \in Environments, EditEnvironment(e)
  PROVE  RecoveryInv'
<1>1. RecoveryTypeOK' BY DEF TaskInv, PlanInv, SwitchInv, EditEnvironment
<1>2. TaskInv' BY DEF TaskInv, EditEnvironment
<1>3. PlanInv' BY DEF PlanInv, EditEnvironment
<1>4. BackupInv' BY DEF BackupInv, Unfinished, EditEnvironment
<1>5. WholeInv' BY DEF WholeInv, Unfinished, Isolated, EditEnvironment
<1>6. SwitchInv' BY DEF SwitchInv, EditEnvironment
<1>7. MaterialKept' BY DEF MaterialKept, EditEnvironment
<1> QED BY <1>1, <1>2, <1>3, <1>4, <1>5, <1>6, <1>7

LEMMA StepBegin ==
  ASSUME RecoveryInv, NEW o \in Operations, Begin(o)
  PROVE  RecoveryInv'
<1>1. RecoveryTypeOK'
  <2>1. task' \in Tasks BY DEF Begin
  <2>2. status' \in [Operations -> {"none", "running"} \cup Results] BY DEF Begin
  <2> QED BY <2>1, <2>2 DEF Begin
<1>2. TaskInv' BY DEF TaskInv, Begin
<1>3. PlanInv' BY DEF PlanInv, Begin
<1>4. BackupInv' BY DEF BackupInv, Unfinished, Begin
<1>5. WholeInv' BY DEF WholeInv, Unfinished, Isolated, Begin
<1>6. SwitchInv' BY DEF SwitchInv, TaskInv, Begin
<1>7. MaterialKept' BY DEF MaterialKept, Begin
<1> QED BY <1>1, <1>2, <1>3, <1>4, <1>5, <1>6, <1>7

LEMMA StepPreparePlan ==
  ASSUME RecoveryInv, NEW a \in Applies, NEW b \in Backups, PreparePlan(a, b)
  PROVE  RecoveryInv'
<1>1. RecoveryTypeOK' BY DEF PreparePlan
<1>2. TaskInv' BY DEF TaskInv, PreparePlan
<1>3. PlanInv' BY DEF PlanInv, PreparePlan
<1>4. BackupInv' BY DEF BackupInv, PreparePlan
<1>5. WholeInv' BY DEF WholeInv, Isolated, PreparePlan
<1>6. SwitchInv' BY DEF SwitchInv, PreparePlan
<1>7. MaterialKept' BY DEF MaterialKept, PreparePlan
<1> QED BY <1>1, <1>2, <1>3, <1>4, <1>5, <1>6, <1>7

LEMMA StepCopyBackup ==
  ASSUME RecoveryInv, CopyBackup
  PROVE  RecoveryInv'
<1>1. CASE /\ profileOwner = "nobody" /\ profileDir # NoMaterial /\ task.found = Current
           /\ task' = [task EXCEPT !.next = "save", !.result = "completed", !.was = whole]
  <2>1. RecoveryTypeOK' BY <1>1 DEF CopyBackup
  <2>2. TaskInv' BY <1>1 DEF TaskInv, CopyBackup
  <2>3. PlanInv' BY <1>1 DEF PlanInv, CopyBackup
  <2>4. BackupInv' BY <1>1 DEF BackupInv, Unfinished, WholeInv, Isolated, CopyBackup
  <2>5. WholeInv' BY <1>1 DEF WholeInv, Unfinished, Isolated, CopyBackup
  <2>6. SwitchInv' BY <1>1 DEF SwitchInv, CopyBackup
  <2>7. MaterialKept' BY DEF MaterialKept, CopyBackup
  <2> QED BY <2>1, <2>2, <2>3, <2>4, <2>5, <2>6, <2>7
<1> QED BY <1>1, Rejects DEF CopyBackup

LEMMA StepCheckPlan ==
  ASSUME RecoveryInv, CheckPlan
  PROVE  RecoveryInv'
<1>1. CASE /\ ~Unfinished(task.of) /\ profileOwner = "nobody" /\ Current = plan[task.of].current
           /\ profileOwner' = "recovery" /\ Goes("stage")
  <2>1. RecoveryTypeOK' BY <1>1 DEF CheckPlan
  <2>2. TaskInv' BY <1>1 DEF TaskInv, Unfinished, CheckPlan
  <2>3. PlanInv' BY <1>1 DEF PlanInv, CheckPlan
  <2>4. BackupInv' BY <1>1 DEF BackupInv, CheckPlan
  <2>5. WholeInv' BY <1>1 DEF WholeInv
  <2>6. SwitchInv' BY <1>1 DEF SwitchInv, TaskInv, PlanInv, WholeInv, Isolated, CheckPlan
  <2>7. MaterialKept' BY DEF MaterialKept, CheckPlan
  <2> QED BY <2>1, <2>2, <2>3, <2>4, <2>5, <2>6, <2>7
<1> QED BY <1>1, Rejects DEF CheckPlan

LEMMA StepStageBackup ==
  ASSUME RecoveryInv, StageBackup
  PROVE  RecoveryInv'
<1>1. RecoveryTypeOK' BY DEF TaskInv, SwitchInv, StageBackup
<1>2. TaskInv' BY DEF TaskInv, Unfinished, StageBackup
<1>3. PlanInv' BY DEF PlanInv, StageBackup
<1>4. BackupInv' BY DEF BackupInv, Unfinished, StageBackup
<1>5. WholeInv' BY DEF WholeInv, TaskInv, StageBackup
<1>6. SwitchInv' BY DEF SwitchInv, StageBackup
<1>7. MaterialKept' BY DEF MaterialKept, StageBackup
<1> QED BY <1>1, <1>2, <1>3, <1>4, <1>5, <1>6, <1>7

LEMMA StepIsolate ==
  ASSUME RecoveryInv, Isolate
  PROVE  RecoveryInv'
<1>1. RecoveryTypeOK' BY DEF Isolate
<1>2. TaskInv' BY DEF TaskInv, Unfinished, Isolate
<1>3. PlanInv' BY DEF PlanInv, Isolate
<1>4. BackupInv' BY DEF BackupInv, Unfinished, Isolate
<1>5. WholeInv' BY DEF WholeInv, TaskInv, Isolate
<1>6. SwitchInv' BY DEF SwitchInv, TaskInv, Isolate
<1>7. MaterialKept' BY DEF MaterialKept, TaskInv, SwitchInv, Isolate
<1> QED BY <1>1, <1>2, <1>3, <1>4, <1>5, <1>6, <1>7

LEMMA StepSwitch ==
  ASSUME RecoveryInv, Switch
  PROVE  RecoveryInv'
<1>1. RecoveryTypeOK' BY DEF TaskInv, PlanInv, Switch
<1>2. TaskInv' BY DEF TaskInv, Unfinished, Switch
<1>3. PlanInv' BY DEF PlanInv, Switch
<1>4. BackupInv' BY DEF BackupInv, Unfinished, Switch
<1>5. WholeInv' BY DEF WholeInv, TaskInv, Switch
<1>6. SwitchInv' BY DEF SwitchInv, Switch
<1>7. MaterialKept' BY DEF MaterialKept, TaskInv, SwitchInv, Switch
<1> QED BY <1>1, <1>2, <1>3, <1>4, <1>5, <1>6, <1>7

LEMMA StepRestoreEnvironment ==
  ASSUME RecoveryInv, RestoreEnvironment
  PROVE  RecoveryInv'
<1>1. RecoveryTypeOK' BY DEF TaskInv, PlanInv, RestoreEnvironment
<1>2. TaskInv' BY DEF TaskInv, Unfinished, RestoreEnvironment
<1>3. PlanInv' BY DEF PlanInv, RestoreEnvironment
<1>4. BackupInv' BY DEF BackupInv, Unfinished, RestoreEnvironment
<1>5. WholeInv' BY DEF WholeInv, TaskInv, RestoreEnvironment
<1>6. SwitchInv' BY DEF SwitchInv, TaskInv, PlanInv, RestoreEnvironment
<1>7. MaterialKept' BY DEF MaterialKept, RestoreEnvironment
<1> QED BY <1>1, <1>2, <1>3, <1>4, <1>5, <1>6, <1>7

LEMMA StepVerify ==
  ASSUME RecoveryInv, Verify
  PROVE  RecoveryInv'
<1>0. Ends("completed") BY DEF Verify
<1>8. task' \in Tasks /\ task'.next = "save" /\ task'.result = "completed" /\ task'.of = task.of /\ task'.done = task.done
  BY <1>0, TaskEnds
<1>1. RecoveryTypeOK' BY <1>8 DEF TaskInv, PlanInv, Verify
<1>2. TaskInv' BY <1>8 DEF TaskInv, Verify
<1>3. PlanInv' BY <1>8 DEF PlanInv, TaskInv, Verify
<1>4. BackupInv' BY <1>8 DEF BackupInv, TaskInv, Verify
<1>5. WholeInv' BY DEF WholeInv, TaskInv, PlanInv, BackupInv, Verify
<1>6. SwitchInv' BY DEF SwitchInv, Verify
<1>7. MaterialKept' BY DEF MaterialKept, TaskInv, PlanInv, BackupInv, Verify
<1> QED BY <1>1, <1>2, <1>3, <1>4, <1>5, <1>6, <1>7

LEMMA StepStepThrows ==
  ASSUME RecoveryInv, StepThrows
  PROVE  RecoveryInv'
<1>1. RecoveryTypeOK' BY DEF StepThrows
<1>2. TaskInv' BY DEF TaskInv, Unfinished, StepThrows
<1>3. PlanInv' BY DEF PlanInv, StepThrows
<1>4. BackupInv' BY DEF BackupInv, Unfinished, StepThrows
<1>5. WholeInv' BY DEF WholeInv, TaskInv, StepThrows
<1>6. SwitchInv' BY DEF SwitchInv, StepThrows
<1>7. MaterialKept' BY DEF MaterialKept, StepThrows
<1> QED BY <1>1, <1>2, <1>3, <1>4, <1>5, <1>6, <1>7

LEMMA StepUndoStaging ==
  ASSUME RecoveryInv, UndoStaging
  PROVE  RecoveryInv'
<1>1. CASE /\ staged' = staged \ {task.of} /\ UNCHANGED profileOwner
           /\ task.done = "restored" /\ Goes("undo_environment")
  <2>1. RecoveryTypeOK' BY <1>1 DEF UndoStaging
  <2>2. TaskInv' BY <1>1 DEF TaskInv, Unfinished, UndoStaging
  <2>3. PlanInv' BY <1>1 DEF PlanInv, UndoStaging
  <2>4. BackupInv' BY <1>1 DEF BackupInv, Unfinished, UndoStaging
  <2>5. WholeInv' BY <1>1 DEF WholeInv, TaskInv, UndoStaging
  <2>6. SwitchInv' BY DEF SwitchInv, UndoStaging
  <2>7. MaterialKept' BY DEF MaterialKept, UndoStaging
  <2> QED BY <2>1, <2>2, <2>3, <2>4, <2>5, <2>6, <2>7
<1>2. CASE /\ staged' = staged \ {task.of} /\ UNCHANGED profileOwner
           /\ task.done = "isolated" /\ Goes("undo_switch")
  <2>1. RecoveryTypeOK' BY <1>2 DEF UndoStaging
  <2>2. TaskInv' BY <1>2 DEF TaskInv, Unfinished, UndoStaging
  <2>3. PlanInv' BY <1>2 DEF PlanInv, UndoStaging
  <2>4. BackupInv' BY <1>2 DEF BackupInv, Unfinished, UndoStaging
  <2>5. WholeInv' BY <1>2 DEF WholeInv, TaskInv, UndoStaging
  <2>6. SwitchInv' BY DEF SwitchInv, UndoStaging
  <2>7. MaterialKept' BY DEF MaterialKept, UndoStaging
  <2> QED BY <2>1, <2>2, <2>3, <2>4, <2>5, <2>6, <2>7
<1>3. CASE /\ staged' = staged \ {task.of} /\ UNCHANGED profileOwner
           /\ task.done = "nothing" /\ Goes("undone")
  <2>1. RecoveryTypeOK' BY <1>3 DEF UndoStaging
  <2>2. TaskInv' BY <1>3 DEF TaskInv, Unfinished, UndoStaging
  <2>3. PlanInv' BY <1>3 DEF PlanInv, UndoStaging
  <2>4. BackupInv' BY <1>3 DEF BackupInv, Unfinished, UndoStaging
  <2>5. WholeInv' BY <1>3 DEF WholeInv, TaskInv, UndoStaging
  <2>6. SwitchInv' BY DEF SwitchInv, UndoStaging
  <2>7. MaterialKept' BY DEF MaterialKept, UndoStaging
  <2> QED BY <2>1, <2>2, <2>3, <2>4, <2>5, <2>6, <2>7
<1>4. CASE /\ task.of \in staged /\ UNCHANGED staged
           /\ profileOwner' = "nobody" /\ Ends("rejected")
  <2>8. /\ task' \in Tasks /\ task'.next = "save" /\ task'.result = "rejected"
        /\ task'.of = task.of /\ task'.done = task.done
    BY <1>4, TaskEnds
  <2>1. RecoveryTypeOK' BY <2>8 DEF UndoStaging
  <2>2. TaskInv' BY <2>8 DEF TaskInv, UndoStaging
  <2>3. PlanInv' BY <2>8 DEF PlanInv, UndoStaging
  <2>4. BackupInv' BY <2>8 DEF BackupInv, Unfinished, UndoStaging
  <2>5. WholeInv' BY <2>8 DEF WholeInv, Unfinished, Isolated, SwitchInv, UndoStaging
  <2>6. SwitchInv' BY <1>4 DEF SwitchInv
  <2>7. MaterialKept' BY DEF MaterialKept, UndoStaging
  <2> QED BY <2>1, <2>2, <2>3, <2>4, <2>5, <2>6, <2>7
<1> QED BY <1>1, <1>2, <1>3, <1>4 DEF UndoStaging

LEMMA StepUndoEnvironment ==
  ASSUME RecoveryInv, UndoEnvironment
  PROVE  RecoveryInv'
<1>1. CASE /\ environment' = plan[task.of].current.environment
           /\ Goes("undo_switch") /\ UNCHANGED profileOwner
  <2>1. RecoveryTypeOK' BY <1>1 DEF TaskInv, PlanInv, UndoEnvironment
  <2>2. TaskInv' BY <1>1 DEF TaskInv, Unfinished, UndoEnvironment
  <2>3. PlanInv' BY <1>1 DEF PlanInv, UndoEnvironment
  <2>4. BackupInv' BY <1>1 DEF BackupInv, Unfinished, UndoEnvironment
  <2>5. WholeInv' BY <1>1 DEF WholeInv, TaskInv, UndoEnvironment
  <2>6. SwitchInv' BY DEF SwitchInv, UndoEnvironment
  <2>7. MaterialKept' BY DEF MaterialKept, UndoEnvironment
  <2> QED BY <2>1, <2>2, <2>3, <2>4, <2>5, <2>6, <2>7
<1> QED BY <1>1, OperationEnds DEF UndoEnvironment

LEMMA StepRemoveSwitched ==
  ASSUME RecoveryInv, RemoveSwitched
  PROVE  RecoveryInv'
<1>1. CASE profileDir' = NoMaterial /\ Goes("undo_rename") /\ UNCHANGED profileOwner
  <2>1. RecoveryTypeOK' BY <1>1 DEF RemoveSwitched
  <2>2. TaskInv' BY <1>1 DEF TaskInv, Unfinished, RemoveSwitched
  <2>3. PlanInv' BY <1>1 DEF PlanInv, RemoveSwitched
  <2>4. BackupInv' BY <1>1 DEF BackupInv, Unfinished, RemoveSwitched
  <2>5. WholeInv' BY <1>1 DEF WholeInv, TaskInv, RemoveSwitched
  <2>6. SwitchInv' BY <1>1 DEF SwitchInv, RemoveSwitched
  <2>7. MaterialKept' BY DEF MaterialKept, TaskInv, SwitchInv, RemoveSwitched
  <2> QED BY <2>1, <2>2, <2>3, <2>4, <2>5, <2>6, <2>7
<1> QED BY <1>1, OperationEnds DEF RemoveSwitched

LEMMA StepRestoreOriginal ==
  ASSUME RecoveryInv, RestoreOriginal
  PROVE  RecoveryInv'
<1>1. CASE /\ profileDir' = before[task.of] /\ before' = [before EXCEPT ![task.of] = NoMaterial]
           /\ Goes("undone") /\ UNCHANGED profileOwner
  <2>0. Current' = whole' /\ task'.next = "undone" /\ task'.of = task.of
    <3>1. profileDir' = whole.material /\ environment' = whole.environment /\ whole' = whole
      BY <1>1 DEF SwitchInv, TaskInv, RestoreOriginal
    <3> QED BY <1>1, <3>1 DEF RestoreOriginal
  <2>1. RecoveryTypeOK' BY <1>1 DEF TaskInv, RestoreOriginal
  <2>2. TaskInv' BY <1>1 DEF TaskInv, Unfinished, RestoreOriginal
  <2>3. PlanInv' BY <1>1 DEF PlanInv, RestoreOriginal
  <2>4. BackupInv' BY <1>1 DEF BackupInv, Unfinished, RestoreOriginal
  <2>5. WholeInv' BY <2>0 DEF WholeInv
  <2>6. SwitchInv' BY DEF SwitchInv, RestoreOriginal
  <2>7. MaterialKept' BY <2>0 DEF MaterialKept
  <2> QED BY <2>1, <2>2, <2>3, <2>4, <2>5, <2>6, <2>7
<1>2. CASE /\ profileDir' = before[task.of] /\ before' = [before EXCEPT ![task.of] = NoMaterial]
           /\ profileOwner' = "nobody" /\ Ends("manual_recovery_required")
  <2>8. /\ task' \in Tasks /\ task'.next = "save" /\ task'.result = "manual_recovery_required"
        /\ task'.of = task.of /\ task'.done = task.done
    BY <1>2, TaskEnds
  <2>1. RecoveryTypeOK' BY <2>8 DEF TaskInv, RestoreOriginal
  <2>2. TaskInv' BY <2>8 DEF TaskInv, RestoreOriginal
  <2>3. PlanInv' BY <2>8 DEF PlanInv, RestoreOriginal
  <2>4. BackupInv' BY <2>8 DEF BackupInv, Unfinished, RestoreOriginal
  <2>5. WholeInv' BY <1>2, <2>8 DEF WholeInv
  <2>6. SwitchInv' BY <1>2 DEF SwitchInv
  <2>7. MaterialKept' BY DEF MaterialKept, TaskInv, SwitchInv, RestoreOriginal
  <2> QED BY <2>1, <2>2, <2>3, <2>4, <2>5, <2>6, <2>7
<1> QED BY <1>1, <1>2, OperationEnds DEF RestoreOriginal

LEMMA StepUndone ==
  ASSUME RecoveryInv, Undone
  PROVE  RecoveryInv'
<1>0. Ends("rejected") BY DEF Undone
<1>8. task' \in Tasks /\ task'.next = "save" /\ task'.result = "rejected" /\ task'.of = task.of /\ task'.done = task.done
  BY <1>0, TaskEnds
<1>1. RecoveryTypeOK' BY <1>8 DEF Undone
<1>2. TaskInv' BY <1>8 DEF TaskInv, Undone
<1>3. PlanInv' BY <1>8 DEF PlanInv, Undone
<1>4. BackupInv' BY <1>8 DEF BackupInv, Unfinished, Undone
<1>5. WholeInv' BY DEF WholeInv, TaskInv, SwitchInv, Undone
<1>6. SwitchInv' BY DEF SwitchInv, Undone
<1>7. MaterialKept' BY DEF MaterialKept, Undone
<1> QED BY <1>1, <1>2, <1>3, <1>4, <1>5, <1>6, <1>7

LEMMA StepSaveResult ==
  ASSUME RecoveryInv, SaveResult
  PROVE  RecoveryInv'
<1>1. CASE /\ task.of \in Backups /\ task.result = "completed"
           /\ saved' = [saved EXCEPT ![task.of] = [holds |-> task.found, was |-> task.was]]
  <2>0. /\ saved'[task.of] = [holds |-> task.found, was |-> task.was]
        /\ \A b \in Backups \ {task.of} : saved'[b] = saved[b]
    BY <1>1
  <2>1. RecoveryTypeOK' BY <1>1 DEF TaskInv, SwitchInv, SaveResult
  <2>2. TaskInv' BY DEF TaskInv, SaveResult
  <2>3. PlanInv' BY <1>1 DEF PlanInv, SaveResult
  <2>4. BackupInv' BY <1>1 DEF BackupInv, Unfinished, TaskInv, SaveResult
  <2>5. WholeInv' BY DEF WholeInv, Unfinished, TaskInv, Isolated, SaveResult
  <2>6. SwitchInv' BY DEF SwitchInv, TaskInv, SaveResult
  <2>7. MaterialKept' BY DEF MaterialKept, SaveResult
  <2> QED BY <2>1, <2>2, <2>3, <2>4, <2>5, <2>6, <2>7
<1>2. CASE saved' = saved
  <2>1. RecoveryTypeOK' BY <1>2 DEF SwitchInv, SaveResult
  <2>2. TaskInv' BY DEF TaskInv, SaveResult
  <2>3. PlanInv' BY <1>2 DEF PlanInv, SaveResult
  <2>4. BackupInv' BY <1>2 DEF BackupInv, Unfinished, SaveResult
  <2>5. WholeInv' BY DEF WholeInv, Unfinished, TaskInv, Isolated, SaveResult
  <2>6. SwitchInv' BY DEF SwitchInv, TaskInv, SaveResult
  <2>7. MaterialKept' BY DEF MaterialKept, SaveResult
  <2> QED BY <2>1, <2>2, <2>3, <2>4, <2>5, <2>6, <2>7
<1> QED BY <1>1, <1>2 DEF SaveResult

LEMMA StepRecoveryCrash ==
  ASSUME RecoveryInv, RecoveryCrash
  PROVE  RecoveryInv'
<1>1. RecoveryTypeOK' BY DEF RecoveryCrash
<1>2. TaskInv' BY DEF TaskInv, RecoveryCrash
<1>3. PlanInv' BY DEF PlanInv, RecoveryCrash
<1>4. BackupInv' BY DEF BackupInv, Unfinished, RecoveryCrash
<1>5. WholeInv' BY DEF WholeInv, Unfinished, TaskInv, Isolated, RecoveryCrash
<1>6. SwitchInv' BY DEF SwitchInv, RecoveryCrash
<1>7. MaterialKept' BY DEF MaterialKept, RecoveryCrash
<1> QED BY <1>1, <1>2, <1>3, <1>4, <1>5, <1>6, <1>7

-----------------------------------------------------------------------------
LEMMA InitRecoveryInv == RecoveryInit => RecoveryInv
<1> SUFFICES ASSUME RecoveryInit PROVE RecoveryInv
  OBVIOUS
<1>1. RecoveryTypeOK
  BY DEF RecoveryInit
<1>2. TaskInv /\ PlanInv /\ BackupInv
  BY DEF RecoveryInit, TaskInv, PlanInv, BackupInv
<1>3. WholeInv /\ SwitchInv /\ MaterialKept
  BY DEF RecoveryInit, WholeInv, SwitchInv, MaterialKept
<1> QED BY <1>1, <1>2, <1>3

LEMMA NextRecoveryInv == RecoveryInv /\ [RecoveryNext]_recoveryVars => RecoveryInv'
<1> SUFFICES ASSUME RecoveryInv, [RecoveryNext]_recoveryVars PROVE RecoveryInv'
  OBVIOUS
<1>1. CASE UNCHANGED recoveryVars
  BY <1>1 DEF recoveryVars, TaskInv, PlanInv, BackupInv, WholeInv, Isolated, SwitchInv, MaterialKept,
              Unfinished
<1>2. CASE RecoveryNext
  BY <1>2, StepLaunchProfile, StepCloseProfile, StepBrowse, StepEditEnvironment, StepBegin,
     StepPreparePlan, StepCopyBackup, StepCheckPlan, StepStageBackup, StepIsolate, StepSwitch,
     StepRestoreEnvironment, StepVerify, StepStepThrows, StepUndoStaging, StepUndoEnvironment,
     StepRemoveSwitched, StepRestoreOriginal, StepUndone, StepSaveResult, StepRecoveryCrash
     DEF RecoveryNext
<1> QED BY <1>1, <1>2

\* The invariant with its types: an apply that is not settled keeps the profile
\* from being started, and an isolated profile has its copy.
THEOREM RecoveryInvariant == RecoverySpec => []RecoveryInv
<1> QED BY InitRecoveryInv, NextRecoveryInv, PTL DEF RecoverySpec

\* The owner's material is in place or in a recovery-before copy, whatever step
\* of profile-recovery.ts fails or is the last before a crash.
THEOREM MaterialIsKept == RecoverySpec => []MaterialKept
<1>1. RecoveryInv => MaterialKept
  BY DEF RecoveryInv
<1> QED BY <1>1, RecoveryInvariant, PTL

\* A session starts only on a profile and an environment that belong together.
THEOREM LaunchesAreWhole == RecoverySpec => LaunchedWhole
<1>1. RecoveryInv /\ [RecoveryNext]_recoveryVars =>
        [profileOwner = "nobody" /\ profileOwner' = "session" => Current = whole]_recoveryVars
  <2> SUFFICES ASSUME RecoveryInv, RecoveryNext, profileOwner = "nobody", profileOwner' = "session"
               PROVE  Current = whole
    BY DEF recoveryVars
  <2>1. LaunchProfile
    BY DEF RecoveryNext, CloseProfile, Browse, EditEnvironment, Begin, PreparePlan, CopyBackup,
           CheckPlan, StageBackup, Isolate, Switch, RestoreEnvironment, Verify, StepThrows,
           UndoStaging, UndoEnvironment, RemoveSwitched, RestoreOriginal, Undone, SaveResult,
           RecoveryCrash
  <2> QED BY <2>1 DEF LaunchProfile, Residue, Unfinished, WholeInv, Isolated, TaskInv
<1> QED BY <1>1, RecoveryInvariant, PTL DEF RecoverySpec, LaunchedWhole
HIDE RecoveryAssumption
HIDE DEF RecoveryInv, RecoveryTypeOK, Operations, Pairs, Results, Tasks, SwitchSteps,
        UnfinishedStatuses, materialVars, Owned, Pair, Current, NoPair, NoBackup, NoPlan, NoTask,
        Found, Goes, Restored

-----------------------------------------------------------------------------
(* IdentityMutations.                                                      *)

\* The steps of a mutation, and the job that takes them.
Steps == {"none", "intend", "rename", "quarantine", "purge", "finish"}

JobTyped ==
  /\ job \in [key : Keys \cup {NoKey}, next : Steps]
  /\ job.next = "none" <=> job.key = NoKey

\* The job that runs: before its first write nothing is in repair, afterwards its
\* own key is; and a delete that gets on has removed what it is to remove.
JobInv ==
  /\ JobTyped
  /\ job # NoJob => LET k == job.key IN
       /\ OpOf[k] \in Copies \cup {"delete"}
       /\ job.next = "rename" => OpOf[k] \in Copies
       /\ job.next \in {"quarantine", "purge"} => OpOf[k] = "delete"
       /\ job.next = "intend" => receipt[k] = "none" /\ repair[TargetOf[k]] = NoKey
       /\ job.next # "intend" => receipt[k] = "repair"
       /\ job.next \in {"purge", "finish"} /\ OpOf[k] = "delete" =>
            /\ profile[Source(k)] = "none"
            /\ residual[Source(k)] \subseteq IF job.next = "purge" THEN {"delete"} ELSE {}

\* A repair entry is of a copy or a delete of its identity.
EntryInv ==
  /\ \A i \in Ids : repair[i] # NoKey => TargetOf[repair[i]] = i
  /\ \A k \in Keys : receipt[k] = "repair" => OpOf[k] \in Copies \cup {"delete"}

\* Until a copy has a receipt there is nothing under its target, nor a delete of it.
UnusedInv ==
  \A k \in Keys : OpOf[k] \in Copies /\ receipt[k] = "none" =>
    /\ record[TargetOf[k]] = NoRecord /\ repair[TargetOf[k]] = NoKey
    /\ job.key \in {k, NoKey} \/ TargetOf[job.key] # TargetOf[k]

MutInv == JobInv /\ EntryInv /\ UnusedInv /\ RepairsPaired

\* The records of the identities.
Records == [life : {"none", "active", "archived"}, repair : BOOLEAN]

\* What the assumptions and the types say of a key and of the job.
LEMMA KeyFields ==
  ASSUME NEW k \in Keys
  PROVE  /\ SourceOf[k] \in Ids /\ TargetOf[k] \in Ids
         /\ Source(k) \in Storages /\ Target(k) \in Storages
BY MutationsAssumption DEF Source, Target, Storages

LEMMA JobFields ==
  ASSUME JobTyped, job.next # "none"
  PROVE  /\ job.key \in Keys /\ job # NoJob
         /\ SourceOf[job.key] \in Ids /\ TargetOf[job.key] \in Ids
         /\ Source(job.key) \in Storages /\ Target(job.key) \in Storages
BY KeyFields DEF JobTyped, NoJob

\* The records that a step writes.
LEMMA RecordsWritten ==
  ASSUME MutationsTypeOK
  PROVE  /\ {NoRecord, Clean("active"), Clean("archived")} \subseteq Records
         /\ \A i \in Ids : {record[i], Clean(record[i].life), [life |-> record[i].life, repair |-> TRUE],
                            [life |-> "active", repair |-> TRUE]} \subseteq Records
BY DEF MutationsTypeOK, NoRecord, Clean, Records

\* Each action leaves every variable in its type.
LEMMA IntendTyped ==
  ASSUME MutationsTypeOK, JobTyped, Intend PROVE MutationsTypeOK'
<1>0. job.next # "none" BY DEF Intend
<1>1. record' \in [Ids -> Records]
  <2>1. CASE UNCHANGED record BY <2>1 DEF MutationsTypeOK, Records
  <2>2. CASE \E new \in Records : record' = [record EXCEPT ![TargetOf[job.key]] = new]
    BY <2>2 DEF MutationsTypeOK, Records
  <2> QED BY <1>0, JobFields, <2>1, <2>2, RecordsWritten DEF Intend, GivesUp, storeVars
<1>2. /\ receipt' \in [Keys -> {"none", "completed", "failed", "repair"}]
      /\ repair' \in [Ids -> Keys \cup {NoKey}]
  BY <1>0, JobFields DEF MutationsTypeOK, Intend, GivesUp, storeVars
<1>3. /\ profile' \in [Storages -> {"none", "data", "fresh"}]
      /\ residual' \in [Storages -> SUBSET {"copy", "delete"}]
  BY <1>0, JobFields DEF MutationsTypeOK, Intend, GivesUp, storeVars
<1>4. job'.key \in Keys \cup {NoKey}
  BY <1>0, JobFields DEF MutationsTypeOK, Intend, GivesUp, storeVars, Job, NoJob
<1> QED BY <1>1, <1>2, <1>3, <1>4 DEF MutationsTypeOK, Records

LEMMA CommitTyped ==
  ASSUME MutationsTypeOK, JobTyped, CommitCopy PROVE MutationsTypeOK'
<1>0. job.next # "none" BY DEF CommitCopy
<1>1. record' \in [Ids -> Records]
  BY <1>0, JobFields, RecordsWritten DEF MutationsTypeOK, CommitCopy, RolledBack, GivesUp,
     storeVars, diskVars
<1>2. /\ receipt' \in [Keys -> {"none", "completed", "failed", "repair"}]
      /\ repair' \in [Ids -> Keys \cup {NoKey}]
  BY <1>0, JobFields DEF MutationsTypeOK, CommitCopy, RolledBack, GivesUp, storeVars, diskVars
<1>3. /\ profile' \in [Storages -> {"none", "data", "fresh"}]
      /\ residual' \in [Storages -> SUBSET {"copy", "delete"}]
  BY <1>0, JobFields DEF MutationsTypeOK, CommitCopy, RolledBack, GivesUp, storeVars, diskVars
<1>4. job'.key \in Keys \cup {NoKey}
  BY <1>0, JobFields DEF MutationsTypeOK, CommitCopy, RolledBack, GivesUp, storeVars, diskVars, Job,
     NoJob
<1> QED BY <1>1, <1>2, <1>3, <1>4 DEF MutationsTypeOK, Records

LEMMA DeleteTyped ==
  ASSUME MutationsTypeOK, JobTyped, Quarantine \/ Purge PROVE MutationsTypeOK'
<1>0. job.next # "none" BY DEF Quarantine, Purge
<1>1. record' \in [Ids -> Records]
  BY <1>0, JobFields, RecordsWritten DEF MutationsTypeOK, Quarantine, Purge, GivesUp, storeVars
<1>2. /\ receipt' \in [Keys -> {"none", "completed", "failed", "repair"}]
      /\ repair' \in [Ids -> Keys \cup {NoKey}]
  BY <1>0, JobFields DEF MutationsTypeOK, Quarantine, Purge, GivesUp, storeVars
<1>3. /\ profile' \in [Storages -> {"none", "data", "fresh"}]
      /\ residual' \in [Storages -> SUBSET {"copy", "delete"}]
  BY <1>0, JobFields DEF MutationsTypeOK, Quarantine, Purge, GivesUp, storeVars
<1>4. job'.key \in Keys \cup {NoKey}
  BY <1>0, JobFields DEF MutationsTypeOK, Quarantine, Purge, GivesUp, storeVars, Job, NoJob
<1> QED BY <1>1, <1>2, <1>3, <1>4 DEF MutationsTypeOK, Records

LEMMA FinishTyped ==
  ASSUME MutationsTypeOK, JobTyped, FinishMutation PROVE MutationsTypeOK'
<1>0. job.next # "none" BY DEF FinishMutation
<1>1. record' \in [Ids -> Records]
  <2>1. CASE UNCHANGED record BY <2>1 DEF MutationsTypeOK, Records
  <2>2. CASE \E new \in Records : record' = [record EXCEPT ![TargetOf[job.key]] = new]
    BY <2>2 DEF MutationsTypeOK, Records
  <2> QED BY <1>0, JobFields, <2>1, <2>2, RecordsWritten DEF FinishMutation, storeVars
<1>2. /\ receipt' \in [Keys -> {"none", "completed", "failed", "repair"}]
      /\ repair' \in [Ids -> Keys \cup {NoKey}]
  BY <1>0, JobFields DEF MutationsTypeOK, FinishMutation, storeVars, diskVars
<1>3. /\ profile' \in [Storages -> {"none", "data", "fresh"}]
      /\ residual' \in [Storages -> SUBSET {"copy", "delete"}]
  BY <1>0, JobFields DEF MutationsTypeOK, FinishMutation, storeVars, diskVars
<1>4. job'.key \in Keys \cup {NoKey}
  BY <1>0, JobFields DEF MutationsTypeOK, FinishMutation, storeVars, diskVars, NoJob
<1> QED BY <1>1, <1>2, <1>3, <1>4 DEF MutationsTypeOK, Records

LEMMA ReconcileTyped ==
  ASSUME MutationsTypeOK, JobTyped, NEW k \in Keys, ReconcileRepair(k) PROVE MutationsTypeOK'
<1>1. record' \in [Ids -> Records]
  BY KeyFields, RecordsWritten DEF MutationsTypeOK, ReconcileRepair, RolledBack, GivesUp, storeVars
<1>2. /\ receipt' \in [Keys -> {"none", "completed", "failed", "repair"}]
      /\ repair' \in [Ids -> Keys \cup {NoKey}]
  BY KeyFields DEF MutationsTypeOK, ReconcileRepair, RolledBack, GivesUp, storeVars
<1>3. /\ profile' \in [Storages -> {"none", "data", "fresh"}]
      /\ residual' \in [Storages -> SUBSET {"copy", "delete"}]
  BY KeyFields DEF MutationsTypeOK, ReconcileRepair, RolledBack, GivesUp, storeVars
<1>4. job'.key \in Keys \cup {NoKey}
  BY KeyFields DEF MutationsTypeOK, ReconcileRepair, RolledBack, GivesUp, storeVars, Job, NoJob
<1> QED BY <1>1, <1>2, <1>3, <1>4 DEF MutationsTypeOK, Records

LEMMA SimpleTyped ==
  ASSUME MutationsTypeOK, JobTyped, NEW k \in Keys, Simple(k) PROVE MutationsTypeOK'
<1>1. record' \in [Ids -> Records]
  BY KeyFields, RecordsWritten DEF MutationsTypeOK, Simple, MaySimple, diskVars
<1>2. QED
  BY KeyFields, <1>1 DEF MutationsTypeOK, Records, Simple, MaySimple, diskVars

LEMMA RecordsTyped ==
  ASSUME MutationsTypeOK, JobTyped, NEW i \in Ids, Upsert(i) \/ DeleteRecord(i) PROVE MutationsTypeOK'
<1>1. record' \in [Ids -> Records]
  BY RecordsWritten DEF MutationsTypeOK, Upsert, DeleteRecord, diskVars
<1>2. QED
  BY <1>1 DEF MutationsTypeOK, Records, Upsert, DeleteRecord, diskVars

LEMMA MutationsStepTyped ==
  ASSUME MutationsTypeOK, JobTyped, [MutationsNext]_mutationVars PROVE MutationsTypeOK'
<1>1. CASE UNCHANGED mutationVars
  BY <1>1 DEF mutationVars, MutationsTypeOK
<1>2. ASSUME NEW k \in Keys, Simple(k) \/ StageCopy(k) \/ StartDelete(k) \/ ReconcileRepair(k)
      PROVE  MutationsTypeOK'
  <2>1. CASE StageCopy(k) \/ StartDelete(k)
    BY <2>1, KeyFields DEF MutationsTypeOK, StageCopy, StartDelete, storeVars, diskVars, Job
  <2> QED BY <1>2, <2>1, SimpleTyped, ReconcileTyped
<1>3. ASSUME NEW i \in Ids, Upsert(i) \/ DeleteRecord(i) \/ Launch(i) PROVE MutationsTypeOK'
  <2>1. CASE Launch(i)
    BY <2>1 DEF MutationsTypeOK, Launch, storeVars, Storages
  <2> QED BY <1>3, <2>1, RecordsTyped
<1>4. CASE HarborCrash
  BY <1>4 DEF MutationsTypeOK, HarborCrash, storeVars, diskVars, NoJob
<1> QED BY <1>1, <1>2, <1>3, <1>4, IntendTyped, CommitTyped, DeleteTyped, FinishTyped
           DEF MutationsNext

-----------------------------------------------------------------------------
(* The inductive invariant, action by action. *)

USE MutationsAssumption, OwnerRefAssumption
USE DEF MutInv, MutationsTypeOK, JobInv, JobTyped, EntryInv, UnusedInv, RepairsPaired, Steps,
        Copies, Makers, MutationOps, NoJob, NoRecord, Clean, Job, storeVars, diskVars,
        Recorded, InRepair, Source, Target, Storages

LEMMA StepSimple ==
  ASSUME MutationsTypeOK, MutInv, NEW k \in Keys, Simple(k) PROVE MutInv'
<1>1. JobInv' BY DEF Simple, MaySimple, Conflicts
<1>2. EntryInv' BY DEF Simple, MaySimple, Conflicts
<1>3. UnusedInv' BY DEF Simple, MaySimple, Conflicts
<1>4. RepairsPaired' BY DEF Simple, MaySimple, Conflicts
<1> QED BY <1>1, <1>2, <1>3, <1>4

LEMMA StepUpsert ==
  ASSUME MutationsTypeOK, MutInv, NEW i \in Ids, Upsert(i) PROVE MutInv'
<1>1. JobInv' BY DEF Upsert
<1>2. EntryInv' BY DEF Upsert
<1>3. UnusedInv' BY DEF Upsert
<1>4. RepairsPaired' BY DEF Upsert
<1> QED BY <1>1, <1>2, <1>3, <1>4

LEMMA StepDeleteRecord ==
  ASSUME MutationsTypeOK, MutInv, NEW i \in Ids, DeleteRecord(i) PROVE MutInv'
<1>1. JobInv' BY DEF DeleteRecord
<1>2. EntryInv' BY DEF DeleteRecord
<1>3. UnusedInv' BY DEF DeleteRecord
<1>4. RepairsPaired' BY DEF DeleteRecord
<1> QED BY <1>1, <1>2, <1>3, <1>4

LEMMA StepLaunch ==
  ASSUME MutationsTypeOK, MutInv, NEW i \in Ids, Launch(i) PROVE MutInv'
<1>1. JobInv' BY DEF Launch
<1>2. EntryInv' BY DEF Launch
<1>3. UnusedInv' BY DEF Launch
<1>4. RepairsPaired' BY DEF Launch
<1> QED BY <1>1, <1>2, <1>3, <1>4

LEMMA StepStageCopy ==
  ASSUME MutationsTypeOK, MutInv, NEW k \in Keys, StageCopy(k) PROVE MutInv'
<1>1. JobInv' BY DEF StageCopy, Conflicts
<1>2. EntryInv' BY DEF StageCopy, Conflicts
<1>3. UnusedInv' BY DEF StageCopy, Conflicts
<1>4. RepairsPaired' BY DEF StageCopy, Conflicts
<1> QED BY <1>1, <1>2, <1>3, <1>4

LEMMA StepStartDelete ==
  ASSUME MutationsTypeOK, MutInv, NEW k \in Keys, StartDelete(k) PROVE MutInv'
<1>1. JobInv' BY DEF StartDelete
<1>2. EntryInv' BY DEF StartDelete
<1>3. UnusedInv' BY DEF StartDelete
<1>4. RepairsPaired' BY DEF StartDelete
<1> QED BY <1>1, <1>2, <1>3, <1>4

LEMMA StepIntend ==
  ASSUME MutationsTypeOK, MutInv, Intend PROVE MutInv'
<1>1. JobInv' BY DEF Intend, GivesUp
<1>2. EntryInv' BY DEF Intend, GivesUp
<1>3. UnusedInv' BY DEF Intend, GivesUp
<1>4. RepairsPaired' BY DEF Intend, GivesUp
<1> QED BY <1>1, <1>2, <1>3, <1>4

LEMMA StepCommitCopy ==
  ASSUME MutationsTypeOK, MutInv, CommitCopy PROVE MutInv'
<1>1. JobInv' BY DEF CommitCopy, GivesUp, RolledBack
<1>2. EntryInv' BY DEF CommitCopy, GivesUp, RolledBack
<1>3. UnusedInv' BY DEF CommitCopy, GivesUp, RolledBack
<1>4. RepairsPaired' BY DEF CommitCopy, GivesUp, RolledBack
<1> QED BY <1>1, <1>2, <1>3, <1>4

LEMMA StepQuarantine ==
  ASSUME MutationsTypeOK, MutInv, Quarantine PROVE MutInv'
<1>1. JobInv' BY DEF Quarantine, GivesUp
<1>2. EntryInv' BY DEF Quarantine, GivesUp
<1>3. UnusedInv' BY DEF Quarantine, GivesUp
<1>4. RepairsPaired' BY DEF Quarantine, GivesUp
<1> QED BY <1>1, <1>2, <1>3, <1>4

LEMMA StepPurge ==
  ASSUME MutationsTypeOK, MutInv, Purge PROVE MutInv'
<1>1. JobInv' BY DEF Purge, GivesUp
<1>2. EntryInv' BY DEF Purge, GivesUp
<1>3. UnusedInv' BY DEF Purge, GivesUp
<1>4. RepairsPaired' BY DEF Purge, GivesUp
<1> QED BY <1>1, <1>2, <1>3, <1>4

LEMMA StepFinishMutation ==
  ASSUME MutationsTypeOK, MutInv, FinishMutation PROVE MutInv'
<1>1. JobInv' BY DEF FinishMutation
<1>2. EntryInv' BY DEF FinishMutation
<1>3. UnusedInv' BY DEF FinishMutation
<1>4. RepairsPaired' BY DEF FinishMutation
<1> QED BY <1>1, <1>2, <1>3, <1>4

LEMMA StepHarborCrash ==
  ASSUME MutationsTypeOK, MutInv, HarborCrash PROVE MutInv'
<1>1. JobInv' BY DEF HarborCrash
<1>2. EntryInv' BY DEF HarborCrash
<1>3. UnusedInv' BY DEF HarborCrash
<1>4. RepairsPaired' BY DEF HarborCrash
<1> QED BY <1>1, <1>2, <1>3, <1>4

LEMMA StepReconcile ==
  ASSUME MutationsTypeOK, MutInv, NEW k \in Keys, ReconcileRepair(k) PROVE MutInv'
<1>1. JobInv'
  <2>1. CASE OpOf[k] = "delete" BY <2>1 DEF ReconcileRepair, GivesUp, RolledBack
  <2>2. CASE OpOf[k] # "delete"
    <3>1. CASE RolledBack(k) BY <2>2, <3>1 DEF ReconcileRepair, RolledBack
    <3>2. CASE UNCHANGED storeVars /\ job' \in {NoJob, Job(k, "finish")}
      BY <2>2, <3>2 DEF ReconcileRepair
    <3> QED BY <2>2, <3>1, <3>2 DEF ReconcileRepair, GivesUp
  <2> QED BY <2>1, <2>2
<1>2. EntryInv'
  <2>1. CASE OpOf[k] = "delete" BY <2>1 DEF ReconcileRepair, GivesUp, RolledBack
  <2>2. CASE OpOf[k] # "delete"
    <3>1. CASE RolledBack(k) BY <2>2, <3>1 DEF ReconcileRepair, RolledBack
    <3>2. CASE UNCHANGED storeVars /\ job' \in {NoJob, Job(k, "finish")}
      BY <2>2, <3>2 DEF ReconcileRepair
    <3> QED BY <2>2, <3>1, <3>2 DEF ReconcileRepair, GivesUp
  <2> QED BY <2>1, <2>2
<1>3. UnusedInv'
  <2>1. CASE OpOf[k] = "delete" BY <2>1 DEF ReconcileRepair, GivesUp, RolledBack
  <2>2. CASE OpOf[k] # "delete"
    <3>1. CASE RolledBack(k) BY <2>2, <3>1 DEF ReconcileRepair, RolledBack
    <3>2. CASE UNCHANGED storeVars /\ job' \in {NoJob, Job(k, "finish")}
      BY <2>2, <3>2 DEF ReconcileRepair
    <3> QED BY <2>2, <3>1, <3>2 DEF ReconcileRepair, GivesUp
  <2> QED BY <2>1, <2>2
<1>4. RepairsPaired'
  <2>1. CASE OpOf[k] = "delete" BY <2>1 DEF ReconcileRepair, GivesUp, RolledBack
  <2>2. CASE OpOf[k] # "delete"
    <3>1. CASE RolledBack(k) BY <2>2, <3>1 DEF ReconcileRepair, RolledBack
    <3>2. CASE UNCHANGED storeVars /\ job' \in {NoJob, Job(k, "finish")}
      BY <2>2, <3>2 DEF ReconcileRepair
    <3> QED BY <2>2, <3>1, <3>2 DEF ReconcileRepair, GivesUp
  <2> QED BY <2>1, <2>2
<1> QED BY <1>1, <1>2, <1>3, <1>4

LEMMA MutationsStep ==
  ASSUME MutationsTypeOK, MutInv, [MutationsNext]_mutationVars PROVE MutInv'
<1>1. CASE UNCHANGED mutationVars BY <1>1 DEF mutationVars
<1> QED
  BY <1>1, StepSimple, StepUpsert, StepDeleteRecord, StepLaunch, StepStageCopy, StepStartDelete,
     StepIntend, StepCommitCopy, StepQuarantine, StepPurge, StepFinishMutation, StepHarborCrash,
     StepReconcile DEF MutationsNext

LEMMA MutationsBegin == MutationsInit => MutationsTypeOK /\ MutInv
BY DEF MutationsInit

\* What a step that completes a delete finds.
DeletedStep ==
  \A k \in Keys :
    OpOf[k] = "delete" /\ receipt'[k] = "completed" /\ receipt[k] # "completed" =>
      /\ profile'[Source(k)] = "none" /\ residual'[Source(k)] = {}
      /\ ~Recorded(SourceOf[k])'

LEMMA OnlyAFinishDeletes ==
  ASSUME MutationsTypeOK, MutInv, [MutationsNext]_mutationVars PROVE DeletedStep
<1> SUFFICES ASSUME NEW k \in Keys, OpOf[k] = "delete", receipt'[k] = "completed", receipt[k] # "completed"
             PROVE  /\ profile'[Source(k)] = "none" /\ residual'[Source(k)] = {}
                    /\ ~Recorded(SourceOf[k])'
  BY DEF DeletedStep
<1>1. FinishMutation /\ job.key = k
  <2>1. ~ UNCHANGED receipt
    OBVIOUS
  <2>2. ASSUME NEW l \in Keys, Simple(l) PROVE FALSE
    BY <2>2 DEF Simple, MaySimple
  <2>3. ASSUME NEW l \in Keys, StageCopy(l) \/ StartDelete(l) \/ ReconcileRepair(l) PROVE FALSE
    BY <2>3 DEF StageCopy, StartDelete, ReconcileRepair, GivesUp, RolledBack
  <2>4. ~Intend /\ ~CommitCopy
    BY DEF Intend, CommitCopy, GivesUp, RolledBack
  <2>5. ~Quarantine /\ ~Purge /\ ~HarborCrash
    BY <2>1 DEF Quarantine, Purge, HarborCrash, GivesUp
  <2>6. ASSUME NEW i \in Ids PROVE ~Upsert(i) /\ ~DeleteRecord(i) /\ ~Launch(i)
    BY <2>1 DEF Upsert, DeleteRecord, Launch
  <2>7. FinishMutation
    BY <2>1, <2>2, <2>3, <2>4, <2>5, <2>6 DEF MutationsNext, mutationVars
  <2> QED BY <2>7 DEF FinishMutation
<1> QED BY <1>1 DEF FinishMutation

\* The types of the identity store, and the invariant that a repair in progress
\* keeps its key, its identity and what is on the disk together.
THEOREM MutationsInvariance == MutationsSpec => [](MutationsTypeOK /\ MutInv)
<1>1. MutationsTypeOK /\ MutInv /\ [MutationsNext]_mutationVars => (MutationsTypeOK /\ MutInv)'
  BY MutationsStep, MutationsStepTyped
<1> QED BY <1>1, MutationsBegin, PTL DEF MutationsSpec

\* An identity is marked for repair exactly while the receipt of one key says so,
\* and that key is its own, whatever was interrupted.
THEOREM RepairsArePaired == MutationsSpec => []RepairsPaired
<1>1. MutInv => RepairsPaired OBVIOUS
<1> QED BY <1>1, MutationsInvariance, PTL

\* A delete is completed only when its profile, its residual files and its record
\* are gone.
THEOREM DeletedIsDeleted == MutationsSpec => DeletedIsGone
<1>1. MutationsTypeOK /\ MutInv /\ [MutationsNext]_mutationVars => DeletedStep
  BY OnlyAFinishDeletes
<1>2. MutationsSpec => [][DeletedStep]_mutationVars
  BY <1>1, MutationsInvariance, PTL DEF MutationsSpec
<1> QED BY <1>2 DEF DeletedIsGone, DeletedStep
=============================================================================
