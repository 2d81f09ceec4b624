-------------------------- MODULE ProfileRecovery --------------------------
(***************************************************************************)
(* Backups of a profile and their restoration: profile-recovery.ts, with   *)
(* the check a launch makes (runtime-session.ts) and the environment of    *)
(* the identity's record (identity-environment-manager.ts).  One operation *)
(* at a time holds the operations lock; several Harbor processes may use   *)
(* the profile, one at a time by its ownership lock.  A step of the switch *)
(* is one durable change: it may fail, or the process die after it.        *)
(***************************************************************************)
CONSTANTS
  Backups, Applies, \* operations, each of one idempotency key; their retry reads it
  NoOperation,
  Materials,        \* what may be in a profile directory
  NoMaterial,
  Environments      \* what an owner may configure: language, timezone, viewport

Operations == Backups \cup Applies

ASSUME RecoveryAssumption ==
  /\ Backups \cap Applies = {}
  /\ NoOperation \notin Operations /\ NoMaterial \notin Materials

VARIABLES
  profileDir,   \* the profile directory
  environment,  \* the environment in the identity's record
  profileOwner, \* who has the profile: nobody, a session or a recovery
  status,       \* operations.json: the status of every operation
  saved,        \* saved[b]: what a completed backup holds
  plan,         \* plan[a]: what its plan found, and the backup it restores
  before,       \* before[a]: its .recovery-before copy
  staged,       \* applies whose .recovery-stage tree is there
  task,         \* the operation that runs: its next step and what it has done
  whole         \* history: the material and the environment that belong together

recoveryVars ==
  <<profileDir, environment, profileOwner, status, saved, plan, before, staged, task, whole>>
materialVars == <<profileDir, before, staged>>

Pair(m, e) == [material |-> m, environment |-> e]
Current == Pair(profileDir, environment)
NoPair == [material |-> NoMaterial, environment |-> NoMaterial]
NoBackup == [holds |-> NoPair, was |-> NoPair]
NoPlan == [current |-> NoPair, from |-> NoOperation]
NoTask == [of |-> NoOperation, next |-> "none", found |-> NoPair, was |-> NoPair,
           done |-> "nothing", result |-> "none"]

RecoveryInit ==
  /\ profileDir \in Materials /\ environment \in Environments
  /\ profileOwner = "nobody"
  /\ status = [o \in Operations |-> "none"]
  /\ saved = [b \in Backups |-> NoBackup]
  /\ plan = [a \in Applies |-> NoPlan]
  /\ before = [a \in Applies |-> NoMaterial]
  /\ staged = {}
  /\ task = NoTask
  /\ whole = Pair(profileDir, environment)

\* activeResidue
Residue ==
  \/ staged # {}
  \/ profileDir = NoMaterial /\ \E a \in Applies : before[a] # NoMaterial

UnfinishedStatuses == {"running", "manual_recovery_required"}

\* Slip: an operation that says running is taken to run.
UnfinishedManual(but) ==
  \E a \in Applies \ {but} : status[a] = "manual_recovery_required"

\* The applies, but one, whose outcome is not settled.
Unfinished(but) == \E a \in Applies \ {but} : status[a] \in UnfinishedStatuses

-----------------------------------------------------------------------------
(* Sessions and the owner's edits. *)

\* createSession: the profile is taken, then assertNoUnfinishedProfileRecovery.
LaunchProfile ==
  /\ profileOwner = "nobody"
  /\ ~Residue /\ ~Unfinished(NoOperation)
  /\ profileOwner' = "session"
  /\ UNCHANGED <<environment, status, saved, plan, task, whole>> /\ UNCHANGED materialVars

\* The browser writes what it likes into the profile.
Browse(m) ==
  /\ profileOwner = "session"
  /\ profileDir' = m
  /\ whole' = [whole EXCEPT !.material = m]
  /\ UNCHANGED <<environment, profileOwner, status, saved, plan, before, staged, task>>

CloseProfile ==
  /\ profileOwner = "session"
  /\ profileOwner' = "nobody"
  /\ UNCHANGED <<environment, status, saved, plan, task, whole>> /\ UNCHANGED materialVars

\* The edit of an environment, under the profile's ownership or, for what only
\* the next launch reads, beside a session.
EditEnvironment(e) ==
  /\ profileOwner # "recovery"
  /\ environment' = e
  /\ whole' = [whole EXCEPT !.environment = e]
  /\ UNCHANGED <<profileOwner, status, saved, plan, task>> /\ UNCHANGED materialVars

-----------------------------------------------------------------------------
(* backup and preparePlan *)

\* startOperation and the first save; what is there is looked at.
Begin(o) ==
  /\ task = NoTask /\ status[o] = "none"
  /\ o \in Applies => plan[o] # NoPlan
  /\ status' = [status EXCEPT ![o] = "running"]
  /\ task' = [NoTask EXCEPT !.of = o, !.next = IF o \in Backups THEN "copy" ELSE "check",
                            !.found = IF o \in Backups THEN Current ELSE NoPair]
  /\ UNCHANGED <<environment, profileOwner, saved, plan, whole>> /\ UNCHANGED materialVars

Ends(result) == task' = [task EXCEPT !.next = "save", !.result = result]

\* The copy is made under the profile's ownership, if nothing has changed
\* since; until the result is saved nobody knows its ref.
CopyBackup ==
  /\ task.next = "copy"
  /\ \/ profileOwner = "nobody" /\ profileDir # NoMaterial /\ task.found = Current
        /\ task' = [task EXCEPT !.next = "save", !.result = "completed", !.was = whole]
     \/ Ends("rejected")
  /\ UNCHANGED <<environment, profileOwner, status, saved, plan, whole>> /\ UNCHANGED materialVars

\* preparePlan, for a profile that nobody uses and no recovery has left.
PreparePlan(a, b) ==
  /\ task = NoTask /\ profileOwner # "session"
  /\ plan[a] = NoPlan /\ saved[b] # NoBackup
  /\ profileDir # NoMaterial /\ ~Residue /\ ~Unfinished(NoOperation)
  /\ plan' = [plan EXCEPT ![a] = [current |-> Current, from |-> b]]
  /\ UNCHANGED <<environment, profileOwner, status, saved, task, whole>> /\ UNCHANGED materialVars

-----------------------------------------------------------------------------
(* apply *)

Restored(a) == saved[plan[a].from].holds

Goes(next) == task' = [task EXCEPT !.next = next]

\* The plan still holds, before and after the profile is taken; or it has
\* expired, the profile is in use, or another apply is unfinished.
CheckPlan ==
  LET a == task.of IN
  /\ task.next = "check"
  /\ \/ /\ ~Unfinished(a) /\ profileOwner = "nobody"
        /\ Current = plan[a].current
        /\ profileOwner' = "recovery" /\ Goes("stage")
     \/ Ends("rejected") /\ UNCHANGED profileOwner
  /\ UNCHANGED <<environment, status, saved, plan, whole>> /\ UNCHANGED materialVars

\* copyTree into a staging directory, and its fingerprint.
StageBackup ==
  /\ task.next = "stage"
  /\ staged' = staged \cup {task.of}
  /\ Goes("isolate")
  /\ UNCHANGED <<profileDir, before, environment, profileOwner, status, saved, plan, whole>>

\* Slip: the profile is removed to make room.
IsolateByRemoval ==
  /\ task.next = "isolate"
  /\ profileDir' = NoMaterial
  /\ task' = [task EXCEPT !.next = "switch", !.done = "isolated"]
  /\ UNCHANGED <<staged, before, environment, profileOwner, status, saved, plan, whole>>

\* The profile is renamed to a recovery-before copy.
Isolate ==
  /\ task.next = "isolate"
  /\ before' = [before EXCEPT ![task.of] = profileDir]
  /\ profileDir' = NoMaterial
  /\ task' = [task EXCEPT !.next = "switch", !.done = "isolated"]
  /\ UNCHANGED <<staged, environment, profileOwner, status, saved, plan, whole>>

Switch ==
  /\ task.next = "switch"
  /\ profileDir' = Restored(task.of).material
  /\ staged' = staged \ {task.of}
  /\ Goes("environment")
  /\ UNCHANGED <<before, environment, profileOwner, status, saved, plan, whole>>

\* restoreRecoveryEnvironment
RestoreEnvironment ==
  /\ task.next = "environment"
  /\ environment' = Restored(task.of).environment
  /\ task' = [task EXCEPT !.next = "verify", !.done = "restored"]
  /\ UNCHANGED <<profileOwner, status, saved, plan, whole>> /\ UNCHANGED materialVars

\* The profile is given back before the result is saved.
Verify ==
  /\ task.next = "verify"
  /\ Current = Restored(task.of)
  /\ whole' = saved[plan[task.of].from].was
  /\ profileOwner' = "nobody" /\ Ends("completed")
  /\ UNCHANGED <<environment, status, saved, plan>> /\ UNCHANGED materialVars

\* A step of the switch throws.
StepThrows ==
  /\ task.next \in {"stage", "isolate", "switch", "environment", "verify"}
  /\ Goes("undo_staging")
  /\ UNCHANGED <<environment, profileOwner, status, saved, plan, whole>> /\ UNCHANGED materialVars

\* The catch of the switch.  If the staging tree cannot be removed nothing else
\* is undone.
UndoStaging ==
  /\ task.next = "undo_staging"
  /\ \/ staged' = staged \ {task.of} /\ UNCHANGED profileOwner
        /\ \/ task.done = "restored" /\ Goes("undo_environment")
           \/ task.done = "isolated" /\ Goes("undo_switch")
           \/ task.done = "nothing" /\ Goes("undone")
     \/ task.of \in staged /\ UNCHANGED staged
        /\ profileOwner' = "nobody" /\ Ends("rejected")
  /\ UNCHANGED <<profileDir, before, environment, status, saved, plan, whole>>

UndoEnvironment ==
  /\ task.next = "undo_environment"
  /\ \/ environment' = plan[task.of].current.environment
        /\ Goes("undo_switch") /\ UNCHANGED profileOwner
     \/ profileOwner' = "nobody" /\ Ends("manual_recovery_required") /\ UNCHANGED environment
  /\ UNCHANGED <<status, saved, plan, whole>> /\ UNCHANGED materialVars

\* restoreOriginalProfile: what is in its place goes, then it is renamed back.
RemoveSwitched ==
  /\ task.next = "undo_switch"
  /\ \/ profileDir' = NoMaterial /\ Goes("undo_rename") /\ UNCHANGED profileOwner
     \/ profileOwner' = "nobody" /\ Ends("manual_recovery_required") /\ UNCHANGED profileDir
  /\ UNCHANGED <<before, staged, environment, status, saved, plan, whole>>

RestoreOriginal ==
  LET a == task.of IN
  /\ task.next = "undo_rename"
  /\ \/ /\ profileDir' = before[a] /\ before' = [before EXCEPT ![a] = NoMaterial]
        /\ \/ Goes("undone") /\ UNCHANGED profileOwner
           \/ profileOwner' = "nobody" /\ Ends("manual_recovery_required") \* not as it was
     \/ /\ profileOwner' = "nobody" /\ Ends("manual_recovery_required")
        /\ UNCHANGED <<profileDir, before>>
  /\ UNCHANGED <<staged, environment, status, saved, plan, whole>>

Undone ==
  /\ task.next = "undone"
  /\ profileOwner' = "nobody" /\ Ends("rejected")
  /\ UNCHANGED <<environment, status, saved, plan, whole>> /\ UNCHANGED materialVars

-----------------------------------------------------------------------------
\* withState writes the result, with the metadata of a backup, or fails to.
SaveResult ==
  LET o == task.of IN
  /\ task.next = "save"
  /\ task' = NoTask
  /\ \/ /\ status' = [status EXCEPT ![o] = task.result]
        /\ saved' = IF o \in Backups /\ task.result = "completed"
                     THEN [saved EXCEPT ![o] = [holds |-> task.found, was |-> task.was]] ELSE saved
     \/ UNCHANGED <<status, saved>>
  /\ UNCHANGED <<environment, profileOwner, plan, whole>> /\ UNCHANGED materialVars

\* The process that runs an operation dies; its locks are recovered from.
RecoveryCrash ==
  /\ task # NoTask /\ task' = NoTask
  /\ profileOwner' = IF profileOwner = "recovery" THEN "nobody" ELSE profileOwner
  /\ UNCHANGED <<environment, status, saved, plan, whole>> /\ UNCHANGED materialVars

RecoveryNext ==
  \/ LaunchProfile \/ CloseProfile
  \/ \E m \in Materials : Browse(m)
  \/ \E e \in Environments : EditEnvironment(e)
  \/ \E o \in Operations : Begin(o)
  \/ \E a \in Applies, b \in Backups : PreparePlan(a, b)
  \/ CopyBackup \/ CheckPlan \/ StageBackup \/ Isolate \/ Switch \/ RestoreEnvironment \/ Verify
  \/ StepThrows \/ UndoStaging \/ UndoEnvironment \/ RemoveSwitched \/ RestoreOriginal \/ Undone
  \/ SaveResult \/ RecoveryCrash

RecoverySpec == RecoveryInit /\ [][RecoveryNext]_recoveryVars

-----------------------------------------------------------------------------
Pairs == [material : Materials \cup {NoMaterial}, environment : Environments \cup {NoMaterial}]
Results == {"rejected", "completed", "manual_recovery_required"}
SwitchSteps == {"stage", "isolate", "switch", "environment", "verify", "undo_staging",
                "undo_environment", "undo_switch", "undo_rename", "undone"}

Tasks == [of : Operations \cup {NoOperation},
          next : {"none", "copy", "check", "save"} \cup SwitchSteps,
          found : Pairs, was : Pairs, done : {"nothing", "isolated", "restored"},
          result : {"none"} \cup Results]

RecoveryTypeOK ==
  /\ profileDir \in Materials \cup {NoMaterial} /\ environment \in Environments
  /\ profileOwner \in {"nobody", "session", "recovery"}
  /\ status \in [Operations -> {"none", "running"} \cup Results]
  /\ saved \in [Backups -> [holds : Pairs, was : Pairs]]
  /\ plan \in [Applies -> [current : Pairs, from : Backups \cup {NoOperation}]]
  /\ before \in [Applies -> Materials \cup {NoMaterial}]
  /\ staged \subseteq Applies
  /\ task \in Tasks
  /\ whole \in Pairs

\* A session only starts on a profile directory and an environment's record that belong
\* together: as the owner left them, or as a backup that was whole kept them;
\* never on a switch that is half made or half undone.
LaunchedWhole ==
  [][profileOwner = "nobody" /\ profileOwner' = "session" => Current = whole]_recoveryVars

\* At every moment of a switch, of its undoing and after a crash in either, the
\* owner's material is still there, in its place or as a recovery-before copy.
MaterialKept == \E m \in {profileDir} \cup {before[a] : a \in Applies} : m = whole.material
=============================================================================
