-------------------------- MODULE ProviderExchange --------------------------
(***************************************************************************)
(* services/harbor/packages/runtime-api/src/managed-provider-exchange.ts   *)
(* and the part of managed-provider-lifecycle.ts that drives it: how Harbor*)
(* replaces the installed browser provider by a verified new build, with a *)
(* journal on disk that a later run of Harbor recovers from.               *)
(*                                                                         *)
(* A step is one durable change of the cache directory.  Renames and the   *)
(* writes of the journal and the version marker (a temporary file renamed  *)
(* into place) are atomic; the removal of a directory tree is not.  A step *)
(* may fail, the operation may be cancelled, and Harbor may die or lose the*)
(* ownership of the cache, between any two steps.                          *)
(***************************************************************************)
EXTENDS Naturals

CONSTANTS
  Versions,
  DefaultVersion,   \* the version looked for when the marker's is not there
  NoVersion, NoJournal,
  Absent, Partial,  \* a directory that is not there; the rest of a removal
  MaxOperations,    \* bound: operations started
  MaxInterruptions  \* bound: cancellations, failed steps and crashes

ASSUME VersionAssumption == NoVersion \notin Versions /\ DefaultVersion \in Versions
ASSUME BoundAssumption == MaxOperations \in Nat /\ MaxInterruptions \in Nat

\* A provider directory: nothing, the rest of a removal, or what operation n
\* unpacked (0 is what was there at first).
Builds == 0..MaxOperations
Content == Builds \cup {Absent, Partial}
ASSUME ContentAssumption == Absent \notin Builds \cup {Partial} /\ Partial \notin Builds

Phases == {"prepared", "backup_created", "target_published", "rollback_started", "committed"}
Actions == {"restore_backup", "remove_target", "none", "null"}

\* readJournal refuses any other, and with it every recovery.
Journal ==
  {j \in [version : Versions, previous : Versions \cup {NoVersion}, phase : Phases,
           rollback_action : Actions] :
     j.phase = "rollback_started" <=> j.rollback_action # "null"}
ASSUME JournalAssumption == NoJournal \notin Journal

VARIABLES
  \* the cache directory
  chromium,       \* chromium[v]: the directory chromium-<v>
  staging,        \* the staging directory of the operation
  backup,         \* its backup directory
  marker,         \* latest_version_<tag>: the version to launch
  journal,        \* the exchange journal, or NoJournal
  \* the runtime
  pc,             \* its next step on the cache
  exchange,       \* the journal it has in memory
  recovering,     \* the steps are recoverProviderExchange's
  aborted,        \* the operation's signal
  blocked,        \* recoveryBlocked
  starting,       \* the version start was called for, while it recovers first
  \* history and bounds
  operations,
  promised,       \* the build in use: detected at the start, or committed since
  committed,      \* the operation has persisted its commit
  hits,           \* interruptions since the operation started
  interruptions   \* interruptions altogether

cache == <<chromium, staging, backup, marker, journal>>
runtime == <<pc, exchange, recovering, aborted, blocked, starting>>
history == <<operations, promised, committed, hits, interruptions>>
exchangeVars == <<cache, runtime, history>>

target == chromium[exchange.version]
Settled == pc = "idle" /\ journal = NoJournal

\* The steps of an operation before its commit is persisted, each of which
\* looks at the signal first ...
Exchanging ==
  {"prepare", "backup", "journal_backup", "publish", "journal_published", "marker", "commit"}
\* ... of the commit, and of a rollback or a recovery.
Committing == {"prune", "drop_backup", "drop_journal"}
Restoring == {"rollback", "remove", "restore", "restore_marker", "mark_committed", "drop_staging"}
PCs == {"idle", "down", "recover", "finish"} \cup Exchanging \cup Committing \cup Restoring

ExchangeInit ==
  /\ \E installed \in Versions \cup {NoVersion} :
       /\ chromium = [v \in Versions |-> IF v = installed THEN 0 ELSE Absent]
       /\ marker = installed
       /\ promised = IF installed = NoVersion THEN Absent ELSE 0
  /\ staging = Absent /\ backup = Absent
  /\ journal = NoJournal
  /\ pc = "idle"
  /\ exchange = [version |-> DefaultVersion, previous |-> NoVersion, phase |-> "prepared",
                 rollback_action |-> "null"]
  /\ recovering = FALSE /\ aborted = FALSE /\ blocked = FALSE
  /\ starting = NoVersion
  /\ operations = 0
  /\ committed = FALSE
  /\ hits = 0 /\ interruptions = 0

---------------------------------------------------------------------------
\* The next step, of the same operation or recovery.
Proceed(next) == pc' = next /\ UNCHANGED <<recovering, aborted, blocked, starting, history>>

WriteJournal(j) == journal' = j /\ exchange' = j

\* rm of a tree goes file by file.
Remove(dir) == IF dir = Absent THEN {Absent} ELSE {Absent, Partial}

---------------------------------------------------------------------------
(* An operation: start, publishProviderExchange, the marker, the commit.   *)

\* cloakCandidates and detectPath: the marker's version or else the default
\* one, if it is there.
Detected ==
  LET there(v) == v # NoVersion /\ chromium[v] # Absent IN
  IF there(marker) THEN marker ELSE IF there(DefaultVersion) THEN DefaultVersion ELSE NoVersion

\* Slip: start trusts the recovery made when the runtime was initialized.
RequestStartAtOnce(v) ==
  /\ pc = "idle" /\ ~blocked /\ starting = NoVersion
  /\ operations < MaxOperations
  /\ starting' = v
  /\ UNCHANGED <<cache, pc, exchange, recovering, aborted, blocked, history>>

\* start recovers what an earlier runtime left before anything else.
RequestStart(v) ==
  /\ pc = "idle" /\ ~blocked /\ starting = NoVersion
  /\ operations < MaxOperations
  /\ pc' = "recover" /\ starting' = v
  /\ UNCHANGED <<cache, exchange, recovering, aborted, blocked, history>>

\* The rest of start, and runOperation up to launchVerified: the build is staged.
Start(v) ==
  /\ pc = "idle" /\ starting = v
  /\ operations' = operations + 1
  /\ pc' = "prepare" /\ starting' = NoVersion
  /\ exchange' = [version |-> v, previous |-> Detected, phase |-> "prepared",
                  rollback_action |-> "null"]
  /\ staging' = operations'
  /\ promised' = IF Detected = NoVersion THEN Absent ELSE chromium[Detected]
  /\ committed' = FALSE /\ hits' = 0
  /\ recovering' = FALSE /\ aborted' = FALSE
  /\ UNCHANGED <<chromium, backup, marker, journal, blocked, interruptions>>

Prepare ==
  /\ pc = "prepare" /\ ~aborted
  /\ WriteJournal(exchange)
  /\ Proceed("backup")
  /\ UNCHANGED <<chromium, staging, backup, marker>>

CreateBackup ==
  /\ pc = "backup" /\ ~aborted
  /\ IF target # Absent
     THEN /\ backup' = target
          /\ chromium' = [chromium EXCEPT ![exchange.version] = Absent]
          /\ exchange' = [exchange EXCEPT !.phase = "backup_created"]
          /\ Proceed("journal_backup")
     ELSE Proceed("publish") /\ UNCHANGED <<chromium, backup, exchange>>
  /\ UNCHANGED <<staging, marker, journal>>

JournalBackup ==
  /\ pc = "journal_backup" /\ ~aborted
  /\ WriteJournal(exchange)
  /\ Proceed("publish")
  /\ UNCHANGED <<chromium, staging, backup, marker>>

Publish ==
  /\ pc = "publish" /\ ~aborted
  /\ chromium' = [chromium EXCEPT ![exchange.version] = staging]
  /\ staging' = Absent
  /\ exchange' = [exchange EXCEPT !.phase = "target_published"]
  /\ Proceed("journal_published")
  /\ UNCHANGED <<backup, marker, journal>>

JournalPublished ==
  /\ pc = "journal_published" /\ ~aborted
  /\ WriteJournal(exchange)
  /\ Proceed("marker")
  /\ UNCHANGED <<chromium, staging, backup, marker>>

WriteMarker ==
  /\ pc = "marker" /\ ~aborted
  /\ marker' = exchange.version
  /\ Proceed("commit")
  /\ UNCHANGED <<chromium, staging, backup, journal, exchange>>

Commit ==
  /\ pc = "commit" /\ ~aborted
  /\ WriteJournal([exchange EXCEPT !.phase = "committed"])
  /\ pc' = "prune"
  /\ committed' = TRUE /\ promised' = target
  /\ UNCHANGED <<chromium, staging, backup, marker, recovering, aborted, blocked, starting, operations,
                 hits, interruptions>>

\* Slip: the commit forgets its backup.
PruneOnly ==
  /\ pc = "prune"
  /\ Proceed(IF recovering THEN "drop_staging" ELSE "drop_journal")
  /\ UNCHANGED <<chromium, staging, backup, marker, journal, exchange>>

\* pruneManagedVersions, by an operation or by the recovery of its commit.
Prune ==
  /\ pc = "prune"
  /\ IF \E v \in Versions \ {exchange.version} : chromium[v] # Absent
     THEN /\ \E v \in Versions \ {exchange.version} :
               /\ chromium[v] # Absent
               /\ \E left \in Remove(chromium[v]) : chromium' = [chromium EXCEPT ![v] = left]
          /\ UNCHANGED pc
     ELSE pc' = "drop_backup" /\ UNCHANGED chromium
  /\ UNCHANGED <<staging, backup, marker, journal, exchange, recovering, aborted, blocked, starting,
                 history>>

DropBackup ==
  /\ pc = "drop_backup"
  /\ backup' \in Remove(backup)
  /\ Proceed(IF backup' = Partial THEN pc ELSE IF recovering THEN "drop_staging" ELSE "drop_journal")
  /\ UNCHANGED <<chromium, staging, marker, journal, exchange>>

\* The last step of a commit, a rollback and a recovery.
DropJournal ==
  /\ pc = "drop_journal"
  /\ journal' = NoJournal
  /\ pc' = IF recovering THEN "idle" ELSE "finish"
  /\ blocked' = (blocked /\ ~recovering)
  /\ UNCHANGED <<chromium, staging, backup, marker, exchange, recovering, aborted, starting, history>>

\* runOperation's finally: the staging directory goes, whatever else is left.
Finish ==
  /\ pc = "finish"
  /\ staging' = Absent
  /\ Proceed("idle")
  /\ UNCHANGED <<chromium, backup, marker, journal, exchange>>

Operate ==
  \/ Prepare \/ CreateBackup \/ JournalBackup \/ Publish \/ JournalPublished \/ WriteMarker
  \/ Commit \/ Prune \/ DropBackup \/ DropJournal \/ Finish

---------------------------------------------------------------------------
(* rollbackProviderExchange and recoverProviderExchange.                   *)

\* Slip: the rollback journals that it has started, not what it will do.
StartRollbackSilently ==
  /\ pc = "rollback"
  /\ WriteJournal([exchange EXCEPT !.phase = "rollback_started"])
  /\ Proceed("remove")
  /\ UNCHANGED <<chromium, staging, backup, marker>>

\* What the rollback will do goes to the journal before anything is done.
StartRollback ==
  LET published == exchange.phase = "target_published"
      action == IF backup # Absent THEN "restore_backup"
                ELSE IF published THEN "remove_target" ELSE "none"
  IN
  /\ pc = "rollback"
  /\ WriteJournal([exchange EXCEPT !.phase = "rollback_started", !.rollback_action = action])
  /\ Proceed(IF action = "none" THEN "restore_marker" ELSE "remove")
  /\ UNCHANGED <<chromium, staging, backup, marker>>

\* recoverProviderExchange reads the journal and picks its way by what exists.
\* In the two cases it throws for, no step is enabled (see RecoveryNotStuck).
Unrecoverable(j) ==
  /\ chromium[j.version] = Absent /\ backup = Absent
  /\ j.phase = "committed" \/ j.rollback_action = "restore_backup"

\* Slip: a prepared exchange is undone like one that has begun.
NothingExchangedNever(j) == FALSE

NothingExchanged(j) ==
  j.phase = "prepared" /\ chromium[j.version] # Absent /\ staging # Absent /\ backup = Absent

\* Slip: a rollback resumes with the removal whether or not it had restored.
FirstStepAgain(j) ==
  IF j.phase = "committed" THEN "mark_committed"
  ELSE IF j.rollback_action = "none" THEN "restore_marker"
  ELSE IF NothingExchanged(j) THEN "drop_staging" ELSE "remove"

FirstStep(j) ==
  CASE j.phase = "committed" ->
         IF chromium[j.version] # Absent THEN "mark_committed" ELSE "restore"
    [] j.phase = "rollback_started" ->
         IF j.rollback_action = "none" \/ (j.rollback_action = "restore_backup" /\ backup = Absent)
         THEN "restore_marker" ELSE "remove"
    [] OTHER -> IF NothingExchanged(j) THEN "drop_staging" ELSE "remove"

Recover ==
  /\ pc = "recover"
  /\ \/ /\ journal = NoJournal
        /\ pc' = "idle" /\ blocked' = FALSE
        /\ UNCHANGED <<exchange, recovering>>
     \/ /\ journal # NoJournal /\ ~Unrecoverable(journal)
        /\ pc' = FirstStep(journal)
        /\ exchange' = journal /\ recovering' = TRUE
        /\ UNCHANGED blocked
  /\ UNCHANGED <<cache, aborted, starting, history>>

RemoveTarget ==
  /\ pc = "remove"
  /\ \E left \in Remove(target) :
       /\ chromium' = [chromium EXCEPT ![exchange.version] = left]
       /\ Proceed(IF left = Partial THEN "remove" ELSE "restore")
  /\ UNCHANGED <<staging, backup, marker, journal, exchange>>

RestoreBackup ==
  /\ pc = "restore"
  /\ IF backup # Absent
     THEN chromium' = [chromium EXCEPT ![exchange.version] = backup] /\ backup' = Absent
     ELSE UNCHANGED <<chromium, backup>>
  /\ Proceed("restore_marker")
  /\ UNCHANGED <<staging, marker, journal, exchange>>

\* Slip: the rollback leaves the marker at the version it removed.
RestoreMarkerNot ==
  /\ pc = "restore_marker"
  /\ Proceed(IF recovering THEN "drop_staging" ELSE "drop_journal")
  /\ UNCHANGED <<cache, exchange>>

RestoreMarker ==
  /\ pc = "restore_marker"
  /\ marker' = exchange.previous
  /\ Proceed(IF recovering THEN "drop_staging" ELSE "drop_journal")
  /\ UNCHANGED <<chromium, staging, backup, journal, exchange>>

MarkCommitted ==
  /\ pc = "mark_committed"
  /\ marker' = exchange.version
  /\ Proceed("prune")
  /\ UNCHANGED <<chromium, staging, backup, journal, exchange>>

DropStaging ==
  /\ pc = "drop_staging"
  /\ staging' \in Remove(staging)
  /\ Proceed(IF staging' = Partial THEN pc ELSE "drop_journal")
  /\ UNCHANGED <<chromium, backup, marker, journal, exchange>>

Restore ==
  StartRollback \/ Recover \/ RemoveTarget \/ RestoreBackup \/ RestoreMarker \/ MarkCommitted \/ DropStaging

---------------------------------------------------------------------------
(* Interruptions.                                                          *)

Interrupted ==
  /\ interruptions < MaxInterruptions
  /\ interruptions' = interruptions + 1
  /\ hits' = hits + 1
  /\ UNCHANGED <<operations, promised, committed>>

Cancel ==
  /\ pc \in Exchanging /\ ~aborted
  /\ aborted' = TRUE
  /\ Interrupted
  /\ UNCHANGED <<cache, pc, exchange, recovering, blocked, starting>>

Abort ==
  /\ pc \in Exchanging /\ aborted
  /\ Proceed("rollback")
  /\ UNCHANGED <<cache, exchange>>

\* A step throws.  Before the commit is persisted the operation rolls back; a
\* failed rollback, commit or recovery blocks the provider until a recheck
\* recovers it, and a start that was to follow the recovery is rejected.
StepFails ==
  /\ Interrupted
  /\ \/ pc \in Exchanging /\ pc' = "rollback" /\ UNCHANGED blocked
     \/ /\ pc \in Committing \cup Restoring \cup {"recover"}
        /\ pc' = IF recovering \/ pc = "recover" THEN "idle" ELSE "finish"
        /\ blocked' = TRUE
     \/ pc = "finish" /\ pc' = "idle" /\ UNCHANGED blocked
  /\ starting' = NoVersion
  /\ UNCHANGED <<cache, exchange, recovering, aborted>>

Recheck ==
  /\ pc = "idle" /\ starting = NoVersion
  /\ Proceed("recover")
  /\ UNCHANGED <<cache, exchange>>

\* Harbor dies, or another runtime takes the cache over.
Crash ==
  /\ pc # "down"
  /\ pc' = "down" /\ starting' = NoVersion
  /\ Interrupted
  /\ UNCHANGED <<cache, exchange, recovering, aborted, blocked>>

\* initializeCache of the next runtime, which recovers nothing while the cache
\* has another owner.
Restart ==
  /\ pc = "down"
  /\ pc' \in {"recover", "idle"}
  /\ recovering' = FALSE /\ aborted' = FALSE /\ blocked' = FALSE
  /\ UNCHANGED <<cache, exchange, starting, history>>

ExchangeNext ==
  \/ \E v \in Versions : RequestStart(v) \/ Start(v)
  \/ Operate \/ Restore
  \/ Cancel \/ Abort \/ StepFails \/ Recheck \/ Crash \/ Restart

ExchangeSpec == ExchangeInit /\ [][ExchangeNext]_exchangeVars

---------------------------------------------------------------------------
ExchangeTypeOK ==
  /\ chromium \in [Versions -> Content]
  /\ staging \in Content /\ backup \in Content
  /\ marker \in Versions \cup {NoVersion}
  /\ journal \in Journal \cup {NoJournal}
  /\ pc \in PCs
  /\ exchange \in Journal
  /\ recovering \in BOOLEAN /\ aborted \in BOOLEAN /\ blocked \in BOOLEAN
  /\ starting \in Versions \cup {NoVersion}
  /\ operations \in 0..MaxOperations
  /\ promised \in Content
  /\ committed \in BOOLEAN
  /\ interruptions \in 0..MaxInterruptions /\ hits \in 0..interruptions

Survives == promised = Absent \/ promised = backup \/ \E v \in Versions : chromium[v] = promised

\* The provider that was in use when an operation began, or that it committed,
\* survives one cancellation, failure or crash at any step, and any number of
\* them once the rollback or the commit is in the journal.
InstallSurvives ==
  hits <= 1 \/ committed \/ (journal # NoJournal /\ journal.phase = "rollback_started") => Survives

\* ... any number of them in any phase: what the journal is for.
InstallNeverLost == Survives

\* After an operation, or one interruption of it and its recovery, the provider
\* in use is the one a detection finds.  Without a journal there is no
\* half-removed provider to be detected, and no backup, which nothing would ever
\* collect.
SettledSound == Settled =>
  /\ hits <= 1 /\ promised # Absent => Detected # NoVersion /\ chromium[Detected] = promised
  /\ backup = Absent /\ \A v \in Versions : chromium[v] # Partial

\* The errors "missing both target and backup" and "lost both target and backup"
\* are never thrown, however often a recovery is interrupted.
RecoveryNotStuck == pc = "recover" /\ journal # NoJournal => ~Unrecoverable(journal)

\* No operation exchanges providers on top of an unresolved exchange, which it
\* would overwrite or be refused for.
StartsSettled == pc = "prepare" => journal = NoJournal
=============================================================================
