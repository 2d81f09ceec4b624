----------------------- MODULE ProviderExchange_proofs -----------------------
(***************************************************************************)
(* For any versions, and any number of operations, cancellations, failures *)
(* and crashes: the exchange journal is always one that readJournal takes, *)
(* its recovery always has a way on, and no operation starts on top of an  *)
(* unresolved exchange.  And what the journal is for: the provider in use  *)
(* survives, and is the one that is detected once the exchange is settled. *)
(***************************************************************************)
EXTENDS ProviderExchange, TLAPS

Begun == {"prepared", "backup_created", "target_published"}

\* The version start was called with waits for the recovery before it, and only
\* for one that ends without a journal.
StartInv ==
  /\ pc = "prepare" => journal = NoJournal
  /\ starting # NoVersion =>
       /\ operations < MaxOperations
       /\ \/ pc = "recover"
          \/ pc = "idle" /\ journal = NoJournal
          \/ recovering /\ pc \in Committing \cup Restoring

\* How the journal in memory stands to the one on disk.
ExchangeInv ==
  /\ pc \in Exchanging \cup {"rollback"} =>
       /\ exchange.phase \in Begun
       /\ journal # NoJournal => journal.version = exchange.version /\ journal.phase \in Begun
  /\ pc \in Exchanging \ {"prepare"} => journal # NoJournal
  /\ pc \in {"prune", "drop_backup", "mark_committed"} => journal = exchange /\ journal.phase = "committed"
  /\ pc \in {"remove", "restore", "restore_marker"} => journal = exchange /\ journal.phase # "committed"

\* What has to be there for the journal to be recovered from.
ContentInv ==
  /\ pc \in {"prepare", "backup", "journal_backup", "publish"} => staging # Absent
  /\ pc \in {"journal_published", "marker", "commit"} => target # Absent
  /\ journal # NoJournal =>
       /\ ~Unrecoverable(journal)
       /\ journal.phase = "committed" => chromium[journal.version] # Absent
  /\ pc = "remove" /\ exchange.rollback_action = "restore_backup" => backup # Absent

IInv == ExchangeTypeOK /\ StartInv /\ ExchangeInv /\ ContentInv

\* What a journal is made of, and which changes leave it one.
LEMMA JournalFields ==
  ASSUME NEW j \in Journal
  PROVE  /\ j.version \in Versions /\ j.previous \in Versions \cup {NoVersion}
         /\ j.phase \in Phases /\ j.rollback_action \in Actions
         /\ j.phase = "rollback_started" <=> j.rollback_action # "null"
  BY DEF Journal

LEMMA PhaseChange ==
  ASSUME NEW j \in Journal, NEW p \in Phases \ {"rollback_started"}, j.phase \in Begun
  PROVE  /\ [j EXCEPT !.phase = p] \in Journal
         /\ [j EXCEPT !.phase = p].phase = p
         /\ [j EXCEPT !.phase = p].version = j.version
         /\ [j EXCEPT !.phase = p].previous = j.previous
         /\ [j EXCEPT !.phase = p].rollback_action = "null"
  BY DEF Journal, Phases, Begun, Actions

LEMMA RollbackChange ==
  ASSUME NEW j \in Journal, NEW a \in Actions \ {"null"}
  PROVE  LET k == [j EXCEPT !.phase = "rollback_started", !.rollback_action = a]
         IN  /\ k \in Journal /\ k.phase = "rollback_started" /\ k.rollback_action = a
             /\ k.version = j.version /\ k.previous = j.previous
  BY DEF Journal, Phases, Actions

LEMMA NewJournal ==
  ASSUME NEW v \in Versions, NEW w \in Versions \cup {NoVersion}
  PROVE  LET j == [version |-> v, previous |-> w, phase |-> "prepared", rollback_action |-> "null"]
         IN  j \in Journal /\ j.phase = "prepared"
  BY DEF Journal, Phases, Actions

LEMMA RemoveContent ==
  ASSUME NEW dir \in Content, NEW left \in Remove(dir)
  PROVE  left \in Content /\ (dir = Absent => left = Absent)
  BY DEF Remove, Content

LEMMA InitInv == ExchangeInit => IInv
<1> SUFFICES ASSUME ExchangeInit PROVE IInv
  OBVIOUS
<1> USE VersionAssumption, BoundAssumption, ContentAssumption
<1>1. 0 \in Content
  BY DEF Content, Builds
<1>2. exchange \in Journal /\ journal = NoJournal
  BY NewJournal DEF ExchangeInit
<1>3. PICK installed \in Versions \cup {NoVersion} :
        /\ chromium = [v \in Versions |-> IF v = installed THEN 0 ELSE Absent]
        /\ marker = installed
        /\ promised = IF installed = NoVersion THEN Absent ELSE 0
  BY DEF ExchangeInit
<1>4. chromium \in [Versions -> Content] /\ promised \in Content
  BY <1>1, <1>3 DEF Content
<1>5. /\ staging \in Content /\ backup \in Content
      /\ pc \in PCs /\ starting \in Versions \cup {NoVersion}
      /\ recovering \in BOOLEAN /\ aborted \in BOOLEAN /\ blocked \in BOOLEAN /\ committed \in BOOLEAN
  BY DEF ExchangeInit, Content, PCs
<1>6. operations \in 0..MaxOperations /\ interruptions \in 0..MaxInterruptions /\ hits \in 0..interruptions
  BY DEF ExchangeInit
<1>7. ExchangeTypeOK
  BY <1>2, <1>3, <1>4, <1>5, <1>6 DEF ExchangeTypeOK
<1> QED BY <1>2, <1>7 DEF ExchangeInit, IInv, StartInv, ExchangeInv, ContentInv, Exchanging

USE DEF Exchanging, Committing, Restoring, PCs, Begun

\* The inductive step, for the operation ...
LEMMA StartStep ==
  ASSUME IInv, NEW v \in Versions, RequestStart(v) \/ Start(v) PROVE IInv'
<1> USE VersionAssumption, BoundAssumption, ContentAssumption DEF IInv
<1>1. CASE RequestStart(v)
  BY <1>1 DEF RequestStart, ExchangeTypeOK, StartInv, ExchangeInv, ContentInv, Unrecoverable,
     target, cache, history
<1>2. CASE Start(v)
  <2>1. journal = NoJournal /\ operations < MaxOperations
    BY <1>2 DEF Start, StartInv, ExchangeTypeOK
  <2>2. Detected \in Versions \cup {NoVersion}
    BY DEF Detected, ExchangeTypeOK
  <2>3. exchange' \in Journal /\ exchange'.phase = "prepared"
    BY <1>2, <2>2, NewJournal DEF Start
  <2>4. operations' \in 0..MaxOperations /\ operations' \in Builds
    BY <1>2, <2>1 DEF Start, ExchangeTypeOK, Builds
  <2>5. staging' \in Content /\ staging' # Absent
    BY <1>2, <2>4 DEF Start, Content
  <2>6. promised' \in Content
    BY <1>2, <2>2 DEF Start, ExchangeTypeOK, Content
  <2>7. chromium' = chromium /\ backup' = backup /\ marker' = marker /\ journal' = journal
    BY <1>2 DEF Start
  <2>8. /\ pc' = "prepare" /\ recovering' = FALSE /\ aborted' = FALSE /\ blocked' = blocked
         /\ starting' = NoVersion /\ committed' = FALSE
         /\ interruptions' = interruptions /\ hits' = 0
    BY <1>2 DEF Start
  <2>9. /\ pc' \in PCs /\ recovering' \in BOOLEAN /\ aborted' \in BOOLEAN /\ blocked' \in BOOLEAN
        /\ starting' \in Versions \cup {NoVersion} /\ committed' \in BOOLEAN
    BY <2>8 DEF ExchangeTypeOK
  <2>10. interruptions' \in 0..MaxInterruptions /\ hits' \in 0..interruptions'
    BY <2>8 DEF ExchangeTypeOK
  <2>11. ExchangeTypeOK'
    BY <2>3, <2>4, <2>5, <2>6, <2>7, <2>9, <2>10 DEF ExchangeTypeOK
  <2> QED BY <1>2, <2>1, <2>3, <2>5, <2>11 DEF Start, StartInv, ExchangeInv, ContentInv
<1> QED BY <1>1, <1>2

LEMMA ExchangeStep ==
  ASSUME IInv, Prepare \/ CreateBackup \/ JournalBackup \/ Publish \/ JournalPublished \/ WriteMarker
  PROVE  IInv'
<1> USE VersionAssumption, JournalAssumption, ContentAssumption
    DEF IInv, ExchangeTypeOK, StartInv, ExchangeInv, ContentInv, Unrecoverable, target, Proceed, history
<1>1. /\ exchange.version \in Versions
      /\ exchange.phase # "rollback_started" => exchange.rollback_action = "null"
  BY JournalFields
<1>2. CASE Prepare
  <2>1. /\ pc' = "backup" /\ journal' = exchange /\ exchange' = exchange
        /\ exchange \in Journal /\ exchange # NoJournal /\ exchange.phase \in Begun
    BY <1>2 DEF Prepare, WriteJournal
  <2>2. ExchangeTypeOK' /\ StartInv'
    BY <1>2, <2>1 DEF Prepare
  <2>3. ExchangeInv' /\ ContentInv'
    BY <1>1, <1>2, <2>1 DEF Prepare
  <2> QED BY <2>2, <2>3
<1>3. CASE CreateBackup
  <2>1. CASE target # Absent
    <3>1. exchange' = [exchange EXCEPT !.phase = "backup_created"]
      BY <1>3, <2>1 DEF CreateBackup
    <3>2. /\ exchange' \in Journal /\ exchange'.phase = "backup_created"
          /\ exchange'.version = exchange.version
      BY <1>3, <3>1, PhaseChange DEF CreateBackup, Phases
    <3>3. journal # NoJournal /\ journal.phase \in Begun /\ journal.rollback_action = "null"
      BY <1>3, JournalFields DEF CreateBackup
    <3>4. ExchangeTypeOK'
      BY <1>1, <1>3, <2>1, <3>2 DEF CreateBackup, Content
    <3> QED BY <1>3, <2>1, <3>2, <3>3, <3>4 DEF CreateBackup
  <2>2. CASE target = Absent
    BY <1>3, <2>2 DEF CreateBackup
  <2> QED BY <2>1, <2>2
<1>4. CASE JournalBackup
  <2>1. /\ pc' = "publish" /\ journal' = exchange /\ exchange' = exchange
        /\ exchange \in Journal /\ exchange # NoJournal /\ exchange.phase \in Begun
    BY <1>4 DEF JournalBackup, WriteJournal
  <2>2. ExchangeTypeOK' /\ StartInv'
    BY <1>4, <2>1 DEF JournalBackup
  <2>3. ExchangeInv' /\ ContentInv'
    BY <1>1, <1>4, <2>1 DEF JournalBackup
  <2> QED BY <2>2, <2>3
<1>5. CASE Publish
  <2>1. /\ exchange' \in Journal /\ exchange'.phase = "target_published"
        /\ exchange'.version = exchange.version
    BY <1>5, PhaseChange DEF Publish, Phases
  <2>2. journal # NoJournal /\ journal.phase \in Begun /\ journal.rollback_action = "null"
    BY <1>5, JournalFields DEF Publish
  <2>3. chromium'[exchange.version] = staging /\ chromium' \in [Versions -> Content]
    <3>1. chromium' = [chromium EXCEPT ![exchange.version] = staging]
      BY <1>5 DEF Publish
    <3> QED BY <1>1, <3>1
  <2>4. ExchangeTypeOK'
    BY <1>5, <2>1, <2>3 DEF Publish, Content
  <2> QED BY <1>5, <2>1, <2>2, <2>3, <2>4 DEF Publish
<1>6. CASE JournalPublished
  <2>1. /\ pc' = "marker" /\ journal' = exchange /\ exchange' = exchange
        /\ exchange \in Journal /\ exchange # NoJournal /\ exchange.phase \in Begun
    BY <1>6 DEF JournalPublished, WriteJournal
  <2>2. ExchangeTypeOK' /\ StartInv'
    BY <1>6, <2>1 DEF JournalPublished
  <2>3. ExchangeInv' /\ ContentInv'
    BY <1>1, <1>6, <2>1 DEF JournalPublished
  <2> QED BY <2>2, <2>3
<1>7. CASE WriteMarker
  <2>1. ExchangeTypeOK' /\ StartInv'
    BY <1>1, <1>7 DEF WriteMarker
  <2>2. ExchangeInv' /\ ContentInv'
    BY <1>7 DEF WriteMarker
  <2> QED BY <2>1, <2>2
<1> QED BY <1>2, <1>3, <1>4, <1>5, <1>6, <1>7

LEMMA CommitStep ==
  ASSUME IInv, Commit \/ Prune \/ DropBackup \/ DropJournal \/ Finish
  PROVE  IInv'
<1> USE VersionAssumption, JournalAssumption, ContentAssumption
    DEF IInv, ExchangeTypeOK, StartInv, ExchangeInv, ContentInv, Unrecoverable, target, Proceed, history
<1>1. exchange.version \in Versions
  BY JournalFields
<1>2. CASE Commit
  <2>1. /\ exchange' \in Journal /\ exchange'.phase = "committed"
        /\ exchange'.version = exchange.version /\ journal' = exchange'
    BY <1>2, PhaseChange DEF Commit, WriteJournal, Phases
  <2>2. ExchangeTypeOK'
    BY <1>1, <1>2, <2>1 DEF Commit
  <2> QED BY <1>2, <2>1, <2>2 DEF Commit
<1>3. CASE Prune
  <2>1. chromium' \in [Versions -> Content] /\ chromium'[exchange.version] = chromium[exchange.version]
    BY <1>1, <1>3, RemoveContent DEF Prune
  <2>2. journal = exchange /\ journal.phase = "committed" /\ journal.rollback_action = "null"
    BY <1>3, JournalFields DEF Prune
  <2>3. pc' \in {"prune", "drop_backup"}
    BY <1>3 DEF Prune
  <2> QED BY <1>3, <2>1, <2>2, <2>3 DEF Prune
<1>4. CASE DropBackup
  <2>1. backup' \in Content
    BY <1>4, RemoveContent DEF DropBackup
  <2>2. journal = exchange /\ journal.phase = "committed" /\ journal.rollback_action = "null"
    BY <1>4, JournalFields DEF DropBackup
  <2>3. pc' \in {"drop_backup", "drop_staging", "drop_journal"}
    BY <1>4 DEF DropBackup
  <2>5. ExchangeTypeOK' /\ StartInv'
    BY <1>4, <2>1, <2>2, <2>3 DEF DropBackup
  <2>6. ExchangeInv' /\ ContentInv'
    BY <1>4, <2>2, <2>3 DEF DropBackup
  <2> QED BY <2>5, <2>6
<1>5. CASE DropJournal
  BY <1>5 DEF DropJournal
<1>6. CASE Finish
  BY <1>6 DEF Finish, Content
<1> QED BY <1>2, <1>3, <1>4, <1>5, <1>6

\* ... for a rollback or a recovery ...
LEMMA RecoverStep ==
  ASSUME IInv, StartRollback \/ Recover PROVE IInv'
<1> USE VersionAssumption, JournalAssumption, ContentAssumption
    DEF IInv, ExchangeTypeOK, StartInv, ExchangeInv, ContentInv, Unrecoverable, target, Proceed, history
<1>1. CASE StartRollback
  <2> DEFINE action == IF backup # Absent THEN "restore_backup"
                       ELSE IF exchange.phase = "target_published" THEN "remove_target" ELSE "none"
  <2>1. action \in Actions \ {"null"}
    BY DEF Actions
  <2>2. /\ exchange' \in Journal /\ exchange'.phase = "rollback_started"
        /\ exchange'.rollback_action = action /\ exchange'.version = exchange.version
        /\ journal' = exchange'
    <3>1. /\ exchange' = [exchange EXCEPT !.phase = "rollback_started", !.rollback_action = action]
          /\ journal' = exchange'
      BY <1>1 DEF StartRollback, WriteJournal
    <3> HIDE DEF action
    <3> QED BY <2>1, <3>1, RollbackChange
  <2>3. pc' = IF action = "none" THEN "restore_marker" ELSE "remove"
    BY <1>1 DEF StartRollback
  <2>4. UNCHANGED <<chromium, staging, backup, marker, recovering, aborted, blocked, starting, history>>
    BY <1>1 DEF StartRollback
  <2>5. ExchangeTypeOK' /\ StartInv'
    BY <2>2, <2>3, <2>4, <1>1 DEF StartRollback
  <2>6. ExchangeInv' /\ ContentInv'
    BY <2>2, <2>3, <2>4
  <2> QED BY <2>5, <2>6
<1>2. CASE Recover
  <2>1. CASE journal = NoJournal
    BY <1>2, <2>1 DEF Recover, cache
  <2>2. CASE journal # NoJournal
    <3>1. /\ pc = "recover" /\ pc' = FirstStep(journal) /\ exchange' = journal /\ recovering' = TRUE
          /\ UNCHANGED <<chromium, staging, backup, marker, journal, aborted, blocked, starting, history>>
      BY <1>2, <2>2 DEF Recover, cache
    <3>2. journal \in Journal /\ journal.phase \in Phases /\ journal.rollback_action \in Actions
      BY <2>2, JournalFields
    <3>3. journal.phase = "committed" => pc' = "mark_committed"
      BY <2>2, <3>1 DEF FirstStep
    <3>4. journal.phase = "rollback_started" =>
            /\ pc' \in {"restore_marker", "remove"}
            /\ pc' = "remove" /\ journal.rollback_action = "restore_backup" => backup # Absent
      BY <2>2, <3>1, <3>2 DEF FirstStep
    <3>5. journal.phase \in Begun => pc' \in {"drop_staging", "remove"} /\ journal.rollback_action = "null"
      BY <2>2, <3>1, <3>2, JournalFields DEF FirstStep
    <3>6. journal.phase \in {"committed", "rollback_started"} \cup Begun
      BY <3>2 DEF Phases
    <3>7. pc' \in {"mark_committed", "restore_marker", "remove", "drop_staging"}
      BY <3>3, <3>4, <3>5, <3>6
    <3>8. ExchangeTypeOK' /\ StartInv'
      BY <3>1, <3>2, <3>7
    <3>9. ExchangeInv' /\ ContentInv'
      BY <2>2, <3>1, <3>3, <3>4, <3>5, <3>6, <3>7
    <3> QED BY <3>8, <3>9
  <2> QED BY <2>1, <2>2
<1> QED BY <1>1, <1>2

LEMMA RestoreStep ==
  ASSUME IInv, RemoveTarget \/ RestoreBackup \/ RestoreMarker \/ MarkCommitted \/ DropStaging
  PROVE  IInv'
<1> USE VersionAssumption, JournalAssumption, ContentAssumption
    DEF IInv, ExchangeTypeOK, StartInv, ExchangeInv, ContentInv, Unrecoverable, target, Proceed, history
<1>1. /\ exchange.version \in Versions /\ exchange.previous \in Versions \cup {NoVersion}
      /\ target \in Content
  BY JournalFields
<1>2. CASE RemoveTarget
  <2>1. PICK left \in Remove(target) :
          /\ chromium' = [chromium EXCEPT ![exchange.version] = left]
          /\ pc' = IF left = Partial THEN "remove" ELSE "restore"
    BY <1>2 DEF RemoveTarget
  <2>2. chromium' \in [Versions -> Content]
    BY <1>1, <2>1, RemoveContent
  <2>3. /\ pc = "remove"
        /\ UNCHANGED <<staging, backup, marker, journal, exchange, recovering, aborted, blocked, starting,
                       history>>
    BY <1>2 DEF RemoveTarget
  <2>4. journal # NoJournal /\ journal.phase # "committed"
    BY <2>3
  <2>5. ExchangeTypeOK' /\ StartInv'
    BY <2>1, <2>2, <2>3
  <2>6. ExchangeInv' /\ ContentInv'
    BY <2>1, <2>3, <2>4
  <2> QED BY <2>5, <2>6
<1>3. CASE RestoreBackup
  <2>1. /\ pc = "restore" /\ pc' = "restore_marker"
        /\ UNCHANGED <<staging, marker, journal, exchange, recovering, aborted, blocked, starting, history>>
    BY <1>3 DEF RestoreBackup
  <2>2. CASE backup # Absent
    <3>1. chromium' = [chromium EXCEPT ![exchange.version] = backup] /\ backup' = Absent
      BY <1>3, <2>2 DEF RestoreBackup
    <3>2. chromium' \in [Versions -> Content] /\ chromium'[exchange.version] # Absent /\ backup' \in Content
      BY <1>1, <2>2, <3>1 DEF Content
    <3>3. ExchangeTypeOK' /\ StartInv'
      BY <2>1, <3>2
    <3>4. ExchangeInv' /\ ContentInv'
      BY <2>1, <3>2
    <3> QED BY <3>3, <3>4
  <2>3. CASE backup = Absent
    <3>1. UNCHANGED <<chromium, backup>>
      BY <1>3, <2>3 DEF RestoreBackup
    <3> QED BY <2>1, <3>1
  <2> QED BY <2>2, <2>3
<1>4. CASE RestoreMarker
  <2>1. pc' \in {"drop_staging", "drop_journal"} /\ marker' \in Versions \cup {NoVersion}
    BY <1>1, <1>4 DEF RestoreMarker
  <2> QED BY <1>4, <2>1 DEF RestoreMarker
<1>5. CASE MarkCommitted
  BY <1>1, <1>5 DEF MarkCommitted
<1>6. CASE DropStaging
  <2>1. staging' \in Content
    BY <1>6, RemoveContent DEF DropStaging
  <2> QED BY <1>6, <2>1 DEF DropStaging
<1> QED BY <1>2, <1>3, <1>4, <1>5, <1>6

\* ... and for an interruption.
LEMMA InterruptStep ==
  ASSUME IInv, Cancel \/ Abort \/ StepFails \/ Recheck \/ Crash \/ Restart PROVE IInv'
<1> USE VersionAssumption, BoundAssumption, JournalAssumption
    DEF IInv, ExchangeTypeOK, StartInv, ExchangeInv, ContentInv, Unrecoverable, target, cache
<1>1. ASSUME Interrupted
      PROVE  /\ interruptions' \in 0..MaxInterruptions /\ hits' \in 0..interruptions'
             /\ UNCHANGED <<operations, promised, committed>>
  BY <1>1 DEF Interrupted
<1>2. CASE Cancel
  BY <1>1, <1>2 DEF Cancel
<1>3. CASE Abort
  BY <1>3 DEF Abort, Proceed, history
<1>4. CASE StepFails
  <2>1. pc' \in {"rollback", "idle", "finish"} /\ (pc' = "rollback" => pc \in Exchanging)
    BY <1>4 DEF StepFails
  <2>2. blocked' \in BOOLEAN
    BY <1>4 DEF StepFails
  <2>3. /\ starting' = NoVersion
        /\ UNCHANGED <<chromium, staging, backup, marker, journal, exchange, recovering, aborted>>
    BY <1>4 DEF StepFails
  <2>4. Interrupted
    BY <1>4 DEF StepFails
  <2> QED BY <1>1, <2>1, <2>2, <2>3, <2>4
<1>5. CASE Recheck
  BY <1>5 DEF Recheck, Proceed, history
<1>6. CASE Crash
  BY <1>1, <1>6 DEF Crash
<1>7. CASE Restart
  BY <1>7 DEF Restart, history
<1> QED BY <1>2, <1>3, <1>4, <1>5, <1>6, <1>7

LEMMA StutterInv == IInv /\ UNCHANGED exchangeVars => IInv'
  BY DEF IInv, ExchangeTypeOK, StartInv, ExchangeInv, ContentInv, Unrecoverable, target,
     exchangeVars, cache, runtime, history

LEMMA NextInv == IInv /\ [ExchangeNext]_exchangeVars => IInv'
<1> SUFFICES ASSUME IInv, [ExchangeNext]_exchangeVars PROVE IInv'
  OBVIOUS
<1>1. CASE \E v \in Versions : RequestStart(v) \/ Start(v)
  BY <1>1, StartStep
<1>2. CASE Operate
  BY <1>2, ExchangeStep, CommitStep DEF Operate
<1>3. CASE Restore
  BY <1>3, RecoverStep, RestoreStep DEF Restore
<1>4. CASE Cancel \/ Abort \/ StepFails \/ Recheck \/ Crash \/ Restart
  BY <1>4, InterruptStep
<1>5. CASE UNCHANGED exchangeVars
  BY <1>5, StutterInv
<1> QED BY <1>1, <1>2, <1>3, <1>4, <1>5 DEF ExchangeNext

THEOREM ExchangeInvariance == ExchangeSpec => []IInv
<1>1. ExchangeInit => IInv
  BY InitInv
<1>2. IInv /\ [ExchangeNext]_exchangeVars => IInv'
  BY NextInv
<1> QED BY <1>1, <1>2, PTL DEF ExchangeSpec

\* Every journal that is written is one readJournal takes: a rollback that has
\* started names its action, and no other phase does.
THEOREM JournalReadable == ExchangeSpec => []ExchangeTypeOK
<1>1. IInv => ExchangeTypeOK
  BY DEF IInv
<1> QED BY <1>1, ExchangeInvariance, PTL

\* However often an exchange and its recovery are interrupted, recovery finds
\* the target or the backup that its journal needs.
THEOREM RecoveryHasAWay == ExchangeSpec => []RecoveryNotStuck
<1>1. IInv => RecoveryNotStuck
  BY DEF IInv, ContentInv, RecoveryNotStuck
<1> QED BY <1>1, ExchangeInvariance, PTL

\* An operation writes its first journal only where no exchange is unresolved.
THEOREM StartIsSettled == ExchangeSpec => []StartsSettled
<1>1. IInv => StartsSettled
  BY DEF IInv, StartInv, StartsSettled
<1> QED BY <1>1, ExchangeInvariance, PTL

---------------------------------------------------------------------------
(* What survives.                                                          *)

Working == Exchanging \cup {"rollback"}
AtRest == {"idle", "down", "recover"}
Open == journal # NoJournal /\ journal.phase # "committed"
UndoLogged == journal # NoJournal /\ journal.phase = "rollback_started"

\* What was in use is where the exchange moved it, or where it was.
Kept(j) ==
  j.previous # NoVersion =>
    IF j.previous = j.version THEN backup = promised ELSE chromium[j.previous] = promised
Found(j) == j.previous # NoVersion => chromium[j.previous] = promised
Promised(j) == IF j.previous = NoVersion THEN promised = Absent ELSE promised \in Builds

\* Who is interrupted, and how often at least.
HitsInv ==
  /\ pc \in Working => ~recovering
  /\ pc = "rollback" \/ (pc \in Exchanging /\ aborted) => hits >= 1
  /\ journal = NoJournal => pc \in AtRest \cup {"prepare", "rollback", "finish"}
  /\ journal # NoJournal /\ (pc \in AtRest \cup {"finish"} \/ (pc \in Committing \cup Restoring /\ recovering))
       => hits >= 1
  /\ journal # NoJournal /\ journal.phase \in Begun =>
       /\ pc \in {"remove", "restore", "restore_marker", "drop_staging", "drop_journal"} => recovering
       /\ pc = "finish" => hits >= 2
  /\ pc \in {"drop_staging", "mark_committed"} => recovering
  /\ pc \in (Committing \cup Restoring) \ {"rollback"} => exchange = journal

\* The operation before its commit, whose journal in memory is up to date.
WorkInv == pc \in Working =>
  /\ Promised(exchange) /\ ~committed
  /\ journal # NoJournal => journal.previous = exchange.previous
  /\ \A v \in Versions : chromium[v] # Partial
  /\ exchange.phase = "prepared" =>
       /\ journal = NoJournal => pc \in {"prepare", "rollback"}
       /\ backup = Absent /\ staging \in Builds
       /\ Detected = exchange.previous /\ Found(exchange)
       /\ pc \in {"prepare", "backup", "publish", "rollback"}
       /\ pc = "publish" => target = Absent
       /\ journal # NoJournal => journal.phase = "prepared"
  /\ exchange.phase = "backup_created" =>
       /\ backup \in Builds /\ staging \in Builds /\ target = Absent /\ Kept(exchange)
       /\ pc \in {"journal_backup", "publish", "rollback"}
       /\ journal # NoJournal /\ journal.phase \in {"prepared", "backup_created"}
  /\ exchange.phase = "target_published" =>
       /\ journal # NoJournal
       /\ backup \in Builds \cup {Absent} /\ staging = Absent /\ target \in Builds /\ Kept(exchange)
       /\ pc \in {"journal_published", "marker", "commit", "rollback"}
       /\ pc = "commit" => marker = exchange.version

\* A journal on disk that is not committed.
OpenInv == Open =>
  /\ Promised(journal) /\ ~committed
  /\ backup # Partial
  /\ \A v \in Versions \ {journal.version} : chromium[v] # Partial
  /\ journal.phase = "prepared" /\ staging # Absent =>
       /\ chromium[journal.version] # Partial
       /\ backup # Absent => chromium[journal.version] = Absent
  /\ pc = "remove" /\ journal.phase = "prepared" /\ staging # Absent => chromium[journal.version] = Absent
  /\ pc \in {"restore", "restore_marker", "drop_staging", "drop_journal"} =>
       chromium[journal.version] # Partial
  /\ pc \in {"restore_marker", "drop_staging", "drop_journal"} => backup = Absent

\* A rollback that the journal says has started.
UndoInv == UndoLogged =>
  /\ journal.rollback_action = "none" => backup = Absent /\ chromium[journal.version] # Partial
  /\ journal.rollback_action = "remove_target" => backup = Absent
  /\ journal.rollback_action = "restore_backup" /\ backup = Absent =>
       chromium[journal.version] # Partial
  /\ IF journal.rollback_action = "remove_target" \/ backup # Absent
     THEN Kept(journal) ELSE Found(journal)
  /\ pc \in {"remove", "restore"} =>
       /\ journal.rollback_action # "none"
       /\ journal.rollback_action = "restore_backup" => backup # Absent

\* What one interruption leaves on the disk, and the steps that put it right.
DiskInv == Open =>
  /\ journal.phase \in Begun /\ hits <= 1 /\ pc \in AtRest =>
       IF NothingExchanged(journal)
       THEN Detected = journal.previous /\ Found(journal) ELSE Kept(journal)
  /\ (hits <= 1 \/ UndoLogged) =>
       /\ pc \in {"remove", "restore"} => Kept(journal)
       /\ pc \in {"restore_marker", "drop_staging", "drop_journal"} => Found(journal)
       /\ pc \in {"drop_staging", "drop_journal"} /\ journal.previous # NoVersion =>
            Detected = journal.previous

\* A commit that the journal says is made.
CommitInv == journal # NoJournal /\ journal.phase = "committed" =>
  /\ committed /\ promised \in Builds /\ chromium[journal.version] = promised
  /\ pc \in {"prune", "drop_backup", "drop_staging", "drop_journal"} => marker = journal.version
  /\ pc \in {"drop_backup", "drop_staging", "drop_journal"} =>
       \A v \in Versions \ {journal.version} : chromium[v] = Absent
  /\ pc \in {"drop_staging", "drop_journal"} => backup = Absent

\* Between the exchanges.
NoneInv == journal = NoJournal =>
  /\ backup = Absent /\ \A v \in Versions : chromium[v] # Partial
  /\ (hits <= 1 \/ committed) =>
       promised = Absent \/ (Detected # NoVersion /\ chromium[Detected] = promised)

SafeInv ==
  /\ HitsInv /\ WorkInv /\ OpenInv /\ UndoInv /\ DiskInv /\ CommitInv /\ NoneInv


\* What the types say of the single fields.
LEMMA Facts ==
  ASSUME IInv
  PROVE  /\ exchange.version \in Versions /\ exchange.previous \in Versions \cup {NoVersion}
         /\ exchange.phase \in Phases /\ exchange.rollback_action \in Actions
         /\ exchange.phase = "rollback_started" <=> exchange.rollback_action # "null"
         /\ journal # NoJournal =>
              /\ journal.version \in Versions /\ journal.previous \in Versions \cup {NoVersion}
              /\ journal.phase \in Phases /\ journal.rollback_action \in Actions
              /\ journal.phase = "rollback_started" <=> journal.rollback_action # "null"
         /\ chromium \in [Versions -> Content]
         /\ staging \in Content /\ backup \in Content /\ promised \in Content
         /\ marker \in Versions \cup {NoVersion}
         /\ hits \in Nat /\ interruptions \in Nat
  BY JournalFields, BoundAssumption DEF IInv, ExchangeTypeOK

\* The inductive step, for the start and the exchange ...
LEMMA RequestStartSafe ==
  ASSUME IInv, IInv', SafeInv, NEW v \in Versions, RequestStart(v) PROVE SafeInv'
<1> USE VersionAssumption, JournalAssumption, ContentAssumption, Facts
    DEF SafeInv, Working, AtRest, Open, UndoLogged, target, Phases, Actions
<1>1. HitsInv' /\ WorkInv' /\ OpenInv' /\ UndoInv' /\ DiskInv' /\ CommitInv' /\ NoneInv'
  BY DEF RequestStart, cache, history, HitsInv, WorkInv, OpenInv, Promised, UndoInv, Found, Kept,
          DiskInv, Detected, NothingExchanged, CommitInv, NoneInv
<1> QED BY <1>1

LEMMA StartSafe ==
  ASSUME IInv, IInv', SafeInv, NEW v \in Versions, Start(v) PROVE SafeInv'
<1> USE VersionAssumption, JournalAssumption, ContentAssumption, Facts
    DEF SafeInv, Working, AtRest, Open, UndoLogged, target, Phases, Actions
<1>1. /\ pc' = "prepare" /\ journal' = NoJournal /\ journal = NoJournal /\ exchange'.phase = "prepared"
      /\ exchange'.previous = Detected /\ exchange'.version = v
      /\ committed' = FALSE /\ recovering' = FALSE /\ hits' = 0 /\ aborted' = FALSE
      /\ promised' = IF Detected = NoVersion THEN Absent ELSE chromium[Detected]
      /\ chromium' = chromium /\ backup' = backup /\ marker' = marker /\ staging' = operations'
  BY DEF Start, IInv, StartInv
<1>2. staging' \in Builds
  BY <1>1 DEF IInv, StartInv, ExchangeTypeOK, Builds
<1>3. backup = Absent /\ \A w \in Versions : chromium[w] # Partial
  BY <1>1 DEF NoneInv
<1>4. Detected' = Detected /\ Detected \in Versions \cup {NoVersion}
  BY <1>1 DEF Detected
<1>5. Detected # NoVersion => chromium[Detected] \in Builds
  BY <1>1, <1>3 DEF Detected, Content
<1>6. HitsInv'
  BY <1>1 DEF HitsInv
<1>7. WorkInv'
  BY <1>1, <1>2, <1>3, <1>4, <1>5 DEF WorkInv, Promised, Found
<1> QED BY <1>1, <1>3, <1>4, <1>6, <1>7 DEF OpenInv, UndoInv, DiskInv, CommitInv, NoneInv

LEMMA PrepareSafe ==
  ASSUME IInv, IInv', SafeInv, Prepare PROVE SafeInv'
<1> USE VersionAssumption, JournalAssumption, ContentAssumption, Facts
    DEF SafeInv, Working, AtRest, Open, UndoLogged, target, Phases, Actions
<1>1. DiskInv'
  BY DEF Prepare, Proceed, WriteJournal, history, DiskInv
<1>2. HitsInv'
  BY DEF Prepare, Proceed, WriteJournal, history, ExchangeInv, HitsInv, IInv
<1>3. WorkInv'
  BY DEF Prepare, Proceed, WriteJournal, history, Detected, ExchangeInv, Found, HitsInv, IInv, Kept,
          Promised, WorkInv
<1>4. OpenInv'
  BY DEF Prepare, Proceed, WriteJournal, history, ExchangeInv, IInv, OpenInv, Promised, WorkInv
<1>5. UndoInv'
  BY DEF Prepare, Proceed, WriteJournal, history, ExchangeInv, Found, HitsInv, IInv, Kept, UndoInv
<1>6. CommitInv'
  BY DEF Prepare, Proceed, WriteJournal, history, CommitInv, ExchangeInv, HitsInv, IInv
<1>7. NoneInv'
  BY DEF Prepare, Proceed, WriteJournal, history, Detected, ExchangeInv, HitsInv, IInv, NoneInv
<1> QED BY <1>1, <1>2, <1>3, <1>4, <1>5, <1>6, <1>7

LEMMA CreateBackupSafe ==
  ASSUME IInv, IInv', SafeInv, CreateBackup PROVE SafeInv'
<1> USE VersionAssumption, JournalAssumption, ContentAssumption, Facts
    DEF SafeInv, Working, AtRest, Open, UndoLogged, target, Phases, Actions
<1> HIDE DEF target
<1>1. CASE target = Absent
  <2>1. /\ pc = "backup" /\ pc' = "publish"
        /\ UNCHANGED <<chromium, backup, exchange, staging, marker, journal, recovering, aborted, hits, promised, committed>>
    BY <1>1 DEF CreateBackup, Proceed, history
  <2>2. Detected' = Detected /\ target' = target
    BY <2>1 DEF Detected, target
  <2>3. exchange.phase = "prepared" /\ journal # NoJournal /\ journal.phase = "prepared"
    BY <2>1 DEF WorkInv, IInv, ExchangeInv
  <2>4. WorkInv'
    BY <1>1, <2>1, <2>2, <2>3 DEF WorkInv, Promised, Found
  <2>5. HitsInv' /\ OpenInv' /\ UndoInv' /\ DiskInv' /\ CommitInv' /\ NoneInv'
    BY <2>1, <2>3 DEF HitsInv, OpenInv, UndoInv, DiskInv, CommitInv, NoneInv, Promised
  <2> QED BY <2>4, <2>5
<1>2. CASE target # Absent
  <2>1. /\ pc = "backup" /\ pc' = "journal_backup" /\ backup' = target
        /\ chromium' = [chromium EXCEPT ![exchange.version] = Absent]
        /\ exchange' = [exchange EXCEPT !.phase = "backup_created"]
        /\ UNCHANGED <<staging, marker, journal, recovering, aborted, hits, promised, committed>>
    BY <1>2 DEF CreateBackup, Proceed, history
  <2>2. exchange.phase = "prepared" /\ journal # NoJournal /\ journal.phase = "prepared"
    BY <2>1 DEF WorkInv, IInv, ExchangeInv
  <2>3. /\ exchange'.phase = "backup_created" /\ exchange'.version = exchange.version
        /\ exchange'.previous = exchange.previous
    <3>1. exchange \in Journal
      BY DEF IInv, ExchangeTypeOK
    <3> QED BY <2>1, <3>1 DEF Journal
  <2>4. /\ chromium'[exchange.version] = Absent
        /\ \A w \in Versions \ {exchange.version} : chromium'[w] = chromium[w]
    BY <2>1
  <2>5. target \in Builds
    BY <1>2, <2>1 DEF target, WorkInv, Content
  <2>6. Kept(exchange)'
    BY <2>1, <2>2, <2>3, <2>4 DEF WorkInv, Found, Kept, target
  <2>7. WorkInv'
    BY <2>1, <2>2, <2>3, <2>4, <2>5, <2>6 DEF WorkInv, Promised, target
  <2> QED BY <2>1, <2>2, <2>3, <2>4, <2>7 DEF HitsInv, WorkInv, OpenInv, UndoInv, DiskInv,
             CommitInv, NoneInv, Promised, target, ExchangeInv, IInv
<1> QED BY <1>1, <1>2

LEMMA JournalBackupSafe ==
  ASSUME IInv, IInv', SafeInv, JournalBackup PROVE SafeInv'
<1> USE VersionAssumption, JournalAssumption, ContentAssumption, Facts
    DEF SafeInv, Working, AtRest, Open, UndoLogged, target, Phases, Actions
<1>1. DiskInv'
  BY DEF JournalBackup, Proceed, WriteJournal, history, DiskInv
<1>2. HitsInv'
  BY DEF JournalBackup, Proceed, WriteJournal, history, ExchangeInv, HitsInv, IInv
<1>3. WorkInv'
  BY DEF JournalBackup, Proceed, WriteJournal, history, Detected, ExchangeInv, Found, HitsInv, IInv,
          Kept, Promised, WorkInv
<1>4. OpenInv'
  BY DEF JournalBackup, Proceed, WriteJournal, history, ExchangeInv, IInv, OpenInv, Promised,
          WorkInv
<1>5. UndoInv'
  BY DEF JournalBackup, Proceed, WriteJournal, history, ExchangeInv, Found, HitsInv, IInv, Kept,
          UndoInv
<1>6. CommitInv'
  BY DEF JournalBackup, Proceed, WriteJournal, history, CommitInv, ExchangeInv, HitsInv, IInv
<1>7. NoneInv'
  BY DEF JournalBackup, Proceed, WriteJournal, history, Detected, ExchangeInv, HitsInv, IInv,
          NoneInv
<1> QED BY <1>1, <1>2, <1>3, <1>4, <1>5, <1>6, <1>7

LEMMA PublishSafe ==
  ASSUME IInv, IInv', SafeInv, Publish PROVE SafeInv'
<1> USE VersionAssumption, JournalAssumption, ContentAssumption, Facts
    DEF SafeInv, Working, AtRest, Open, UndoLogged, target, Phases, Actions
<1>1. HitsInv' /\ DiskInv'
  BY DEF Publish, Proceed, history, HitsInv, DiskInv
<1>2. WorkInv'
  BY DEF Publish, Proceed, history, Detected, ExchangeInv, Found, HitsInv, IInv, Kept, Promised,
          WorkInv
<1>3. OpenInv'
  BY DEF Publish, Proceed, history, ExchangeInv, HitsInv, IInv, OpenInv, Promised
<1>4. UndoInv'
  BY DEF Publish, Proceed, history, ExchangeInv, Found, HitsInv, IInv, Kept, UndoInv
<1>5. CommitInv'
  BY DEF Publish, Proceed, history, CommitInv, ExchangeInv, HitsInv, IInv
<1>6. NoneInv'
  BY DEF Publish, Proceed, history, Detected, HitsInv, NoneInv
<1> QED BY <1>1, <1>2, <1>3, <1>4, <1>5, <1>6

LEMMA JournalPublishedSafe ==
  ASSUME IInv, IInv', SafeInv, JournalPublished PROVE SafeInv'
<1> USE VersionAssumption, JournalAssumption, ContentAssumption, Facts
    DEF SafeInv, Working, AtRest, Open, UndoLogged, target, Phases, Actions
<1>1. DiskInv'
  BY DEF JournalPublished, Proceed, WriteJournal, history, DiskInv
<1>2. HitsInv'
  BY DEF JournalPublished, Proceed, WriteJournal, history, ExchangeInv, HitsInv, IInv
<1>3. WorkInv'
  BY DEF JournalPublished, Proceed, WriteJournal, history, Detected, ExchangeInv, Found, HitsInv,
          IInv, Kept, Promised, WorkInv
<1>4. OpenInv'
  BY DEF JournalPublished, Proceed, WriteJournal, history, ExchangeInv, IInv, OpenInv, Promised,
          WorkInv
<1>5. UndoInv'
  BY DEF JournalPublished, Proceed, WriteJournal, history, ExchangeInv, Found, HitsInv, IInv, Kept,
          UndoInv
<1>6. CommitInv'
  BY DEF JournalPublished, Proceed, WriteJournal, history, CommitInv, ExchangeInv, HitsInv, IInv
<1>7. NoneInv'
  BY DEF JournalPublished, Proceed, WriteJournal, history, Detected, ExchangeInv, HitsInv, IInv,
          NoneInv
<1> QED BY <1>1, <1>2, <1>3, <1>4, <1>5, <1>6, <1>7

LEMMA WriteMarkerSafe ==
  ASSUME IInv, IInv', SafeInv, WriteMarker PROVE SafeInv'
<1> USE VersionAssumption, JournalAssumption, ContentAssumption, Facts
    DEF SafeInv, Working, AtRest, Open, UndoLogged, target, Phases, Actions
<1>1. HitsInv' /\ WorkInv' /\ OpenInv' /\ UndoInv' /\ DiskInv' /\ CommitInv'
  BY DEF WriteMarker, Proceed, history, HitsInv, WorkInv, Promised, Found, Kept, Detected, OpenInv,
          UndoInv, DiskInv, CommitInv
<1>2. NoneInv'
  BY DEF WriteMarker, Proceed, history, Detected, HitsInv, NoneInv
<1> QED BY <1>1, <1>2

\* ... for the commit and what follows it ...
LEMMA CommitSafe ==
  ASSUME IInv, IInv', SafeInv, Commit PROVE SafeInv'
<1> USE VersionAssumption, JournalAssumption, ContentAssumption, Facts
    DEF SafeInv, Working, AtRest, Open, UndoLogged, target, Phases, Actions
<1>1. /\ pc = "commit" /\ pc' = "prune" /\ journal' = exchange' /\ exchange' = [exchange EXCEPT !.phase = "committed"]
      /\ committed' = TRUE /\ promised' = target
      /\ UNCHANGED <<chromium, staging, backup, marker, recovering, aborted, hits>>
  BY DEF Commit, WriteJournal
<1>2. exchange.phase = "target_published"
  BY <1>1 DEF WorkInv, IInv, ExchangeInv
<1>3. /\ journal' # NoJournal /\ journal'.phase = "committed" /\ journal'.version = exchange.version
  <2>1. exchange \in Journal /\ journal' \in Journal \cup {NoJournal}
    BY DEF IInv, ExchangeTypeOK
  <2> QED BY <1>1, <1>2, <2>1, PhaseChange
<1>4. ~recovering /\ marker = exchange.version /\ target \in Builds
  BY <1>1, <1>2 DEF HitsInv, WorkInv
<1> QED BY <1>1, <1>3, <1>4 DEF HitsInv, WorkInv, OpenInv, UndoInv, DiskInv, CommitInv, NoneInv

LEMMA PruneSafe ==
  ASSUME IInv, IInv', SafeInv, Prune PROVE SafeInv'
<1> USE VersionAssumption, JournalAssumption, ContentAssumption, Facts
    DEF SafeInv, Working, AtRest, Open, UndoLogged, target, Phases, Actions
<1>1. HitsInv' /\ WorkInv' /\ DiskInv'
  BY DEF Prune, history, Remove, HitsInv, WorkInv, DiskInv
<1>2. OpenInv'
  BY DEF Prune, history, Remove, ExchangeInv, HitsInv, IInv, OpenInv, Promised
<1>3. UndoInv'
  BY DEF Prune, history, Remove, ExchangeInv, Found, HitsInv, IInv, Kept, UndoInv
<1>4. CommitInv'
  BY DEF Prune, history, Remove, CommitInv, HitsInv
<1>5. NoneInv'
  BY DEF Prune, history, Remove, Detected, HitsInv, NoneInv
<1> QED BY <1>1, <1>2, <1>3, <1>4, <1>5

LEMMA DropBackupSafe ==
  ASSUME IInv, IInv', SafeInv, DropBackup PROVE SafeInv'
<1> USE VersionAssumption, JournalAssumption, ContentAssumption, Facts
    DEF SafeInv, Working, AtRest, Open, UndoLogged, target, Phases, Actions
<1>1. WorkInv' /\ CommitInv' /\ NoneInv'
  BY DEF DropBackup, Proceed, Remove, history, WorkInv, CommitInv, NoneInv, Detected
<1>2. HitsInv'
  BY DEF DropBackup, Proceed, Remove, history, ExchangeInv, HitsInv, IInv
<1>3. OpenInv'
  BY DEF DropBackup, Proceed, Remove, history, ExchangeInv, HitsInv, IInv, OpenInv, Promised
<1>4. UndoInv'
  BY DEF DropBackup, Proceed, Remove, history, ExchangeInv, Found, HitsInv, IInv, Kept, UndoInv
<1>5. DiskInv'
  BY DEF DropBackup, Proceed, Remove, history, Detected, DiskInv, ExchangeInv, Found, HitsInv, IInv,
          Kept, NothingExchanged
<1> QED BY <1>1, <1>2, <1>3, <1>4, <1>5

LEMMA DropJournalSafe ==
  ASSUME IInv, IInv', SafeInv, DropJournal PROVE SafeInv'
<1> USE VersionAssumption, JournalAssumption, ContentAssumption, Facts
    DEF SafeInv, Working, AtRest, Open, UndoLogged, target, Phases, Actions
<1>1. /\ pc = "drop_journal" /\ journal' = NoJournal /\ pc' = IF recovering THEN "idle" ELSE "finish"
      /\ UNCHANGED <<chromium, staging, backup, marker, exchange, recovering, aborted, history>>
  BY DEF DropJournal
<1>2. journal # NoJournal /\ hits' = hits /\ committed' = committed /\ promised' = promised
  BY <1>1 DEF HitsInv, history
<1>3. Detected' = Detected
  BY <1>1 DEF Detected
<1>4. CASE journal.phase = "committed"
  <2>1. /\ backup = Absent /\ marker = journal.version /\ promised \in Builds /\ chromium[marker] = promised
        /\ \A w \in Versions \ {journal.version} : chromium[w] = Absent
    BY <1>1, <1>2, <1>4 DEF CommitInv
  <2>2. Detected = marker
    BY <1>2, <2>1 DEF Detected
  <2>3. NoneInv'
    BY <1>1, <1>2, <1>3, <2>1, <2>2 DEF NoneInv
  <2> QED BY <1>1, <1>2, <2>3 DEF HitsInv, WorkInv, OpenInv, UndoInv, DiskInv, CommitInv
<1>5. CASE journal.phase # "committed"
  <2>1. /\ backup = Absent /\ Promised(journal) /\ ~committed
        /\ \A w \in Versions : chromium[w] # Partial
    BY <1>1, <1>2, <1>5 DEF OpenInv
  <2>2. hits <= 1 => Found(journal) /\ (journal.previous # NoVersion => Detected = journal.previous)
    BY <1>1, <1>2, <1>5 DEF DiskInv
  <2>3. NoneInv'
    BY <1>1, <1>2, <1>3, <2>1, <2>2 DEF NoneInv, Found, Promised
  <2> QED BY <1>1, <1>2, <2>3 DEF HitsInv, WorkInv, OpenInv, UndoInv, DiskInv, CommitInv
<1> QED BY <1>4, <1>5

LEMMA FinishSafe ==
  ASSUME IInv, IInv', SafeInv, Finish PROVE SafeInv'
<1> USE VersionAssumption, JournalAssumption, ContentAssumption, Facts
    DEF SafeInv, Working, AtRest, Open, UndoLogged, target, Phases, Actions
<1>1. HitsInv' /\ WorkInv' /\ OpenInv' /\ UndoInv' /\ CommitInv' /\ NoneInv'
  BY DEF Finish, Proceed, history, HitsInv, WorkInv, OpenInv, Promised, UndoInv, Found, Kept,
          CommitInv, NoneInv, Detected
<1>2. DiskInv'
  BY DEF Finish, Proceed, history, Detected, DiskInv, Found, HitsInv, Kept, NothingExchanged
<1> QED BY <1>1, <1>2

\* ... for a rollback and a recovery ...
LEMMA RolledBack ==
  ASSUME IInv, StartRollback
  PROVE  LET action == IF backup # Absent THEN "restore_backup"
                       ELSE IF exchange.phase = "target_published" THEN "remove_target" ELSE "none"
         IN  /\ journal' = exchange' /\ exchange' \in Journal
             /\ exchange'.phase = "rollback_started" /\ exchange'.rollback_action = action
             /\ exchange'.version = exchange.version /\ exchange'.previous = exchange.previous
<1> DEFINE action == IF backup # Absent THEN "restore_backup"
                     ELSE IF exchange.phase = "target_published" THEN "remove_target" ELSE "none"
<1>1. action \in Actions \ {"null"}
  BY DEF Actions
<1>2. /\ exchange' = [exchange EXCEPT !.phase = "rollback_started", !.rollback_action = action]
      /\ journal' = exchange' /\ exchange \in Journal
  BY DEF StartRollback, WriteJournal, IInv, ExchangeTypeOK
<1>3. action = IF backup # Absent THEN "restore_backup"
               ELSE IF exchange.phase = "target_published" THEN "remove_target" ELSE "none"
  OBVIOUS
<1> HIDE DEF action
<1>4. /\ exchange' \in Journal /\ exchange'.phase = "rollback_started" /\ exchange'.rollback_action = action
      /\ exchange'.version = exchange.version /\ exchange'.previous = exchange.previous
  BY <1>1, <1>2 DEF Journal, Phases, Actions
<1> QED BY <1>2, <1>3, <1>4

LEMMA StartRollbackSafe ==
  ASSUME IInv, IInv', SafeInv, StartRollback PROVE SafeInv'
<1> USE VersionAssumption, JournalAssumption, ContentAssumption, Facts
    DEF SafeInv, Working, AtRest, Open, UndoLogged, target, Phases, Actions
<1> DEFINE action == IF backup # Absent THEN "restore_backup"
                     ELSE IF exchange.phase = "target_published" THEN "remove_target" ELSE "none"
<1>1. /\ pc = "rollback" /\ pc' = IF action = "none" THEN "restore_marker" ELSE "remove"
      /\ journal' = exchange' /\ exchange' = [exchange EXCEPT !.phase = "rollback_started", !.rollback_action = action]
      /\ UNCHANGED <<chromium, staging, backup, marker, recovering, aborted, history>>
  BY DEF StartRollback, WriteJournal, Proceed
<1>2. /\ journal' # NoJournal /\ journal'.phase = "rollback_started" /\ journal'.rollback_action = action
      /\ journal'.version = exchange.version /\ journal'.previous = exchange.previous
  BY <1>1, RolledBack, JournalAssumption DEF IInv, ExchangeTypeOK
<1>3. hits' = hits /\ committed' = committed /\ promised' = promised /\ hits >= 1 /\ ~recovering
  BY <1>1 DEF HitsInv, history
<1>4. exchange.phase \in Begun
  BY <1>1 DEF IInv, ExchangeInv
<1>5. HitsInv'
  BY <1>1, <1>2, <1>3 DEF HitsInv
<1>6. WorkInv' /\ CommitInv' /\ NoneInv'
  BY <1>1, <1>2, <1>3 DEF WorkInv, CommitInv, NoneInv
<1>7. OpenInv'
  BY <1>1, <1>2, <1>3, <1>4 DEF OpenInv, WorkInv, Promised
<1>8. UndoInv'
  BY <1>1, <1>2, <1>3, <1>4 DEF UndoInv, WorkInv, Kept, Found
<1>9. DiskInv'
  <2>1. Detected' = Detected
    BY <1>1 DEF Detected
  <2> HIDE DEF action
  <2>2. /\ exchange.phase = "prepared" => action = "none" /\ Found(exchange) /\ Detected = exchange.previous
        /\ exchange.phase # "prepared" => action # "none" /\ Kept(exchange)
    BY <1>1, <1>4 DEF action, WorkInv
  <2>3. /\ Found(journal)' <=> Found(exchange)
        /\ Kept(journal)' <=> Kept(exchange)
    BY <1>1, <1>2, <1>3 DEF Found, Kept
  <2> QED BY <1>1, <1>2, <2>1, <2>2, <2>3 DEF DiskInv
<1> QED BY <1>5, <1>6, <1>7, <1>8, <1>9

LEMMA RecoverSafe ==
  ASSUME IInv, IInv', SafeInv, Recover PROVE SafeInv'
<1> USE VersionAssumption, JournalAssumption, ContentAssumption, Facts
    DEF SafeInv, Working, AtRest, Open, UndoLogged, target, Phases, Actions
<1>1. HitsInv' /\ WorkInv' /\ UndoInv' /\ CommitInv' /\ NoneInv'
  BY DEF Recover, cache, history, FirstStep, HitsInv, WorkInv, UndoInv, Found, Kept, CommitInv,
          NoneInv, Detected
<1>2. OpenInv'
  BY DEF Recover, cache, history, FirstStep, NothingExchanged, OpenInv, Promised, UndoInv
<1>3. DiskInv'
  BY DEF Recover, cache, history, FirstStep, Detected, DiskInv, Found, Kept, UndoInv
<1> QED BY <1>1, <1>2, <1>3

LEMMA RemoveTargetSafe ==
  ASSUME IInv, IInv', SafeInv, RemoveTarget PROVE SafeInv'
<1> USE VersionAssumption, JournalAssumption, ContentAssumption, Facts
    DEF SafeInv, Working, AtRest, Open, UndoLogged, target, Phases, Actions
<1>1. HitsInv' /\ WorkInv'
  BY DEF RemoveTarget, Proceed, Remove, history, HitsInv, WorkInv
<1>2. OpenInv'
  BY DEF RemoveTarget, Proceed, Remove, history, HitsInv, OpenInv, Promised
<1>3. UndoInv'
  BY DEF RemoveTarget, Proceed, Remove, history, Found, HitsInv, Kept, UndoInv
<1>4. DiskInv'
  BY DEF RemoveTarget, Proceed, Remove, history, Detected, DiskInv, Found, HitsInv, Kept,
          NothingExchanged
<1>5. CommitInv'
  BY DEF RemoveTarget, Proceed, Remove, history, CommitInv, ExchangeInv, HitsInv, IInv
<1>6. NoneInv'
  BY DEF RemoveTarget, Proceed, Remove, history, Detected, HitsInv, NoneInv
<1> QED BY <1>1, <1>2, <1>3, <1>4, <1>5, <1>6

LEMMA RestoreBackupSafe ==
  ASSUME IInv, IInv', SafeInv, RestoreBackup PROVE SafeInv'
<1> USE VersionAssumption, JournalAssumption, ContentAssumption, Facts
    DEF SafeInv, Working, AtRest, Open, UndoLogged, target, Phases, Actions
<1>1. HitsInv' /\ WorkInv' /\ OpenInv' /\ NoneInv'
  BY DEF RestoreBackup, Proceed, history, HitsInv, WorkInv, OpenInv, Promised, NoneInv, Detected
<1>2. UndoInv'
  BY DEF RestoreBackup, Proceed, history, Found, HitsInv, Kept, OpenInv, UndoInv
<1>3. DiskInv'
  BY DEF RestoreBackup, Proceed, history, DiskInv, Found, HitsInv, Kept, OpenInv, Promised
<1>4. CommitInv'
  BY DEF RestoreBackup, Proceed, history, CommitInv, ExchangeInv, HitsInv, IInv
<1> QED BY <1>1, <1>2, <1>3, <1>4

LEMMA RestoreMarkerSafe ==
  ASSUME IInv, IInv', SafeInv, RestoreMarker PROVE SafeInv'
<1> USE VersionAssumption, JournalAssumption, ContentAssumption, Facts
    DEF SafeInv, Working, AtRest, Open, UndoLogged, target, Phases, Actions
<1>1. HitsInv' /\ WorkInv' /\ OpenInv' /\ UndoInv'
  BY DEF RestoreMarker, Proceed, history, HitsInv, WorkInv, OpenInv, Promised, UndoInv, Found, Kept
<1>2. DiskInv'
  BY DEF RestoreMarker, Proceed, history, Detected, DiskInv, Found, HitsInv, OpenInv, Promised
<1>3. CommitInv'
  BY DEF RestoreMarker, Proceed, history, CommitInv, ExchangeInv, HitsInv, IInv
<1>4. NoneInv'
  BY DEF RestoreMarker, Proceed, history, Detected, HitsInv, NoneInv
<1> QED BY <1>1, <1>2, <1>3, <1>4

LEMMA MarkCommittedSafe ==
  ASSUME IInv, IInv', SafeInv, MarkCommitted PROVE SafeInv'
<1> USE VersionAssumption, JournalAssumption, ContentAssumption, Facts
    DEF SafeInv, Working, AtRest, Open, UndoLogged, target, Phases, Actions
<1>1. HitsInv' /\ WorkInv' /\ OpenInv' /\ UndoInv' /\ DiskInv'
  BY DEF MarkCommitted, Proceed, history, HitsInv, WorkInv, OpenInv, Promised, UndoInv, Found, Kept,
          DiskInv
<1>2. CommitInv'
  BY DEF MarkCommitted, Proceed, history, CommitInv, HitsInv
<1>3. NoneInv'
  BY DEF MarkCommitted, Proceed, history, Detected, HitsInv, NoneInv
<1> QED BY <1>1, <1>2, <1>3

LEMMA DropStagingSafe ==
  ASSUME IInv, IInv', SafeInv, DropStaging PROVE SafeInv'
<1> USE VersionAssumption, JournalAssumption, ContentAssumption, Facts
    DEF SafeInv, Working, AtRest, Open, UndoLogged, target, Phases, Actions
<1>1. HitsInv' /\ WorkInv' /\ OpenInv' /\ UndoInv' /\ DiskInv' /\ CommitInv' /\ NoneInv'
  BY DEF DropStaging, Proceed, Remove, history, HitsInv, WorkInv, OpenInv, Promised, UndoInv, Found,
          Kept, DiskInv, Detected, NothingExchanged, CommitInv, NoneInv
<1> QED BY <1>1

\* ... and for the interruptions.
LEMMA CancelSafe ==
  ASSUME IInv, IInv', SafeInv, Cancel PROVE SafeInv'
<1> USE VersionAssumption, JournalAssumption, ContentAssumption, Facts
    DEF SafeInv, Working, AtRest, Open, UndoLogged, target, Phases, Actions
<1>1. HitsInv' /\ WorkInv' /\ OpenInv' /\ UndoInv' /\ DiskInv' /\ CommitInv' /\ NoneInv'
  BY DEF Cancel, Interrupted, cache, HitsInv, WorkInv, Promised, Found, Kept, Detected, OpenInv,
          UndoInv, DiskInv, CommitInv, NoneInv
<1> QED BY <1>1

LEMMA AbortSafe ==
  ASSUME IInv, IInv', SafeInv, Abort PROVE SafeInv'
<1> USE VersionAssumption, JournalAssumption, ContentAssumption, Facts
    DEF SafeInv, Working, AtRest, Open, UndoLogged, target, Phases, Actions
<1>1. HitsInv' /\ WorkInv' /\ OpenInv' /\ UndoInv' /\ DiskInv' /\ CommitInv' /\ NoneInv'
  BY DEF Abort, Proceed, cache, history, HitsInv, WorkInv, Promised, Found, Kept, Detected, OpenInv,
          UndoInv, DiskInv, CommitInv, NoneInv
<1> QED BY <1>1

LEMMA StepFailsSafe ==
  ASSUME IInv, IInv', SafeInv, StepFails PROVE SafeInv'
<1> USE VersionAssumption, JournalAssumption, ContentAssumption, Facts
    DEF SafeInv, Working, AtRest, Open, UndoLogged, target, Phases, Actions
<1>1. WorkInv' /\ OpenInv' /\ UndoInv' /\ CommitInv' /\ NoneInv'
  BY DEF StepFails, Interrupted, cache, WorkInv, Promised, Found, Kept, Detected, OpenInv, UndoInv,
          CommitInv, NoneInv
<1>2. HitsInv'
  BY DEF StepFails, Interrupted, cache, ExchangeInv, HitsInv, IInv
<1>3. DiskInv'
  BY DEF StepFails, Interrupted, cache, Detected, DiskInv, Found, HitsInv, Kept, NothingExchanged
<1> QED BY <1>1, <1>2, <1>3

LEMMA RecheckSafe ==
  ASSUME IInv, IInv', SafeInv, Recheck PROVE SafeInv'
<1> USE VersionAssumption, JournalAssumption, ContentAssumption, Facts
    DEF SafeInv, Working, AtRest, Open, UndoLogged, target, Phases, Actions
<1>1. HitsInv' /\ WorkInv' /\ OpenInv' /\ UndoInv' /\ DiskInv' /\ CommitInv' /\ NoneInv'
  BY DEF Recheck, Proceed, cache, history, HitsInv, WorkInv, OpenInv, Promised, UndoInv, Found,
          Kept, DiskInv, Detected, NothingExchanged, CommitInv, NoneInv
<1> QED BY <1>1

LEMMA CrashSafe ==
  ASSUME IInv, IInv', SafeInv, Crash PROVE SafeInv'
<1> USE VersionAssumption, JournalAssumption, ContentAssumption, Facts
    DEF SafeInv, Working, AtRest, Open, UndoLogged, target, Phases, Actions
<1>1. /\ pc # "down" /\ pc' = "down" /\ hits' = hits + 1
      /\ UNCHANGED <<chromium, staging, backup, marker, journal, exchange, recovering, aborted, promised, committed>>
  BY DEF Crash, Interrupted, cache
<1>2. Detected' = Detected
  BY <1>1 DEF Detected
<1>3. HitsInv' /\ WorkInv'
  BY <1>1 DEF HitsInv, WorkInv
<1>4. OpenInv' /\ UndoInv' /\ CommitInv' /\ NoneInv'
  BY <1>1, <1>2 DEF HitsInv, WorkInv, OpenInv, UndoInv, CommitInv, NoneInv, Promised, Found, Kept
<1>5. DiskInv'
  <2> SUFFICES ASSUME Open, journal.phase \in Begun, hits = 0
               PROVE  IF NothingExchanged(journal)
                      THEN Detected = journal.previous /\ Found(journal) ELSE Kept(journal)
    BY <1>1, <1>2 DEF DiskInv, NothingExchanged, Found, Kept, UndoLogged
  <2>1. pc \in Working /\ exchange.phase \in Begun
    BY DEF HitsInv, IInv, ExchangeInv, ExchangeTypeOK
  <2>2. journal.version = exchange.version /\ journal.previous = exchange.previous
    BY <2>1 DEF IInv, ExchangeInv, WorkInv
  <2>3. CASE exchange.phase = "prepared"
    BY <2>1, <2>2, <2>3 DEF WorkInv, NothingExchanged, Found, Kept
  <2>4. CASE exchange.phase = "backup_created"
    BY <2>1, <2>2, <2>4 DEF WorkInv, NothingExchanged, Found, Kept
  <2>5. CASE exchange.phase = "target_published"
    BY <2>1, <2>2, <2>5 DEF WorkInv, NothingExchanged, Found, Kept
  <2> QED BY <2>1, <2>3, <2>4, <2>5
<1> QED BY <1>3, <1>4, <1>5

LEMMA RestartSafe ==
  ASSUME IInv, IInv', SafeInv, Restart PROVE SafeInv'
<1> USE VersionAssumption, JournalAssumption, ContentAssumption, Facts
    DEF SafeInv, Working, AtRest, Open, UndoLogged, target, Phases, Actions
<1>1. HitsInv' /\ WorkInv' /\ OpenInv' /\ UndoInv' /\ DiskInv' /\ CommitInv' /\ NoneInv'
  BY DEF Restart, cache, history, HitsInv, WorkInv, OpenInv, Promised, UndoInv, Found, Kept,
          DiskInv, Detected, NothingExchanged, CommitInv, NoneInv
<1> QED BY <1>1

LEMMA SafeStutter == SafeInv /\ UNCHANGED exchangeVars => SafeInv'
  BY DEF SafeInv, HitsInv, WorkInv, OpenInv, UndoInv, DiskInv, CommitInv, NoneInv, Working, AtRest,
     Open,
         UndoLogged, Promised, Found, Kept, Detected, NothingExchanged, target, exchangeVars, cache,
         runtime, history

LEMMA SafeInit == ExchangeInit => SafeInv
<1> SUFFICES ASSUME ExchangeInit PROVE SafeInv
  OBVIOUS
<1>1. PICK installed \in Versions \cup {NoVersion} :
        /\ chromium = [v \in Versions |-> IF v = installed THEN 0 ELSE Absent]
        /\ marker = installed
        /\ promised = IF installed = NoVersion THEN Absent ELSE 0
  BY DEF ExchangeInit
<1>2. pc = "idle" /\ journal = NoJournal /\ backup = Absent
  BY DEF ExchangeInit
<1>3. 0 # Partial /\ 0 # Absent /\ Absent # Partial
  BY ContentAssumption, BoundAssumption DEF Builds
<1>4. HitsInv /\ WorkInv /\ OpenInv /\ UndoInv /\ DiskInv /\ CommitInv
  BY <1>2 DEF HitsInv, WorkInv, OpenInv, UndoInv, DiskInv, CommitInv, Working, AtRest, Open,
     UndoLogged
<1>5. NoneInv
  BY <1>1, <1>2, <1>3, VersionAssumption DEF NoneInv, Detected
<1> QED BY <1>4, <1>5 DEF SafeInv

LEMMA SafeNext == IInv /\ SafeInv /\ [ExchangeNext]_exchangeVars => SafeInv'
<1> SUFFICES ASSUME IInv, SafeInv, [ExchangeNext]_exchangeVars PROVE SafeInv'
  OBVIOUS
<1>1. IInv'
  BY NextInv
<1>2. CASE \E v \in Versions : RequestStart(v) \/ Start(v)
  BY <1>1, <1>2, RequestStartSafe, StartSafe
<1>3. CASE Operate
  BY <1>1, <1>3, PrepareSafe, CreateBackupSafe, JournalBackupSafe, PublishSafe,
     JournalPublishedSafe,
     WriteMarkerSafe, CommitSafe, PruneSafe, DropBackupSafe, DropJournalSafe, FinishSafe DEF Operate
<1>4. CASE Restore
  BY <1>1, <1>4, StartRollbackSafe, RecoverSafe, RemoveTargetSafe, RestoreBackupSafe,
     RestoreMarkerSafe,
     MarkCommittedSafe, DropStagingSafe DEF Restore
<1>5. CASE Cancel \/ Abort \/ StepFails \/ Recheck \/ Crash \/ Restart
  BY <1>1, <1>5, CancelSafe, AbortSafe, StepFailsSafe, RecheckSafe, CrashSafe, RestartSafe
<1>6. CASE UNCHANGED exchangeVars
  BY <1>6, SafeStutter
<1> QED BY <1>2, <1>3, <1>4, <1>5, <1>6 DEF ExchangeNext

\* The invariant that ties what is on the disk, the journal there and the next
\* step to how often the operation was interrupted.
THEOREM ExchangeSafety == ExchangeSpec => []SafeInv
<1>1. ExchangeInit => SafeInv
  BY SafeInit
<1>2. IInv /\ SafeInv /\ [ExchangeNext]_exchangeVars => SafeInv'
  BY SafeNext
<1> QED BY <1>1, <1>2, ExchangeInvariance, PTL DEF ExchangeSpec

LEMMA SafeSurvives == IInv /\ SafeInv => InstallSurvives
<1> SUFFICES ASSUME IInv, SafeInv, promised # Absent, promised # backup,
                    hits <= 1 \/ committed \/ UndoLogged
             PROVE  \E v \in Versions : chromium[v] = promised
  BY DEF InstallSurvives, Survives, UndoLogged
<1> USE Facts, VersionAssumption DEF SafeInv
<1>1. CASE journal = NoJournal
  <2>1. CASE hits <= 1 \/ committed
    BY <1>1, <2>1 DEF NoneInv, Detected
  <2> QED BY <1>1, <2>1 DEF UndoLogged
<1>2. CASE journal # NoJournal /\ journal.phase = "committed"
  BY <1>2 DEF CommitInv
<1>3. CASE Open /\ UndoLogged
  BY <1>3 DEF Open, UndoLogged, OpenInv, UndoInv, Promised, Kept, Found
<1>4. CASE Open /\ ~UndoLogged /\ pc \in Working
  BY <1>4 DEF Open, WorkInv, Promised, Kept, Found, IInv, ExchangeInv, Working
<1>5. CASE Open /\ ~UndoLogged /\ pc \notin Working
  BY <1>5 DEF Open, UndoLogged, OpenInv, HitsInv, DiskInv, Promised, Kept, Found, Working, AtRest,
     Phases, IInv,
              ExchangeTypeOK, ExchangeInv, NothingExchanged
<1> QED BY <1>1, <1>2, <1>3, <1>4, <1>5 DEF Open

\* The provider in use survives one interruption of an exchange at any step, and
\* any number of them after the rollback or the commit is in the journal.
THEOREM ProviderSurvives == ExchangeSpec => []InstallSurvives
<1>1. IInv /\ SafeInv => InstallSurvives
  BY SafeSurvives
<1> QED BY <1>1, ExchangeInvariance, ExchangeSafety, PTL

\* With no journal left, the provider in use is the one that is detected after
\* at most one interruption, and there is neither a backup nor half a provider.
THEOREM SettledIsSound == ExchangeSpec => []SettledSound
<1>1. SafeInv => SettledSound
  BY DEF SafeInv, NoneInv, SettledSound, Settled
<1> QED BY <1>1, ExchangeSafety, PTL
=============================================================================
