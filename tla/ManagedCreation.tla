-------------------------- MODULE ManagedCreation --------------------------
(***************************************************************************)
(* Creating profiles under one grant (profile.create, copy_environment and *)
(* profile.import): the handlers of packages/core/src/managed-browser.ts   *)
(* with the quota of managed-access.ts, over a network to Harbor, which    *)
(* makes the profile and keeps a receipt under the run's key.  Any answer  *)
(* may be lost and the Core may die between two steps; a run whose outcome *)
(* is not known keeps the grant from creating more until a query finds the *)
(* receipt.  One handler at a time holds the grant's file lock.            *)
(***************************************************************************)
EXTENDS RunLifecycle, Naturals, FiniteSets

CONSTANTS
  Creations,   \* the runs, each of one submission; a retry of its key reads it
  NoCreation,
  CreationOf,  \* "create", "copy" or "import"
  MaxCreated   \* max_created_profiles of the grant

ASSUME CreationAssumption ==
  /\ IsFiniteSet(Creations)
  /\ NoCreation \notin Creations
  /\ CreationOf \in [Creations -> {"create", "copy", "import"}]
  /\ MaxCreated \in Nat

VARIABLES
  runStatus,   \* status of the run record, or "none"
  reconciled,  \* the runs whose summary says reconciliation: completed
  importStatus,\* import_status of the run's result
  holder, place, \* the run whose submit or query holds the grant's lock, and
               \* the await it has reached
  live,        \* whether the grant is neither revoked nor expired
  created,     \* created_profile_refs: the runs whose profile is counted
  policies,    \* the runs whose profile has a policy
  post,        \* post[r]: the request that makes the profile, then its answer
  made,        \* made[r]: Harbor's receipt under the run's key
  importPost, imported, \* the same two of the bookmark import
  bookmarks,   \* targets whose places.sqlite holds the merged bookmarks
  sessions     \* targets with a browser session

creationVars == <<runStatus, reconciled, importStatus, holder, place, live, created, policies,
                  post, made, importPost, imported, bookmarks, sessions>>
recordVars == <<runStatus, reconciled, importStatus>>
handlerVars == <<holder, place>>
quotaVars == <<live, created, policies>>
harborVars == <<made, imported, bookmarks, sessions>>
postVars == <<post, importPost>>

\* One handler at a time: it takes the lock, goes from await to await, lets go.
Idle == holder = NoCreation /\ place = "idle"
At(r, p) == holder = r /\ place = p
Go(r, p) == holder' = r /\ place' = p
Release == Go(NoCreation, "idle")

CreationInit ==
  /\ runStatus = [r \in Creations |-> "none"] /\ reconciled = {}
  /\ importStatus = [r \in Creations |-> "none"]
  /\ Idle
  /\ live = TRUE /\ created = {} /\ policies = {}
  /\ post = [r \in Creations |-> "none"] /\ importPost = [r \in Creations |-> "none"]
  /\ made = [r \in Creations |-> "none"] /\ imported = [r \in Creations |-> "none"]
  /\ bookmarks = {} /\ sessions = {}

\* checkAccess for a creation, and for the import into the target it recorded.
MayCreate == live /\ Cardinality(created) < MaxCreated
MayContinue(r) == live /\ r \in created /\ r \in policies

\* Slip: only runs still in progress block the grant.
UnresolvedInProgress(r) == runStatus[r] \in {"admitted", "running"} /\ r \notin reconciled

\* requireNoUnresolvedProfileCreation's condition on another run.
Unresolved(r) ==
  runStatus[r] \in {"admitted", "running", "unknown_outcome"} /\ r \notin reconciled

\* updateRunRecord: assertTransition decides whether the status is written.
SetStatus(r, status) ==
  /\ MayTransition(runStatus[r], status)
  /\ runStatus' = [runStatus EXCEPT ![r] = status]
  /\ UNCHANGED <<reconciled, importStatus>>
\* completeRunWithFailure, which ends the submission.
Fails(r) == SetStatus(r, "failed") /\ Release
EndsUnknown(r) == SetStatus(r, "unknown_outcome") /\ Release

-----------------------------------------------------------------------------
(* submit *)

\* createRunRecord, once the key is new and access is allowed.
Submit(r) ==
  /\ Idle /\ runStatus[r] = "none" /\ MayCreate
  /\ runStatus' = [runStatus EXCEPT ![r] = "admitted"] /\ UNCHANGED <<reconciled, importStatus>>
  /\ Go(r, "start")
  /\ UNCHANGED <<quotaVars, harborVars, postVars>>

StartRun(r) ==
  /\ At(r, "start")
  /\ SetStatus(r, "running") /\ Go(r, "authorize")
  /\ UNCHANGED <<quotaVars, harborVars, postVars>>

\* authorize and requireNoUnresolvedProfileCreation; policy may refuse, and
\* Harbor's operation catalog may not be reachable.
Authorize(r) ==
  /\ At(r, "authorize")
  /\ \/ MayCreate /\ (\A s \in Creations \ {r} : ~Unresolved(s))
        /\ Go(r, "prepare") /\ UNCHANGED recordVars
     \/ Fails(r)
     \/ EndsUnknown(r)
  /\ UNCHANGED <<quotaVars, harborVars, postVars>>

\* The source of an import or copy is looked up, access checked once more, and
\* the request that makes the profile goes out under the run's key.
SendCreation(r) ==
  /\ At(r, "prepare")
  /\ \/ MayCreate /\ Go(r, "waiting") /\ UNCHANGED recordVars
        /\ post' = [post EXCEPT ![r] = "sent"]
     \/ Fails(r) /\ UNCHANGED post
     \/ CreationOf[r] # "create" /\ EndsUnknown(r) /\ UNCHANGED post
  /\ UNCHANGED <<quotaVars, harborVars, importPost>>

\* A rejection ends the run; every other status but "completed" is unknown.
CreationAnswered(r) ==
  /\ At(r, "waiting")
  /\ \/ post[r] = "completed" /\ Go(r, "register") /\ UNCHANGED recordVars
     \/ post[r] = "rejected" /\ Fails(r)
     \/ post[r] = "repair_required" /\ EndsUnknown(r)
  /\ UNCHANGED <<quotaVars, harborVars, postVars>>

\* Slip: a lost answer counts as a failure.
AnswerLostFails(r) ==
  /\ At(r, "waiting") /\ Fails(r)
  /\ UNCHANGED <<quotaVars, harborVars, postVars>>

\* The fetch fails or times out; the request may still be on its way.
AnswerLost(r) ==
  /\ At(r, "waiting") /\ EndsUnknown(r)
  /\ UNCHANGED <<quotaVars, harborVars, postVars>>

\* recordCreatedProfile: idempotent under the run's id.
MayRecord(r) == r \in created \/ (Cardinality(created) < MaxCreated /\ r \notin policies)
RecordCreated(r) ==
  /\ MayRecord(r)
  /\ created' = created \cup {r} /\ policies' = policies \cup {r} /\ UNCHANGED live

\* The profile is counted.  A refusal fails an import, and leaves another run
\* unknown; so does a store that cannot be written.
Register(r) ==
  /\ At(r, "register")
  /\ \/ RecordCreated(r) /\ UNCHANGED recordVars
        /\ Go(r, IF CreationOf[r] = "import" THEN "reauthorize" ELSE "complete")
     \/ CreationOf[r] = "import" /\ ~MayRecord(r) /\ Fails(r) /\ UNCHANGED quotaVars
     \/ EndsUnknown(r) /\ UNCHANGED quotaVars
  /\ UNCHANGED <<harborVars, postVars>>

\* reauthorizeCreatedTarget, before the session is opened and again before the
\* import is sent.
Reauthorize(r) ==
  /\ \/ At(r, "reauthorize") /\ MayContinue(r) /\ Go(r, "open") /\ UNCHANGED <<recordVars, importPost>>
     \/ At(r, "reauthorize_again") /\ MayContinue(r) /\ Go(r, "importing") /\ UNCHANGED recordVars
        /\ importPost' = [importPost EXCEPT ![r] = "sent"]
     \/ (At(r, "reauthorize") \/ At(r, "reauthorize_again")) /\ ~MayContinue(r)
        /\ runStatus' = [runStatus EXCEPT ![r] = "failed"]
        /\ importStatus' = [importStatus EXCEPT ![r] = "not_dispatched"]
        /\ Release /\ UNCHANGED <<reconciled, importPost>>
  /\ UNCHANGED <<quotaVars, harborVars, post>>

\* The session that initialises the target; its answer may be lost.
Initialise(r) ==
  /\ At(r, "open")
  /\ \/ sessions' = sessions \cup {r} /\ Go(r, "stop") /\ UNCHANGED recordVars
     \/ sessions' \in {sessions, sessions \cup {r}} /\ EndsUnknown(r)
  /\ UNCHANGED <<quotaVars, made, imported, bookmarks, postVars>>

\* It is stopped, and the run goes on only when Harbor says none is left.
StopTarget(r) ==
  /\ At(r, "stop")
  /\ \/ sessions' = sessions \ {r} /\ Go(r, "reauthorize_again") /\ UNCHANGED recordVars
     \/ sessions' \in {sessions, sessions \ {r}} /\ EndsUnknown(r)
  /\ UNCHANGED <<quotaVars, made, imported, bookmarks, postVars>>

\* Slip: the import's answer is not awaited.
ImportAssumed(r) ==
  /\ At(r, "importing") /\ Go(r, "complete") /\ UNCHANGED recordVars
  /\ UNCHANGED <<quotaVars, harborVars, postVars>>

ImportAnswered(r) ==
  /\ At(r, "importing")
  /\ \/ importPost[r] = "completed" /\ Go(r, "complete") /\ UNCHANGED recordVars
     \/ EndsUnknown(r)
  /\ UNCHANGED <<quotaVars, harborVars, postVars>>

\* completeRunWithResult, if the store can be written.
Complete(r) ==
  /\ At(r, "complete")
  /\ \/ /\ runStatus' = [runStatus EXCEPT ![r] = "succeeded"]
        /\ importStatus' = IF CreationOf[r] = "import"
                           THEN [importStatus EXCEPT ![r] = "completed"] ELSE importStatus
        /\ Release /\ UNCHANGED reconciled
     \/ EndsUnknown(r)
  /\ UNCHANGED <<quotaVars, harborVars, postVars>>

-----------------------------------------------------------------------------
(* query *)

\* A run that is not over is marked unknown first; from "admitted" the table of
\* transitions does not allow that, and the query throws.
Query(r) ==
  /\ Idle /\ Unresolved(r)
  /\ SetStatus(r, "unknown_outcome") /\ Go(r, "receipt")
  /\ UNCHANGED <<quotaVars, harborVars, postVars>>

\* A persisted rejection settles a create or a copy; an import it leaves as is.
ReadReceipt(r) ==
  /\ At(r, "receipt")
  /\ \/ made[r] = "completed" /\ Go(r, "register_found") /\ UNCHANGED recordVars
     \/ made[r] = "rejected" /\ CreationOf[r] # "import" /\ Release
        /\ reconciled' = reconciled \cup {r} /\ UNCHANGED <<runStatus, importStatus>>
     \/ Release /\ UNCHANGED recordVars
  /\ UNCHANGED <<quotaVars, harborVars, postVars>>

\* The original profile is counted, if the access store still lets it be.
RegisterFound(r) ==
  /\ At(r, "register_found")
  /\ \/ RecordCreated(r) /\ Go(r, "found")
     \/ ~MayRecord(r) /\ Release /\ UNCHANGED quotaVars
  /\ UNCHANGED <<recordVars, harborVars, postVars>>

\* A create or copy is reconciled; an import goes on to its own receipt.
ReconcileRun(r) ==
  /\ At(r, "found")
  /\ IF CreationOf[r] = "import"
     THEN /\ importStatus' = [importStatus EXCEPT ![r] = "unknown"]
          /\ UNCHANGED <<runStatus, reconciled>>
          /\ IF imported[r] = "completed" /\ r \notin sessions THEN Go(r, "report") ELSE Release
     ELSE /\ reconciled' = reconciled \cup {r} /\ UNCHANGED <<runStatus, importStatus>>
          /\ Release
  /\ UNCHANGED <<quotaVars, harborVars, postVars>>

\* completeRunWithResult of a query: the run is already terminal, the update is
\* refused, and the error is swallowed.
ReportImport(r) ==
  /\ At(r, "report") /\ Release
  /\ IF MayTransition(runStatus[r], "succeeded")
     THEN /\ runStatus' = [runStatus EXCEPT ![r] = "succeeded"]
          /\ importStatus' = [importStatus EXCEPT ![r] = "completed"]
          /\ reconciled' = reconciled \cup {r}
     ELSE UNCHANGED recordVars
  /\ UNCHANGED <<quotaVars, harborVars, postVars>>

\* The process dies, a store write fails or a read of a query is lost: the lock
\* is free and the run is left as it is.
HandlerDies ==
  /\ ~Idle /\ Release
  /\ UNCHANGED <<recordVars, quotaVars, harborVars, postVars>>

-----------------------------------------------------------------------------
(* Harbor and the owner *)

\* mutateLocalIdentityEnvironment.  A rejection leaves a receipt only when a copy
\* was rolled back; only a copy can be left for repair.
Make(r) ==
  /\ post[r] = "sent"
  /\ \E result \in {"completed", "rejected"} \cup
                   (IF CreationOf[r] = "copy" THEN {"repair_required"} ELSE {}) :
       /\ post' = [post EXCEPT ![r] = result]
       /\ \/ result # "rejected" /\ made' = [made EXCEPT ![r] = result]
          \/ result = "rejected" /\ CreationOf[r] = "copy" /\ made' = [made EXCEPT ![r] = result]
          \/ result = "rejected" /\ UNCHANGED made
  /\ UNCHANGED <<recordVars, handlerVars, quotaVars, importPost, imported, bookmarks, sessions>>

PostLost(r) ==
  /\ post[r] = "sent" /\ post' = [post EXCEPT ![r] = "lost"]
  /\ UNCHANGED <<recordVars, handlerVars, quotaVars, importPost, harborVars>>

\* reconcileRepair, when the owner retries the copy at Harbor.
Repair(r) ==
  /\ made[r] = "repair_required"
  /\ made' \in {[made EXCEPT ![r] = result] : result \in {"completed", "rejected"}}
  /\ UNCHANGED <<recordVars, handlerVars, quotaVars, postVars, imported, bookmarks, sessions>>

\* importProfileBookmarks runs in one go: it is refused, or it ends normally, or
\* Harbor dies or fails after its intent is kept, before or after the merge.
Import(r) ==
  /\ importPost[r] = "sent"
  /\ \/ importPost' = [importPost EXCEPT ![r] = "failed"] /\ UNCHANGED <<imported, bookmarks>>
     \/ /\ imported[r] = "none" /\ r \notin sessions
        /\ \/ importPost' = [importPost EXCEPT ![r] = "completed"]
              /\ imported' = [imported EXCEPT ![r] = "completed"]
              /\ bookmarks' = bookmarks \cup {r}
           \/ importPost' = [importPost EXCEPT ![r] = "failed"]
              /\ imported' = [imported EXCEPT ![r] = "possibly_dispatched"]
              /\ bookmarks' \in {bookmarks, bookmarks \cup {r}}
  /\ UNCHANGED <<recordVars, handlerVars, quotaVars, post, made, sessions>>

\* A counted profile is the agent's to start and stop.
TargetSession(r) ==
  /\ r \in created
  /\ sessions' \in {sessions \cup {r}, sessions \ {r}}
  /\ UNCHANGED <<recordVars, handlerVars, quotaVars, postVars, made, imported, bookmarks>>

\* The owner gives a policy to a profile Harbor shows.
setProfilePolicy(r) ==
  /\ made[r] = "completed" /\ policies' = policies \cup {r}
  /\ UNCHANGED <<recordVars, handlerVars, live, created, harborVars, postVars>>

revokeGrant ==
  /\ live /\ live' = FALSE
  /\ UNCHANGED <<recordVars, handlerVars, created, policies, harborVars, postVars>>

CreationStep(r) ==
  \/ Submit(r) \/ StartRun(r) \/ Authorize(r) \/ SendCreation(r) \/ CreationAnswered(r) \/ AnswerLost(r)
  \/ Register(r) \/ Reauthorize(r) \/ Initialise(r) \/ StopTarget(r) \/ ImportAnswered(r) \/ Complete(r)
  \/ Query(r) \/ ReadReceipt(r) \/ RegisterFound(r) \/ ReconcileRun(r) \/ ReportImport(r)
  \/ Make(r) \/ PostLost(r) \/ Repair(r) \/ Import(r) \/ TargetSession(r) \/ setProfilePolicy(r)
CreationNext == (\E r \in Creations : CreationStep(r)) \/ HandlerDies \/ revokeGrant
CreationSpec == CreationInit /\ [][CreationNext]_creationVars

-----------------------------------------------------------------------------
CreationTypeOK ==
  /\ runStatus \in [Creations -> {"none"} \cup RunStatuses] /\ reconciled \subseteq Creations
  /\ importStatus \in [Creations -> {"none", "unknown", "not_dispatched", "completed"}]
  /\ holder \in Creations \cup {NoCreation}
  /\ live \in BOOLEAN /\ created \subseteq policies /\ policies \subseteq Creations
  /\ post \in [Creations -> {"none", "sent", "lost", "completed", "rejected", "repair_required"}]
  /\ made \in [Creations -> {"none", "completed", "rejected", "repair_required"}]
  /\ importPost \in [Creations -> {"none", "sent", "failed", "completed"}]
  /\ imported \in [Creations -> {"none", "possibly_dispatched", "completed"}]
  /\ bookmarks \subseteq Creations /\ sessions \subseteq Creations

\* A profile Harbor made, may yet make or has to repair for a run of the grant is
\* counted, or its run still blocks the grant, or the owner has taken the profile
\* over: whatever answers are lost, requests delayed and handlers killed.
NothingUncounted ==
  \A r \in Creations :
    post[r] = "sent" \/ made[r] \in {"completed", "repair_required"} =>
      r \in created \/ Unresolved(r) \/ r \in policies

\* So the profiles made for a grant never outnumber its quota, counting the ones
\* whose runs died or whose answers were lost before they were registered.
QuotaBoundsCreation ==
  Cardinality({r \in Creations : made[r] = "completed" /\ ~(r \in policies \ created)}) <= MaxCreated

\* A run that reports success made its profile, counted it, and, for an import,
\* merged the bookmarks.
SuccessIsWhole ==
  \A r \in Creations : runStatus[r] = "succeeded" =>
    /\ made[r] = "completed" /\ r \in created
    /\ CreationOf[r] = "import" => r \in bookmarks

\* A query that finds the target made and counted, the import's receipt completed
\* and the target's session stopped reports the import as completed.
\* docs/specs/profile-transfer-v1.md:23 promises this; the run's table of
\* transitions refuses it.
ImportReconciles ==
  [][\A r \in Creations : ReportImport(r) => importStatus'[r] = "completed"]_creationVars

=============================================================================
