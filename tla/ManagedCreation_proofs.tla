----------------------- MODULE ManagedCreation_proofs -----------------------
(***************************************************************************)
(* ManagedCreation, for every set of runs and every quota: nothing Harbor  *)
(* makes goes uncounted, the quota holds, and a success is whole.  The     *)
(* argument: a profile the access store does not know yet (Pending) stems  *)
(* from the one run that may be waiting for Harbor or for a query, and a   *)
(* run sends its request only while that leaves room in the quota.         *)
(***************************************************************************)
EXTENDS ManagedCreation, FiniteSetTheorems, TLAPS

\* The awaits of a submit and of a query, and those past recordCreatedProfile.
SubmitPlaces ==
  {"authorize", "prepare", "waiting", "register", "reauthorize", "open", "stop",
   "reauthorize_again", "importing", "complete"}
QueryPlaces == {"receipt", "register_found", "found", "report"}
Places == {"idle", "start"} \cup SubmitPlaces \cup QueryPlaces
Counted == {"reauthorize", "open", "stop", "reauthorize_again", "importing", "complete",
            "found", "report"}

Typed == CreationTypeOK /\ place \in Places

\* What the place of a handler says of its run's record.
StatusInv == \A r \in Creations :
  /\ holder = r /\ place = "start" => runStatus[r] = "admitted"
  /\ holder = r /\ place \in SubmitPlaces => runStatus[r] = "running"
  /\ holder = r /\ place \in QueryPlaces => runStatus[r] = "unknown_outcome"
  /\ r \in reconciled => runStatus[r] \notin {"none", "admitted", "running"}

\* What a request says of Harbor's receipt, and of the target's files.
PostInv == \A r \in Creations :
  /\ post[r] \in {"none", "sent", "lost"} => made[r] = "none"
  /\ post[r] = "rejected" => made[r] \in {"none", "rejected"}
  /\ post[r] = "completed" => made[r] = "completed"
  /\ runStatus[r] \in {"none", "admitted"} => post[r] = "none"
  /\ importPost[r] = "completed" \/ imported[r] = "completed" => r \in bookmarks

\* What a handler has established by the time it is at its place.
PlaceInv == \A r \in Creations : holder = r =>
  /\ place \in {"authorize", "prepare"} => post[r] = "none"
  /\ place \in {"prepare", "waiting"} => \A s \in Creations \ {r} : ~Unresolved(s)
  /\ place \in {"waiting", "register"} => Cardinality(created) < MaxCreated
  /\ place = "register" => post[r] = "completed"
  /\ place = "register_found" => made[r] = "completed"
  /\ place \in Counted => r \in created /\ made[r] = "completed"
  /\ place = "complete" /\ CreationOf[r] = "import" => r \in bookmarks
  /\ place = "report" => r \in bookmarks

\* Profiles that are made or may be, and that no policy names.
Pending == {r \in Creations : /\ post[r] = "sent" \/ made[r] \in {"completed", "repair_required"}
                              /\ r \notin policies}
PendingInv ==
  /\ \A p, q \in Pending : p = q
  /\ Pending # {} => Cardinality(created) < MaxCreated
  /\ Cardinality(created) <= MaxCreated

IInv == Typed /\ StatusInv /\ PostInv /\ PlaceInv /\ PendingInv /\ NothingUncounted /\ SuccessIsWhole

\* The vocabulary of the actions and of the invariant's parts.
USE CreationAssumption
USE DEF IInv, Typed, At, Go, Idle, Release, SetStatus, Fails, EndsUnknown, Unresolved,
        recordVars, handlerVars, quotaVars, harborVars, postVars, SubmitPlaces, QueryPlaces

-----------------------------------------------------------------------------
\* The step that counts a profile: the one pending profile becomes counted.
LEMMA StepCounts ==
  ASSUME IInv, NEW r \in Creations, RecordCreated(r), made[r] = "completed",
         UNCHANGED <<post, made>>
  PROVE  PendingInv'
<1>1. IsFiniteSet(created) /\ Cardinality(created) \in Nat
  BY FS_Subset, FS_CardinalityType DEF CreationTypeOK
<1>2. Pending' = Pending \ {r}
  BY DEF Pending, RecordCreated
<1>3. CASE r \in created
  <2>1. created' = created
    BY <1>3 DEF RecordCreated
  <2> QED BY <1>2, <2>1 DEF PendingInv
<1>4. CASE r \notin created
  <2>1. r \in Pending /\ Pending' = {}
    BY <1>2, <1>4 DEF Pending, PendingInv, RecordCreated, MayRecord
  <2>2. Cardinality(created') = Cardinality(created) + 1
    BY <1>1, <1>4, FS_AddElement DEF RecordCreated
  <2> QED BY <1>1, <1>4, <2>1, <2>2 DEF PendingInv, RecordCreated, MayRecord
<1> QED BY <1>3, <1>4


LEMMA StepSubmit == ASSUME IInv, NEW r \in Creations, Submit(r) PROVE IInv'
<1>1. Typed' /\ StatusInv'
  BY DEF Submit, MayCreate, CreationTypeOK, Places, StatusInv, RunStatuses, TerminalStatuses
<1>2. PostInv' /\ PlaceInv'
  BY DEF Submit, MayCreate, CreationTypeOK, StatusInv, PostInv, PlaceInv, Places, Counted
<1>3. PendingInv' /\ NothingUncounted' /\ SuccessIsWhole'
  BY DEF Submit, MayCreate, CreationTypeOK, StatusInv, PostInv, PlaceInv, PendingInv,
         Pending, Counted, NothingUncounted, SuccessIsWhole
<1> QED BY <1>1, <1>2, <1>3

LEMMA StepStartRun == ASSUME IInv, NEW r \in Creations, StartRun(r) PROVE IInv'
<1>1. Typed' /\ StatusInv'
  BY DEF StartRun, CreationTypeOK, Places, StatusInv, RunStatuses, TerminalStatuses
<1>2. PostInv' /\ PlaceInv'
  BY DEF StartRun, CreationTypeOK, StatusInv, PostInv, PlaceInv, Places, Counted
<1>3. PendingInv' /\ NothingUncounted' /\ SuccessIsWhole'
  BY DEF StartRun, CreationTypeOK, StatusInv, PostInv, PlaceInv, PendingInv, Pending,
         Counted, NothingUncounted, SuccessIsWhole
<1> QED BY <1>1, <1>2, <1>3

LEMMA StepAuthorize == ASSUME IInv, NEW r \in Creations, Authorize(r) PROVE IInv'
<1>1. Typed' /\ StatusInv'
  BY DEF Authorize, MayCreate, CreationTypeOK, Places, StatusInv, RunStatuses, TerminalStatuses
<1>2. PostInv' /\ PlaceInv'
  BY DEF Authorize, MayCreate, CreationTypeOK, StatusInv, PostInv, PlaceInv, Places, Counted
<1>3. PendingInv' /\ NothingUncounted' /\ SuccessIsWhole'
  BY DEF Authorize, MayCreate, CreationTypeOK, StatusInv, PostInv, PlaceInv, PendingInv,
         Pending, Counted, NothingUncounted, SuccessIsWhole
<1> QED BY <1>1, <1>2, <1>3

LEMMA StepSendCreation == ASSUME IInv, NEW r \in Creations, SendCreation(r) PROVE IInv'
<1>1. Typed' /\ StatusInv'
  BY DEF SendCreation, MayCreate, CreationTypeOK, Places, StatusInv, RunStatuses,
         TerminalStatuses
<1>2. PostInv' /\ PlaceInv'
  BY DEF SendCreation, MayCreate, CreationTypeOK, StatusInv, PostInv, PlaceInv, Places, Counted
<1>3. PendingInv' /\ NothingUncounted' /\ SuccessIsWhole'
  BY DEF SendCreation, MayCreate, CreationTypeOK, StatusInv, PostInv, PlaceInv, PendingInv,
         Pending, Counted, NothingUncounted, SuccessIsWhole
<1> QED BY <1>1, <1>2, <1>3

LEMMA StepCreationAnswered == ASSUME IInv, NEW r \in Creations, CreationAnswered(r) PROVE IInv'
<1>1. Typed' /\ StatusInv'
  BY DEF CreationAnswered, CreationTypeOK, Places, StatusInv, RunStatuses, TerminalStatuses
<1>2. PostInv' /\ PlaceInv'
  BY DEF CreationAnswered, CreationTypeOK, StatusInv, PostInv, PlaceInv, Places, Counted
<1>3. PendingInv' /\ NothingUncounted' /\ SuccessIsWhole'
  BY DEF CreationAnswered, CreationTypeOK, StatusInv, PostInv, PlaceInv, PendingInv,
         Pending, Counted, NothingUncounted, SuccessIsWhole
<1> QED BY <1>1, <1>2, <1>3

LEMMA StepAnswerLost == ASSUME IInv, NEW r \in Creations, AnswerLost(r) PROVE IInv'
<1>1. Typed' /\ StatusInv'
  BY DEF AnswerLost, CreationTypeOK, Places, StatusInv, RunStatuses, TerminalStatuses
<1>2. PostInv' /\ PlaceInv'
  BY DEF AnswerLost, CreationTypeOK, StatusInv, PostInv, PlaceInv, Places, Counted
<1>3. PendingInv' /\ NothingUncounted' /\ SuccessIsWhole'
  BY DEF AnswerLost, CreationTypeOK, StatusInv, PostInv, PlaceInv, PendingInv, Pending,
         Counted, NothingUncounted, SuccessIsWhole
<1> QED BY <1>1, <1>2, <1>3

LEMMA StepRegister == ASSUME IInv, NEW r \in Creations, Register(r) PROVE IInv'
<1>1. Typed' /\ StatusInv'
  BY DEF Register, RecordCreated, MayRecord, CreationTypeOK, Places, StatusInv, RunStatuses,
         TerminalStatuses
<1>2. PostInv' /\ PlaceInv'
  BY DEF Register, RecordCreated, MayRecord, CreationTypeOK, StatusInv, PostInv, PlaceInv,
         Places, Counted
<1>3. PendingInv'
  BY StepCounts DEF Register, MayRecord, PlaceInv, CreationTypeOK, Pending, PendingInv, PostInv
<1>4. NothingUncounted' /\ SuccessIsWhole'
  BY DEF Register, RecordCreated, MayRecord, CreationTypeOK, StatusInv, PlaceInv,
         NothingUncounted, SuccessIsWhole
<1> QED BY <1>1, <1>2, <1>3, <1>4

LEMMA StepReauthorize == ASSUME IInv, NEW r \in Creations, Reauthorize(r) PROVE IInv'
<1>1. Typed' /\ StatusInv'
  BY DEF Reauthorize, MayContinue, CreationTypeOK, Places, StatusInv, RunStatuses,
         TerminalStatuses
<1>2. PostInv' /\ PlaceInv'
  BY DEF Reauthorize, MayContinue, CreationTypeOK, StatusInv, PostInv, PlaceInv, Places, Counted
<1>3. PendingInv' /\ NothingUncounted' /\ SuccessIsWhole'
  BY DEF Reauthorize, MayContinue, CreationTypeOK, StatusInv, PostInv, PlaceInv, PendingInv,
         Pending, Counted, NothingUncounted, SuccessIsWhole
<1> QED BY <1>1, <1>2, <1>3

LEMMA StepInitialise == ASSUME IInv, NEW r \in Creations, Initialise(r) PROVE IInv'
<1>1. Typed' /\ StatusInv'
  BY DEF Initialise, CreationTypeOK, Places, StatusInv, RunStatuses, TerminalStatuses
<1>2. PostInv' /\ PlaceInv'
  BY DEF Initialise, CreationTypeOK, StatusInv, PostInv, PlaceInv, Places, Counted
<1>3. PendingInv' /\ NothingUncounted' /\ SuccessIsWhole'
  BY DEF Initialise, CreationTypeOK, StatusInv, PostInv, PlaceInv, PendingInv, Pending,
         Counted, NothingUncounted, SuccessIsWhole
<1> QED BY <1>1, <1>2, <1>3

LEMMA StepStopTarget == ASSUME IInv, NEW r \in Creations, StopTarget(r) PROVE IInv'
<1>1. Typed' /\ StatusInv'
  BY DEF StopTarget, CreationTypeOK, Places, StatusInv, RunStatuses, TerminalStatuses
<1>2. PostInv' /\ PlaceInv'
  BY DEF StopTarget, CreationTypeOK, StatusInv, PostInv, PlaceInv, Places, Counted
<1>3. PendingInv' /\ NothingUncounted' /\ SuccessIsWhole'
  BY DEF StopTarget, CreationTypeOK, StatusInv, PostInv, PlaceInv, PendingInv, Pending,
         Counted, NothingUncounted, SuccessIsWhole
<1> QED BY <1>1, <1>2, <1>3

LEMMA StepImportAnswered == ASSUME IInv, NEW r \in Creations, ImportAnswered(r) PROVE IInv'
<1>1. Typed' /\ StatusInv'
  BY DEF ImportAnswered, CreationTypeOK, Places, StatusInv, RunStatuses, TerminalStatuses
<1>2. PostInv' /\ PlaceInv'
  BY DEF ImportAnswered, CreationTypeOK, StatusInv, PostInv, PlaceInv, Places, Counted
<1>3. PendingInv' /\ NothingUncounted' /\ SuccessIsWhole'
  BY DEF ImportAnswered, CreationTypeOK, StatusInv, PostInv, PlaceInv, PendingInv, Pending,
         Counted, NothingUncounted, SuccessIsWhole
<1> QED BY <1>1, <1>2, <1>3

LEMMA StepComplete == ASSUME IInv, NEW r \in Creations, Complete(r) PROVE IInv'
<1>1. Typed' /\ StatusInv'
  BY DEF Complete, CreationTypeOK, Places, StatusInv, RunStatuses, TerminalStatuses
<1>2. PostInv' /\ PlaceInv'
  BY DEF Complete, CreationTypeOK, StatusInv, PostInv, PlaceInv, Places, Counted
<1>3. PendingInv' /\ NothingUncounted' /\ SuccessIsWhole'
  BY DEF Complete, CreationTypeOK, StatusInv, PostInv, PlaceInv, PendingInv, Pending,
         Counted, NothingUncounted, SuccessIsWhole
<1> QED BY <1>1, <1>2, <1>3

LEMMA StepQuery == ASSUME IInv, NEW r \in Creations, Query(r) PROVE IInv'
<1>1. Typed' /\ StatusInv'
  BY DEF Query, CreationTypeOK, Places, StatusInv, RunStatuses, TerminalStatuses
<1>2. PostInv' /\ PlaceInv'
  BY DEF Query, CreationTypeOK, StatusInv, PostInv, PlaceInv, Places, Counted
<1>3. PendingInv' /\ NothingUncounted' /\ SuccessIsWhole'
  BY DEF Query, CreationTypeOK, StatusInv, PostInv, PlaceInv, PendingInv, Pending, Counted,
         NothingUncounted, SuccessIsWhole
<1> QED BY <1>1, <1>2, <1>3

LEMMA StepReadReceipt == ASSUME IInv, NEW r \in Creations, ReadReceipt(r) PROVE IInv'
<1>1. Typed' /\ StatusInv'
  BY DEF ReadReceipt, CreationTypeOK, Places, StatusInv, RunStatuses, TerminalStatuses
<1>2. PostInv' /\ PlaceInv'
  BY DEF ReadReceipt, CreationTypeOK, StatusInv, PostInv, PlaceInv, Places, Counted
<1>3. PendingInv' /\ NothingUncounted' /\ SuccessIsWhole'
  BY DEF ReadReceipt, CreationTypeOK, StatusInv, PostInv, PlaceInv, PendingInv, Pending,
         Counted, NothingUncounted, SuccessIsWhole
<1> QED BY <1>1, <1>2, <1>3

LEMMA StepRegisterFound == ASSUME IInv, NEW r \in Creations, RegisterFound(r) PROVE IInv'
<1>1. Typed' /\ StatusInv'
  BY DEF RegisterFound, RecordCreated, MayRecord, CreationTypeOK, Places, StatusInv,
         RunStatuses, TerminalStatuses
<1>2. PostInv' /\ PlaceInv'
  BY DEF RegisterFound, RecordCreated, MayRecord, CreationTypeOK, StatusInv, PostInv,
         PlaceInv, Places, Counted
<1>3. PendingInv'
  BY StepCounts DEF RegisterFound, MayRecord, PlaceInv, CreationTypeOK, Pending, PendingInv, PostInv
<1>4. NothingUncounted' /\ SuccessIsWhole'
  BY DEF RegisterFound, RecordCreated, MayRecord, CreationTypeOK, StatusInv, PlaceInv,
         NothingUncounted, SuccessIsWhole
<1> QED BY <1>1, <1>2, <1>3, <1>4

LEMMA StepReconcileRun == ASSUME IInv, NEW r \in Creations, ReconcileRun(r) PROVE IInv'
<1>1. Typed' /\ StatusInv'
  BY DEF ReconcileRun, CreationTypeOK, Places, StatusInv, RunStatuses, TerminalStatuses
<1>2. PostInv' /\ PlaceInv'
  BY DEF ReconcileRun, CreationTypeOK, StatusInv, PostInv, PlaceInv, Places, Counted
<1>3. PendingInv' /\ NothingUncounted' /\ SuccessIsWhole'
  BY DEF ReconcileRun, CreationTypeOK, StatusInv, PostInv, PlaceInv, PendingInv, Pending,
         Counted, NothingUncounted, SuccessIsWhole
<1> QED BY <1>1, <1>2, <1>3

LEMMA StepReportImport == ASSUME IInv, NEW r \in Creations, ReportImport(r) PROVE IInv'
<1>1. Typed' /\ StatusInv'
  BY DEF ReportImport, CreationTypeOK, Places, StatusInv, RunStatuses, TerminalStatuses
<1>2. PostInv' /\ PlaceInv'
  BY DEF ReportImport, CreationTypeOK, StatusInv, PostInv, PlaceInv, Places, Counted
<1>3. PendingInv' /\ NothingUncounted' /\ SuccessIsWhole'
  BY DEF ReportImport, CreationTypeOK, StatusInv, PostInv, PlaceInv, PendingInv, Pending,
         Counted, NothingUncounted, SuccessIsWhole
<1> QED BY <1>1, <1>2, <1>3

LEMMA StepMake == ASSUME IInv, NEW r \in Creations, Make(r) PROVE IInv'
<1>1. Typed' /\ StatusInv'
  BY DEF Make, CreationTypeOK, Places, StatusInv, RunStatuses, TerminalStatuses
<1>2. PostInv' /\ PlaceInv'
  BY DEF Make, CreationTypeOK, StatusInv, PostInv, PlaceInv, Places, Counted
<1>3. PendingInv' /\ NothingUncounted' /\ SuccessIsWhole'
  BY DEF Make, CreationTypeOK, StatusInv, PostInv, PlaceInv, PendingInv, Pending, Counted,
         NothingUncounted, SuccessIsWhole
<1> QED BY <1>1, <1>2, <1>3

LEMMA StepPostLost == ASSUME IInv, NEW r \in Creations, PostLost(r) PROVE IInv'
<1>1. Typed' /\ StatusInv'
  BY DEF PostLost, CreationTypeOK, Places, StatusInv, RunStatuses, TerminalStatuses
<1>2. PostInv' /\ PlaceInv'
  BY DEF PostLost, CreationTypeOK, StatusInv, PostInv, PlaceInv, Places, Counted
<1>3. PendingInv' /\ NothingUncounted' /\ SuccessIsWhole'
  BY DEF PostLost, CreationTypeOK, StatusInv, PostInv, PlaceInv, PendingInv, Pending,
         Counted, NothingUncounted, SuccessIsWhole
<1> QED BY <1>1, <1>2, <1>3

LEMMA StepRepair == ASSUME IInv, NEW r \in Creations, Repair(r) PROVE IInv'
<1>1. Typed' /\ StatusInv'
  BY DEF Repair, CreationTypeOK, Places, StatusInv, RunStatuses, TerminalStatuses
<1>2. PostInv' /\ PlaceInv'
  BY DEF Repair, CreationTypeOK, StatusInv, PostInv, PlaceInv, Places, Counted
<1>3. PendingInv' /\ NothingUncounted' /\ SuccessIsWhole'
  BY DEF Repair, CreationTypeOK, StatusInv, PostInv, PlaceInv, PendingInv, Pending, Counted,
         NothingUncounted, SuccessIsWhole
<1> QED BY <1>1, <1>2, <1>3

LEMMA StepImport == ASSUME IInv, NEW r \in Creations, Import(r) PROVE IInv'
<1>1. Typed' /\ StatusInv'
  BY DEF Import, CreationTypeOK, Places, StatusInv, RunStatuses, TerminalStatuses
<1>2. PostInv' /\ PlaceInv'
  BY DEF Import, CreationTypeOK, StatusInv, PostInv, PlaceInv, Places, Counted
<1>3. PendingInv' /\ NothingUncounted' /\ SuccessIsWhole'
  BY DEF Import, CreationTypeOK, StatusInv, PostInv, PlaceInv, PendingInv, Pending, Counted,
         NothingUncounted, SuccessIsWhole
<1> QED BY <1>1, <1>2, <1>3

LEMMA StepTargetSession == ASSUME IInv, NEW r \in Creations, TargetSession(r) PROVE IInv'
<1>1. Typed' /\ StatusInv'
  BY DEF TargetSession, CreationTypeOK, Places, StatusInv, RunStatuses, TerminalStatuses
<1>2. PostInv' /\ PlaceInv'
  BY DEF TargetSession, CreationTypeOK, StatusInv, PostInv, PlaceInv, Places, Counted
<1>3. PendingInv' /\ NothingUncounted' /\ SuccessIsWhole'
  BY DEF TargetSession, CreationTypeOK, StatusInv, PostInv, PlaceInv, PendingInv, Pending,
         Counted, NothingUncounted, SuccessIsWhole
<1> QED BY <1>1, <1>2, <1>3

LEMMA StepsetProfilePolicy == ASSUME IInv, NEW r \in Creations, setProfilePolicy(r) PROVE IInv'
<1>1. Typed' /\ StatusInv'
  BY DEF setProfilePolicy, CreationTypeOK, Places, StatusInv, RunStatuses, TerminalStatuses
<1>2. PostInv' /\ PlaceInv'
  BY DEF setProfilePolicy, CreationTypeOK, StatusInv, PostInv, PlaceInv, Places, Counted
<1>3. PendingInv' /\ NothingUncounted' /\ SuccessIsWhole'
  BY DEF setProfilePolicy, CreationTypeOK, StatusInv, PostInv, PlaceInv, PendingInv,
         Pending, Counted, NothingUncounted, SuccessIsWhole
<1> QED BY <1>1, <1>2, <1>3

LEMMA StepHandlerDies == ASSUME IInv, HandlerDies PROVE IInv'
  BY DEF HandlerDies, CreationTypeOK, Places, StatusInv, PostInv, PlaceInv, PendingInv, Pending,
         NothingUncounted, SuccessIsWhole

LEMMA StepRevoke == ASSUME IInv, revokeGrant PROVE IInv'
<1>1. live' \in BOOLEAN
  BY Zenon DEF revokeGrant
<1>2. UNCHANGED <<recordVars, handlerVars, created, policies, harborVars, postVars>>
  BY DEF revokeGrant
<1> QED
  BY <1>1, <1>2 DEF CreationTypeOK, Places, StatusInv, PostInv, PlaceInv, PendingInv, Pending,
                    NothingUncounted, SuccessIsWhole

-----------------------------------------------------------------------------
LEMMA InitIInv == CreationInit => IInv
<1> SUFFICES ASSUME CreationInit PROVE IInv
  OBVIOUS
<1>1. Cardinality(created) = 0
  BY FS_EmptySet DEF CreationInit
<1>2. PendingInv
  BY <1>1 DEF CreationInit, PendingInv, Pending
<1> QED
  BY <1>2 DEF CreationInit, CreationTypeOK, Places, StatusInv, PostInv, PlaceInv,
              NothingUncounted, SuccessIsWhole

LEMMA NextIInv == IInv /\ [CreationNext]_creationVars => IInv'
<1> SUFFICES ASSUME IInv, [CreationNext]_creationVars PROVE IInv'
  OBVIOUS
<1>1. ASSUME NEW r \in Creations, CreationStep(r) PROVE IInv'
  BY <1>1, StepSubmit, StepStartRun, StepAuthorize, StepSendCreation, StepCreationAnswered,
     StepAnswerLost, StepRegister, StepReauthorize, StepInitialise, StepStopTarget,
     StepImportAnswered, StepComplete, StepQuery, StepReadReceipt, StepRegisterFound,
     StepReconcileRun, StepReportImport, StepMake, StepPostLost, StepRepair, StepImport,
     StepTargetSession, StepsetProfilePolicy, Zenon DEF CreationStep
<1>2. CASE UNCHANGED creationVars
  BY <1>2 DEF creationVars, CreationTypeOK, Places, StatusInv, PostInv, PlaceInv, PendingInv,
              Pending, NothingUncounted, SuccessIsWhole
<1> QED
  BY <1>1, <1>2, StepHandlerDies, StepRevoke DEF CreationNext

\* The invariant holds of every behaviour: the types, and what a place of a
\* handler, a request and a receipt say of each other (managed-browser.ts).
THEOREM CreationInvariant == CreationSpec => []IInv
<1> QED BY InitIInv, NextIInv, PTL DEF CreationSpec

\* A profile Harbor made, may yet make or has to repair is counted, or blocks
\* the grant, or is the owner's, whatever is lost or killed.
THEOREM ProfilesAreCounted == CreationSpec => []NothingUncounted
<1>1. IInv => NothingUncounted
  OBVIOUS
<1> QED BY <1>1, CreationInvariant, PTL

\* A run that reports success made its profile, counted it and, for an import,
\* merged the bookmarks.
THEOREM SuccessHolds == CreationSpec => []SuccessIsWhole
<1>1. IInv => SuccessIsWhole
  OBVIOUS
<1> QED BY <1>1, CreationInvariant, PTL

LEMMA IInvBoundsQuota == IInv => QuotaBoundsCreation
<1> SUFFICES ASSUME IInv PROVE QuotaBoundsCreation
  OBVIOUS
<1> DEFINE Profiles == {r \in Creations : made[r] = "completed" /\ ~(r \in policies \ created)}
<1>1. IsFiniteSet(created) /\ Cardinality(created) \in Nat
  BY FS_Subset, FS_CardinalityType DEF CreationTypeOK
<1>2. Profiles \subseteq created \cup Pending
  BY DEF Pending, CreationTypeOK
<1>3. CASE Pending = {}
  <2>1. Cardinality(Profiles) <= Cardinality(created)
    BY <1>1, <1>2, <1>3, FS_Subset
  <2>2. IsFiniteSet(Profiles) /\ Cardinality(Profiles) \in Nat
    BY <1>1, <1>2, <1>3, FS_Subset, FS_CardinalityType
  <2> QED BY <1>1, <2>1, <2>2 DEF PendingInv, QuotaBoundsCreation
<1>4. CASE Pending # {}
  <2>1. PICK p : Pending = {p}
    BY <1>4 DEF PendingInv
  <2>2. IsFiniteSet(created \cup {p}) /\ Cardinality(created \cup {p}) <= Cardinality(created) + 1
        /\ Cardinality(created \cup {p}) \in Nat
    <3>1. /\ IsFiniteSet(created \cup {p})
          /\ Cardinality(created \cup {p}) =
             IF p \in created THEN Cardinality(created) ELSE Cardinality(created) + 1
      BY <1>1, FS_AddElement
    <3> QED BY <1>1, <3>1
  <2>3. Profiles \subseteq created \cup {p}
    BY <1>2, <2>1
  <2>4. Cardinality(Profiles) <= Cardinality(created \cup {p}) /\ Cardinality(Profiles) \in Nat
    BY <2>2, <2>3, FS_Subset, FS_CardinalityType
  <2> QED BY <1>1, <1>4, <2>2, <2>4 DEF PendingInv, QuotaBoundsCreation
<1> QED BY <1>3, <1>4

\* The profiles made for a grant never outnumber its quota.
THEOREM QuotaHolds == CreationSpec => []QuotaBoundsCreation
<1> QED BY IInvBoundsQuota, CreationInvariant, PTL

=============================================================================
