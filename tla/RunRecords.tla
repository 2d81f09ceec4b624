----------------------------- MODULE RunRecords -----------------------------
(***************************************************************************)
(* The run record store, packages/core/src/run-record-store.ts: one file   *)
(* per run, read, checked and renamed into place inside the run's file     *)
(* lock, so each operation is one step here (FileOwnership is the lock).   *)
(* Whoever calls it is free here; TaskThreads uses these operations for    *)
(* what the handlers of its turns do to their runs.                        *)
(***************************************************************************)
EXTENDS RunLifecycle

CONSTANTS Runs, NoRun

ASSUME NoRunAssumption ==
  NoRun \notin [status : RunStatuses, terminal_at : BOOLEAN, denied : BOOLEAN, bound : BOOLEAN]

VARIABLE runs   \* runs[r]: the record of run r, or NoRun while there is no file

vars == <<runs>>

\* What the properties tell apart of a record: its status, whether it has a
\* terminal_at, whether its failure is the one a denial or a cancellation
\* leaves, and whether a runtime session is bound to it.
RunRecord == [status : RunStatuses, terminal_at : BOOLEAN, denied : BOOLEAN, bound : BOOLEAN]

Init == runs = [r \in Runs |-> NoRun]

\* The statuses callers create a record with: admitted, or the verdict of a
\* failed admission.  (The default, pending, is used by no caller.)
InitialStatuses == {"admitted", "failed", "blocked", "requires_user_action"}

\* Slip: the caller's admission decision is stored as the status.
createRunRecordOfDecision(r, status) ==
  /\ runs[r] = NoRun
  /\ runs' = [runs EXCEPT ![r] =
       [status |-> "blocked_pre_admission", terminal_at |-> TRUE, denied |-> FALSE, bound |-> FALSE]]

\* makeRecord and createRecord: link(2) fails when the file exists.
createRunRecord(r, status) ==
  /\ runs[r] = NoRun
  /\ runs' = [runs EXCEPT ![r] =
       [status |-> status, terminal_at |-> status \in TerminalStatuses,
        denied |-> FALSE, bound |-> FALSE]]

\* Slip: no assertTransition.
updateRunRecordFreely(r, status) ==
  /\ runs[r] # NoRun
  /\ runs' = [runs EXCEPT ![r] =
       [@ EXCEPT !.status = status, !.terminal_at = @ \/ status \in TerminalStatuses]]

\* A patch may bring a failure of its own, over the one that is there.
updateRunRecord(r, status) ==
  /\ runs[r] # NoRun
  /\ MayTransition(runs[r].status, status)
  /\ \E denied \in {runs[r].denied, FALSE} :
       runs' = [runs EXCEPT ![r] =
         [runs[r] EXCEPT !.status = status,
                         !.terminal_at = runs[r].terminal_at \/ status \in TerminalStatuses,
                         !.denied = denied]]

bindCoreTaskRuntimeSession(r) ==
  /\ runs[r] # NoRun
  /\ runs[r].status \in {"admitted", "running"}
  /\ ~runs[r].bound
  /\ runs' = [runs EXCEPT ![r] = [@ EXCEPT !.status = "running", !.bound = TRUE]]

bindManagedBrowserRuntimeSession(r) ==
  /\ runs[r] # NoRun
  /\ runs[r].status = "running"
  /\ ~runs[r].bound
  /\ runs' = [runs EXCEPT ![r] = [@ EXCEPT !.bound = TRUE]]

\* Slip: terminal_at survives the continuation.
continueKeepingTerminalAt(r) ==
  /\ runs[r] # NoRun
  /\ runs[r].status = "requires_user_action"
  /\ runs' = [runs EXCEPT ![r] = [@ EXCEPT !.status = "running", !.denied = FALSE]]

continueRequiresUserActionRun(r) ==
  /\ runs[r] # NoRun
  /\ runs[r].status = "requires_user_action"
  /\ runs' = [runs EXCEPT ![r] =
       [@ EXCEPT !.status = "running", !.terminal_at = FALSE, !.denied = FALSE]]

\* denyRequiresUserActionRun and cancelRequiresUserActionRun (a second call
\* with the same failure returns the record as it is).
EndWaitingRun(r, status) ==
  /\ runs[r] # NoRun
  /\ \/ /\ runs[r].status = "requires_user_action"
        /\ runs' = [runs EXCEPT ![r] =
             [@ EXCEPT !.status = status, !.terminal_at = TRUE, !.denied = TRUE]]
     \/ runs[r].status = status /\ runs[r].denied /\ UNCHANGED runs

denyRequiresUserActionRun(r) == EndWaitingRun(r, "failed")
cancelRequiresUserActionRun(r) == EndWaitingRun(r, "cancelled")

Next ==
  \E r \in Runs :
    \/ \E s \in InitialStatuses : createRunRecord(r, s)
    \/ \E s \in RunStatuses : updateRunRecord(r, s)
    \/ bindCoreTaskRuntimeSession(r)
    \/ bindManagedBrowserRuntimeSession(r)
    \/ continueRequiresUserActionRun(r)
    \/ denyRequiresUserActionRun(r)
    \/ cancelRequiresUserActionRun(r)

Spec == Init /\ [][Next]_vars

---------------------------------------------------------------------------
TypeOK == runs \in [Runs -> RunRecord \cup {NoRun}]

\* Across creation, update, binding, continuation, denial and cancellation, a
\* record carries terminal_at exactly while its status is terminal (the code
\* itself rejects only a terminal_at without a terminal status).
TerminalAtSound ==
  \A r \in Runs : runs[r] # NoRun => (runs[r].terminal_at <=> runs[r].status \in TerminalStatuses)

\* No sequence of store calls moves a run out of a settled outcome, or removes
\* its record.
SettledStays ==
  [][\A r \in Runs :
       runs[r] # NoRun =>
         /\ runs'[r] # NoRun
         /\ runs[r].status \in SettledStatuses => runs'[r].status = runs[r].status]_vars

\* ADR 0003 lists requires_user_action among the terminal states, and ADR 0005
\* has a terminal state never overwritten: a new run is to be created instead.
TerminalIsFinal ==
  [][\A r \in Runs :
       runs[r] # NoRun /\ runs[r].status \in TerminalStatuses => runs'[r].status = runs[r].status]_vars
=============================================================================
