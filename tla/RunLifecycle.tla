---------------------------- MODULE RunLifecycle ----------------------------
(***************************************************************************)
(* The vocabulary of run statuses shared by the Core's stores:             *)
(* packages/core/src/run-record-store.ts (status sets and transitions) and *)
(* packages/core/src/task-thread-store.ts (what a turn shows of its run).  *)
(* No state: the modules that keep runs extend this one.                   *)
(***************************************************************************)

TerminalStatuses ==
  {"succeeded", "failed", "blocked", "requires_user_action", "manual_recovery_required",
   "unknown_outcome", "cancelled", "expired"}
RunStatuses == {"pending", "admitted", "running"} \cup TerminalStatuses

\* runLifecycleTransitions.
runLifecycleTransitions ==
  [s \in RunStatuses |->
     CASE s = "pending"  -> {"admitted", "failed", "cancelled", "expired"}
       [] s = "admitted" -> {"running", "failed", "cancelled", "expired"}
       [] s = "running"  -> TerminalStatuses
       [] OTHER          -> {}]

\* assertTransition: an update that keeps the status is always let through.
MayTransition(current, next) == next = current \/ next \in runLifecycleTransitions[current]

\* Of the terminal statuses only this one is ever left (continue, deny, cancel).
SettledStatuses == TerminalStatuses \ {"requires_user_action"}

\* mapRunStatus: the status of a turn whose run record exists.
mapRunStatus(status) ==
  CASE status \in {"pending", "admitted"} -> "accepted"
    [] status = "running" -> "running"
    [] status = "requires_user_action" -> "waiting_for_user"
    [] status = "succeeded" -> "completed"
    [] status \in {"cancelled", "expired"} -> "cancelled"
    [] status \in {"unknown_outcome", "manual_recovery_required"} -> "status_unknown"
    [] OTHER -> "failed"

TurnStatuses ==
  {"submitting", "accepted", "running", "waiting_for_user", "status_unknown",
   "completed", "failed", "cancelled"}

\* statusKeepsThreadLocked.
statusKeepsThreadLocked(status) ==
  status \in {"submitting", "accepted", "running", "waiting_for_user", "status_unknown"}
=============================================================================
