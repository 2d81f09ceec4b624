---------------------------- MODULE ManagedTasks ----------------------------
(***************************************************************************)
(* Managed site tasks: packages/core/src/managed-task.ts, from the         *)
(* submission to the settlement of a run.  A task with a script is done by *)
(* a worker outside the Core, under a ticket that lives in the Core's      *)
(* memory; it may make one call, to Harbor or to a public page.  Stops,    *)
(* queries and a timer settle runs as well, each from a record it has read *)
(* before, and the Core may die between any two steps.                     *)
(***************************************************************************)
EXTENDS RunLifecycle, Naturals

CONSTANTS
  SiteTasks,     \* the runs, each of one idempotency key
  Handlers,      \* requests of clients and workers, and the timers
  NoHandler,
  RoleOf,        \* what a handler does
  TaskOf,        \* the run it is about
  MaxTaskDeaths  \* bound: deaths of the Core

Roles == {"submit", "query", "stop", "broker", "complete", "fail", "timer"}

ASSUME SiteTasksAssumption ==
  /\ NoHandler \notin Handlers
  /\ RoleOf \in [Handlers -> Roles] /\ TaskOf \in [Handlers -> SiteTasks]
  /\ MaxTaskDeaths \in Nat

VARIABLES
  runFile,     \* the run record: status, dispatch_state and stop_idempotency
  taskLock,    \* who holds the lock of a run in managed-task-operation-locks
  ticket,      \* the run's ticket in activeTickets
  overdue,     \* runs past their deadline
  hand,        \* a handler: its next step, the record it has read, its verdict
  calls,       \* history: calls that left the Core for a run
  interrupted, \* history: runs a death left unsettled
  taskDeaths

taskVars == <<runFile, taskLock, ticket, overdue, hand, calls, interrupted, taskDeaths>>
pastVars == <<overdue, calls, interrupted, taskDeaths>>

Script == {"page", "public"}  \* page_snapshot and program_public_read with a script
NoFile == [kind |-> "none", status |-> "none", dispatched |-> FALSE, stops |-> {}]
NoTicket == [place |-> "none", started |-> FALSE, asked |-> FALSE, dispatched |-> FALSE,
             answered |-> FALSE, output |-> "none", uncertain |-> FALSE]
NoVerdict == [status |-> "none", dispatched |-> FALSE]
Is(next, seen, verdict) == [next |-> next, seen |-> seen, verdict |-> verdict]

SiteTasksInit ==
  /\ runFile = [t \in SiteTasks |-> NoFile]
  /\ taskLock = [t \in SiteTasks |-> NoHandler]
  /\ ticket = [t \in SiteTasks |-> NoTicket]
  /\ overdue = {} /\ interrupted = {} /\ taskDeaths = 0
  /\ hand = [h \in Handlers |-> Is("start", NoFile, NoVerdict)]
  /\ calls = [t \in SiteTasks |-> 0]

-----------------------------------------------------------------------------
Mine(h) == runFile[TaskOf[h]]
MyTicket(h) == ticket[TaskOf[h]]
Stands(h, role, next) == RoleOf[h] = role /\ hand[h].next = next
IsTerminal(file) == file.status \in TerminalStatuses
Verdict(status, dispatched) == [status |-> status, dispatched |-> dispatched]

\* revalidateWorkerTicket, up to its checks of access
TicketValid(t) ==
  ticket[t].place = "handed" /\ t \notin overdue /\ runFile[t].status = "running"

\* To a step that uses nothing that was read before, and to ones that use a read.
GoTo(h, next) == hand' = [hand EXCEPT ![h] = Is(next, NoFile, NoVerdict)]
ReadAndGoTo(h, next) == hand' = [hand EXCEPT ![h] = Is(next, Mine(h), @.verdict)]
Judge(h, verdict, next) == hand' = [hand EXCEPT ![h] = Is(next, Mine(h), verdict)]

\* A handler that ends lets go of the lock, if it holds it.
Unlocked(h) == [taskLock EXCEPT ![TaskOf[h]] = IF @ = h THEN NoHandler ELSE @]
End(h) == GoTo(h, "done") /\ taskLock' = Unlocked(h)

\* deactivateWorkerTicket
Deactivated(h) ==
  [ticket EXCEPT ![TaskOf[h]].place = IF @ = "none" THEN @ ELSE "gone"]

-----------------------------------------------------------------------------
(* task.submit: under the lock it creates the run or finds it. *)

Admit(h) ==
  /\ Stands(h, "submit", "start")
  /\ taskLock[TaskOf[h]] = NoHandler /\ Mine(h) = NoFile
  /\ taskLock' = [taskLock EXCEPT ![TaskOf[h]] = h]
  /\ \E kind \in Script \cup {"direct"} :
       runFile' = [runFile EXCEPT ![TaskOf[h]] =
                     [kind |-> kind, status |-> "admitted", dispatched |-> FALSE, stops |-> {}]]
  /\ GoTo(h, "admitted")
  /\ UNCHANGED <<ticket, pastVars>>

SubmitAgain(h) ==
  /\ Stands(h, "submit", "start")
  /\ taskLock[TaskOf[h]] = NoHandler /\ Mine(h) # NoFile
  /\ taskLock' = [taskLock EXCEPT ![TaskOf[h]] = h]
  /\ ReadAndGoTo(h, "recover")
  /\ UNCHANGED <<runFile, ticket, pastVars>>

\* The second write of the setup; a run that a query has settled refuses it.
RunTask(h) ==
  /\ Stands(h, "submit", "admitted")
  /\ taskLock' = Unlocked(h)
  /\ IF MayTransition(Mine(h).status, "running")
       THEN runFile' = [runFile EXCEPT ![TaskOf[h]].status = "running"] /\ GoTo(h, "started")
       ELSE GoTo(h, "done") /\ UNCHANGED runFile
  /\ UNCHANGED <<ticket, pastVars>>

\* No verified worker host, or no distinct worker identity.
RefuseWorker(h) ==
  /\ Stands(h, "submit", "started") /\ Mine(h).kind \in Script
  /\ Judge(h, Verdict("failed", FALSE), "finish")
  /\ UNCHANGED <<runFile, taskLock, ticket, pastVars>>

\* executeScriptTask: the ticket is active before the run is read again
CreateTicket(h) ==
  /\ Stands(h, "submit", "started") /\ Mine(h).kind \in Script
  /\ ticket' = [ticket EXCEPT ![TaskOf[h]].place = "active"]
  /\ GoTo(h, "ticketed")
  /\ UNCHANGED <<runFile, taskLock, pastVars>>

HandTicket(h) ==
  /\ Stands(h, "submit", "ticketed")
  /\ ticket' = IF Mine(h).status = "running" /\ MyTicket(h).place = "active"
                 THEN [ticket EXCEPT ![TaskOf[h]].place = "handed"] ELSE Deactivated(h)
  /\ End(h)
  /\ UNCHANGED <<runFile, pastVars>>

\* A task without a script: the handler itself asks Harbor for the snapshot, or
\* finds that it is too late or that Harbor cannot be asked.
AskDirectly(h) ==
  /\ Stands(h, "submit", "started") /\ Mine(h).kind = "direct"
  /\ \/ /\ Judge(h, Verdict("failed", FALSE), "finish") /\ UNCHANGED calls
     \/ /\ TaskOf[h] \notin overdue
        /\ calls' = [calls EXCEPT ![TaskOf[h]] = @ + 1]
        /\ GoTo(h, "asking")
  /\ UNCHANGED <<runFile, taskLock, ticket, overdue, interrupted, taskDeaths>>

\* Its result, an error or the time-out; the summary is written from what the
\* handler began with.
DirectAnswer(h) ==
  /\ Stands(h, "submit", "asking")
  /\ IF IsTerminal(Mine(h)) THEN End(h)
     ELSE /\ UNCHANGED taskLock
          /\ \/ \E d \in BOOLEAN : Judge(h, Verdict("failed", d), "finish")
             \/ Judge(h, Verdict("unknown_outcome", TRUE), "finish")
             \/ \E d \in BOOLEAN :
                  hand' = [hand EXCEPT ![h] = Is("settle", NoFile, Verdict("succeeded", d))]
  /\ UNCHANGED <<runFile, ticket, pastVars>>

-----------------------------------------------------------------------------
(* Reading and settling *)

\* lookupRun of a query and of a stop, up to its check of access
LookUpRun(h) ==
  /\ RoleOf[h] \in {"query", "stop"} /\ hand[h].next = "start"
  /\ Mine(h) # NoFile
  /\ ReadAndGoTo(h, "recover")
  /\ UNCHANGED <<runFile, taskLock, ticket, pastVars>>

Denied(h) ==
  /\ RoleOf[h] \in {"query", "stop"} /\ hand[h].next = "recover"
  /\ End(h)
  /\ UNCHANGED <<runFile, ticket, pastVars>>

\* What follows the recovery: a stop stops, the others return.
Continue(h) == IF RoleOf[h] = "stop" THEN GoTo(h, "stop") /\ UNCHANGED taskLock ELSE End(h)

\* recoverOrphanedScriptRun: judged from the record that was read before
recoverOrphanedScriptRun(h) ==
  /\ hand[h].next = "recover"
  /\ LET seen == hand[h].seen IN
     IF /\ seen.status \in {"admitted", "running"} /\ seen.kind \in Script
        /\ MyTicket(h).place \notin {"active", "handed"}
       THEN /\ hand' = [hand EXCEPT ![h] = Is("finish", seen,
                 Verdict(IF seen.dispatched THEN "unknown_outcome" ELSE "failed", seen.dispatched))]
            /\ UNCHANGED taskLock
       ELSE Continue(h)
  /\ UNCHANGED <<runFile, ticket, pastVars>>

Settlers == {"complete", "fail", "timer"}

\* finishFailure: a settled run is returned as it is
finishFailure(h) ==
  /\ hand[h].next = "finish"
  /\ IF IsTerminal(Mine(h))
       THEN Continue(h) /\ ticket' = IF RoleOf[h] \in Settlers THEN Deactivated(h) ELSE ticket
       ELSE ReadAndGoTo(h, "settle") /\ UNCHANGED <<taskLock, ticket>>
  /\ UNCHANGED <<runFile, pastVars>>

\* completeRunWithFailure and completeRunWithResult: the status moves along the
\* table, the summary is the one that was read, with the verdict's dispatch_state.
\* A run that was settled meanwhile stays; only a failure then ends the ticket.
Settle(h) ==
  /\ hand[h].next = "settle"
  /\ LET verdict == hand[h].verdict
         moves == MayTransition(Mine(h).status, verdict.status) IN
     /\ runFile' = IF moves
          THEN [runFile EXCEPT ![TaskOf[h]].status = verdict.status,
                  ![TaskOf[h]].dispatched = verdict.dispatched,
                  ![TaskOf[h]].stops = hand[h].seen.stops]
          ELSE runFile
     /\ ticket' = IF RoleOf[h] \in Settlers /\ (moves \/ verdict.status # "succeeded")
                    THEN Deactivated(h) ELSE ticket
  /\ Continue(h)
  /\ UNCHANGED pastVars

-----------------------------------------------------------------------------
(* The worker and the broker *)

workerStarted(t) ==
  /\ TicketValid(t) /\ ~ticket[t].started
  /\ ticket' = [ticket EXCEPT ![t].started = TRUE]
  /\ UNCHANGED <<runFile, taskLock, hand, pastVars>>

\* workerBroker: the ticket is looked at, then the worker's access
Broker(h) ==
  /\ Stands(h, "broker", "start")
  /\ TicketValid(TaskOf[h]) /\ MyTicket(h).started
  /\ GoTo(h, "validated")
  /\ UNCHANGED <<runFile, taskLock, ticket, pastVars>>

\* The one call of runtime.invoke or network.read; a second is refused, and so
\* is one whose access was revoked.
Invoke(h) ==
  /\ Stands(h, "broker", "validated")
  /\ ~MyTicket(h).asked
  /\ ticket' = [ticket EXCEPT ![TaskOf[h]].asked = TRUE,
                   ![TaskOf[h]].dispatched = Mine(h).kind = "page"]
  /\ GoTo(h, "asked")
  /\ UNCHANGED <<runFile, taskLock, pastVars>>

InvokeRefused(h) ==
  /\ Stands(h, "broker", "validated")
  /\ GoTo(h, "done")
  /\ UNCHANGED <<runFile, taskLock, ticket, pastVars>>

\* network.read validates the ticket again (beforeDispatch), runtime.invoke does not.
ReadBeforeDispatch(h) ==
  /\ Stands(h, "broker", "asked")
  /\ IF Mine(h).status = "running" /\ (Mine(h).kind = "public" => TicketValid(TaskOf[h]))
       THEN ReadAndGoTo(h, "dispatching") ELSE GoTo(h, "done")
  /\ UNCHANGED <<runFile, taskLock, ticket, pastVars>>

\* Slip: dispatch_state is kept in memory until the run is settled.
PersistDispatchLater(h) ==
  /\ Stands(h, "broker", "dispatching")
  /\ ticket' = [ticket EXCEPT ![TaskOf[h]].dispatched = TRUE]
  /\ GoTo(h, "calling")
  /\ UNCHANGED <<runFile, taskLock, pastVars>>

\* dispatch_state goes to the record first, in the summary that was read.
PersistDispatch(h) ==
  /\ Stands(h, "broker", "dispatching")
  /\ runFile' = [runFile EXCEPT ![TaskOf[h]].dispatched = TRUE,
                   ![TaskOf[h]].stops = hand[h].seen.stops]
  /\ ticket' = [ticket EXCEPT ![TaskOf[h]].dispatched = TRUE]
  /\ GoTo(h, "calling")
  /\ UNCHANGED <<taskLock, pastVars>>

\* The deadline and, for network.read, the abort of its controller stop the call.
\* (A redirect of network.read is one more hop of the same call.)
MakeCall(h) ==
  /\ Stands(h, "broker", "calling")
  /\ TaskOf[h] \notin overdue
  /\ Mine(h).kind = "public" => MyTicket(h).place = "handed"
  /\ calls' = [calls EXCEPT ![TaskOf[h]] = @ + 1]
  /\ GoTo(h, "called")
  /\ UNCHANGED <<runFile, taskLock, ticket, overdue, interrupted, taskDeaths>>

\* The answer is good, and for network.read the run still running.
CallAnswered(h) ==
  /\ Stands(h, "broker", "called")
  /\ Mine(h).kind = "public" => Mine(h).status = "running"
  /\ ticket' = [ticket EXCEPT ![TaskOf[h]].answered = TRUE]
  /\ GoTo(h, "done")
  /\ UNCHANGED <<runFile, taskLock, pastVars>>

\* It is incomplete, or an error, also of a call that was too late, aborted or
\* refused: an uncertain one, or one of Harbor's that says that nothing was
\* dispatched.
CallFails(h) ==
  /\ hand[h].next \in {"calling", "called"}
  /\ \E uncertain, undone \in BOOLEAN :
       ticket' = [ticket EXCEPT ![TaskOf[h]].uncertain = uncertain,
                    ![TaskOf[h]].dispatched = @ /\ ~(undone /\ Mine(h).kind = "page")]
  /\ GoTo(h, "done")
  /\ UNCHANGED <<runFile, taskLock, pastVars>>

\* output.write, with the post-check of the output
WriteOutput(t) ==
  /\ TicketValid(t)
  /\ ticket[t].started /\ ticket[t].answered /\ ticket[t].output = "none"
  /\ \E check \in {"passed", "failed"} : ticket' = [ticket EXCEPT ![t].output = check]
  /\ UNCHANGED <<runFile, taskLock, hand, pastVars>>

-----------------------------------------------------------------------------
(* The worker's end, its deadline and the user's stop *)

Due(h) == RoleOf[h] = "timer" /\ TaskOf[h] \in overdue /\ MyTicket(h).place = "handed"
OutputWritten(t) == ticket[t].answered /\ ticket[t].output # "none"

\* workerComplete, and the timer once the output is there
finalizeWorker(h) ==
  /\ hand[h].next = "start"
  /\ \/ RoleOf[h] = "complete" /\ TicketValid(TaskOf[h])
     \/ Due(h) /\ OutputWritten(TaskOf[h])
  /\ \/ /\ IsTerminal(Mine(h)) \/ ~OutputWritten(TaskOf[h])
        /\ ticket' = IF IsTerminal(Mine(h)) THEN Deactivated(h) ELSE ticket
        /\ GoTo(h, "done")
     \/ /\ ~IsTerminal(Mine(h)) /\ OutputWritten(TaskOf[h])
        /\ IF MyTicket(h).output = "passed"
             THEN Judge(h, Verdict("succeeded", MyTicket(h).dispatched), "settle")
             ELSE Judge(h, Verdict("failed", MyTicket(h).dispatched), "finish")
        /\ UNCHANGED ticket
  /\ UNCHANGED <<runFile, taskLock, pastVars>>

\* network_controller is set
Reading(t) ==
  \E h \in Handlers : RoleOf[h] = "broker" /\ TaskOf[h] = t
                      /\ hand[h].next \in {"asked", "dispatching", "calling", "called"}

\* workerFailure, and the timer before the output is there
failWorker(h) ==
  /\ hand[h].next = "start"
  /\ \/ RoleOf[h] = "fail" /\ MyTicket(h).place = "handed"
     \/ Due(h) /\ ~OutputWritten(TaskOf[h])
  /\ IF IsTerminal(Mine(h))
       THEN ticket' = Deactivated(h) /\ GoTo(h, "done")
       ELSE LET now == MyTicket(h)
                unknown == \/ now.uncertain
                           \/ /\ now.dispatched /\ ~now.answered
                              /\ Mine(h).kind = "public" => Reading(TaskOf[h]) IN
            /\ Judge(h, Verdict(IF unknown THEN "unknown_outcome" ELSE "failed", now.dispatched),
                     "finish")
            /\ UNCHANGED ticket
  /\ UNCHANGED <<runFile, taskLock, pastVars>>

\* stopRun: under the lock the run is read, then its ticket cancelled.  A stop's
\* key is its handler here; one used before changes nothing.
CancelTicket(h) ==
  /\ Stands(h, "stop", "stop")
  /\ taskLock[TaskOf[h]] = NoHandler
  /\ taskLock' = [taskLock EXCEPT ![TaskOf[h]] = h]
  /\ ReadAndGoTo(h, "cancel")
  /\ ticket' = Deactivated(h)
  /\ UNCHANGED <<runFile, pastVars>>

\* The key goes into the summary that was read, or, when the run was settled
\* meanwhile, into the one it has now.
CancelRun(h) ==
  /\ Stands(h, "stop", "cancel")
  /\ LET seen == hand[h].seen
         cancels == ~IsTerminal(seen) /\ MayTransition(Mine(h).status, "cancelled")
         stale == IsTerminal(seen) \/ cancels IN
     runFile' = [runFile EXCEPT ![TaskOf[h]] =
       [kind |-> @.kind,
        status |-> IF cancels THEN "cancelled" ELSE @.status,
        dispatched |-> IF stale THEN seen.dispatched ELSE @.dispatched,
        stops |-> (IF stale THEN seen.stops ELSE @.stops) \cup {h}]]
  /\ End(h)
  /\ UNCHANGED <<ticket, pastVars>>

-----------------------------------------------------------------------------
DeadlinePasses(t) ==
  /\ runFile[t].status \in {"admitted", "running"} /\ t \notin overdue
  /\ overdue' = overdue \cup {t}
  /\ UNCHANGED <<runFile, taskLock, ticket, hand, calls, interrupted, taskDeaths>>

\* A write of the store throws; the handler ends, and a ticket stays as it is.
WriteFails(h) ==
  /\ hand[h].next \in {"admitted", "settle", "dispatching", "cancel"}
  /\ hand[h].next = "settle" => ~IsTerminal(Mine(h))
  /\ End(h)
  /\ UNCHANGED <<runFile, ticket, pastVars>>

\* The Core dies with its handlers, tickets and timers; a dead owner's lock is free.
CoreDies ==
  /\ taskDeaths < MaxTaskDeaths
  /\ taskDeaths' = taskDeaths + 1
  /\ hand' = [h \in Handlers |->
       IF hand[h].next = "start" THEN hand[h]
       ELSE Is("done", NoFile, NoVerdict)]
  /\ ticket' = [t \in SiteTasks |->
       IF ticket[t].place = "none" THEN ticket[t] ELSE [ticket[t] EXCEPT !.place = "gone"]]
  /\ taskLock' = [t \in SiteTasks |-> NoHandler]
  /\ interrupted' = interrupted \cup {t \in SiteTasks : runFile[t].status \in {"admitted", "running"}}
  /\ UNCHANGED <<runFile, overdue, calls>>

HandlerStep(h) ==
  \/ Admit(h) \/ SubmitAgain(h) \/ RunTask(h) \/ RefuseWorker(h) \/ CreateTicket(h)
  \/ HandTicket(h) \/ AskDirectly(h) \/ DirectAnswer(h)
  \/ LookUpRun(h) \/ Denied(h) \/ recoverOrphanedScriptRun(h) \/ finishFailure(h) \/ Settle(h)
  \/ Broker(h) \/ Invoke(h) \/ InvokeRefused(h) \/ ReadBeforeDispatch(h) \/ PersistDispatch(h)
  \/ MakeCall(h) \/ CallAnswered(h) \/ CallFails(h)
  \/ finalizeWorker(h) \/ failWorker(h) \/ CancelTicket(h) \/ CancelRun(h)
  \/ WriteFails(h)

TaskStep(t) == workerStarted(t) \/ WriteOutput(t) \/ DeadlinePasses(t)

SiteTasksNext ==
  \/ \E h \in Handlers : HandlerStep(h)
  \/ \E t \in SiteTasks : TaskStep(t)
  \/ CoreDies
SiteTasksSpec == SiteTasksInit /\ [][SiteTasksNext]_taskVars

-----------------------------------------------------------------------------
Statuses == RunStatuses \cup {"none"}
Files == [kind : Script \cup {"none", "direct"}, status : Statuses, dispatched : BOOLEAN,
          stops : SUBSET Handlers]
Tickets == [place : {"none", "active", "handed", "gone"}, started : BOOLEAN, asked : BOOLEAN,
            dispatched : BOOLEAN, answered : BOOLEAN, output : {"none", "passed", "failed"},
            uncertain : BOOLEAN]
Verdicts == [status : Statuses, dispatched : BOOLEAN]
Nexts == {"start", "admitted", "started", "ticketed", "asking", "recover", "finish", "settle",
          "validated", "asked", "dispatching", "calling", "called", "stop", "cancel", "done"}
Hands == [next : Nexts, seen : Files, verdict : Verdicts]

SiteTasksTypeOK ==
  /\ runFile \in [SiteTasks -> Files]
  /\ taskLock \in [SiteTasks -> Handlers \cup {NoHandler}]
  /\ ticket \in [SiteTasks -> Tickets]
  /\ overdue \subseteq SiteTasks /\ interrupted \subseteq SiteTasks
  /\ hand \in [Handlers -> Hands]
  /\ calls \in [SiteTasks -> Nat]
  /\ taskDeaths \in 0..MaxTaskDeaths

\* A run makes its call once, whatever is retried, asked twice or restarted; a
\* success has made it; and a run that a restart finds and settles as failed has
\* made none, since dispatch_state is in the record before the call (lines 467
\* and 530).  Without a restart a stop, a query or a failure that read the record
\* before the call may say that none was made: see the README.
CallsAccounted ==
  \A t \in SiteTasks :
    /\ calls[t] <= 1
    /\ runFile[t].status = "succeeded" => calls[t] = 1
    /\ t \in interrupted /\ runFile[t].status = "failed" => calls[t] = 0
=============================================================================
