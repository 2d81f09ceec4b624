---------------------------- MODULE TaskThreads ----------------------------
(***************************************************************************)
(* Task threads of the Core: how one HTTP request becomes one turn of a    *)
(* thread and one run, and how a run that waits for a confirmation is      *)
(* allowed, denied or terminated.                                          *)
(*                                                                         *)
(*   packages/core/src/task-thread-store.ts    the thread files            *)
(*   packages/core/src/run-record-store.ts     the runs and run-id claims  *)
(*   packages/api-server/src/task-thread-api.ts, task-api.ts, server.ts,   *)
(*   execution-policy-api.ts                   the handlers, in one        *)
(*                                             process that may crash      *)
(*                                                                         *)
(* A step is what a handler does between two awaits whose order against    *)
(* other handlers matters.  A read-modify-write of a thread file runs under*)
(* that thread's file lock and touches nothing else, so it is one step that*)
(* needs the lock to be free; the reservation of a turn is spelled out, as *)
(* it reads and writes other files while it holds the lock.                *)
(***************************************************************************)
EXTENDS RunLifecycle, Naturals, Sequences, FiniteSets

CONSTANTS
  Threads, Runs, Keys, NoThread, NoRun, NoRequest,
  Requests,     \* POST requests, each sent once; a retry is another request
  Users,        \* handlers of terminations and of confirmation decisions
  ThreadOf,     \* the thread a request is for (of no account for a direct one)
  KeyOf,        \* its idempotency key
  RunOf,        \* the run id it asks for
  KindOf,       \* "plain", "guarded" (a write precheck) or "direct" (POST /tasks)
  Outcomes,     \* bound: the terminal statuses an execution may end with
  MaxCrashes,   \* bound on crashes of the API server
  StoreFails    \* whether a file operation of a handler may throw

ASSUME RequestAssumption ==
  /\ ThreadOf \in [Requests -> Threads]
  /\ KeyOf \in [Requests -> Keys]
  /\ RunOf \in [Requests -> Runs]
  /\ KindOf \in [Requests -> {"plain", "guarded", "direct"}]
ASSUME ActorAssumption == NoRequest \notin Requests \cup Users /\ Requests \cap Users = {}
ASSUME OutcomeAssumption == Outcomes \subseteq TerminalStatuses
TurnRecord ==
  [req : Requests, submission_state : {"submitting", "accepted", "rejected"},
   failure_code : {"none", "confirmation", "interrupted", "other"}, terminated : BOOLEAN]
RunRecord == [status : RunStatuses, terminal_at : BOOLEAN, denied : BOOLEAN, bound : BOOLEAN]
ASSUME AbsentAssumption == NoThread \notin Seq(TurnRecord) /\ NoRun \notin RunRecord
ASSUME FailureAssumption == StoreFails \in BOOLEAN /\ MaxCrashes \in Nat

VARIABLES
  \* on disk
  threads,    \* threads[t]: the turns of thread t, or NoThread
  runs,       \* runs[r]: see RunRecords
  claims,     \* claims[r]: the request whose token is in r's claim file
  confirm,    \* confirm[r]: the confirmation the run waits for
  snapshot,   \* snapshot[r]: the kind of decision its policy_binding_snapshot names
  decided,    \* decided[r]: the single-action decision recorded for it
  \* in the API server process
  alive,      \* the requests handled by the process that runs now
  threadLock, \* threadLock[t]: the reservation that holds t's file lock
  runLock,    \* runLock[r]: the handler inside withWritePrecheckRunLock(r)
  pending,    \* runs with an entry in pendingWritePrecheckContinuations
  pc,         \* pc[a]: where the handler of request or user a is
  tried,      \* tried[q]: claimRunIdForTurn is past its recovery
  owner,      \* owner[q]: the dead claim's owner that it read
  answer,     \* answer[q]: what submitTask told the handler
  target,     \* target[u]: the request whose turn user u acts on
  \* history
  creator,    \* creator[r]: the request that created r's record
  resumed,    \* runs that left requires_user_action for running
  orphaned,   \* runs whose claim a recovery unlinked from a living request
  crashes

vars == <<threads, runs, claims, confirm, snapshot, decided, alive, threadLock, runLock, pending, pc,
          tried, owner, answer, target, creator, resumed, orphaned, crashes>>

RR == INSTANCE RunRecords

Direct(q) == KindOf[q] = "direct"
Guarded(q) == KindOf[q] = "guarded"

\* The turns of a thread, and the turn a request reserved.
Turns(t) == IF threads[t] = NoThread THEN {} ELSE {threads[t][i] : i \in DOMAIN threads[t]}
HasTurn(q) == ~Direct(q) /\ \E turn \in Turns(ThreadOf[q]) : turn.req = q
TurnOf(q) == CHOOSE turn \in Turns(ThreadOf[q]) : turn.req = q

\* getRunIdClaim(...)?.owner_alive.
ClaimAlive(r) == claims[r] # NoRequest /\ claims[r] \in alive

\* turnState: what a turn shows, from its own record, its run and its claim.
turnState(turn) ==
  LET run == runs[RunOf[turn.req]] IN
  IF turn.terminated THEN "cancelled"
  ELSE IF turn.submission_state = "rejected" THEN "failed"
  ELSE IF run # NoRun THEN mapRunStatus(run.status)
  ELSE IF turn.submission_state = "submitting" /\ ClaimAlive(RunOf[turn.req]) THEN "submitting"
  ELSE "status_unknown"

\* The same, of the turn request q reserved.
StateOf(q) == IF HasTurn(q) THEN turnState(TurnOf(q)) ELSE "none"

KeepsLocked(turn) == statusKeepsThreadLocked(turnState(turn))

Init ==
  /\ threads = [t \in Threads |-> NoThread]
  /\ RR!Init
  /\ claims = [r \in Runs |-> NoRequest]
  /\ confirm = [r \in Runs |-> "none"]
  /\ snapshot = [r \in Runs |-> "none"]
  /\ decided = [r \in Runs |-> "none"]
  /\ alive = {}
  /\ threadLock = [t \in Threads |-> NoRequest]
  /\ runLock = [r \in Runs |-> NoRequest]
  /\ pending = {}
  /\ pc = [a \in Requests \cup Users |-> IF a \in Requests THEN "new" ELSE "idle"]
  /\ tried = [q \in Requests |-> FALSE]
  /\ owner = [q \in Requests |-> NoRequest]
  /\ answer = [q \in Requests |-> "none"]
  /\ target = [u \in Users |-> NoRequest]
  /\ creator = [r \in Runs |-> NoRequest]
  /\ resumed = {}
  /\ orphaned = {}
  /\ crashes = 0

Goto(a, next) == pc' = [pc EXCEPT ![a] = next]

\* What a step leaves alone, by the part of the system it belongs to.
diskRuns == <<runs, creator, resumed>>
confirmation == <<confirm, snapshot, decided, pending>>
scratch == <<tried, owner, answer>>
locks == <<threadLock, runLock>>
server == <<alive, orphaned, crashes>>

---------------------------------------------------------------------------
(* reserveTaskTurn.                                                        *)

\* createOrGetTaskThread: the second call finds the file.
CreateThread(t) ==
  /\ threadLock[t] = NoRequest
  /\ threads[t] = NoThread
  /\ threads' = [threads EXCEPT ![t] = <<>>]
  /\ UNCHANGED <<diskRuns, claims, confirmation, locks, pc, scratch, target, server>>

SameKey(q) == \E turn \in Turns(ThreadOf[q]) : KeyOf[turn.req] = KeyOf[q]

\* A request arrives: no thread, a replay of a known key or an input the policy
\* refuses end it without a trace; else it goes for the thread's lock.
Start(q) ==
  /\ pc[q] = "new"
  /\ alive' = alive \cup {q}
  /\ IF Direct(q) THEN Goto(q, "claim")
     ELSE \/ threads[ThreadOf[q]] # NoThread /\ ~SameKey(q) /\ Goto(q, "lock")
          \/ Goto(q, "done")
  /\ UNCHANGED <<threads, diskRuns, claims, confirmation, locks, scratch, target, orphaned, crashes>>

\* withFileLock: acquired, or thread_lock_timeout.
AcquireThreadLock(q) ==
  /\ pc[q] = "lock"
  /\ \/ /\ threadLock[ThreadOf[q]] = NoRequest
        /\ threadLock' = [threadLock EXCEPT ![ThreadOf[q]] = q]
        /\ Goto(q, "check")
     \/ /\ threadLock[ThreadOf[q]] # NoRequest
        /\ Goto(q, "done")
        /\ UNCHANGED threadLock
  /\ UNCHANGED <<threads, diskRuns, claims, confirmation, runLock, scratch, target, server>>

\* The handler leaves the lock, if it is one that holds it, and answers.
LeaveLock(q) ==
  /\ threadLock' = IF Direct(q) THEN threadLock
                   ELSE [threadLock EXCEPT ![ThreadOf[q]] = NoRequest]
  /\ Goto(q, "done")

\* Slip: only the replay check outside the lock remains.
CheckThreadWithoutReplay(q) ==
  /\ pc[q] = "check"
  /\ IF \E turn \in Turns(ThreadOf[q]) : KeepsLocked(turn)
     THEN LeaveLock(q)
     ELSE Goto(q, "claim") /\ UNCHANGED threadLock
  /\ UNCHANGED <<threads, diskRuns, claims, confirmation, runLock, scratch, target, server>>

\* Slip: a turn that waits for its user does not lock the thread.
CheckThreadPassesWaiting(q) ==
  /\ pc[q] = "check"
  /\ LET turns == Turns(ThreadOf[q]) IN
     IF \/ SameKey(q)
        \/ \E turn \in turns : RunOf[turn.req] = RunOf[q]
        \/ \E turn \in turns : KeepsLocked(turn) /\ turnState(turn) # "waiting_for_user"
     THEN LeaveLock(q)
     ELSE Goto(q, "claim") /\ UNCHANGED threadLock
  /\ UNCHANGED <<threads, diskRuns, claims, confirmation, runLock, scratch, target, server>>

\* Inside the lock: a replay, a run id linked in this thread and an active or
\* unknown turn each end the reservation.
CheckThread(q) ==
  /\ pc[q] = "check"
  /\ LET turns == Turns(ThreadOf[q]) IN
     IF \/ SameKey(q)
        \/ \E turn \in turns : RunOf[turn.req] = RunOf[q]
        \/ \E turn \in turns : KeepsLocked(turn)
     THEN LeaveLock(q)
     ELSE Goto(q, "claim") /\ UNCHANGED threadLock
  /\ UNCHANGED <<threads, diskRuns, claims, confirmation, runLock, scratch, target, server>>

\* claimRunId gave nothing: recover a dead claim once, then give up.  A direct
\* submission recovers only its own kind of claim; a reservation looks first.
ClaimFailed(q) ==
  IF tried[q] THEN LeaveLock(q)
  ELSE Goto(q, IF Direct(q) THEN "recover" ELSE "probe") /\ UNCHANGED threadLock

ClaimRead(q) ==
  /\ pc[q] = "claim"
  /\ IF runs[RunOf[q]] # NoRun THEN ClaimFailed(q) ELSE Goto(q, "link") /\ UNCHANGED threadLock
  /\ UNCHANGED <<threads, diskRuns, claims, confirmation, runLock, scratch, target, server>>

\* tryAcquireFileOwnership on the claim path.  A recovery of the path that is
\* under way makes it back off, unless its marker is gone already.
LinkClaim(q) ==
  /\ pc[q] = "link"
  /\ \/ /\ claims[RunOf[q]] = NoRequest
        /\ claims' = [claims EXCEPT ![RunOf[q]] = q]
        /\ Goto(q, "recheck")
        /\ UNCHANGED threadLock
     \/ /\ \/ claims[RunOf[q]] # NoRequest
           \/ \E p \in Requests \ {q} : pc[p] = "unlink" /\ RunOf[p] = RunOf[q]
        /\ ClaimFailed(q)
        /\ UNCHANGED claims
  /\ UNCHANGED <<threads, diskRuns, confirmation, runLock, scratch, target, server>>

\* releaseFileOwnership: only a file with one's own token.
ReleaseClaim(q) ==
  claims' = [claims EXCEPT ![RunOf[q]] = IF @ = q THEN NoRequest ELSE @]

RecheckRun(q) ==
  /\ pc[q] = "recheck"
  /\ IF runs[RunOf[q]] # NoRun
     THEN ReleaseClaim(q) /\ ClaimFailed(q)
     ELSE /\ Goto(q, IF Direct(q) THEN "submit" ELSE "write")
          /\ UNCHANGED <<claims, threadLock>>
  /\ UNCHANGED <<threads, diskRuns, confirmation, runLock, scratch, target, server>>

\* getRunIdClaim: a missing or a living claim is not recovered.
ProbeClaim(q) ==
  /\ pc[q] = "probe"
  /\ IF claims[RunOf[q]] = NoRequest \/ ClaimAlive(RunOf[q])
     THEN LeaveLock(q) /\ UNCHANGED owner
     ELSE /\ owner' = [owner EXCEPT ![q] = claims[RunOf[q]]]
          /\ Goto(q, "scan")
          /\ UNCHANGED threadLock
  /\ UNCHANGED <<threads, diskRuns, claims, confirmation, runLock, tried, answer, target, server>>

\* Slip: a dead claim is recovered whatever the thread files say.
ScanThreadsNot(q) ==
  /\ pc[q] = "scan"
  /\ Goto(q, "recover")
  /\ UNCHANGED <<threads, diskRuns, claims, confirmation, locks, scratch, target, server>>

\* hasPersistedRunId: nor is the claim of a turn in any thread file.
ScanThreads(q) ==
  /\ pc[q] = "scan"
  /\ IF \E t \in Threads : \E turn \in Turns(t) : RunOf[turn.req] = RunOf[q]
     THEN LeaveLock(q)
     ELSE Goto(q, "recover") /\ UNCHANGED threadLock
  /\ UNCHANGED <<threads, diskRuns, claims, confirmation, runLock, scratch, target, server>>

\* Slip: a direct submission recovers the claim of a turn as well.
RecoverClaimOfAnybody(q) ==
  LET expected == IF Direct(q) THEN Requests ELSE {owner[q]} IN
  /\ pc[q] = "recover"
  /\ IF /\ runs[RunOf[q]] = NoRun
        /\ claims[RunOf[q]] \in expected /\ ~ClaimAlive(RunOf[q])
     THEN Goto(q, "unlink") /\ UNCHANGED threadLock
     ELSE LeaveLock(q)
  /\ UNCHANGED <<threads, diskRuns, claims, confirmation, runLock, scratch, target, server>>

\* recoverRunIdClaim: no run, a dead claim, and of the expected owner ...
RecoverClaim(q) ==
  LET claim == claims[RunOf[q]]
      expected == IF Direct(q) THEN {p \in Requests : Direct(p)} ELSE {owner[q]}
  IN
  /\ pc[q] = "recover"
  /\ IF runs[RunOf[q]] = NoRun /\ claim \in expected /\ ~ClaimAlive(RunOf[q])
     THEN Goto(q, "unlink") /\ UNCHANGED threadLock
     ELSE LeaveLock(q)
  /\ UNCHANGED <<threads, diskRuns, claims, confirmation, runLock, scratch, target, server>>

\* ... is unlinked by path, whatever is there by then; ENOENT is thrown.
UnlinkClaim(q) ==
  /\ pc[q] = "unlink"
  /\ claims' = [claims EXCEPT ![RunOf[q]] = NoRequest]
  /\ orphaned' = IF ClaimAlive(RunOf[q]) THEN orphaned \cup {RunOf[q]} ELSE orphaned
  /\ IF claims[RunOf[q]] = NoRequest
     THEN LeaveLock(q) /\ UNCHANGED tried
     ELSE /\ tried' = [tried EXCEPT ![q] = TRUE]
          /\ Goto(q, "claim")
          /\ UNCHANGED threadLock
  /\ UNCHANGED <<threads, diskRuns, confirmation, runLock, owner, answer, target, alive, crashes>>

\* writeThread; when it throws, the claim is released.
WriteTurn(q) ==
  /\ pc[q] = "write"
  /\ threadLock' = [threadLock EXCEPT ![ThreadOf[q]] = NoRequest]
  /\ \/ /\ threads' = [threads EXCEPT ![ThreadOf[q]] =
             Append(@, [req |-> q, submission_state |-> "submitting",
                        failure_code |-> "none", terminated |-> FALSE])]
        /\ Goto(q, IF Guarded(q) THEN "run_lock" ELSE "submit")
        /\ UNCHANGED claims
     \/ /\ StoreFails
        /\ ReleaseClaim(q)
        /\ Goto(q, "done")
        /\ UNCHANGED threads
  /\ UNCHANGED <<diskRuns, confirmation, runLock, scratch, target, server>>

Reserve(q) ==
  \/ Start(q) \/ AcquireThreadLock(q) \/ CheckThread(q)
  \/ ClaimRead(q) \/ LinkClaim(q) \/ RecheckRun(q)
  \/ ProbeClaim(q) \/ ScanThreads(q) \/ RecoverClaim(q) \/ UnlinkClaim(q)
  \/ WriteTurn(q)

---------------------------------------------------------------------------
(* submitTask and what the POST handler does with its answer.              *)

\* Slip: the previous tail is not awaited.
AcquireRunLockAtOnce(a, r, next) ==
  /\ runLock' = [runLock EXCEPT ![r] = a]
  /\ Goto(a, next)

\* withWritePrecheckRunLock: first come, first served.
AcquireRunLock(a, r, next) ==
  /\ runLock[r] = NoRequest
  /\ runLock' = [runLock EXCEPT ![r] = a]
  /\ Goto(a, next)

LockRunToSubmit(q) ==
  /\ pc[q] = "run_lock"
  /\ AcquireRunLock(q, RunOf[q], "submit")
  /\ UNCHANGED <<threads, diskRuns, claims, confirmation, threadLock, scratch, target, server>>

\* Slip: the tail's promise is not resolved.
FinishInRunLock(a, r) ==
  /\ Goto(a, IF a \in Users THEN "idle" ELSE "done")
  /\ UNCHANGED runLock

\* The handler is over and leaves the run lock, if it is in it.
Finish(a, r) ==
  /\ Goto(a, IF a \in Users THEN "idle" ELSE "done")
  /\ runLock' = [runLock EXCEPT ![r] = IF @ = a THEN NoRequest ELSE @]

\* submitTask has answered; only a handler of a thread records the answer.
Answer(q, what) ==
  IF Direct(q) THEN Finish(q, RunOf[q]) /\ UNCHANGED answer
  ELSE Goto(q, "record") /\ answer' = [answer EXCEPT ![q] = what] /\ UNCHANGED runLock

\* An answer without a run record: the request was refused before admission,
\* or its claim or the run's file is somebody else's.  (A direct submission
\* claims the run id only when it is about to create the record.)
SubmitRejected(q) ==
  /\ pc[q] = "submit"
  /\ Direct(q) => StoreFails \/ claims[RunOf[q]] # q
  /\ Answer(q, "rejected")
  /\ UNCHANGED <<threads, diskRuns, claims, confirmation, threadLock, tried, owner, target, server>>

\* createRunRecord under the request's own claim.
CreateRun(q, status) ==
  /\ pc[q] = "submit"
  /\ claims[RunOf[q]] = q
  /\ RR!createRunRecord(RunOf[q], status)
  /\ creator' = [creator EXCEPT ![RunOf[q]] = q]
  /\ UNCHANGED <<threads, claims, confirmation, threadLock, tried, owner, target, resumed, server>>

\* Admission failed: the record says so and nothing is executed.
SubmitNotAdmitted(q) ==
  /\ CreateRun(q, "failed") \/ (~Guarded(q) /\ CreateRun(q, "requires_user_action"))
  /\ Answer(q, "accepted")

SubmitAdmitted(q) ==
  /\ CreateRun(q, "admitted")
  /\ Goto(q, IF Guarded(q) THEN "persist" ELSE "exec")
  /\ UNCHANGED <<runLock, answer>>

\* The policy of a write precheck wants a confirmation: the run waits.
SubmitConfirm(q) ==
  /\ Guarded(q)
  /\ CreateRun(q, "requires_user_action")
  /\ Goto(q, "persist")
  /\ UNCHANGED <<runLock, answer>>

\* persistWritePrecheckPolicyDecision: the decision is recorded and linked to
\* the run, ...
PersistDecision(q) ==
  /\ pc[q] = "persist"
  /\ confirm' = [confirm EXCEPT ![RunOf[q]] =
       IF runs[RunOf[q]].status = "requires_user_action" THEN "active" ELSE @]
  /\ Goto(q, "snapshot")
  /\ UNCHANGED <<threads, diskRuns, claims, snapshot, decided, pending, locks, scratch, target, server>>

\* ... then the run's policy_binding_snapshot.
PersistSnapshot(q) ==
  /\ pc[q] = "snapshot"
  /\ IF runs[RunOf[q]].status = "requires_user_action"
     THEN snapshot' = [snapshot EXCEPT ![RunOf[q]] = "confirm"] /\ Answer(q, "confirmation")
     ELSE snapshot' = [snapshot EXCEPT ![RunOf[q]] = "execute"] /\ Goto(q, "exec")
          /\ UNCHANGED <<runLock, answer>>
  /\ UNCHANGED <<threads, diskRuns, claims, confirm, decided, pending, threadLock, tried, owner,
                 target, server>>

\* Either half failed: an admitted run fails, a waiting one waits for nothing.
PersistFails(q) ==
  /\ StoreFails
  /\ pc[q] \in {"persist", "snapshot"}
  /\ RR!updateRunRecord(RunOf[q],
       IF runs[RunOf[q]].status = "admitted" THEN "failed" ELSE runs[RunOf[q]].status)
  /\ Answer(q, "other")
  /\ UNCHANGED <<threads, creator, resumed, claims, confirmation, threadLock, tried, owner, target,
                 server>>

\* The execution: the run is started, bound to a runtime session, and settled.
StartRun(r) == RR!updateRunRecord(r, "running") \/ RR!bindCoreTaskRuntimeSession(r)
SettleRun(r) == \E outcome \in Outcomes : RR!updateRunRecord(r, outcome)

ExecuteStart(q) ==
  /\ pc[q] = "exec"
  /\ runs[RunOf[q]].status = "admitted"
  /\ StartRun(RunOf[q])
  /\ UNCHANGED <<threads, creator, resumed, claims, confirmation, locks, pc, scratch, target, server>>

ExecuteEnd(q) ==
  /\ pc[q] = "exec"
  /\ runs[RunOf[q]].status = "running"
  /\ SettleRun(RunOf[q])
  /\ Answer(q, "accepted")
  /\ UNCHANGED <<threads, creator, resumed, claims, confirmation, threadLock, tried, owner, target, server>>

\* submitTask throws: the run may not exist, or be left at any point.
SubmitThrows(q) ==
  /\ StoreFails
  /\ pc[q] \in {"submit", "persist", "snapshot", "exec"}
  /\ Answer(q, "interrupted")
  /\ UNCHANGED <<threads, diskRuns, claims, confirmation, threadLock, tried, owner, target, server>>

\* The turn of request q is rewritten, under its thread's lock.
WriteTurnRecord(q, turn) ==
  /\ threadLock[ThreadOf[q]] = NoRequest
  /\ threads' = [threads EXCEPT ![ThreadOf[q]] =
       [i \in DOMAIN @ |-> IF @[i].req = q THEN turn ELSE @[i]]]

\* Slip: the answer is stored as the turn's submission_state.
RecordSubmissionAsTold(q) ==
  /\ pc[q] = "record"
  /\ WriteTurnRecord(q, [TurnOf(q) EXCEPT !.submission_state = answer[q]])
  /\ Finish(q, RunOf[q])
  /\ UNCHANGED <<diskRuns, claims, confirmation, threadLock, scratch, target, server>>

\* recordTaskTurnSubmission, with the handler's own view of what it was told.
RecordSubmission(q) ==
  /\ pc[q] = "record"
  /\ IF TurnOf(q).submission_state = "submitting"
     THEN WriteTurnRecord(q,
            [TurnOf(q) EXCEPT
               !.submission_state = IF answer[q] = "rejected" THEN "rejected" ELSE "accepted",
               !.failure_code = IF answer[q] \in {"confirmation", "interrupted"} THEN answer[q]
                                ELSE IF answer[q] = "accepted" THEN @ ELSE "other"])
     ELSE UNCHANGED threads
  /\ IF answer[q] = "confirmation" THEN Goto(q, "register") /\ UNCHANGED runLock
     ELSE Finish(q, RunOf[q])
  /\ UNCHANGED <<diskRuns, claims, confirmation, threadLock, scratch, target, server>>

RecordFails(q) ==
  /\ StoreFails
  /\ pc[q] = "record"
  /\ Finish(q, RunOf[q])
  /\ UNCHANGED <<threads, diskRuns, claims, confirmation, threadLock, scratch, target, server>>

\* registerPendingWritePrecheckContinuation.
RegisterPending(q) ==
  /\ pc[q] = "register"
  /\ pending' = IF confirm[RunOf[q]] = "active" /\ runs[RunOf[q]].status = "requires_user_action"
                THEN pending \cup {RunOf[q]} ELSE pending
  /\ Finish(q, RunOf[q])
  /\ UNCHANGED <<threads, diskRuns, claims, confirm, snapshot, decided, threadLock, scratch, target, server>>

Submit(q) ==
  \/ LockRunToSubmit(q) \/ SubmitRejected(q) \/ SubmitNotAdmitted(q) \/ SubmitAdmitted(q)
  \/ SubmitConfirm(q) \/ PersistDecision(q) \/ PersistSnapshot(q) \/ PersistFails(q)
  \/ ExecuteStart(q) \/ ExecuteEnd(q) \/ SubmitThrows(q)
  \/ RecordSubmission(q) \/ RecordFails(q) \/ RegisterPending(q)

---------------------------------------------------------------------------
(* POST .../terminate, by user u on the turn of request target[u].         *)

RunAt(u) == RunOf[target[u]]
Status(r) == IF runs[r] = NoRun THEN "none" ELSE runs[r].status

AskTerminate(u) ==
  /\ pc[u] = "idle"
  /\ \E q \in Requests : HasTurn(q) /\ target' = [target EXCEPT ![u] = q]
  /\ Goto(u, "terminate_lock")
  /\ UNCHANGED <<threads, diskRuns, claims, confirmation, locks, scratch, server>>

LockToTerminate(u) ==
  /\ pc[u] = "terminate_lock"
  /\ AcquireRunLock(u, RunAt(u), "terminate")
  /\ UNCHANGED <<threads, diskRuns, claims, confirmation, threadLock, scratch, target, server>>

\* cancelAuthorizationDecisions, for the run of a write precheck that waits or
\* whose outcome is unknown.
CancelConfirmation(u) ==
  /\ pc[u] = "terminate"
  /\ IF /\ snapshot[RunAt(u)] # "none"
        /\ Status(RunAt(u)) \in {"requires_user_action", "unknown_outcome", "manual_recovery_required"}
     THEN /\ confirm' = [confirm EXCEPT ![RunAt(u)] = IF @ = "active" THEN "cancelled" ELSE @]
          /\ Goto(u, "terminate_run")
     ELSE Goto(u, "terminate_turn") /\ UNCHANGED confirm
  /\ UNCHANGED <<threads, diskRuns, claims, snapshot, decided, pending, locks, scratch, target, server>>

\* Slip: the pending continuation outlives the cancelled run.
CancelRunOnly(u) ==
  /\ pc[u] = "terminate_run"
  /\ IF Status(RunAt(u)) = "requires_user_action"
     THEN RR!cancelRequiresUserActionRun(RunAt(u)) ELSE UNCHANGED runs
  /\ Goto(u, "terminate_turn")
  /\ UNCHANGED <<threads, creator, resumed, claims, confirmation, locks, scratch, target, server>>

CancelRun(u) ==
  /\ pc[u] = "terminate_run"
  /\ pending' = pending \ {RunAt(u)}
  /\ IF Status(RunAt(u)) = "requires_user_action"
     THEN RR!cancelRequiresUserActionRun(RunAt(u)) ELSE UNCHANGED runs
  /\ Goto(u, "terminate_turn")
  /\ UNCHANGED <<threads, creator, resumed, claims, confirm, snapshot, decided, locks, scratch,
                 target, server>>

\* Slip: a turn whose run is still active is terminated as well.
TerminateActiveTurn(u) ==
  /\ pc[u] = "terminate_turn"
  /\ IF KeepsLocked(TurnOf(target[u]))
     THEN WriteTurnRecord(target[u], [TurnOf(target[u]) EXCEPT !.terminated = TRUE])
     ELSE UNCHANGED threads
  /\ Finish(u, RunAt(u))
  /\ UNCHANGED <<diskRuns, claims, confirmation, threadLock, scratch, target, server>>

\* Slip: a turn that is over is terminated as well.
TerminateFinishedTurn(u) ==
  /\ pc[u] = "terminate_turn"
  /\ IF StateOf(target[u]) \notin {"submitting", "accepted", "running"}
     THEN WriteTurnRecord(target[u], [TurnOf(target[u]) EXCEPT !.terminated = TRUE])
     ELSE UNCHANGED threads
  /\ Finish(u, RunAt(u))
  /\ UNCHANGED <<diskRuns, claims, confirmation, threadLock, scratch, target, server>>

\* terminateTaskTurn.
TerminateTurn(u) ==
  LET turn == TurnOf(target[u])
      state == turnState(turn)
      cancelledByPolicy ==
        state = "cancelled" /\ turn.failure_code = "confirmation" /\ ~turn.terminated
  IN
  /\ pc[u] = "terminate_turn"
  /\ IF cancelledByPolicy \/ state \in {"status_unknown", "waiting_for_user"}
     THEN WriteTurnRecord(target[u],
            [turn EXCEPT !.terminated = TRUE,
                         !.failure_code = IF cancelledByPolicy THEN "none" ELSE @])
     ELSE UNCHANGED threads   \* over already, or turn_run_still_active
  /\ Finish(u, RunAt(u))
  /\ UNCHANGED <<diskRuns, claims, confirmation, threadLock, scratch, target, server>>

Terminate(u) ==
  \/ AskTerminate(u) \/ LockToTerminate(u)
  \/ CancelConfirmation(u) \/ CancelRun(u) \/ TerminateTurn(u)

---------------------------------------------------------------------------
(* POST of a single-action decision, by user u on the run of target[u].    *)

AskDecide(u) ==
  /\ pc[u] = "idle"
  /\ \E r \in Runs : confirm[r] # "none" /\ target' = [target EXCEPT ![u] = creator[r]]
  /\ \E choice \in {"allow_lock", "deny_lock"} : Goto(u, choice)
  /\ UNCHANGED <<threads, diskRuns, claims, confirmation, locks, scratch, server>>

LockToDecide(u) ==
  /\ \/ pc[u] = "allow_lock" /\ AcquireRunLock(u, RunAt(u), "allow")
     \/ pc[u] = "deny_lock" /\ AcquireRunLock(u, RunAt(u), "deny")
  /\ UNCHANGED <<threads, diskRuns, claims, confirmation, threadLock, scratch, target, server>>

FirstStepOf == [allow |-> "take", deny |-> "deny_confirm"]

\* decideSingleAction: a recorded decision is replayed to who knows its key; a
\* new one needs an active confirmation and a turn that is not over.
DecideSingleAction(u) ==
  LET r == RunAt(u)
      turnOver == StateOf(target[u]) \in {"completed", "failed", "cancelled", "status_unknown"}
  IN
  /\ pc[u] \in {"allow", "deny"}
  /\ IF decided[r] # "none"
     THEN Goto(u, FirstStepOf[decided[r]]) /\ UNCHANGED decided
     ELSE /\ confirm[r] = "active" /\ ~turnOver
          /\ decided' = [decided EXCEPT ![r] = pc[u]]
          /\ Goto(u, FirstStepOf[pc[u]])
  /\ UNCHANGED <<threads, diskRuns, claims, confirm, snapshot, pending, locks, scratch, target, server>>

\* It throws: another key, an inactive confirmation, a policy that changed, or
\* the store; some of these errors drop the pending continuation as well.
DecisionRefused(u) ==
  /\ pc[u] \in {"allow", "deny"}
  /\ pending' \in {pending, pending \ {RunAt(u)}}
  /\ Finish(u, RunAt(u))
  /\ UNCHANGED <<threads, diskRuns, claims, confirm, snapshot, decided, threadLock, scratch, target, server>>

\* isExactWritePrecheckRun with the confirmation's own ref.
WaitsForConfirmation(r) == snapshot[r] = "confirm" /\ Status(r) = "requires_user_action"

\* denyWritePrecheck: the confirmation, the run and the turn, one by one.
DenyConfirmation(u) ==
  LET r == RunAt(u) IN
  /\ pc[u] = "deny_confirm"
  /\ IF WaitsForConfirmation(r)
     THEN /\ confirm' = [confirm EXCEPT ![r] = IF @ = "active" THEN "cancelled" ELSE @]
          /\ Goto(u, "deny_run")
          /\ UNCHANGED <<pending, runLock>>
     ELSE /\ pending' = pending \ {r}
          /\ Finish(u, r)
          /\ UNCHANGED confirm
  /\ UNCHANGED <<threads, diskRuns, claims, snapshot, decided, threadLock, scratch, target, server>>

DenyRun(u) ==
  /\ pc[u] = "deny_run"
  /\ pending' = pending \ {RunAt(u)}
  /\ RR!denyRequiresUserActionRun(RunAt(u))
  /\ Goto(u, "deny_turn")
  /\ UNCHANGED <<threads, creator, resumed, claims, confirm, snapshot, decided, locks, scratch,
                 target, server>>

\* continueRequiresUserActionTurn: the confirmation is no longer what the turn
\* ended with.  It throws for a turn that is terminated, ended otherwise, or
\* waits (again); the callers answer an error then, or do not call it.
ContinueTurn(u) ==
  LET turn == TurnOf(target[u]) IN
  IF /\ ~turn.terminated
     /\ turn.failure_code = "confirmation"
     /\ turnState(turn) # "waiting_for_user"
  THEN WriteTurnRecord(target[u], [turn EXCEPT !.failure_code = "none"])
  ELSE UNCHANGED threads

DenyTurn(u) ==
  /\ pc[u] = "deny_turn"
  /\ ContinueTurn(u)
  /\ Finish(u, RunAt(u))
  /\ UNCHANGED <<diskRuns, claims, confirmation, threadLock, scratch, target, server>>

\* continueWritePrecheck: the continuation is taken, or none is left.
TakePending(u) ==
  LET r == RunAt(u) IN
  /\ pc[u] = "take"
  /\ IF WaitsForConfirmation(r) /\ r \in pending
     THEN pending' = pending \ {r} /\ Goto(u, "resume") /\ UNCHANGED runLock
     ELSE Finish(u, r) /\ UNCHANGED pending
  /\ UNCHANGED <<threads, diskRuns, claims, confirm, snapshot, decided, threadLock, scratch, target, server>>

\* The policy is evaluated again; its verdict is recorded and bound to the run.
RecordResumption(u) ==
  LET r == RunAt(u) IN
  /\ pc[u] = "resume"
  /\ WaitsForConfirmation(r) /\ confirm[r] = "active"
  /\ snapshot' = [snapshot EXCEPT ![r] = "execute"]
  /\ Goto(u, "resume_run")
  /\ UNCHANGED <<threads, diskRuns, claims, confirm, decided, pending, locks, scratch, target, server>>

ResumptionRefused(u) ==
  /\ pc[u] = "resume"
  /\ Finish(u, RunAt(u))
  /\ UNCHANGED <<threads, diskRuns, claims, confirmation, threadLock, scratch, target, server>>

ResumeRun(u) ==
  /\ pc[u] = "resume_run"
  /\ RR!continueRequiresUserActionRun(RunAt(u))
  /\ resumed' = resumed \cup {RunAt(u)}
  /\ Goto(u, "resume_exec")
  /\ UNCHANGED <<threads, creator, claims, confirmation, locks, scratch, target, server>>

ResumeStart(u) ==
  /\ pc[u] = "resume_exec"
  /\ RR!bindCoreTaskRuntimeSession(RunAt(u))
  /\ UNCHANGED <<threads, creator, resumed, claims, confirmation, locks, pc, scratch, target, server>>

\* A run that waits for its user again leaves the turn as it is.
ResumeEnd(u) ==
  LET r == RunAt(u) IN
  /\ pc[u] = "resume_exec"
  /\ SettleRun(r)
  /\ IF runs'[r].status = "requires_user_action" THEN Finish(u, r)
     ELSE Goto(u, "resume_turn") /\ UNCHANGED runLock
  /\ UNCHANGED <<threads, creator, resumed, claims, confirmation, threadLock, scratch, target, server>>

ResumeTurn(u) ==
  /\ pc[u] = "resume_turn"
  /\ ContinueTurn(u)
  /\ Finish(u, RunAt(u))
  /\ UNCHANGED <<diskRuns, claims, confirmation, threadLock, scratch, target, server>>

Decide(u) ==
  \/ AskDecide(u) \/ LockToDecide(u) \/ DecideSingleAction(u) \/ DecisionRefused(u)
  \/ DenyConfirmation(u) \/ DenyRun(u) \/ DenyTurn(u)
  \/ TakePending(u) \/ RecordResumption(u) \/ ResumptionRefused(u) \/ ResumeRun(u)
  \/ ResumeStart(u) \/ ResumeEnd(u) \/ ResumeTurn(u)

\* A store throws in a termination or a decision: what is written stays.
UserStepThrows(u) ==
  /\ StoreFails
  /\ pc[u] \in {"terminate", "terminate_run", "terminate_turn", "deny_confirm", "deny_run",
                "deny_turn", "take", "resume_run", "resume_exec", "resume_turn"}
  /\ Finish(u, RunAt(u))
  /\ UNCHANGED <<threads, diskRuns, claims, confirmation, threadLock, scratch, target, server>>

---------------------------------------------------------------------------
(* Time and crashes.                                                       *)

\* expires_at passes: the confirmation is expired wherever it is read, and its
\* continuation is pruned before it is looked up.
Expire(r) ==
  /\ confirm[r] = "active"
  /\ confirm' = [confirm EXCEPT ![r] = "expired"]
  /\ pending' = pending \ {r}
  /\ UNCHANGED <<threads, diskRuns, claims, snapshot, decided, locks, pc, scratch, target, server>>

\* The API server dies and another one starts: handlers, run locks and pending
\* continuations are gone, thread locks have a dead owner and are recovered.
Crash ==
  /\ crashes < MaxCrashes
  /\ crashes' = crashes + 1
  /\ alive' = {}
  /\ pending' = {}
  /\ threadLock' = [t \in Threads |-> NoRequest]
  /\ runLock' = [r \in Runs |-> NoRequest]
  /\ pc' = [a \in Requests \cup Users |->
       IF a \in Users THEN "idle" ELSE IF pc[a] = "new" THEN "new" ELSE "done"]
  /\ UNCHANGED <<threads, diskRuns, claims, confirm, snapshot, decided, scratch, target, orphaned>>

Next ==
  \/ \E t \in Threads : CreateThread(t)
  \/ \E q \in Requests : Reserve(q) \/ Submit(q)
  \/ \E u \in Users : Terminate(u) \/ Decide(u) \/ UserStepThrows(u)
  \/ \E r \in Runs : Expire(r)
  \/ Crash

Spec == Init /\ [][Next]_vars

\* Handlers go on while the process lives (every call they await returns or
\* times out), and the run lock is a queue.
Fairness ==
  /\ \A q \in Requests : WF_vars(Reserve(q) /\ pc[q] # "new") /\ WF_vars(Submit(q))
                        /\ SF_vars(LockRunToSubmit(q))
  /\ \A u \in Users : /\ WF_vars((Terminate(u) \/ Decide(u)) /\ pc[u] # "idle")
                     /\ SF_vars(LockToTerminate(u)) /\ SF_vars(LockToDecide(u))

FairSpec == Spec /\ Fairness

---------------------------------------------------------------------------
RequestPCs ==
  {"new", "lock", "check", "claim", "link", "recheck", "probe", "scan", "recover", "unlink",
   "write", "run_lock", "submit", "persist", "snapshot", "exec", "record", "register", "done"}
UserPCs ==
  {"idle", "terminate_lock", "terminate", "terminate_run", "terminate_turn", "allow_lock",
   "deny_lock", "allow", "deny", "deny_confirm", "deny_run", "deny_turn", "take", "resume",
   "resume_run", "resume_exec", "resume_turn"}

TypeOK ==
  /\ threads \in [Threads -> Seq(TurnRecord) \cup {NoThread}]
  /\ runs \in [Runs -> RunRecord \cup {NoRun}]
  /\ claims \in [Runs -> Requests \cup {NoRequest}]
  /\ confirm \in [Runs -> {"none", "active", "cancelled", "expired"}]
  /\ snapshot \in [Runs -> {"none", "confirm", "execute"}]
  /\ decided \in [Runs -> {"none", "allow", "deny"}]
  /\ alive \subseteq Requests
  /\ threadLock \in [Threads -> Requests \cup {NoRequest}]
  /\ runLock \in [Runs -> Requests \cup Users \cup {NoRequest}]
  /\ pending \subseteq Runs
  /\ pc \in [Requests \cup Users -> RequestPCs \cup UserPCs]
  /\ tried \in [Requests -> BOOLEAN]
  /\ owner \in [Requests -> Requests \cup {NoRequest}]
  /\ answer \in [Requests -> {"none", "accepted", "rejected", "confirmation", "interrupted", "other"}]
  /\ target \in [Users -> Requests \cup {NoRequest}]
  /\ creator \in [Runs -> Requests \cup {NoRequest}]
  /\ resumed \subseteq Runs
  /\ orphaned \subseteq Runs
  /\ crashes \in 0..MaxCrashes

\* Only the last turn of a thread can still be active, wait or be unknown: no
\* schedule of requests, terminations, decisions and crashes lets a thread take
\* a turn before the one ahead of it is over (task-thread-store.ts:569).
ThreadExclusive ==
  \A t \in Threads : threads[t] # NoThread =>
    \A i, j \in DOMAIN threads[t] : i < j => ~KeepsLocked(threads[t][i])

\* However requests are repeated, a thread has one turn per idempotency key and
\* one per run id (the replay check reads the file again inside the lock).
OneTurnPerKey ==
  \A t \in Threads : threads[t] # NoThread =>
    \A i, j \in DOMAIN threads[t] : i # j =>
      /\ KeyOf[threads[t][i].req] # KeyOf[threads[t][j].req]
      /\ RunOf[threads[t][i].req] # RunOf[threads[t][j].req]

\* Two threads never link the same run id (run_id_already_linked), until a
\* recovery unlinks the claim of a living request: FileOwnership shows how the
\* marker that should keep it from that is gone too early.
RunLinkedOnce ==
  \A q, p \in Requests :
    HasTurn(q) /\ HasTurn(p) /\ RunOf[q] = RunOf[p] /\ RunOf[q] \notin orphaned => q = p

\* The run that a turn shows as its own was created by the turn's submission,
\* not by another request that asked for the same run id (until such an unlink).
RunIsTurns ==
  \A q \in Requests :
    HasTurn(q) /\ runs[RunOf[q]] # NoRun /\ RunOf[q] \notin orphaned => creator[RunOf[q]] = q

\* A turn that is over stays as it ended, whatever handlers still write to it,
\* its run, or its claim (until such an unlink).
TurnOverStays ==
  [][\A q \in Requests :
       StateOf(q) \in {"completed", "failed", "cancelled"} /\ RunOf[q] \notin orphaned =>
         StateOf(q)' = StateOf(q)]_vars

\* A turn whose outcome is not known stays so, and its thread locked, until its
\* user terminates it: no late handler, retry of its run id, recovery of its
\* claim, store that fails or restart settles it or lets it go on (until such an
\* unlink).
UnknownStaysUntilTerminated ==
  [][\A q \in Requests :
       StateOf(q) = "status_unknown" /\ RunOf[q] \notin orphaned =>
         \/ StateOf(q)' = "status_unknown"
         \/ /\ StateOf(q)' = "cancelled"
            /\ \E u \in Users : pc[u] = "terminate_turn" /\ target[u] = q]_vars

\* Nothing is executed for a turn once the user was told it is terminated.
TerminatedNotExecuting ==
  \A q \in Requests :
    HasTurn(q) /\ TurnOf(q).terminated /\ creator[RunOf[q]] = q =>
      Status(RunOf[q]) \notin {"admitted", "running"}

\* A waiting run is resumed at most once, only after the user allowed it, and
\* neither a denial nor a cancellation is overtaken by the resumption.
ResumedByConsent ==
  [][\A r \in Runs :
       Status(r) = "requires_user_action" /\ Status(r)' = "running" =>
         /\ decided[r] = "allow"
         /\ confirm[r] \in {"active", "expired"}
         /\ r \notin resumed
         /\ ~TurnOf(creator[r]).terminated]_vars

\* Outside the run lock, a continuation is kept only for a run that waits on an
\* active confirmation nobody has decided, of a turn nobody has terminated.
PendingIsWaiting ==
  \A r \in pending : runLock[r] = NoRequest =>
    /\ WaitsForConfirmation(r)
    /\ confirm[r] = "active" /\ decided[r] = "none"
    /\ ~TurnOf(creator[r]).terminated

\* While the server stays up and its stores answer, every turn gets past the
\* active states, whatever competes for the thread and for the run lock.
TurnsEnd ==
  \A q \in Requests :
    StateOf(q) \in {"submitting", "accepted", "running"} ~>
      StateOf(q) \notin {"submitting", "accepted", "running"}

\* The error of an interrupted submission tells the client to inspect the run
\* or to terminate the turn (task-thread-api.ts:260): the turn is not then in a
\* state in which a termination is answered turn_run_still_active.
InterruptedIsTerminable ==
  \A q \in Requests :
    HasTurn(q) /\ TurnOf(q).failure_code = "interrupted" =>
      StateOf(q) \notin {"submitting", "accepted", "running"}
=============================================================================
