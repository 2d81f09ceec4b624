----------------------------- MODULE Runs_proofs -----------------------------
(***************************************************************************)
(* The runs. RunRecords, for any set of runs: what no sequence of calls of *)
(* the run record store does to a record. ManagedTasks, for any tasks and  *)
(* handlers: the calls a task dispatches to Harbor are accounted for in its*)
(* run, whoever settles, cancels or recovers it, and wherever the Core     *)
(* dies; a handler that is to dispatch knows a file that nobody else has   *)
(* moved on, and one that has left a call open leaves it to be judged      *)
(* uncertain.                                                              *)
(***************************************************************************)
EXTENDS RunRecords, ManagedTasks, TLAPS

IInv == TypeOK /\ TerminalAtSound

\* A record in order: terminal_at with a terminal status and with no other.
Sound(rec) == rec \in RunRecord /\ (rec.terminal_at <=> rec.status \in TerminalStatuses)

\* What one step makes of a record: the statuses it may have come from.
Step(rec, new) ==
  /\ Sound(new)
  /\ rec.status \in SettledStatuses => new.status = rec.status

LEMMA RecordFields ==
  ASSUME NEW rec \in RunRecord
  PROVE  rec.status \in RunStatuses /\ rec.terminal_at \in BOOLEAN /\ rec.denied \in BOOLEAN
  BY DEF RunRecord

LEMMA NotARecord == NoRun \notin RunRecord
  BY NoRunAssumption DEF RunRecord

\* The transition table never leads out of a settled status, nor from a terminal
\* status to one that is not.
LEMMA Transitions ==
  ASSUME NEW s \in RunStatuses, NEW t \in RunStatuses, MayTransition(s, t)
  PROVE  /\ s \in TerminalStatuses => t = s
         /\ t \in TerminalStatuses \/ s \notin TerminalStatuses
<1>1. s \in TerminalStatuses => runLifecycleTransitions[s] = {}
  BY DEF RunStatuses, TerminalStatuses, runLifecycleTransitions
<1> QED BY <1>1 DEF MayTransition

LEMMA InitInv == Init => IInv
  BY DEF Init, IInv, TypeOK, TerminalAtSound

\* Each call leaves the other records alone and makes a sound one of its own.
LEMMA OneRecord ==
  ASSUME IInv, NEW r \in Runs, NEW new, Sound(new), runs' = [runs EXCEPT ![r] = new],
         runs[r] = NoRun \/ Step(runs[r], new)
  PROVE  /\ IInv'
         /\ \A x \in Runs : runs[x] # NoRun =>
              /\ runs'[x] # NoRun
              /\ runs[x].status \in SettledStatuses => runs'[x].status = runs[x].status
  BY NotARecord DEF IInv, TypeOK, TerminalAtSound, Sound, Step

\* What a step may do to any record, as SettledStays has it.
SettledStep ==
  \A r \in Runs :
    runs[r] # NoRun =>
      /\ runs'[r] # NoRun
      /\ runs[r].status \in SettledStatuses => runs'[r].status = runs[r].status

LEMMA Create ==
  ASSUME IInv, NEW r \in Runs, NEW s \in InitialStatuses, createRunRecord(r, s)
  PROVE  IInv' /\ SettledStep
<1> DEFINE new == [status |-> s, terminal_at |-> s \in TerminalStatuses, denied |-> FALSE, bound |-> FALSE]
<1>1. s \in RunStatuses /\ (s \in TerminalStatuses) \in BOOLEAN
  BY DEF InitialStatuses, RunStatuses, TerminalStatuses
<1>2. new \in RunRecord
  BY <1>1 DEF RunRecord
<1>3. Sound(new)
  BY <1>2, Zenon DEF Sound
<1>4. runs[r] = NoRun /\ runs' = [runs EXCEPT ![r] = new]
  BY DEF createRunRecord
<1> QED BY <1>3, <1>4, OneRecord DEF SettledStep

LEMMA Update ==
  ASSUME IInv, NEW r \in Runs, NEW s \in RunStatuses, updateRunRecord(r, s)
  PROVE  IInv' /\ SettledStep
<1>1. PICK d \in {runs[r].denied, FALSE} :
        runs' = [runs EXCEPT ![r] =
          [runs[r] EXCEPT !.status = s, !.terminal_at = runs[r].terminal_at \/ s \in TerminalStatuses, !.denied = d]]
  BY DEF updateRunRecord
<1>2. runs[r] # NoRun /\ Sound(runs[r]) /\ MayTransition(runs[r].status, s)
  BY DEF updateRunRecord, IInv, TypeOK, TerminalAtSound, Sound
<1> DEFINE old == runs[r]
           new == [old EXCEPT !.status = s, !.terminal_at = old.terminal_at \/ s \in TerminalStatuses, !.denied = d]
<1>3. runs' = [runs EXCEPT ![r] = new]
  BY <1>1
<1>4. d \in BOOLEAN /\ old \in RunRecord /\ old.status \in RunStatuses
  BY <1>2, RecordFields DEF Sound
<1>5. new \in RunRecord /\ new.status = s /\ (new.terminal_at <=> old.terminal_at \/ s \in TerminalStatuses)
  BY <1>4 DEF RunRecord
<1>6. old.status \in TerminalStatuses => s = old.status
  BY <1>2, <1>4, Transitions
<1>7. Step(old, new)
  BY <1>2, <1>5, <1>6 DEF Step, Sound, SettledStatuses
<1> HIDE DEF new
<1> QED BY <1>3, <1>7, OneRecord DEF SettledStep, Step

LEMMA Bind ==
  ASSUME IInv, NEW r \in Runs, bindCoreTaskRuntimeSession(r) \/ bindManagedBrowserRuntimeSession(r)
  PROVE  IInv' /\ SettledStep
<1> DEFINE old == runs[r]
           new == [old EXCEPT !.status = "running", !.bound = TRUE]
<1>1. old \in RunRecord /\ old.status \in {"admitted", "running"} /\ Sound(old)
  BY DEF bindCoreTaskRuntimeSession, bindManagedBrowserRuntimeSession, IInv, TypeOK, TerminalAtSound, Sound
<1>2. new \in RunRecord /\ new.status = "running" /\ new.terminal_at = old.terminal_at
  BY <1>1 DEF RunRecord, RunStatuses
<1>3. Step(old, new)
  BY <1>1, <1>2 DEF Step, Sound, SettledStatuses, TerminalStatuses
<1>4. runs' = [runs EXCEPT ![r] = new]
  <2>1. CASE bindCoreTaskRuntimeSession(r)
    BY <2>1 DEF bindCoreTaskRuntimeSession, IInv, TypeOK
  <2>2. CASE bindManagedBrowserRuntimeSession(r)
    <3>1. old.status = "running" /\ runs' = [runs EXCEPT ![r] = [old EXCEPT !.bound = TRUE]]
      BY <2>2 DEF bindManagedBrowserRuntimeSession, IInv, TypeOK
    <3>2. [old EXCEPT !.bound = TRUE] = new
      BY <1>1, <3>1 DEF RunRecord
    <3> QED BY <3>1, <3>2
  <2> QED BY <2>1, <2>2
<1> HIDE DEF new
<1> QED BY <1>3, <1>4, OneRecord DEF SettledStep, Step

LEMMA RunContinues ==
  ASSUME IInv, NEW r \in Runs, continueRequiresUserActionRun(r)
  PROVE  IInv' /\ SettledStep
<1> DEFINE old == runs[r]
           new == [old EXCEPT !.status = "running", !.terminal_at = FALSE, !.denied = FALSE]
<1>1. old \in RunRecord /\ old.status = "requires_user_action"
  BY DEF continueRequiresUserActionRun, IInv, TypeOK
<1>2. new \in RunRecord /\ new.status = "running" /\ new.terminal_at = FALSE
  BY <1>1 DEF RunRecord, RunStatuses
<1>3. Step(old, new)
  BY <1>1, <1>2 DEF Step, Sound, SettledStatuses, TerminalStatuses
<1>4. runs' = [runs EXCEPT ![r] = new]
  BY DEF continueRequiresUserActionRun, IInv, TypeOK
<1> HIDE DEF new
<1> QED BY <1>3, <1>4, OneRecord DEF SettledStep, Step

LEMMA EndWaiting ==
  ASSUME IInv, NEW r \in Runs, NEW s \in {"failed", "cancelled"}, EndWaitingRun(r, s)
  PROVE  IInv' /\ SettledStep
<1> DEFINE old == runs[r]
           new == [old EXCEPT !.status = s, !.terminal_at = TRUE, !.denied = TRUE]
<1>1. CASE runs' = [runs EXCEPT ![r] = new] /\ old.status = "requires_user_action" /\ old # NoRun
  <2>1. old \in RunRecord
    BY <1>1 DEF IInv, TypeOK
  <2>2. new \in RunRecord /\ new.status = s /\ new.terminal_at = TRUE
    BY <2>1 DEF RunRecord, RunStatuses, TerminalStatuses
  <2>3. Step(old, new)
    BY <1>1, <2>2 DEF Step, Sound, SettledStatuses, TerminalStatuses
  <2> HIDE DEF new
  <2> QED BY <1>1, <2>3, OneRecord DEF SettledStep, Step
<1>2. CASE UNCHANGED runs
  BY <1>2 DEF IInv, TypeOK, TerminalAtSound, SettledStep
<1> QED BY <1>1, <1>2 DEF EndWaitingRun, IInv, TypeOK

LEMMA NextInv == IInv /\ [Next]_vars => IInv' /\ SettledStep
<1> SUFFICES ASSUME IInv, [Next]_vars PROVE IInv' /\ SettledStep
  OBVIOUS
<1>1. CASE UNCHANGED vars
  BY <1>1 DEF vars, IInv, TypeOK, TerminalAtSound, SettledStep
<1>2. ASSUME NEW r \in Runs, NEW s \in InitialStatuses, createRunRecord(r, s) PROVE IInv' /\ SettledStep
  BY <1>2, Create
<1>3. ASSUME NEW r \in Runs, NEW s \in RunStatuses, updateRunRecord(r, s) PROVE IInv' /\ SettledStep
  BY <1>3, Update
<1>4. ASSUME NEW r \in Runs,
             bindCoreTaskRuntimeSession(r) \/ bindManagedBrowserRuntimeSession(r)
      PROVE  IInv' /\ SettledStep
  BY <1>4, Bind
<1>5. ASSUME NEW r \in Runs, continueRequiresUserActionRun(r) PROVE IInv' /\ SettledStep
  BY <1>5, RunContinues
<1>6. ASSUME NEW r \in Runs, denyRequiresUserActionRun(r) \/ cancelRequiresUserActionRun(r)
      PROVE  IInv' /\ SettledStep
  BY <1>6, EndWaiting DEF denyRequiresUserActionRun, cancelRequiresUserActionRun
<1> QED BY <1>1, <1>2, <1>3, <1>4, <1>5, <1>6 DEF Next

\* The inductive invariant of the run records.
THEOREM RecordInvariance == Spec => []IInv
<1>1. Init => IInv
  BY InitInv
<1>2. IInv /\ [Next]_vars => IInv'
  BY NextInv
<1> QED BY <1>1, <1>2, PTL DEF Spec

\* Every run file holds a record or does not exist.
THEOREM RecordsTyped == Spec => []TypeOK
<1>1. IInv => TypeOK
  BY DEF IInv
<1> QED BY <1>1, RecordInvariance, PTL

\* terminal_at comes and goes with a terminal status, through creation, update,
\* binding, continuation, denial and cancellation.
THEOREM TerminalAtAgrees == Spec => []TerminalAtSound
<1>1. IInv => TerminalAtSound
  BY DEF IInv
<1> QED BY <1>1, RecordInvariance, PTL

\* A settled outcome is never left and a record never removed.
THEOREM SettledIsFinal == Spec => SettledStays
<1>1. IInv /\ [Next]_vars => [SettledStep]_vars
  BY NextInv
<1>2. SettledStays <=> [][SettledStep]_vars
  BY PTL DEF SettledStays, SettledStep
<1> QED BY <1>1, <1>2, RecordInvariance, PTL DEF Spec

-----------------------------------------------------------------------------
(* ManagedTasks.                                                           *)

\* The statuses that occur, what sets a run up and what calls for it.
Occurring == {"none", "admitted", "running", "failed", "succeeded", "unknown_outcome", "cancelled"}
Setup == {"admitted", "started", "ticketed", "asking"}
Brokering == {"asked", "dispatching", "calling", "called"}
KindOf(h) == runFile[TaskOf[h]].kind
CallsOf(h) == calls[TaskOf[h]]

\* The record of a run, and what a handler has read of it.
FileOK(t) ==
  /\ runFile[t].status \in Occurring
  /\ runFile[t].kind = "none" => runFile[t] = NoFile /\ calls[t] = 0
  /\ runFile[t].kind # "none" => runFile[t].status # "none"
  /\ ticket[t].place # "none" => runFile[t].kind \in Script
ReadOK(h) ==
  /\ hand[h].next \notin {"start", "done"} => KindOf(h) # "none"
  /\ hand[h].next = "recover" => hand[h].seen.kind = KindOf(h)
  /\ IsTerminal(hand[h].seen) => IsTerminal(Mine(h))
  /\ hand[h].verdict.status \in {"none", "failed", "unknown_outcome", "succeeded"}
FileInv == (\A t \in SiteTasks : FileOK(t)) /\ (\A h \in Handlers : ReadOK(h))

\* One submission sets a run up, and one operation of the broker calls for it.
AloneInv == \A g, h \in Handlers :
  TaskOf[g] = TaskOf[h] =>
    /\ hand[g].next \in Setup /\ hand[h].next \in Setup => g = h
    /\ hand[g].next \in Brokering /\ hand[h].next \in Brokering => g = h

\* Where the one call of a run is.
CountOK(t) ==
  /\ calls[t] \in {0, 1}
  /\ runFile[t].kind \in Script /\ ~ticket[t].asked => calls[t] = 0
  /\ ticket[t].asked => runFile[t].kind \in Script
  /\ ticket[t].answered => calls[t] = 1
  /\ runFile[t].status = "succeeded" => calls[t] = 1
CallingOK(h) ==
  /\ hand[h].next \in Brokering \cup {"validated", "ticketed"} => KindOf(h) \in Script
  /\ hand[h].next \in Brokering => MyTicket(h).asked
  /\ hand[h].next \in {"asked", "dispatching", "calling"} => CallsOf(h) = 0
  /\ hand[h].next \in {"admitted", "started"} /\ KindOf(h) = "direct" => CallsOf(h) = 0
  /\ hand[h].next = "asking" => KindOf(h) = "direct"
  /\ hand[h].next \in {"called", "asking"} => CallsOf(h) = 1
  /\ hand[h].verdict.status = "succeeded" => CallsOf(h) = 1
CallInv == (\A t \in SiteTasks : CountOK(t)) /\ (\A h \in Handlers : CallingOK(h))

\* The record says that a call is made before it is.
DispatchOK(t) ==
  runFile[t].kind \in Script /\ ~IsTerminal(runFile[t]) =>
    /\ calls[t] = 1 => runFile[t].dispatched
    /\ \A h \in Handlers : TaskOf[h] = t /\ hand[h].next = "calling" => runFile[t].dispatched
DispatchInv == \A t \in SiteTasks : DispatchOK(t)

\* A run that a death left unsettled: nobody works for it, and who settles it has
\* read that its call was made.
LeftOK(t) ==
  /\ runFile[t].kind # "none" /\ ticket[t].place \in {"none", "gone"}
  /\ runFile[t].kind \in Script /\ calls[t] = 1 => runFile[t].dispatched /\ runFile[t].status # "failed"
  /\ runFile[t].kind = "direct" => runFile[t].status \in {"admitted", "running", "cancelled"}
LeavesOK(h) ==
  /\ hand[h].next \notin Setup \cup Brokering \cup {"validated"}
  /\ KindOf(h) = "direct" => hand[h].next \notin {"finish", "settle"}
  /\ KindOf(h) \in Script /\ CallsOf(h) = 1 =>
       /\ hand[h].next \in {"recover", "finish", "settle", "cancel"} => hand[h].seen.dispatched
       /\ hand[h].next \in {"finish", "settle"} =>
            hand[h].verdict.dispatched /\ hand[h].verdict.status = "unknown_outcome"
LeftInv == \A t \in interrupted :
  LeftOK(t) /\ \A h \in Handlers : TaskOf[h] = t => LeavesOK(h)

TasksInv == SiteTasksTypeOK /\ FileInv /\ AloneInv /\ CallInv /\ DispatchInv /\ LeftInv


\* What an update of a record leaves is a record of its type.
LEMMA FilesTyped ==
  /\ NoFile \in Files
  /\ \A r \in Files, s \in Statuses : [r EXCEPT !.status = s] \in Files
  /\ \A r \in Files, d \in BOOLEAN : [r EXCEPT !.dispatched = d] \in Files
  /\ \A r \in Files, z \in SUBSET Handlers : [r EXCEPT !.stops = z] \in Files
  /\ \A r \in Files, s \in Statuses, d \in BOOLEAN, z \in SUBSET Handlers :
       [kind |-> r.kind, status |-> s, dispatched |-> d, stops |-> z] \in Files
  /\ \A k \in Script \cup {"direct"} :
       [kind |-> k, status |-> "admitted", dispatched |-> FALSE, stops |-> {}] \in Files
  /\ \A r \in Files : r.status \in Statuses /\ r.dispatched \in BOOLEAN /\ r.stops \in SUBSET Handlers
<1> TerminalStatuses \subseteq Statuses /\ "none" \in Statuses /\ "admitted" \in Statuses
  BY DEF Statuses, RunStatuses
<1> QED BY DEF NoFile, Files

LEMMA TicketsTyped ==
  /\ \A r \in Tickets, p \in {"none", "active", "handed", "gone"} : [r EXCEPT !.place = p] \in Tickets
  /\ \A r \in Tickets, b \in BOOLEAN :
       /\ [r EXCEPT !.started = b] \in Tickets
       /\ [r EXCEPT !.dispatched = b] \in Tickets
       /\ [r EXCEPT !.answered = b] \in Tickets
       /\ [r EXCEPT !.asked = b] \in Tickets
       /\ [r EXCEPT !.uncertain = b] \in Tickets
  /\ \A r \in Tickets, c \in {"passed", "failed"} : [r EXCEPT !.output = c] \in Tickets
  /\ \A r \in Tickets : r.place \in {"none", "active", "handed", "gone"} /\ r.dispatched \in BOOLEAN
BY DEF Tickets

LEMMA HandsTyped ==
  /\ NoVerdict \in Verdicts
  /\ \A s \in Statuses, d \in BOOLEAN : Verdict(s, d) \in Verdicts
  /\ \A n \in Nexts, f \in Files, v \in Verdicts : Is(n, f, v) \in Hands
  /\ \A r \in Hands : r.next \in Nexts /\ r.seen \in Files /\ r.verdict \in Verdicts
  /\ \A v \in Verdicts : v.status \in Statuses /\ v.dispatched \in BOOLEAN
<1> "none" \in Statuses BY DEF Statuses
<1> QED BY DEF NoVerdict, Verdicts, Verdict, Hands, Is

\* What the steps that the actions share do to the types.
LEMMA GoTyped ==
  ASSUME SiteTasksTypeOK, NEW h \in Handlers
  PROVE  /\ Mine(h) \in Files /\ MyTicket(h) \in Tickets /\ TaskOf[h] \in SiteTasks
         /\ hand[h] \in Hands
         /\ \A n \in Nexts : GoTo(h, n) => hand' \in [Handlers -> Hands]
         /\ \A n \in Nexts : ReadAndGoTo(h, n) => hand' \in [Handlers -> Hands]
         /\ \A n \in Nexts, v \in Verdicts : Judge(h, v, n) => hand' \in [Handlers -> Hands]
         /\ Unlocked(h) \in [SiteTasks -> Handlers \cup {NoHandler}]
         /\ Deactivated(h) \in [SiteTasks -> Tickets]
<1>0. hand \in [Handlers -> Hands] BY DEF SiteTasksTypeOK
<1>1. /\ Mine(h) \in Files /\ MyTicket(h) \in Tickets /\ TaskOf[h] \in SiteTasks
      /\ hand[h] \in Hands
  BY SiteTasksAssumption DEF SiteTasksTypeOK, Mine, MyTicket
<1>2. ASSUME NEW n \in Nexts PROVE GoTo(h, n) => hand' \in [Handlers -> Hands]
  BY <1>0, HandsTyped, FilesTyped DEF GoTo
<1>3. ASSUME NEW n \in Nexts PROVE ReadAndGoTo(h, n) => hand' \in [Handlers -> Hands]
  BY <1>0, <1>1, HandsTyped DEF ReadAndGoTo
<1>4. ASSUME NEW n \in Nexts, NEW v \in Verdicts PROVE Judge(h, v, n) => hand' \in [Handlers -> Hands]
  BY <1>0, <1>1, HandsTyped DEF Judge
<1>5. Unlocked(h) \in [SiteTasks -> Handlers \cup {NoHandler}]
  BY <1>1 DEF SiteTasksTypeOK, Unlocked
<1>6. Deactivated(h) \in [SiteTasks -> Tickets]
  BY <1>1, TicketsTyped DEF SiteTasksTypeOK, Deactivated, MyTicket
<1> QED BY <1>1, <1>2, <1>3, <1>4, <1>5, <1>6

LEMMA EndTyped ==
  ASSUME SiteTasksTypeOK, NEW h \in Handlers, End(h) \/ Continue(h)
  PROVE  /\ hand' \in [Handlers -> Hands]
         /\ taskLock' \in [SiteTasks -> Handlers \cup {NoHandler}]
<1>1. /\ taskLock \in [SiteTasks -> Handlers \cup {NoHandler}]
      /\ "done" \in Nexts /\ "stop" \in Nexts
  BY DEF SiteTasksTypeOK, Nexts
<1> QED BY <1>1, GoTyped DEF End, Continue

LEMMA TasksTyped ==
  ASSUME SiteTasksTypeOK, [SiteTasksNext]_taskVars
  PROVE  SiteTasksTypeOK'
<1>1. ASSUME NEW h \in Handlers, HandlerStep(h) PROVE SiteTasksTypeOK'
  <2>1. CASE Admit(h)
    <3>1. PICK kind \in Script \cup {"direct"} :
            runFile' = [runFile EXCEPT ![TaskOf[h]] =
              [kind |-> kind, status |-> "admitted", dispatched |-> FALSE, stops |-> {}]]
      BY <2>1 DEF Admit
    <3>2. runFile' \in [SiteTasks -> Files]
      BY <3>1, FilesTyped DEF SiteTasksTypeOK
    <3>3. hand' \in [Handlers -> Hands]
      BY <2>1, GoTyped DEF Admit, Nexts
    <3> QED BY <2>1, <3>2, <3>3, GoTyped DEF Admit, SiteTasksTypeOK, pastVars
  <2>2. CASE SubmitAgain(h)
    BY <2>2, GoTyped, EndTyped, FilesTyped, TicketsTyped, HandsTyped, SiteTasksAssumption
      DEF SubmitAgain, SiteTasksTypeOK, Stands, pastVars, Nexts, Statuses, RunStatuses,
        TerminalStatuses, Mine, MyTicket
  <2>3. CASE RunTask(h)
    <3>1. runFile' \in [SiteTasks -> Files] /\ hand' \in [Handlers -> Hands]
      <4>1. CASE MayTransition(Mine(h).status, "running")
        <5>1. runFile' = [runFile EXCEPT ![TaskOf[h]].status = "running"] /\ GoTo(h, "started")
          BY <2>3, <4>1 DEF RunTask
        <5>2. "running" \in Statuses /\ "started" \in Nexts
          BY DEF Statuses, RunStatuses, Nexts
        <5> QED BY <5>1, <5>2, GoTyped, FilesTyped DEF SiteTasksTypeOK
      <4>2. CASE ~MayTransition(Mine(h).status, "running")
        <5>1. runFile' = runFile /\ GoTo(h, "done") /\ "done" \in Nexts
          BY <2>3, <4>2 DEF RunTask, Nexts
        <5> QED BY <5>1, GoTyped DEF SiteTasksTypeOK
      <4> QED BY <4>1, <4>2
    <3> QED BY <2>3, <3>1, GoTyped DEF RunTask, SiteTasksTypeOK, pastVars
  <2>4. CASE RefuseWorker(h)
    BY <2>4, GoTyped, EndTyped, FilesTyped, TicketsTyped, HandsTyped, SiteTasksAssumption
      DEF RefuseWorker, SiteTasksTypeOK, Stands, pastVars, Nexts, Statuses, RunStatuses,
        TerminalStatuses, Mine, MyTicket
  <2>5. CASE CreateTicket(h)
    BY <2>5, GoTyped, EndTyped, FilesTyped, TicketsTyped, HandsTyped, SiteTasksAssumption
      DEF CreateTicket, SiteTasksTypeOK, Stands, pastVars, Nexts, Statuses, RunStatuses,
        TerminalStatuses, Mine, MyTicket
  <2>6. CASE HandTicket(h)
    BY <2>6, GoTyped, EndTyped, FilesTyped, TicketsTyped, HandsTyped, SiteTasksAssumption
      DEF HandTicket, SiteTasksTypeOK, Stands, pastVars, Nexts, Statuses, RunStatuses,
        TerminalStatuses, Mine, MyTicket
  <2>7. CASE AskDirectly(h)
    <3>1. calls' \in [SiteTasks -> Nat]
      <4>1. calls' = calls \/ calls' = [calls EXCEPT ![TaskOf[h]] = @ + 1]
        BY <2>7 DEF AskDirectly
      <4> QED BY <4>1, GoTyped DEF SiteTasksTypeOK
    <3>2. hand' \in [Handlers -> Hands]
      BY <2>7, GoTyped, HandsTyped DEF AskDirectly, Nexts, Statuses, RunStatuses, TerminalStatuses
    <3> QED BY <2>7, <3>1, <3>2 DEF AskDirectly, SiteTasksTypeOK
  <2>8. CASE DirectAnswer(h)
    <3>1. /\ "finish" \in Nexts /\ "settle" \in Nexts
          /\ "failed" \in Statuses /\ "unknown_outcome" \in Statuses /\ "succeeded" \in Statuses
      BY DEF Nexts, Statuses, RunStatuses, TerminalStatuses
    <3>2. hand \in [Handlers -> Hands] /\ NoFile \in Files
      BY FilesTyped DEF SiteTasksTypeOK
    <3>3. /\ hand' \in [Handlers -> Hands]
          /\ taskLock' \in [SiteTasks -> Handlers \cup {NoHandler}]
      <4>1. CASE End(h) BY <4>1, EndTyped
      <4>2. CASE /\ taskLock' = taskLock
                 /\ \E d \in BOOLEAN : Judge(h, Verdict("failed", d), "finish")
        BY <3>1, <4>2, GoTyped, HandsTyped DEF SiteTasksTypeOK
      <4>3. CASE taskLock' = taskLock /\ Judge(h, Verdict("unknown_outcome", TRUE), "finish")
        BY <3>1, <4>3, GoTyped, HandsTyped DEF SiteTasksTypeOK
      <4>4. CASE /\ taskLock' = taskLock
                 /\ \E d \in BOOLEAN :
                      hand' = [hand EXCEPT ![h] = Is("settle", NoFile, Verdict("succeeded", d))]
        <5>1. PICK d \in BOOLEAN :
                hand' = [hand EXCEPT ![h] = Is("settle", NoFile, Verdict("succeeded", d))]
          BY <4>4
        <5>2. Is("settle", NoFile, Verdict("succeeded", d)) \in Hands
          BY <3>1, <3>2, HandsTyped
        <5>3. hand' \in [Handlers -> Hands]
          BY <3>2, <5>1, <5>2
        <5> QED BY <4>4, <5>3 DEF SiteTasksTypeOK
      <4> QED BY <2>8, <4>1, <4>2, <4>3, <4>4 DEF DirectAnswer
    <3> QED BY <2>8, <3>3 DEF DirectAnswer, SiteTasksTypeOK, pastVars
  <2>9. CASE LookUpRun(h)
    BY <2>9, GoTyped, EndTyped, FilesTyped, TicketsTyped, HandsTyped, SiteTasksAssumption
      DEF LookUpRun, SiteTasksTypeOK, pastVars, Nexts, Statuses, RunStatuses, TerminalStatuses,
        Mine, MyTicket
  <2>10. CASE Denied(h)
    BY <2>10, GoTyped, EndTyped, FilesTyped, TicketsTyped, HandsTyped, SiteTasksAssumption
      DEF Denied, SiteTasksTypeOK, pastVars, Nexts, Statuses, RunStatuses, TerminalStatuses, Mine,
        MyTicket
  <2>11. CASE recoverOrphanedScriptRun(h)
    <3>1. /\ "finish" \in Nexts /\ "unknown_outcome" \in Statuses /\ "failed" \in Statuses
      BY DEF Nexts, Statuses, RunStatuses, TerminalStatuses
    <3>2. hand[h].seen \in Files /\ hand[h].seen.dispatched \in BOOLEAN
      BY GoTyped, HandsTyped, FilesTyped
    <3>3. /\ hand' \in [Handlers -> Hands]
          /\ taskLock' \in [SiteTasks -> Handlers \cup {NoHandler}]
      <4>1. CASE Continue(h) BY <4>1, EndTyped
      <4>2. CASE /\ taskLock' = taskLock
                 /\ hand' = [hand EXCEPT ![h] = Is("finish", hand[h].seen,
                      Verdict(IF hand[h].seen.dispatched THEN "unknown_outcome" ELSE "failed",
                              hand[h].seen.dispatched))]
        BY <3>1, <3>2, <4>2, HandsTyped DEF SiteTasksTypeOK
      <4> QED BY <2>11, <4>1, <4>2 DEF recoverOrphanedScriptRun
    <3> QED BY <2>11, <3>3 DEF recoverOrphanedScriptRun, SiteTasksTypeOK, pastVars
  <2>12. CASE finishFailure(h)
    BY <2>12, GoTyped, EndTyped, FilesTyped, TicketsTyped, HandsTyped, SiteTasksAssumption
      DEF finishFailure, SiteTasksTypeOK, pastVars, Nexts, Statuses, RunStatuses, TerminalStatuses,
        Mine, MyTicket
  <2>13. CASE Settle(h)
    BY <2>13, GoTyped, EndTyped, FilesTyped, TicketsTyped, HandsTyped, SiteTasksAssumption
      DEF Settle, SiteTasksTypeOK, pastVars, Nexts, Statuses, RunStatuses, TerminalStatuses, Mine,
        MyTicket
  <2>14. CASE Broker(h)
    BY <2>14, GoTyped, EndTyped, FilesTyped, TicketsTyped, HandsTyped, SiteTasksAssumption
      DEF Broker, SiteTasksTypeOK, Stands, pastVars, Nexts, Statuses, RunStatuses,
        TerminalStatuses, Mine, MyTicket
  <2>15. CASE Invoke(h)
    BY <2>15, GoTyped, EndTyped, FilesTyped, TicketsTyped, HandsTyped, SiteTasksAssumption
      DEF Invoke, SiteTasksTypeOK, Stands, pastVars, Nexts, Statuses, RunStatuses,
        TerminalStatuses, Mine, MyTicket
  <2>16. CASE InvokeRefused(h)
    BY <2>16, GoTyped, EndTyped, FilesTyped, TicketsTyped, HandsTyped, SiteTasksAssumption
      DEF InvokeRefused, SiteTasksTypeOK, Stands, pastVars, Nexts, Statuses, RunStatuses,
        TerminalStatuses, Mine, MyTicket
  <2>17. CASE ReadBeforeDispatch(h)
    BY <2>17, GoTyped, EndTyped, FilesTyped, TicketsTyped, HandsTyped, SiteTasksAssumption
      DEF ReadBeforeDispatch, SiteTasksTypeOK, Stands, pastVars, Nexts, Statuses, RunStatuses,
        TerminalStatuses, Mine, MyTicket
  <2>18. CASE PersistDispatch(h)
    BY <2>18, GoTyped, EndTyped, FilesTyped, TicketsTyped, HandsTyped, SiteTasksAssumption
      DEF PersistDispatch, SiteTasksTypeOK, Stands, pastVars, Nexts, Statuses, RunStatuses,
        TerminalStatuses, Mine, MyTicket
  <2>19. CASE MakeCall(h)
    <3>1. calls' \in [SiteTasks -> Nat]
      BY <2>19, GoTyped DEF MakeCall, SiteTasksTypeOK
    <3>2. hand' \in [Handlers -> Hands]
      BY <2>19, GoTyped DEF MakeCall, Nexts
    <3> QED BY <2>19, <3>1, <3>2 DEF MakeCall, SiteTasksTypeOK
  <2>20. CASE CallAnswered(h)
    BY <2>20, GoTyped, EndTyped, FilesTyped, TicketsTyped, HandsTyped, SiteTasksAssumption
      DEF CallAnswered, SiteTasksTypeOK, Stands, pastVars, Nexts, Statuses, RunStatuses,
        TerminalStatuses, Mine, MyTicket
  <2>21. CASE CallFails(h)
    <3>1. PICK uncertain, undone \in BOOLEAN :
            ticket' = [ticket EXCEPT ![TaskOf[h]].uncertain = uncertain,
                         ![TaskOf[h]].dispatched = @ /\ ~(undone /\ Mine(h).kind = "page")]
      BY <2>21 DEF CallFails
    <3>2. ticket' \in [SiteTasks -> Tickets]
      BY <3>1, TicketsTyped, GoTyped DEF SiteTasksTypeOK
    <3>3. hand' \in [Handlers -> Hands]
      BY <2>21, GoTyped DEF CallFails, Nexts
    <3> QED BY <2>21, <3>2, <3>3 DEF CallFails, SiteTasksTypeOK, pastVars
  <2>22. CASE finalizeWorker(h)
    BY <2>22, GoTyped, EndTyped, FilesTyped, TicketsTyped, HandsTyped, SiteTasksAssumption
      DEF finalizeWorker, SiteTasksTypeOK, pastVars, Nexts, Statuses, RunStatuses,
        TerminalStatuses, Mine, MyTicket
  <2>23. CASE failWorker(h)
    BY <2>23, GoTyped, EndTyped, FilesTyped, TicketsTyped, HandsTyped, SiteTasksAssumption
      DEF failWorker, SiteTasksTypeOK, pastVars, Nexts, Statuses, RunStatuses, TerminalStatuses,
        Mine, MyTicket
  <2>24. CASE CancelTicket(h)
    BY <2>24, GoTyped, EndTyped, FilesTyped, TicketsTyped, HandsTyped, SiteTasksAssumption
      DEF CancelTicket, SiteTasksTypeOK, Stands, pastVars, Nexts, Statuses, RunStatuses,
        TerminalStatuses, Mine, MyTicket
  <2>25. CASE CancelRun(h)
    <3> DEFINE seen == hand[h].seen
                cancels == ~IsTerminal(seen) /\ MayTransition(Mine(h).status, "cancelled")
                stale == IsTerminal(seen) \/ cancels
                s == IF cancels THEN "cancelled" ELSE runFile[TaskOf[h]].status
                d == IF stale THEN seen.dispatched ELSE runFile[TaskOf[h]].dispatched
                z == (IF stale THEN seen.stops ELSE runFile[TaskOf[h]].stops) \cup {h}
    <3>1. runFile' = [runFile EXCEPT ![TaskOf[h]] =
                        [kind |-> @.kind, status |-> s, dispatched |-> d, stops |-> z]]
      BY <2>25 DEF CancelRun
    <3>2. s \in Statuses /\ d \in BOOLEAN /\ z \in SUBSET Handlers
      <4>1. "cancelled" \in Statuses BY DEF Statuses, RunStatuses, TerminalStatuses
      <4>2. /\ seen \in Files /\ runFile[TaskOf[h]] \in Files
        BY GoTyped, HandsTyped DEF Mine
      <4> HIDE DEF seen, cancels, stale
      <4> QED BY <4>1, <4>2, FilesTyped
    <3> HIDE DEF s, d, z
    <3>3. runFile' \in [SiteTasks -> Files]
      BY <3>1, <3>2, FilesTyped, GoTyped DEF SiteTasksTypeOK
    <3> QED BY <2>25, <3>3, EndTyped DEF CancelRun, SiteTasksTypeOK, pastVars
  <2>26. CASE WriteFails(h)
    BY <2>26, GoTyped, EndTyped, FilesTyped, TicketsTyped, HandsTyped, SiteTasksAssumption
      DEF WriteFails, SiteTasksTypeOK, pastVars, Nexts, Statuses, RunStatuses, TerminalStatuses,
        Mine, MyTicket
  <2> QED BY <1>1, <2>1, <2>2, <2>3, <2>4, <2>5, <2>6, <2>7, <2>8, <2>9, <2>10, <2>11, <2>12,
     <2>13, <2>14, <2>15, <2>16, <2>17, <2>18, <2>19, <2>20, <2>21, <2>22, <2>23, <2>24, <2>25,
     <2>26 DEF HandlerStep
<1>2. ASSUME NEW t \in SiteTasks, TaskStep(t) PROVE SiteTasksTypeOK'
  <2>1. CASE workerStarted(t)
    BY <2>1, GoTyped, EndTyped, FilesTyped, TicketsTyped, HandsTyped, SiteTasksAssumption
      DEF workerStarted, SiteTasksTypeOK, pastVars, Nexts, Statuses, RunStatuses, TerminalStatuses,
        Mine, MyTicket
  <2>2. CASE WriteOutput(t)
    <3>1. PICK check \in {"passed", "failed"} : ticket' = [ticket EXCEPT ![t].output = check]
      BY <2>2 DEF WriteOutput
    <3>2. ticket' \in [SiteTasks -> Tickets]
      BY <3>1, TicketsTyped DEF SiteTasksTypeOK
    <3> QED BY <2>2, <3>2 DEF WriteOutput, SiteTasksTypeOK, pastVars
  <2>3. CASE DeadlinePasses(t)
    BY <2>3, GoTyped, EndTyped, FilesTyped, TicketsTyped, HandsTyped, SiteTasksAssumption
      DEF DeadlinePasses, SiteTasksTypeOK, Nexts, Statuses, RunStatuses, TerminalStatuses, Mine,
        MyTicket
  <2> QED BY <1>2, <2>1, <2>2, <2>3 DEF TaskStep
<1>3. CASE CoreDies
  <2>1. hand' \in [Handlers -> Hands]
    BY <1>3, HandsTyped, FilesTyped DEF CoreDies, SiteTasksTypeOK, Nexts
  <2>2. ticket' \in [SiteTasks -> Tickets]
    BY <1>3, TicketsTyped DEF CoreDies, SiteTasksTypeOK
  <2>3. taskDeaths' \in 0..MaxTaskDeaths
    BY <1>3, SiteTasksAssumption DEF CoreDies, SiteTasksTypeOK
  <2> QED BY <1>3, <2>1, <2>2, <2>3 DEF CoreDies, SiteTasksTypeOK

<1>4. CASE UNCHANGED taskVars
  BY <1>4 DEF taskVars, SiteTasksTypeOK, Mine
<1> QED BY <1>1, <1>2, <1>3, <1>4 DEF SiteTasksNext


\* The transitions that occur: a settled run stays as it is.
LEMMA StatusMoves ==
  ASSUME NEW a \in Occurring \ {"none"}, NEW b \in Statuses, MayTransition(a, b), a # b
  PROVE  /\ a \in {"admitted", "running"} /\ b # "none"
         /\ b = "running" => a = "admitted"
BY DEF MayTransition, runLifecycleTransitions, RunStatuses, TerminalStatuses, Occurring, Statuses

LEMMA Elsewhere ==
  ASSUME SiteTasksTypeOK, NEW h \in Handlers, HandlerStep(h)
  PROVE  /\ \A g \in Handlers : g # h => hand'[g] = hand[g]
         /\ \A t \in SiteTasks : t # TaskOf[h] =>
              runFile'[t] = runFile[t] /\ ticket'[t] = ticket[t] /\ calls'[t] = calls[t]
         /\ interrupted' = interrupted
<1>1. CASE Admit(h)
  BY <1>1, SiteTasksAssumption DEF Admit, SiteTasksTypeOK, Stands, Mine, GoTo, pastVars
<1>2. CASE SubmitAgain(h)
  BY <1>2, SiteTasksAssumption DEF SubmitAgain, SiteTasksTypeOK, Stands, Mine, ReadAndGoTo, pastVars
<1>3. CASE RunTask(h)
  BY <1>3, SiteTasksAssumption DEF RunTask, SiteTasksTypeOK, Stands, Mine, GoTo, pastVars
<1>4. CASE RefuseWorker(h)
  BY <1>4, SiteTasksAssumption DEF RefuseWorker, SiteTasksTypeOK, Stands, Mine, Judge, pastVars
<1>5. CASE CreateTicket(h)
  BY <1>5, SiteTasksAssumption DEF CreateTicket, SiteTasksTypeOK, Stands, Mine, GoTo, pastVars
<1>6. CASE HandTicket(h)
  BY <1>6, SiteTasksAssumption DEF HandTicket, SiteTasksTypeOK, Stands, Mine, MyTicket, GoTo, End,
     Deactivated, pastVars
<1>7. CASE AskDirectly(h)
  BY <1>7, SiteTasksAssumption DEF AskDirectly, SiteTasksTypeOK, Stands, Mine, GoTo, Judge
<1>8. CASE DirectAnswer(h)
  BY <1>8, SiteTasksAssumption DEF DirectAnswer, SiteTasksTypeOK, Stands, Mine, GoTo, Judge, End,
     pastVars
<1>9. CASE LookUpRun(h)
  BY <1>9, SiteTasksAssumption DEF LookUpRun, SiteTasksTypeOK, Mine, ReadAndGoTo, pastVars
<1>10. CASE Denied(h)
  BY <1>10, SiteTasksAssumption DEF Denied, SiteTasksTypeOK, GoTo, End, pastVars
<1>11. CASE recoverOrphanedScriptRun(h)
  BY <1>11, SiteTasksAssumption DEF recoverOrphanedScriptRun, SiteTasksTypeOK, MyTicket, GoTo, End,
     Continue, pastVars
<1>12. CASE finishFailure(h)
  BY <1>12, SiteTasksAssumption DEF finishFailure, SiteTasksTypeOK, Mine, GoTo, ReadAndGoTo, End,
     Continue, Deactivated, pastVars
<1>13. CASE Settle(h)
  BY <1>13, SiteTasksAssumption DEF Settle, SiteTasksTypeOK, Mine, GoTo, End, Continue,
     Deactivated, pastVars
<1>14. CASE Broker(h)
  BY <1>14, SiteTasksAssumption DEF Broker, SiteTasksTypeOK, Stands, MyTicket, GoTo, pastVars
<1>15. CASE Invoke(h)
  BY <1>15, SiteTasksAssumption DEF Invoke, SiteTasksTypeOK, Stands, Mine, MyTicket, GoTo, pastVars
<1>16. CASE InvokeRefused(h)
  BY <1>16, SiteTasksAssumption DEF InvokeRefused, SiteTasksTypeOK, Stands, GoTo, pastVars
<1>17. CASE ReadBeforeDispatch(h)
  BY <1>17, SiteTasksAssumption DEF ReadBeforeDispatch, SiteTasksTypeOK, Stands, Mine, GoTo,
     ReadAndGoTo, pastVars
<1>18. CASE PersistDispatch(h)
  BY <1>18, SiteTasksAssumption DEF PersistDispatch, SiteTasksTypeOK, Stands, GoTo, pastVars
<1>19. CASE MakeCall(h)
  BY <1>19, SiteTasksAssumption DEF MakeCall, SiteTasksTypeOK, Stands, Mine, MyTicket, GoTo
<1>20. CASE CallAnswered(h)
  BY <1>20, SiteTasksAssumption DEF CallAnswered, SiteTasksTypeOK, Stands, Mine, GoTo, pastVars
<1>21. CASE CallFails(h)
  BY <1>21, SiteTasksAssumption DEF CallFails, SiteTasksTypeOK, Mine, GoTo, pastVars
<1>22. CASE finalizeWorker(h)
  BY <1>22, SiteTasksAssumption DEF finalizeWorker, SiteTasksTypeOK, Mine, MyTicket, GoTo, Judge,
     Deactivated, pastVars
<1>23. CASE failWorker(h)
  BY <1>23, SiteTasksAssumption DEF failWorker, SiteTasksTypeOK, Mine, MyTicket, GoTo, Judge,
     Deactivated, pastVars
<1>24. CASE CancelTicket(h)
  BY <1>24, SiteTasksAssumption DEF CancelTicket, SiteTasksTypeOK, Stands, Mine, ReadAndGoTo,
     Deactivated, pastVars
<1>25. CASE CancelRun(h)
  BY <1>25, SiteTasksAssumption DEF CancelRun, SiteTasksTypeOK, Stands, Mine, GoTo, End, pastVars
<1>26. CASE WriteFails(h)
  BY <1>26, SiteTasksAssumption DEF WriteFails, SiteTasksTypeOK, Mine, GoTo, End, pastVars
<1> QED BY <1>1, <1>2, <1>3, <1>4, <1>5, <1>6, <1>7, <1>8, <1>9, <1>10, <1>11, <1>12, <1>13, <1>14,
   <1>15, <1>16, <1>17, <1>18, <1>19, <1>20, <1>21, <1>22, <1>23, <1>24, <1>25,
   <1>26 DEF HandlerStep


\* A ticket that is deactivated keeps the rest.
LEMMA DeactivatedTicket ==
  ASSUME SiteTasksTypeOK, NEW h \in Handlers, NEW t \in SiteTasks
  PROVE  /\ Deactivated(h)[t].place =
              IF t = TaskOf[h] /\ ticket[t].place # "none" THEN "gone" ELSE ticket[t].place
         /\ Deactivated(h)[t].asked = ticket[t].asked
         /\ Deactivated(h)[t].answered = ticket[t].answered
         /\ Deactivated(h)[t].dispatched = ticket[t].dispatched
<1>1. ticket[t] \in Tickets /\ ticket \in [SiteTasks -> Tickets] BY DEF SiteTasksTypeOK
<1> QED BY <1>1 DEF Deactivated, Tickets

\* What a handler that goes on reads and decides.
LEMMA GoesOn ==
  ASSUME SiteTasksTypeOK, NEW h \in Handlers, NEW n
  PROVE  /\ GoTo(h, n) =>
              /\ hand'[h].next = n /\ ~IsTerminal(hand'[h].seen) 
              /\ hand'[h].verdict.status = "none"
         /\ ReadAndGoTo(h, n) =>
              /\ hand'[h].next = n /\ hand'[h].seen = Mine(h)
              /\ hand'[h].verdict = hand[h].verdict
         /\ \A s, d : Judge(h, Verdict(s, d), n) =>
              /\ hand'[h].next = n /\ hand'[h].seen = Mine(h)
              /\ hand'[h].verdict.status = s /\ hand'[h].verdict.dispatched = d
<1>1. hand \in [Handlers -> Hands] BY DEF SiteTasksTypeOK
<1>2. ~IsTerminal(NoFile) BY DEF IsTerminal, NoFile, TerminalStatuses
<1>3. ASSUME GoTo(h, n)
      PROVE  /\ hand'[h].next = n /\ ~IsTerminal(hand'[h].seen) 
             /\ hand'[h].verdict.status = "none"
  <2>1. hand'[h] = Is(n, NoFile, NoVerdict) BY <1>1, <1>3 DEF GoTo
  <2>2. hand'[h].next = n /\ hand'[h].seen = NoFile /\ hand'[h].verdict = NoVerdict
    BY <2>1 DEF Is
  <2> QED BY <1>2, <2>2 DEF NoVerdict
<1>4. ASSUME ReadAndGoTo(h, n)
      PROVE  /\ hand'[h].next = n /\ hand'[h].seen = Mine(h)
             /\ hand'[h].verdict = hand[h].verdict
  BY <1>1, <1>4 DEF ReadAndGoTo, Is
<1>5. ASSUME NEW s, NEW d, Judge(h, Verdict(s, d), n)
      PROVE  /\ hand'[h].next = n /\ hand'[h].seen = Mine(h)
             /\ hand'[h].verdict.status = s /\ hand'[h].verdict.dispatched = d
  BY <1>1, <1>5 DEF Judge, Is, Verdict
<1> QED BY <1>3, <1>4, <1>5

LEMMA FileThere ==
  ASSUME TasksInv, NEW h \in Handlers, HandlerStep(h)
  PROVE  FileOK(TaskOf[h])' /\ ReadOK(h)'
<1>a. FileOK(TaskOf[h]) /\ ReadOK(h) /\ TaskOf[h] \in SiteTasks
  BY SiteTasksAssumption DEF TasksInv, FileInv
<1>b. /\ runFile \in [SiteTasks -> Files] /\ ticket \in [SiteTasks -> Tickets]
      /\ hand \in [Handlers -> Hands] /\ calls \in [SiteTasks -> Nat]
  BY DEF TasksInv, SiteTasksTypeOK
<1>c. "running" \in Statuses /\ hand[h].verdict.status \in Statuses
  BY <1>b, HandsTyped DEF Statuses, RunStatuses
<1>d. \A t \in SiteTasks : Deactivated(h)[t].place = "none" <=> ticket[t].place = "none"
  BY DeactivatedTicket DEF TasksInv
<1>e. \A n :
        /\ GoTo(h, n) =>
             /\ hand'[h].next = n /\ ~IsTerminal(hand'[h].seen) 
             /\ hand'[h].verdict.status = "none"
        /\ ReadAndGoTo(h, n) =>
             /\ hand'[h].next = n /\ hand'[h].seen = Mine(h)
             /\ hand'[h].verdict = hand[h].verdict
        /\ \A s, d : Judge(h, Verdict(s, d), n) =>
             /\ hand'[h].next = n /\ hand'[h].seen = Mine(h)
             /\ hand'[h].verdict.status = s /\ hand'[h].verdict.dispatched = d
  BY GoesOn DEF TasksInv
<1>1. CASE Admit(h)
  BY <1>1, <1>a, <1>b, <1>c, StatusMoves DEF Admit, Stands, Mine, GoTo, pastVars, KindOf, Is,
     IsTerminal, NoVerdict, FileOK, ReadOK, NoFile, Script, Occurring, TerminalStatuses
<1>2. CASE SubmitAgain(h)
  BY <1>2, <1>a, <1>b, <1>c, StatusMoves DEF SubmitAgain, Stands, Mine, ReadAndGoTo, pastVars,
     KindOf, Is, IsTerminal, FileOK, ReadOK, NoFile, Script, Occurring, TerminalStatuses
<1>3. CASE RunTask(h)
  <2>1. KindOf(h) # "none" /\ Mine(h).status \in Occurring \ {"none"} /\ Mine(h).kind # "none"
    BY <1>3, <1>a DEF RunTask, Stands, ReadOK, FileOK, Mine, KindOf
  <2>2. CASE MayTransition(Mine(h).status, "running")
    <3>1. Mine(h).status \in {"admitted", "running"}
      BY <2>1, <2>2, <1>c, StatusMoves
    <3>2. runFile' = [runFile EXCEPT ![TaskOf[h]].status = "running"] /\ GoTo(h, "started")
          /\ calls' = calls /\ ticket' = ticket
      BY <1>3, <2>2 DEF RunTask, pastVars
    <3>3. FileOK(TaskOf[h])'
      BY <1>a, <1>b, <2>1, <3>1, <3>2 DEF FileOK, Mine, Occurring
    <3> QED BY <1>a, <1>b, <1>e, <2>1, <3>2, <3>3 DEF ReadOK, KindOf, Mine
  <2>3. CASE ~MayTransition(Mine(h).status, "running")
    BY <1>3, <1>a, <1>b, <2>1, <2>3 DEF RunTask, Stands, Mine, GoTo, pastVars, KindOf, Is,
       IsTerminal, NoVerdict, FileOK, ReadOK, NoFile, Script, Occurring, TerminalStatuses
  <2> QED BY <2>2, <2>3
<1>4. CASE RefuseWorker(h)
  BY <1>4, <1>a, <1>b, <1>c, StatusMoves DEF RefuseWorker, Stands, Mine, Judge, pastVars, KindOf,
     Is, IsTerminal, Verdict, FileOK, ReadOK, NoFile, Script, Occurring, TerminalStatuses
<1>5. CASE CreateTicket(h)
  BY <1>5, <1>a, <1>b, <1>c, StatusMoves DEF CreateTicket, Stands, Mine, GoTo, pastVars, KindOf,
     Is, IsTerminal, NoVerdict, FileOK, ReadOK, NoFile, Script, Occurring, TerminalStatuses
<1>6. CASE HandTicket(h)
  BY <1>6, <1>a, <1>b, <1>c, StatusMoves DEF HandTicket, Stands, Mine, GoTo, End, Deactivated,
     pastVars, KindOf, Is, IsTerminal, NoVerdict, MyTicket, FileOK, ReadOK, NoFile, Script,
     Occurring, TerminalStatuses
<1>7. CASE AskDirectly(h)
  BY <1>7, <1>a, <1>b, <1>c, StatusMoves DEF AskDirectly, Stands, Mine, GoTo, Judge, KindOf, Is,
     IsTerminal, NoVerdict, Verdict, FileOK, ReadOK, NoFile, Script, Occurring, TerminalStatuses
<1>8. CASE DirectAnswer(h)
  BY <1>8, <1>a, <1>b, <1>c, StatusMoves DEF DirectAnswer, Stands, Mine, GoTo, Judge, End,
     pastVars, KindOf, Is, IsTerminal, NoVerdict, Verdict, FileOK, ReadOK, NoFile, Script,
     Occurring, TerminalStatuses
<1>9. CASE LookUpRun(h)
  BY <1>9, <1>a, <1>b, <1>c, StatusMoves DEF LookUpRun, Mine, ReadAndGoTo, pastVars, KindOf, Is,
     IsTerminal, FileOK, ReadOK, NoFile, Script, Occurring, TerminalStatuses
<1>10. CASE Denied(h)
  BY <1>10, <1>a, <1>b, <1>c, StatusMoves DEF Denied, Mine, GoTo, End, pastVars, KindOf, Is,
     IsTerminal, NoVerdict, FileOK, ReadOK, NoFile, Script, Occurring, TerminalStatuses
<1>11. CASE recoverOrphanedScriptRun(h)
  BY <1>11, <1>a, <1>b, <1>c, StatusMoves DEF recoverOrphanedScriptRun, Mine, GoTo, End, Continue,
     pastVars, KindOf, Is, IsTerminal, NoVerdict, Verdict, MyTicket, FileOK, ReadOK, NoFile,
     Script, Occurring, TerminalStatuses
<1>12. CASE finishFailure(h)
  <2>1. FileOK(TaskOf[h])'
    <3>1. runFile' = runFile /\ calls' = calls /\ (ticket' = ticket \/ ticket' = Deactivated(h))
      BY <1>12 DEF finishFailure, pastVars
    <3> QED BY <1>a, <1>b, <1>d, <3>1 DEF FileOK
  <2>2. CASE IsTerminal(Mine(h))
    <3>1. runFile' = runFile /\ (GoTo(h, "done") \/ GoTo(h, "stop"))
      BY <1>12, <2>2 DEF finishFailure, Continue, End
    <3>2. KindOf(h) # "none" BY <1>12, <1>a DEF finishFailure, ReadOK
    <3>3. /\ hand'[h].next \in {"done", "stop"} /\ ~IsTerminal(hand'[h].seen)
          /\ hand'[h].verdict.status = "none"
      BY <1>e, <3>1
    <3> QED BY <2>1, <3>1, <3>2, <3>3 DEF ReadOK, KindOf
  <2>3. CASE ~IsTerminal(Mine(h))
    <3>1. runFile' = runFile /\ ReadAndGoTo(h, "settle")
      BY <1>12, <2>3 DEF finishFailure
    <3>2. KindOf(h) # "none" BY <1>12, <1>a DEF finishFailure, ReadOK
    <3>3. /\ hand'[h].next = "settle" /\ hand'[h].seen = Mine(h)
          /\ hand'[h].verdict = hand[h].verdict
      BY <1>e, <3>1
    <3> QED BY <1>a, <2>1, <3>1, <3>2, <3>3 DEF ReadOK, KindOf, Mine
  <2> QED BY <2>1, <2>2, <2>3
<1>13. CASE Settle(h)
  <2>1. FileOK(TaskOf[h])'
    BY <1>13, <1>a, <1>b, <1>c, StatusMoves DEF Settle, Mine, GoTo, End, Continue, Deactivated,
       pastVars, KindOf, Is, IsTerminal, NoVerdict, FileOK, ReadOK, NoFile, Script, Occurring,
       TerminalStatuses
  <2>2. ReadOK(h)'
    BY <1>13, <1>a, <1>b, <1>c, StatusMoves DEF Settle, Mine, GoTo, End, Continue, Deactivated,
       pastVars, KindOf, Is, IsTerminal, NoVerdict, FileOK, ReadOK, NoFile, Script, Occurring,
       TerminalStatuses
  <2> QED BY <2>1, <2>2
<1>14. CASE Broker(h)
  BY <1>14, <1>a, <1>b, <1>c, StatusMoves DEF Broker, Stands, Mine, GoTo, pastVars, KindOf, Is,
     IsTerminal, NoVerdict, MyTicket, TicketValid, FileOK, ReadOK, NoFile, Script, Occurring,
     TerminalStatuses
<1>15. CASE Invoke(h)
  BY <1>15, <1>a, <1>b, <1>c, StatusMoves DEF Invoke, Stands, Mine, GoTo, pastVars, KindOf, Is,
     IsTerminal, NoVerdict, MyTicket, FileOK, ReadOK, NoFile, Script, Occurring, TerminalStatuses
<1>16. CASE InvokeRefused(h)
  BY <1>16, <1>a, <1>b, <1>c, StatusMoves DEF InvokeRefused, Stands, Mine, GoTo, pastVars, KindOf,
     Is, IsTerminal, NoVerdict, FileOK, ReadOK, NoFile, Script, Occurring, TerminalStatuses
<1>17. CASE ReadBeforeDispatch(h)
  BY <1>17, <1>a, <1>b, <1>c, StatusMoves DEF ReadBeforeDispatch, Stands, Mine, GoTo, ReadAndGoTo,
     pastVars, KindOf, Is, IsTerminal, NoVerdict, TicketValid, FileOK, ReadOK, NoFile, Script,
     Occurring, TerminalStatuses
<1>18. CASE PersistDispatch(h)
  BY <1>18, <1>a, <1>b, <1>c, StatusMoves DEF PersistDispatch, Stands, Mine, GoTo, pastVars,
     KindOf, Is, IsTerminal, NoVerdict, FileOK, ReadOK, NoFile, Script, Occurring, TerminalStatuses
<1>19. CASE MakeCall(h)
  BY <1>19, <1>a, <1>b, <1>c, StatusMoves DEF MakeCall, Stands, Mine, GoTo, KindOf, Is, IsTerminal,
     NoVerdict, MyTicket, FileOK, ReadOK, NoFile, Script, Occurring, TerminalStatuses
<1>20. CASE CallAnswered(h)
  BY <1>20, <1>a, <1>b, <1>c, StatusMoves DEF CallAnswered, Stands, Mine, GoTo, pastVars, KindOf,
     Is, IsTerminal, NoVerdict, FileOK, ReadOK, NoFile, Script, Occurring, TerminalStatuses
<1>21. CASE CallFails(h)
  BY <1>21, <1>a, <1>b, <1>c, StatusMoves DEF CallFails, Mine, GoTo, pastVars, KindOf, Is,
     IsTerminal, NoVerdict, FileOK, ReadOK, NoFile, Script, Occurring, TerminalStatuses
<1>22. CASE finalizeWorker(h)
  <2>1. /\ runFile' = runFile /\ calls' = calls /\ MyTicket(h).place = "handed"
        /\ ticket' = ticket \/ ticket' = Deactivated(h)
        /\ \/ GoTo(h, "done")
           \/ \E v \in {"failed", "succeeded", "unknown_outcome"}, d \in BOOLEAN, n \in {"finish", "settle"} :
                Judge(h, Verdict(v, d), n)
    <3>1. MyTicket(h) \in Tickets /\ MyTicket(h).dispatched \in BOOLEAN
      BY <1>a, <1>b, TicketsTyped DEF MyTicket
    <3> QED BY <1>22, <3>1 DEF finalizeWorker, Due, TicketValid, MyTicket, pastVars
  <2>2. KindOf(h) \in Script
    BY <1>a, <2>1 DEF FileOK, MyTicket, KindOf
  <2>3. FileOK(TaskOf[h])'
    BY <1>a, <1>b, <1>d, <2>1 DEF FileOK
  <2>4. ReadOK(h)'
    BY <1>a, <1>b, <2>1, <2>2 DEF ReadOK, Mine, GoTo, Judge, Deactivated, KindOf, Is, IsTerminal,
       NoVerdict, Verdict, MyTicket, NoFile, Script, TerminalStatuses
  <2> QED BY <2>3, <2>4
<1>23. CASE failWorker(h)
  <2>1. /\ runFile' = runFile /\ calls' = calls /\ MyTicket(h).place = "handed"
        /\ ticket' = ticket \/ ticket' = Deactivated(h)
        /\ \/ GoTo(h, "done")
           \/ \E v \in {"failed", "succeeded", "unknown_outcome"}, d \in BOOLEAN, n \in {"finish", "settle"} :
                Judge(h, Verdict(v, d), n)
    <3>1. MyTicket(h) \in Tickets /\ MyTicket(h).dispatched \in BOOLEAN
      BY <1>a, <1>b, TicketsTyped DEF MyTicket
    <3> QED BY <1>23, <3>1 DEF failWorker, Due, MyTicket, pastVars
  <2>2. KindOf(h) \in Script
    BY <1>a, <2>1 DEF FileOK, MyTicket, KindOf
  <2>3. FileOK(TaskOf[h])'
    BY <1>a, <1>b, <1>d, <2>1 DEF FileOK
  <2>4. ReadOK(h)'
    BY <1>a, <1>b, <2>1, <2>2 DEF ReadOK, Mine, GoTo, Judge, Deactivated, KindOf, Is, IsTerminal,
       NoVerdict, Verdict, MyTicket, NoFile, Script, TerminalStatuses
  <2> QED BY <2>3, <2>4
<1>24. CASE CancelTicket(h)
  BY <1>24, <1>a, <1>b, <1>c, StatusMoves DEF CancelTicket, Stands, Mine, ReadAndGoTo, Deactivated,
     pastVars, KindOf, Is, IsTerminal, FileOK, ReadOK, NoFile, Script, Occurring, TerminalStatuses
<1>25. CASE CancelRun(h)
  BY <1>25, <1>a, <1>b, <1>c, StatusMoves DEF CancelRun, Stands, Mine, GoTo, End, pastVars, KindOf,
     Is, IsTerminal, NoVerdict, FileOK, ReadOK, NoFile, Script, Occurring, TerminalStatuses
<1>26. CASE WriteFails(h)
  BY <1>26, <1>a, <1>b, <1>c, StatusMoves DEF WriteFails, Mine, GoTo, End, pastVars, KindOf, Is,
     IsTerminal, NoVerdict, FileOK, ReadOK, NoFile, Script, Occurring, TerminalStatuses
<1> QED BY <1>1, <1>2, <1>3, <1>4, <1>5, <1>6, <1>7, <1>8, <1>9, <1>10, <1>11, <1>12, <1>13, <1>14,
   <1>15, <1>16, <1>17, <1>18, <1>19, <1>20, <1>21, <1>22, <1>23, <1>24, <1>25,
   <1>26 DEF HandlerStep


\* What a step of a handler leaves of the record of its run.
LEMMA FileKept ==
  ASSUME TasksInv, NEW h \in Handlers, HandlerStep(h)
  PROVE  /\ runFile'[TaskOf[h]].kind = KindOf(h) \/ KindOf(h) = "none"
         /\ IsTerminal(Mine(h)) => runFile'[TaskOf[h]].status = Mine(h).status
<1>a. FileOK(TaskOf[h]) /\ ReadOK(h) /\ TaskOf[h] \in SiteTasks
  BY SiteTasksAssumption DEF TasksInv, FileInv
<1>b. runFile \in [SiteTasks -> Files]
  BY DEF TasksInv, SiteTasksTypeOK
<1>c. /\ "running" \in Statuses /\ "cancelled" \in Statuses
      /\ hand[h].verdict.status \in Statuses
  <2>1. hand \in [Handlers -> Hands] BY DEF TasksInv, SiteTasksTypeOK
  <2> QED BY <2>1, HandsTyped DEF Statuses, RunStatuses, TerminalStatuses
<1>1. CASE Admit(h)
  BY <1>1, <1>a DEF Admit, KindOf, Mine, IsTerminal, NoFile, TerminalStatuses
<1>2. CASE SubmitAgain(h)
  BY <1>2, <1>a, <1>b, <1>c DEF SubmitAgain, Mine, KindOf, IsTerminal, pastVars
<1>3. CASE RunTask(h)
  <2>1. Mine(h).status \in Occurring \ {"none"}
    BY <1>3, <1>a DEF RunTask, Stands, ReadOK, FileOK, Mine, KindOf
  <2>2. IsTerminal(Mine(h)) => ~MayTransition(Mine(h).status, "running")
    BY <2>1, <1>c, StatusMoves DEF IsTerminal, TerminalStatuses
  <2>3. CASE runFile' = [runFile EXCEPT ![TaskOf[h]].status = "running"] /\ ~IsTerminal(Mine(h))
    BY <1>a, <1>b, <2>3 DEF Mine, KindOf
  <2>4. CASE runFile' = runFile
    BY <2>4 DEF Mine, KindOf
  <2> QED BY <1>3, <2>2, <2>3, <2>4 DEF RunTask
<1>4. CASE RefuseWorker(h)
  BY <1>4, <1>a, <1>b, <1>c DEF RefuseWorker, Mine, KindOf, IsTerminal, pastVars
<1>5. CASE CreateTicket(h)
  BY <1>5, <1>a, <1>b, <1>c DEF CreateTicket, Mine, KindOf, IsTerminal, pastVars
<1>6. CASE HandTicket(h)
  BY <1>6, <1>a, <1>b, <1>c DEF HandTicket, Mine, KindOf, IsTerminal, pastVars
<1>7. CASE AskDirectly(h)
  BY <1>7, <1>a, <1>b, <1>c DEF AskDirectly, Mine, KindOf, IsTerminal
<1>8. CASE DirectAnswer(h)
  BY <1>8, <1>a, <1>b, <1>c DEF DirectAnswer, Mine, KindOf, IsTerminal, pastVars
<1>9. CASE LookUpRun(h)
  BY <1>9, <1>a, <1>b, <1>c DEF LookUpRun, Mine, KindOf, IsTerminal, pastVars
<1>10. CASE Denied(h)
  BY <1>10, <1>a, <1>b, <1>c DEF Denied, Mine, KindOf, IsTerminal, pastVars
<1>11. CASE recoverOrphanedScriptRun(h)
  BY <1>11, <1>a, <1>b, <1>c DEF recoverOrphanedScriptRun, Mine, KindOf, IsTerminal, pastVars
<1>12. CASE finishFailure(h)
  BY <1>12, <1>a, <1>b, <1>c DEF finishFailure, Mine, KindOf, IsTerminal, pastVars
<1>13. CASE Settle(h)
  BY <1>13, <1>a, <1>b, <1>c, StatusMoves DEF Settle, Mine, KindOf, IsTerminal, TerminalStatuses,
     FileOK, ReadOK
<1>14. CASE Broker(h)
  BY <1>14, <1>a, <1>b, <1>c DEF Broker, Mine, KindOf, IsTerminal, pastVars
<1>15. CASE Invoke(h)
  BY <1>15, <1>a, <1>b, <1>c DEF Invoke, Mine, KindOf, IsTerminal, pastVars
<1>16. CASE InvokeRefused(h)
  BY <1>16, <1>a, <1>b, <1>c DEF InvokeRefused, Mine, KindOf, IsTerminal, pastVars
<1>17. CASE ReadBeforeDispatch(h)
  BY <1>17, <1>a, <1>b, <1>c DEF ReadBeforeDispatch, Mine, KindOf, IsTerminal, pastVars
<1>18. CASE PersistDispatch(h)
  BY <1>18, <1>a, <1>b, <1>c DEF PersistDispatch, Mine, KindOf, IsTerminal, pastVars
<1>19. CASE MakeCall(h)
  BY <1>19, <1>a, <1>b, <1>c DEF MakeCall, Mine, KindOf, IsTerminal
<1>20. CASE CallAnswered(h)
  BY <1>20, <1>a, <1>b, <1>c DEF CallAnswered, Mine, KindOf, IsTerminal, pastVars
<1>21. CASE CallFails(h)
  BY <1>21, <1>a, <1>b, <1>c DEF CallFails, Mine, KindOf, IsTerminal, pastVars
<1>22. CASE finalizeWorker(h)
  BY <1>22, <1>a, <1>b, <1>c DEF finalizeWorker, Mine, KindOf, IsTerminal, pastVars
<1>23. CASE failWorker(h)
  BY <1>23, <1>a, <1>b, <1>c DEF failWorker, Mine, KindOf, IsTerminal, pastVars
<1>24. CASE CancelTicket(h)
  BY <1>24, <1>a, <1>b, <1>c DEF CancelTicket, Mine, KindOf, IsTerminal, pastVars
<1>25. CASE CancelRun(h)
  BY <1>25, <1>a, <1>b, <1>c, StatusMoves DEF CancelRun, Mine, KindOf, IsTerminal,
     TerminalStatuses, FileOK, ReadOK, Stands
<1>26. CASE WriteFails(h)
  BY <1>26, <1>a, <1>b, <1>c DEF WriteFails, Mine, KindOf, IsTerminal, pastVars
<1> QED BY <1>1, <1>2, <1>3, <1>4, <1>5, <1>6, <1>7, <1>8, <1>9, <1>10, <1>11, <1>12, <1>13, <1>14,
   <1>15, <1>16, <1>17, <1>18, <1>19, <1>20, <1>21, <1>22, <1>23, <1>24, <1>25,
   <1>26 DEF HandlerStep


LEMMA CallThere ==
  ASSUME TasksInv, NEW h \in Handlers, HandlerStep(h)
  PROVE  CountOK(TaskOf[h])' /\ CallingOK(h)'
<1>a. /\ FileOK(TaskOf[h]) /\ ReadOK(h) /\ CountOK(TaskOf[h]) /\ CallingOK(h)
      /\ TaskOf[h] \in SiteTasks
  BY SiteTasksAssumption DEF TasksInv, FileInv, CallInv
<1>b. /\ runFile \in [SiteTasks -> Files] /\ ticket \in [SiteTasks -> Tickets]
      /\ hand \in [Handlers -> Hands] /\ calls \in [SiteTasks -> Nat]
  BY DEF TasksInv, SiteTasksTypeOK
<1>d. /\ Deactivated(h)[TaskOf[h]].asked = ticket[TaskOf[h]].asked
      /\ Deactivated(h)[TaskOf[h]].answered = ticket[TaskOf[h]].answered
  BY <1>a, DeactivatedTicket DEF TasksInv
<1>1. CASE Admit(h)
  <2>1. CountOK(TaskOf[h])'
    BY <1>1, <1>a, <1>b DEF Admit, Mine, GoTo, pastVars, CountOK, FileOK, NoFile, Script
  <2>2. CallingOK(h)'
    BY <1>1, <1>a, <1>b DEF Admit, Mine, GoTo, Is, NoVerdict, pastVars, CallingOK, FileOK, NoFile,
       Script, Brokering, CallsOf, KindOf
  <2> QED BY <2>1, <2>2
<1>2. CASE SubmitAgain(h)
  BY <1>2, <1>a, <1>b DEF SubmitAgain, Stands, Mine, ReadAndGoTo, pastVars, KindOf, CallsOf, Is,
     MyTicket, CountOK, CallingOK, Brokering
<1>3. CASE RunTask(h)
  <2>1. CASE runFile' = [runFile EXCEPT ![TaskOf[h]].status = "running"] /\ GoTo(h, "started")
    BY <1>3, <2>1, <1>a, <1>b DEF RunTask, Stands, GoTo, Is, NoVerdict, pastVars, CallingOK,
       CountOK, Brokering, CallsOf, KindOf, MyTicket
  <2>2. CASE runFile' = runFile /\ GoTo(h, "done")
    BY <1>3, <2>2, <1>a, <1>b DEF RunTask, Stands, GoTo, Is, NoVerdict, pastVars, CallingOK,
       CountOK, Brokering, CallsOf, KindOf, MyTicket
  <2> QED BY <1>3, <2>1, <2>2 DEF RunTask
<1>4. CASE RefuseWorker(h)
  BY <1>4, <1>a, <1>b DEF RefuseWorker, Stands, Mine, Judge, pastVars, KindOf, CallsOf, Is,
     Verdict, MyTicket, CountOK, CallingOK, Brokering
<1>5. CASE CreateTicket(h)
  BY <1>5, <1>a, <1>b DEF CreateTicket, Stands, Mine, GoTo, pastVars, KindOf, CallsOf, Is,
     NoVerdict, MyTicket, CountOK, CallingOK, Brokering
<1>6. CASE HandTicket(h)
  BY <1>6, <1>a, <1>b DEF HandTicket, Stands, Mine, GoTo, End, Deactivated, pastVars, KindOf,
     CallsOf, Is, NoVerdict, MyTicket, CountOK, CallingOK, Brokering
<1>7. CASE AskDirectly(h)
  <2>1. runFile' = runFile /\ ticket' = ticket /\ CallsOf(h) = 0 /\ KindOf(h) = "direct"
    BY <1>7, <1>a DEF AskDirectly, Stands, CallingOK, CallsOf, KindOf, Mine
  <2>2. CASE calls' = calls /\ Judge(h, Verdict("failed", FALSE), "finish")
    BY <2>1, <2>2, <1>a, <1>b DEF Judge, Is, Verdict, CallingOK, CountOK, Brokering, CallsOf,
       KindOf, MyTicket
  <2>3. CASE calls' = [calls EXCEPT ![TaskOf[h]] = @ + 1] /\ GoTo(h, "asking")
    <3>1. CallsOf(h)' = 1
      BY <2>1, <2>3, <1>a, <1>b DEF CallsOf
    <3>2. /\ hand'[h].next = "asking" /\ hand'[h].verdict.status = "none"
      BY <2>3, <1>b DEF GoTo, Is, NoVerdict
    <3> QED BY <2>1, <3>1, <3>2, <1>a DEF CallingOK, CountOK, Brokering, CallsOf, KindOf, MyTicket,
       Script
  <2> QED BY <1>7, <2>2, <2>3 DEF AskDirectly
<1>8. CASE DirectAnswer(h)
  BY <1>8, <1>a, <1>b DEF DirectAnswer, Stands, Mine, GoTo, Judge, End, pastVars, KindOf, CallsOf,
     Is, IsTerminal, NoVerdict, Verdict, MyTicket, CountOK, CallingOK, Brokering
<1>9. CASE LookUpRun(h)
  BY <1>9, <1>a, <1>b DEF LookUpRun, Mine, ReadAndGoTo, pastVars, KindOf, CallsOf, Is, MyTicket,
     CountOK, CallingOK, Brokering
<1>10. CASE Denied(h)
  BY <1>10, <1>a, <1>b DEF Denied, GoTo, End, pastVars, KindOf, CallsOf, Is, NoVerdict, MyTicket,
     CountOK, CallingOK, Brokering
<1>11. CASE recoverOrphanedScriptRun(h)
  BY <1>11, <1>a, <1>b DEF recoverOrphanedScriptRun, GoTo, End, Continue, pastVars, KindOf,
     CallsOf, Is, NoVerdict, Verdict, MyTicket, CountOK, CallingOK, Brokering
<1>12. CASE finishFailure(h)
  <2>1. /\ runFile' = runFile /\ calls' = calls
        /\ ticket'[TaskOf[h]].asked = ticket[TaskOf[h]].asked
        /\ ticket'[TaskOf[h]].answered = ticket[TaskOf[h]].answered
    BY <1>12, <1>a, <1>d DEF finishFailure, pastVars
  <2>2. /\ hand'[h].next \in {"done", "stop", "settle"}
        /\ hand'[h].verdict \in {NoVerdict, hand[h].verdict}
    BY <1>12, <1>b DEF finishFailure, Continue, End, GoTo, ReadAndGoTo, Is
  <2> QED BY <1>a, <2>1, <2>2 DEF CallingOK, CountOK, Brokering, CallsOf, KindOf, MyTicket,
     NoVerdict
<1>13. CASE Settle(h)
  BY <1>13, <1>a, <1>b DEF Settle, Mine, GoTo, End, Continue, Deactivated, pastVars, KindOf,
     CallsOf, Is, NoVerdict, MyTicket, CountOK, CallingOK, Brokering
<1>14. CASE Broker(h)
  BY <1>14, <1>a, <1>b DEF Broker, GoTo, Is, NoVerdict, pastVars, TicketValid, FileOK, CallingOK,
     CountOK, Brokering, CallsOf, KindOf, MyTicket, Script
<1>15. CASE Invoke(h)
  BY <1>15, <1>a, <1>b DEF Invoke, Stands, Mine, GoTo, pastVars, KindOf, CallsOf, Is, NoVerdict,
     MyTicket, CountOK, CallingOK, Brokering
<1>16. CASE InvokeRefused(h)
  BY <1>16, <1>a, <1>b DEF InvokeRefused, Stands, GoTo, pastVars, KindOf, CallsOf, Is, NoVerdict,
     MyTicket, CountOK, CallingOK, Brokering
<1>17. CASE ReadBeforeDispatch(h)
  BY <1>17, <1>a, <1>b DEF ReadBeforeDispatch, Stands, Mine, GoTo, ReadAndGoTo, pastVars, KindOf,
     CallsOf, Is, NoVerdict, MyTicket, TicketValid, CountOK, CallingOK, Brokering
<1>18. CASE PersistDispatch(h)
  BY <1>18, <1>a, <1>b DEF PersistDispatch, Stands, GoTo, pastVars, KindOf, CallsOf, Is, NoVerdict,
     MyTicket, CountOK, CallingOK, Brokering
<1>19. CASE MakeCall(h)
  BY <1>19, <1>a, <1>b DEF MakeCall, Stands, Mine, GoTo, KindOf, CallsOf, Is, NoVerdict, MyTicket,
     CountOK, CallingOK, Brokering
<1>20. CASE CallAnswered(h)
  BY <1>20, <1>a, <1>b DEF CallAnswered, Stands, Mine, GoTo, pastVars, KindOf, CallsOf, Is,
     NoVerdict, MyTicket, CountOK, CallingOK, Brokering
<1>21. CASE CallFails(h)
  BY <1>21, <1>a, <1>b DEF CallFails, Mine, GoTo, pastVars, KindOf, CallsOf, Is, NoVerdict,
     MyTicket, CountOK, CallingOK, Brokering
<1>22. CASE finalizeWorker(h)
  <2>1. /\ runFile' = runFile /\ calls' = calls
        /\ ticket'[TaskOf[h]].asked = ticket[TaskOf[h]].asked
        /\ ticket'[TaskOf[h]].answered = ticket[TaskOf[h]].answered
    BY <1>22, <1>a, <1>d DEF finalizeWorker, pastVars
  <2>2. /\ hand'[h].next \in {"done", "settle", "finish"}
        /\ hand'[h].verdict.status = "succeeded" => MyTicket(h).answered
    BY <1>22, <1>b DEF finalizeWorker, GoTo, Judge, Is, NoVerdict, Verdict, OutputWritten, MyTicket
  <2> QED BY <1>a, <2>1, <2>2 DEF CallingOK, CountOK, Brokering, CallsOf, KindOf, MyTicket
<1>23. CASE failWorker(h)
  <2>1. /\ runFile' = runFile /\ calls' = calls
        /\ ticket'[TaskOf[h]].asked = ticket[TaskOf[h]].asked
        /\ ticket'[TaskOf[h]].answered = ticket[TaskOf[h]].answered
    BY <1>23, <1>a, <1>d DEF failWorker, pastVars
  <2>2. hand'[h].next \in {"done", "finish"} /\ hand'[h].verdict.status # "succeeded"
    BY <1>23, <1>b DEF failWorker, GoTo, Judge, Is, NoVerdict, Verdict
  <2> QED BY <1>a, <2>1, <2>2 DEF CallingOK, CountOK, Brokering, CallsOf, KindOf, MyTicket
<1>24. CASE CancelTicket(h)
  BY <1>24, <1>a, <1>b DEF CancelTicket, Stands, Mine, ReadAndGoTo, Deactivated, pastVars, KindOf,
     CallsOf, Is, MyTicket, CountOK, CallingOK, Brokering
<1>25. CASE CancelRun(h)
  BY <1>25, <1>a, <1>b DEF CancelRun, Stands, Mine, GoTo, End, pastVars, KindOf, CallsOf, Is,
     IsTerminal, NoVerdict, MyTicket, CountOK, CallingOK, Brokering
<1>26. CASE WriteFails(h)
  BY <1>26, <1>a, <1>b DEF WriteFails, Mine, GoTo, End, pastVars, KindOf, CallsOf, Is, IsTerminal,
     NoVerdict, MyTicket, CountOK, CallingOK, Brokering
<1> QED BY <1>1, <1>2, <1>3, <1>4, <1>5, <1>6, <1>7, <1>8, <1>9, <1>10, <1>11, <1>12, <1>13, <1>14,
   <1>15, <1>16, <1>17, <1>18, <1>19, <1>20, <1>21, <1>22, <1>23, <1>24, <1>25,
   <1>26 DEF HandlerStep


\* How a handler comes to set a run up or to call for it.
LEMMA Enters ==
  ASSUME TasksInv, NEW h \in Handlers, HandlerStep(h)
  PROVE  /\ hand'[h].next \in Setup => hand[h].next \in Setup \/ KindOf(h) = "none"
         /\ hand'[h].next \in Brokering => hand[h].next \in Brokering \/ ~MyTicket(h).asked
         /\ hand'[h].next = "calling" => hand[h].next = "dispatching"
         /\ hand'[h].next = "validated" => MyTicket(h).place = "handed"
<1>a. hand \in [Handlers -> Hands]
  BY DEF TasksInv, SiteTasksTypeOK
<1>1. CASE Admit(h)
  BY <1>1, <1>a DEF Admit, Mine, KindOf, NoFile, GoTo, Is, Setup, Brokering
<1>2. CASE SubmitAgain(h)
  BY <1>2, <1>a DEF SubmitAgain, Stands, ReadAndGoTo, Is, pastVars, Setup, Brokering
<1>3. CASE RunTask(h)
  BY <1>3, <1>a DEF RunTask, Stands, GoTo, Is, pastVars, Setup, Brokering
<1>4. CASE RefuseWorker(h)
  BY <1>4, <1>a DEF RefuseWorker, Stands, Judge, Is, pastVars, Setup, Brokering
<1>5. CASE CreateTicket(h)
  BY <1>5, <1>a DEF CreateTicket, Stands, GoTo, Is, pastVars, Setup, Brokering
<1>6. CASE HandTicket(h)
  BY <1>6, <1>a DEF HandTicket, Stands, GoTo, End, Is, pastVars, Setup, Brokering
<1>7. CASE AskDirectly(h)
  <2>1. hand[h].next = "started" BY <1>7 DEF AskDirectly, Stands
  <2>2. hand'[h].next \in {"finish", "asking"}
    <3>1. CASE Judge(h, Verdict("failed", FALSE), "finish") BY <3>1, <1>a DEF Judge, Is
    <3>2. CASE GoTo(h, "asking") BY <3>2, <1>a DEF GoTo, Is
    <3> QED BY <1>7, <3>1, <3>2 DEF AskDirectly
  <2> QED BY <2>1, <2>2 DEF Setup, Brokering
<1>8. CASE DirectAnswer(h)
  <2>1. hand'[h].next \in {"done", "finish", "settle"}
    <3>1. CASE GoTo(h, "done") BY <3>1, <1>a DEF GoTo, Is
    <3>2. CASE \E v : Judge(h, v, "finish") BY <3>2, <1>a DEF Judge, Is
    <3>3. CASE \E v : hand' = [hand EXCEPT ![h] = Is("settle", NoFile, v)] BY <3>3, <1>a DEF Is
    <3> QED BY <1>8, <3>1, <3>2, <3>3 DEF DirectAnswer, End
  <2> QED BY <2>1 DEF Setup, Brokering
<1>9. CASE LookUpRun(h)
  BY <1>9, <1>a DEF LookUpRun, ReadAndGoTo, Is, pastVars, Setup, Brokering
<1>10. CASE Denied(h)
  BY <1>10, <1>a DEF Denied, GoTo, End, Is, pastVars, Setup, Brokering
<1>11. CASE recoverOrphanedScriptRun(h)
  BY <1>11, <1>a DEF recoverOrphanedScriptRun, GoTo, End, Continue, Is, pastVars, Setup, Brokering
<1>12. CASE finishFailure(h)
  <2>1. hand'[h].next \in {"done", "stop", "settle"}
    BY <1>12, <1>a DEF finishFailure, Continue, End, GoTo, ReadAndGoTo, Is
  <2> QED BY <2>1 DEF Setup, Brokering
<1>13. CASE Settle(h)
  BY <1>13, <1>a DEF Settle, GoTo, End, Continue, Is, pastVars, Setup, Brokering
<1>14. CASE Broker(h)
  BY <1>14, <1>a DEF Broker, TicketValid, MyTicket, GoTo, Is, Setup, Brokering
<1>15. CASE Invoke(h)
  BY <1>15, <1>a DEF Invoke, Stands, GoTo, Is, pastVars, Setup, Brokering
<1>16. CASE InvokeRefused(h)
  BY <1>16, <1>a DEF InvokeRefused, Stands, GoTo, Is, pastVars, Setup, Brokering
<1>17. CASE ReadBeforeDispatch(h)
  BY <1>17, <1>a DEF ReadBeforeDispatch, Stands, GoTo, ReadAndGoTo, Is, pastVars, Setup, Brokering
<1>18. CASE PersistDispatch(h)
  BY <1>18, <1>a DEF PersistDispatch, Stands, GoTo, Is, pastVars, Setup, Brokering
<1>19. CASE MakeCall(h)
  BY <1>19, <1>a DEF MakeCall, Stands, GoTo, Is, Setup, Brokering
<1>20. CASE CallAnswered(h)
  BY <1>20, <1>a DEF CallAnswered, Stands, GoTo, Is, pastVars, Setup, Brokering
<1>21. CASE CallFails(h)
  BY <1>21, <1>a DEF CallFails, GoTo, Is, pastVars, Setup, Brokering
<1>22. CASE finalizeWorker(h)
  BY <1>22, <1>a DEF finalizeWorker, GoTo, Judge, Is, pastVars, Setup, Brokering
<1>23. CASE failWorker(h)
  BY <1>23, <1>a DEF failWorker, GoTo, Judge, Is, pastVars, Setup, Brokering
<1>24. CASE CancelTicket(h)
  BY <1>24, <1>a DEF CancelTicket, Stands, ReadAndGoTo, Is, pastVars, Setup, Brokering
<1>25. CASE CancelRun(h)
  BY <1>25, <1>a DEF CancelRun, Stands, GoTo, End, Is, pastVars, Setup, Brokering
<1>26. CASE WriteFails(h)
  BY <1>26, <1>a DEF WriteFails, GoTo, End, Is, pastVars, Setup, Brokering
<1> QED BY <1>1, <1>2, <1>3, <1>4, <1>5, <1>6, <1>7, <1>8, <1>9, <1>10, <1>11, <1>12, <1>13, <1>14,
   <1>15, <1>16, <1>17, <1>18, <1>19, <1>20, <1>21, <1>22, <1>23, <1>24, <1>25,
   <1>26 DEF HandlerStep


\* Calls are made by the two steps that call, and the one call of a ticket stays asked for.
LEMMA CallsKept ==
  ASSUME TasksInv, NEW h \in Handlers, HandlerStep(h)
  PROVE  /\ \/ calls'[TaskOf[h]] = CallsOf(h)
            \/ /\ calls'[TaskOf[h]] = 1 /\ CallsOf(h) = 0 /\ runFile' = runFile
               /\ \/ hand[h].next = "calling"
                  \/ hand[h].next = "started" /\ KindOf(h) = "direct"
         /\ MyTicket(h).asked => ticket'[TaskOf[h]].asked
<1>a. /\ ticket \in [SiteTasks -> Tickets] /\ calls \in [SiteTasks -> Nat]
      /\ TaskOf[h] \in SiteTasks
  BY SiteTasksAssumption DEF TasksInv, SiteTasksTypeOK
<1>b. CallingOK(h) BY DEF TasksInv, CallInv
<1>c. Deactivated(h)[TaskOf[h]].asked = ticket[TaskOf[h]].asked
  BY <1>a, DeactivatedTicket DEF TasksInv
<1>1. CASE Admit(h)
  BY <1>1, <1>a, <1>b DEF Admit, Stands, GoTo, Is, pastVars, CallsOf, MyTicket, KindOf
<1>2. CASE SubmitAgain(h)
  BY <1>2, <1>a, <1>b DEF SubmitAgain, Stands, ReadAndGoTo, Is, pastVars, CallsOf, MyTicket, KindOf
<1>3. CASE RunTask(h)
  BY <1>3, <1>a, <1>b DEF RunTask, Stands, GoTo, Is, pastVars, CallsOf, MyTicket, KindOf
<1>4. CASE RefuseWorker(h)
  BY <1>4, <1>a, <1>b DEF RefuseWorker, Stands, Judge, Is, pastVars, CallsOf, MyTicket, KindOf
<1>5. CASE CreateTicket(h)
  BY <1>5, <1>a, <1>b DEF CreateTicket, Stands, GoTo, Is, pastVars, CallsOf, MyTicket, KindOf
<1>6. CASE HandTicket(h)
  BY <1>6, <1>a, <1>b DEF HandTicket, Stands, GoTo, End, Is, pastVars, CallsOf, MyTicket, KindOf,
     Deactivated
<1>7. CASE AskDirectly(h)
  <2>1. CallsOf(h) = 0 /\ KindOf(h) = "direct" /\ hand[h].next = "started"
    BY <1>7, <1>b DEF AskDirectly, Stands, Mine, KindOf, CallingOK
  <2>2. CASE calls' = calls
    BY <1>7, <2>2 DEF AskDirectly, CallsOf, MyTicket
  <2>3. CASE calls' = [calls EXCEPT ![TaskOf[h]] = @ + 1]
    BY <1>7, <1>a, <2>1, <2>3 DEF AskDirectly, CallsOf, MyTicket
  <2> QED BY <1>7, <2>2, <2>3 DEF AskDirectly
<1>8. CASE DirectAnswer(h)
  BY <1>8, <1>a, <1>b DEF DirectAnswer, Stands, GoTo, Judge, End, Is, pastVars, CallsOf, MyTicket,
     KindOf
<1>9. CASE LookUpRun(h)
  BY <1>9, <1>a, <1>b DEF LookUpRun, ReadAndGoTo, Is, pastVars, CallsOf, MyTicket, KindOf
<1>10. CASE Denied(h)
  BY <1>10, <1>a, <1>b DEF Denied, GoTo, End, Is, pastVars, CallsOf, MyTicket, KindOf
<1>11. CASE recoverOrphanedScriptRun(h)
  BY <1>11, <1>a, <1>b DEF recoverOrphanedScriptRun, GoTo, End, Continue, Is, pastVars, CallsOf,
     MyTicket, KindOf
<1>12. CASE finishFailure(h)
  <2>1. calls' = calls /\ (ticket' = ticket \/ ticket' = Deactivated(h))
    BY <1>12 DEF finishFailure, pastVars
  <2> QED BY <1>c, <2>1 DEF CallsOf, MyTicket
<1>13. CASE Settle(h)
  BY <1>13, <1>a, <1>b DEF Settle, GoTo, End, Continue, Is, pastVars, CallsOf, MyTicket, KindOf,
     Deactivated
<1>14. CASE Broker(h)
  BY <1>14, <1>a, <1>b DEF Broker, Stands, GoTo, Is, pastVars, CallsOf, MyTicket, KindOf
<1>15. CASE Invoke(h)
  BY <1>15, <1>a, <1>b DEF Invoke, Stands, GoTo, Is, pastVars, CallsOf, MyTicket, KindOf
<1>16. CASE InvokeRefused(h)
  BY <1>16, <1>a, <1>b DEF InvokeRefused, Stands, GoTo, Is, pastVars, CallsOf, MyTicket, KindOf
<1>17. CASE ReadBeforeDispatch(h)
  BY <1>17, <1>a, <1>b DEF ReadBeforeDispatch, Stands, GoTo, ReadAndGoTo, Is, pastVars, CallsOf,
     MyTicket, KindOf
<1>18. CASE PersistDispatch(h)
  BY <1>18, <1>a, <1>b DEF PersistDispatch, Stands, GoTo, Is, pastVars, CallsOf, MyTicket, KindOf
<1>19. CASE MakeCall(h)
  <2>1. CallsOf(h) = 0 /\ hand[h].next = "calling"
    BY <1>19, <1>b DEF MakeCall, Stands, CallingOK
  <2>2. calls'[TaskOf[h]] = 1 /\ runFile' = runFile /\ ticket' = ticket
    BY <1>19, <1>a, <2>1 DEF MakeCall, CallsOf
  <2> QED BY <2>1, <2>2 DEF MyTicket
<1>20. CASE CallAnswered(h)
  BY <1>20, <1>a, <1>b DEF CallAnswered, Stands, GoTo, Is, pastVars, CallsOf, MyTicket, KindOf
<1>21. CASE CallFails(h)
  BY <1>21, <1>a, <1>b DEF CallFails, GoTo, Is, pastVars, CallsOf, MyTicket, KindOf
<1>22. CASE finalizeWorker(h)
  <2>1. calls' = calls /\ (ticket' = ticket \/ ticket' = Deactivated(h))
    BY <1>22 DEF finalizeWorker, pastVars
  <2> QED BY <1>c, <2>1 DEF CallsOf, MyTicket
<1>23. CASE failWorker(h)
  <2>1. calls' = calls /\ (ticket' = ticket \/ ticket' = Deactivated(h))
    BY <1>23 DEF failWorker, pastVars
  <2> QED BY <1>c, <2>1 DEF CallsOf, MyTicket
<1>24. CASE CancelTicket(h)
  BY <1>24, <1>a, <1>b DEF CancelTicket, Stands, ReadAndGoTo, Is, pastVars, CallsOf, MyTicket,
     KindOf, Deactivated
<1>25. CASE CancelRun(h)
  BY <1>25, <1>a, <1>b DEF CancelRun, Stands, GoTo, End, Is, pastVars, CallsOf, MyTicket, KindOf
<1>26. CASE WriteFails(h)
  BY <1>26, <1>a, <1>b DEF WriteFails, GoTo, End, Is, pastVars, CallsOf, MyTicket, KindOf
<1> QED BY <1>1, <1>2, <1>3, <1>4, <1>5, <1>6, <1>7, <1>8, <1>9, <1>10, <1>11, <1>12, <1>13, <1>14,
   <1>15, <1>16, <1>17, <1>18, <1>19, <1>20, <1>21, <1>22, <1>23, <1>24, <1>25,
   <1>26 DEF HandlerStep


\* While a run is not settled its record does not forget that its call is made.
LEMMA DispatchedKept ==
  ASSUME TasksInv, NEW h \in Handlers, HandlerStep(h)
  PROVE  /\ KindOf(h) # "none" /\ Mine(h).dispatched /\ ~IsTerminal(runFile'[TaskOf[h]]) =>
              runFile'[TaskOf[h]].dispatched
         /\ hand[h].next = "dispatching" /\ hand'[h].next = "calling" => runFile'[TaskOf[h]].dispatched
<1>a. /\ FileOK(TaskOf[h]) /\ ReadOK(h) /\ CountOK(TaskOf[h]) /\ CallingOK(h)
      /\ TaskOf[h] \in SiteTasks
  BY SiteTasksAssumption DEF TasksInv, FileInv, CallInv
<1>b. /\ runFile \in [SiteTasks -> Files] /\ ticket \in [SiteTasks -> Tickets]
      /\ hand \in [Handlers -> Hands] /\ calls \in [SiteTasks -> Nat]
  BY DEF TasksInv, SiteTasksTypeOK
<1>c. /\ "running" \in Statuses /\ "cancelled" \in Statuses
      /\ hand[h].verdict.status \in Statuses
  BY <1>b, HandsTyped DEF Statuses, RunStatuses, TerminalStatuses
<1>1. CASE Admit(h)
  BY <1>1 DEF Admit, Stands, Mine, KindOf, NoFile
<1>2. CASE SubmitAgain(h)
  BY <1>2, <1>b DEF SubmitAgain, Stands, ReadAndGoTo, Is, pastVars, Mine
<1>3. CASE RunTask(h)
  <2>1. runFile'[TaskOf[h]].dispatched = Mine(h).dispatched
    <3>1. CASE runFile' = runFile BY <3>1 DEF Mine
    <3>2. CASE runFile' = [runFile EXCEPT ![TaskOf[h]].status = "running"]
      BY <1>a, <1>b, <3>2 DEF Mine
    <3> QED BY <1>3, <3>1, <3>2 DEF RunTask
  <2> QED BY <1>3, <2>1 DEF RunTask, Stands
<1>4. CASE RefuseWorker(h)
  BY <1>4, <1>b DEF RefuseWorker, Stands, Judge, Is, pastVars, Mine
<1>5. CASE CreateTicket(h)
  BY <1>5, <1>b DEF CreateTicket, Stands, GoTo, Is, pastVars, Mine
<1>6. CASE HandTicket(h)
  BY <1>6, <1>b DEF HandTicket, Stands, GoTo, End, Is, pastVars, Mine
<1>7. CASE AskDirectly(h)
  BY <1>7, <1>b DEF AskDirectly, Stands, GoTo, Judge, Is, Mine
<1>8. CASE DirectAnswer(h)
  BY <1>8, <1>b DEF DirectAnswer, Stands, GoTo, Judge, End, Is, pastVars, Mine
<1>9. CASE LookUpRun(h)
  BY <1>9, <1>b DEF LookUpRun, ReadAndGoTo, Is, pastVars, Mine
<1>10. CASE Denied(h)
  BY <1>10, <1>b DEF Denied, GoTo, End, Is, pastVars, Mine
<1>11. CASE recoverOrphanedScriptRun(h)
  BY <1>11, <1>b DEF recoverOrphanedScriptRun, GoTo, End, Continue, Is, pastVars, Mine
<1>12. CASE finishFailure(h)
  BY <1>12, <1>b DEF finishFailure, GoTo, ReadAndGoTo, End, Continue, Is, pastVars, Mine
<1>13. CASE Settle(h)
  <2>1. CASE runFile' = runFile BY <1>13, <2>1 DEF Settle, Mine
  <2>2. CASE MayTransition(Mine(h).status, hand[h].verdict.status)
    <3>1. Mine(h).status \in Occurring \ {"none"}
      BY <1>13, <1>a DEF Settle, ReadOK, FileOK, Mine, KindOf
    <3>2. hand[h].verdict.status \in {"failed", "unknown_outcome", "succeeded"}
      BY <1>a, <1>c, <2>2, <3>1, StatusMoves DEF ReadOK
    <3>3. runFile'[TaskOf[h]].status = hand[h].verdict.status
      BY <1>13, <1>a, <1>b, <2>2 DEF Settle
    <3> QED BY <1>13, <3>2, <3>3 DEF Settle, IsTerminal, TerminalStatuses
  <2> QED BY <1>13, <2>1, <2>2 DEF Settle
<1>14. CASE Broker(h)
  BY <1>14, <1>b DEF Broker, Stands, GoTo, Is, pastVars, Mine
<1>15. CASE Invoke(h)
  BY <1>15, <1>b DEF Invoke, Stands, GoTo, Is, pastVars, Mine
<1>16. CASE InvokeRefused(h)
  BY <1>16, <1>b DEF InvokeRefused, Stands, GoTo, Is, pastVars, Mine
<1>17. CASE ReadBeforeDispatch(h)
  BY <1>17, <1>b DEF ReadBeforeDispatch, Stands, GoTo, ReadAndGoTo, Is, pastVars, Mine
<1>18. CASE PersistDispatch(h)
  BY <1>18, <1>a, <1>b DEF PersistDispatch, Mine
<1>19. CASE MakeCall(h)
  BY <1>19 DEF MakeCall, Stands, Mine
<1>20. CASE CallAnswered(h)
  BY <1>20, <1>b DEF CallAnswered, Stands, GoTo, Is, pastVars, Mine
<1>21. CASE CallFails(h)
  BY <1>21, <1>b DEF CallFails, GoTo, Is, pastVars, Mine
<1>22. CASE finalizeWorker(h)
  BY <1>22, <1>b DEF finalizeWorker, GoTo, Judge, Is, pastVars, Mine
<1>23. CASE failWorker(h)
  BY <1>23, <1>b DEF failWorker, GoTo, Judge, Is, pastVars, Mine
<1>24. CASE CancelTicket(h)
  BY <1>24, <1>b DEF CancelTicket, Stands, ReadAndGoTo, Is, pastVars, Mine
<1>25. CASE CancelRun(h)
  <2>1. CASE IsTerminal(Mine(h))
    <3>1. IsTerminal(runFile'[TaskOf[h]])
      BY <2>1, FileKept DEF IsTerminal
    <3> QED BY <1>25, <3>1 DEF CancelRun, Stands
  <2>2. CASE ~IsTerminal(Mine(h))
    <3>1. ~IsTerminal(hand[h].seen) BY <1>a, <2>2 DEF ReadOK
    <3>2. CASE MayTransition(Mine(h).status, "cancelled")
      <4>1. runFile'[TaskOf[h]].status = "cancelled"
        BY <1>25, <1>a, <1>b, <3>1, <3>2 DEF CancelRun
      <4> QED BY <1>25, <4>1 DEF CancelRun, Stands, IsTerminal, TerminalStatuses
    <3>3. CASE ~MayTransition(Mine(h).status, "cancelled")
      <4>1. runFile'[TaskOf[h]].dispatched = Mine(h).dispatched
        BY <1>25, <1>a, <1>b, <3>1, <3>3 DEF CancelRun, Mine
      <4> QED BY <1>25, <4>1 DEF CancelRun, Stands
    <3> QED BY <3>2, <3>3
  <2> QED BY <2>1, <2>2
<1>26. CASE WriteFails(h)
  BY <1>26, <1>b DEF WriteFails, GoTo, End, Is, pastVars, Mine
<1> QED BY <1>1, <1>2, <1>3, <1>4, <1>5, <1>6, <1>7, <1>8, <1>9, <1>10, <1>11, <1>12, <1>13, <1>14,
   <1>15, <1>16, <1>17, <1>18, <1>19, <1>20, <1>21, <1>22, <1>23, <1>24, <1>25,
   <1>26 DEF HandlerStep


\* A run that was left, under a step of a handler that is about it.
LEMMA LeftThere ==
  ASSUME TasksInv, NEW h \in Handlers, HandlerStep(h)
  PROVE  TaskOf[h] \in interrupted => LeftOK(TaskOf[h])' /\ LeavesOK(h)'
<1>a. /\ FileOK(TaskOf[h]) /\ ReadOK(h) /\ CountOK(TaskOf[h]) /\ CallingOK(h)
      /\ TaskOf[h] \in SiteTasks
  BY SiteTasksAssumption DEF TasksInv, FileInv, CallInv
<1>b. /\ runFile \in [SiteTasks -> Files] /\ ticket \in [SiteTasks -> Tickets]
      /\ hand \in [Handlers -> Hands] /\ calls \in [SiteTasks -> Nat]
  BY DEF TasksInv, SiteTasksTypeOK
<1>c. /\ "running" \in Statuses /\ "cancelled" \in Statuses
      /\ hand[h].verdict.status \in Statuses
  BY <1>b, HandsTyped DEF Statuses, RunStatuses, TerminalStatuses
<1> SUFFICES ASSUME TaskOf[h] \in interrupted PROVE LeftOK(TaskOf[h])' /\ LeavesOK(h)'
  OBVIOUS
<1>l. LeftOK(TaskOf[h]) /\ LeavesOK(h)
  BY DEF TasksInv, LeftInv
<1>d. Deactivated(h)[TaskOf[h]].place \in {"none", "gone"}
  BY <1>a, DeactivatedTicket DEF TasksInv
<1>1. CASE Admit(h)
  BY <1>1, <1>l DEF Admit, Mine, NoFile, LeftOK
<1>2. CASE SubmitAgain(h)
  BY <1>2, <1>a, <1>b, <1>l DEF SubmitAgain, Stands, Mine, ReadAndGoTo, pastVars, KindOf, CallsOf,
     Is, LeftOK, LeavesOK, Setup, Brokering
<1>3. CASE RunTask(h)
  BY <1>3, <1>a, <1>b, <1>l DEF RunTask, Stands, Mine, GoTo, pastVars, KindOf, CallsOf, Is,
     NoVerdict, LeftOK, LeavesOK, Setup, Brokering
<1>4. CASE RefuseWorker(h)
  BY <1>4, <1>a, <1>b, <1>l DEF RefuseWorker, Stands, Mine, Judge, pastVars, KindOf, CallsOf, Is,
     Verdict, LeftOK, LeavesOK, Setup, Brokering
<1>5. CASE CreateTicket(h)
  BY <1>5, <1>a, <1>b, <1>l DEF CreateTicket, Stands, Mine, GoTo, pastVars, KindOf, CallsOf, Is,
     NoVerdict, LeftOK, LeavesOK, Setup, Brokering
<1>6. CASE HandTicket(h)
  BY <1>6, <1>a, <1>b, <1>l DEF HandTicket, Stands, Mine, GoTo, End, pastVars, KindOf, CallsOf, Is,
     NoVerdict, MyTicket, LeftOK, LeavesOK, Setup, Brokering
<1>7. CASE AskDirectly(h)
  BY <1>7, <1>a, <1>b, <1>l DEF AskDirectly, Stands, Mine, GoTo, Judge, KindOf, CallsOf, Is,
     NoVerdict, Verdict, LeftOK, LeavesOK, Setup, Brokering
<1>8. CASE DirectAnswer(h)
  BY <1>8, <1>a, <1>b, <1>l DEF DirectAnswer, Stands, Mine, GoTo, Judge, End, pastVars, KindOf,
     CallsOf, Is, NoVerdict, Verdict, LeftOK, LeavesOK, Setup, Brokering
<1>9. CASE LookUpRun(h)
  BY <1>9, <1>a, <1>b, <1>l DEF LookUpRun, Mine, ReadAndGoTo, pastVars, KindOf, CallsOf, Is,
     LeftOK, LeavesOK, Setup, Brokering
<1>10. CASE Denied(h)
  BY <1>10, <1>a, <1>b, <1>l DEF Denied, GoTo, End, pastVars, KindOf, CallsOf, Is, NoVerdict,
     LeftOK, LeavesOK, Setup, Brokering
<1>11. CASE recoverOrphanedScriptRun(h)
  <2>1. runFile' = runFile /\ calls' = calls /\ ticket' = ticket /\ hand[h].next = "recover"
    BY <1>11 DEF recoverOrphanedScriptRun, pastVars
  <2>2. CASE GoTo(h, "done") \/ GoTo(h, "stop")
    <3>1. hand'[h].next \in {"done", "stop"} BY <1>b, <2>2 DEF GoTo, Is
    <3> QED BY <1>l, <2>1, <3>1 DEF LeftOK, LeavesOK, KindOf, CallsOf, Setup, Brokering
  <2>3. CASE /\ hand[h].seen.kind \in Script
             /\ hand' = [hand EXCEPT ![h] = Is("finish", hand[h].seen,
                  Verdict(IF hand[h].seen.dispatched THEN "unknown_outcome" ELSE "failed",
                          hand[h].seen.dispatched))]
    <3>1. /\ KindOf(h) \in Script /\ KindOf(h) # "direct"
      BY <1>a, <2>1, <2>3 DEF ReadOK, Script
    <3>2. /\ hand'[h].next = "finish" /\ hand'[h].seen = hand[h].seen
          /\ hand'[h].verdict.dispatched = hand[h].seen.dispatched
          /\ hand[h].seen.dispatched => hand'[h].verdict.status = "unknown_outcome"
      BY <1>b, <2>3 DEF Is, Verdict
    <3> QED BY <1>l, <2>1, <3>1, <3>2 DEF LeftOK, LeavesOK, KindOf, CallsOf, Setup, Brokering
  <2> QED BY <1>11, <2>2, <2>3 DEF recoverOrphanedScriptRun, Continue, End
<1>12. CASE finishFailure(h)
  <2>1. /\ runFile' = runFile /\ calls' = calls /\ hand[h].next = "finish"
        /\ ticket' = ticket \/ ticket' = Deactivated(h)
    BY <1>12 DEF finishFailure, pastVars
  <2>2. LeftOK(TaskOf[h])' BY <1>a, <1>d, <1>l, <2>1 DEF LeftOK
  <2>3. CASE GoTo(h, "done") \/ GoTo(h, "stop")
    <3>1. hand'[h].next \in {"done", "stop"} BY <1>b, <2>3 DEF GoTo, Is
    <3> QED BY <1>l, <2>1, <2>2, <3>1 DEF LeavesOK, KindOf, CallsOf, Setup, Brokering
  <2>4. CASE ReadAndGoTo(h, "settle")
    <3>1. /\ hand'[h].next = "settle" /\ hand'[h].seen = Mine(h)
          /\ hand'[h].verdict = hand[h].verdict
      BY <1>b, <2>4 DEF ReadAndGoTo, Is
    <3> QED BY <1>l, <2>1, <2>2, <3>1 DEF LeftOK, LeavesOK, KindOf, CallsOf, Mine, Setup, Brokering
  <2> QED BY <1>12, <2>3, <2>4 DEF finishFailure, Continue, End
<1>13. CASE Settle(h)
  <2>1. /\ calls' = calls /\ hand[h].next = "settle" /\ KindOf(h) # "direct"
        /\ ticket' = ticket \/ ticket' = Deactivated(h)
    BY <1>13, <1>l DEF Settle, LeavesOK, pastVars
  <2>2. \/ runFile' = runFile
        \/ /\ runFile'[TaskOf[h]].kind = KindOf(h)
           /\ runFile'[TaskOf[h]].status = hand[h].verdict.status
           /\ runFile'[TaskOf[h]].dispatched = hand[h].verdict.dispatched
    BY <1>13, <1>a, <1>b DEF Settle, KindOf
  <2>3. hand'[h].next \in {"done", "stop"}
    BY <1>13, <1>b DEF Settle, Continue, End, GoTo, Is
  <2>4. LeavesOK(h)' BY <2>3 DEF LeavesOK, Setup, Brokering
  <2>5. LeftOK(TaskOf[h])'
    BY <1>a, <1>d, <1>l, <2>1, <2>2 DEF LeftOK, LeavesOK, KindOf, CallsOf
  <2> QED BY <2>4, <2>5
<1>14. CASE Broker(h)
  BY <1>14, <1>a, <1>b, <1>l DEF Broker, Stands, GoTo, pastVars, KindOf, CallsOf, Is, NoVerdict,
     MyTicket, TicketValid, LeftOK, LeavesOK, Setup, Brokering
<1>15. CASE Invoke(h)
  BY <1>15, <1>a, <1>b, <1>l DEF Invoke, Stands, Mine, GoTo, pastVars, KindOf, CallsOf, Is,
     NoVerdict, MyTicket, LeftOK, LeavesOK, Setup, Brokering
<1>16. CASE InvokeRefused(h)
  BY <1>16, <1>a, <1>b, <1>l DEF InvokeRefused, Stands, GoTo, pastVars, KindOf, CallsOf, Is,
     NoVerdict, LeftOK, LeavesOK, Setup, Brokering
<1>17. CASE ReadBeforeDispatch(h)
  BY <1>17, <1>a, <1>b, <1>l DEF ReadBeforeDispatch, Stands, Mine, GoTo, ReadAndGoTo, pastVars,
     KindOf, CallsOf, Is, NoVerdict, TicketValid, LeftOK, LeavesOK, Setup, Brokering
<1>18. CASE PersistDispatch(h)
  BY <1>18, <1>a, <1>b, <1>l DEF PersistDispatch, Stands, GoTo, pastVars, KindOf, CallsOf, Is,
     NoVerdict, LeftOK, LeavesOK, Setup, Brokering
<1>19. CASE MakeCall(h)
  BY <1>19, <1>a, <1>b, <1>l DEF MakeCall, Stands, Mine, GoTo, KindOf, CallsOf, Is, NoVerdict,
     MyTicket, LeftOK, LeavesOK, Setup, Brokering
<1>20. CASE CallAnswered(h)
  BY <1>20, <1>a, <1>b, <1>l DEF CallAnswered, Stands, Mine, GoTo, pastVars, KindOf, CallsOf, Is,
     NoVerdict, LeftOK, LeavesOK, Setup, Brokering
<1>21. CASE CallFails(h)
  BY <1>21, <1>a, <1>b, <1>l DEF CallFails, Mine, GoTo, pastVars, KindOf, CallsOf, Is, NoVerdict,
     LeftOK, LeavesOK, Setup, Brokering
<1>22. CASE finalizeWorker(h)
  BY <1>22, <1>l DEF finalizeWorker, TicketValid, Due, MyTicket, LeftOK
<1>23. CASE failWorker(h)
  BY <1>23, <1>l DEF failWorker, Due, MyTicket, LeftOK
<1>24. CASE CancelTicket(h)
  <2>1. /\ runFile' = runFile /\ calls' = calls /\ ticket' = Deactivated(h)
        /\ hand'[h].next = "cancel" /\ hand'[h].seen = Mine(h)
    BY <1>24, <1>b DEF CancelTicket, ReadAndGoTo, Is, pastVars
  <2> QED BY <1>a, <1>d, <1>l, <2>1 DEF LeftOK, LeavesOK, KindOf, CallsOf, Mine, Setup, Brokering
<1>25. CASE CancelRun(h)
  BY <1>25, <1>a, <1>b, <1>l DEF CancelRun, Stands, Mine, GoTo, End, pastVars, KindOf, CallsOf, Is,
     NoVerdict, LeftOK, LeavesOK, Setup, Brokering
<1>26. CASE WriteFails(h)
  BY <1>26, <1>a, <1>b, <1>l DEF WriteFails, Mine, GoTo, End, pastVars, KindOf, CallsOf, Is,
     NoVerdict, LeftOK, LeavesOK, Setup, Brokering
<1> QED BY <1>1, <1>2, <1>3, <1>4, <1>5, <1>6, <1>7, <1>8, <1>9, <1>10, <1>11, <1>12, <1>13, <1>14,
   <1>15, <1>16, <1>17, <1>18, <1>19, <1>20, <1>21, <1>22, <1>23, <1>24, <1>25,
   <1>26 DEF HandlerStep


\* The parts of the invariant, under a step of a handler: what the lemmas say of
\* the run that it is about, and the others that are about that run.
LEMMA HandlerStepInv ==
  ASSUME TasksInv, SiteTasksTypeOK', NEW h \in Handlers, HandlerStep(h)
  PROVE  TasksInv'
<1>1. /\ \A g \in Handlers : g # h => hand'[g] = hand[g]
      /\ \A t \in SiteTasks : t # TaskOf[h] =>
           runFile'[t] = runFile[t] /\ ticket'[t] = ticket[t] /\ calls'[t] = calls[t]
      /\ interrupted' = interrupted
  BY Elsewhere DEF TasksInv
<1>2. /\ \A t \in SiteTasks : FileOK(t) /\ CountOK(t) /\ DispatchOK(t)
      /\ \A g \in Handlers : ReadOK(g) /\ CallingOK(g)
  BY DEF TasksInv, FileInv, CallInv, DispatchInv
<1>3. TaskOf \in [Handlers -> SiteTasks] BY SiteTasksAssumption
<1>4. /\ runFile'[TaskOf[h]].kind = KindOf(h) \/ KindOf(h) = "none"
      /\ IsTerminal(Mine(h)) => runFile'[TaskOf[h]].status = Mine(h).status
  BY FileKept
<1>5. /\ \/ calls'[TaskOf[h]] = CallsOf(h)
         \/ /\ calls'[TaskOf[h]] = 1 /\ CallsOf(h) = 0 /\ runFile' = runFile
            /\ \/ hand[h].next = "calling"
               \/ hand[h].next = "started" /\ KindOf(h) = "direct"
      /\ MyTicket(h).asked => ticket'[TaskOf[h]].asked
  BY CallsKept
<1>6. FileInv'
  <2>1. ASSUME NEW t \in SiteTasks PROVE FileOK(t)'
    <3>1. CASE t = TaskOf[h] BY <3>1, FileThere
    <3>2. CASE t # TaskOf[h] BY <1>1, <1>2, <3>2 DEF FileOK
    <3> QED BY <3>1, <3>2
  <2>2. ASSUME NEW g \in Handlers PROVE ReadOK(g)'
    <3>1. CASE g = h BY <3>1, FileThere
    <3>2. CASE g # h /\ TaskOf[g] # TaskOf[h]
      BY <1>1, <1>2, <1>3, <3>2 DEF ReadOK, KindOf, Mine
    <3>3. CASE g # h /\ TaskOf[g] = TaskOf[h]
      <4>1. hand'[g] = hand[g] /\ ReadOK(g) BY <1>1, <1>2, <3>3
      <4>2. IsTerminal(hand[g].seen) => IsTerminal(runFile'[TaskOf[g]])
        BY <1>4, <3>3, <4>1 DEF ReadOK, Mine, IsTerminal
      <4>3. KindOf(g) = "none" => hand[g].next \in {"start", "done"}
        BY <4>1 DEF ReadOK
      <4>4. KindOf(g) # "none" => runFile'[TaskOf[g]].kind = KindOf(g)
        BY <1>4, <3>3 DEF KindOf
      <4> QED BY <4>1, <4>2, <4>3, <4>4 DEF ReadOK, KindOf, Mine
    <3> QED BY <3>1, <3>2, <3>3
  <2> QED BY <2>1, <2>2 DEF FileInv
<1>7. AloneInv'
  <2>1. /\ hand'[h].next \in Setup => hand[h].next \in Setup \/ KindOf(h) = "none"
        /\ hand'[h].next \in Brokering => hand[h].next \in Brokering \/ ~MyTicket(h).asked
    BY Enters
  <2>2. ASSUME NEW g \in Handlers, g # h, TaskOf[g] = TaskOf[h]
        PROVE  /\ ~(hand'[g].next \in Setup /\ hand'[h].next \in Setup)
               /\ ~(hand'[g].next \in Brokering /\ hand'[h].next \in Brokering)
    <3>1. /\ hand'[g] = hand[g] BY <1>1, <2>2
    <3>2. hand[g].next \in Setup => KindOf(h) # "none" /\ hand[h].next \notin Setup
      BY <1>2, <2>2 DEF TasksInv, AloneInv, ReadOK, KindOf, Setup
    <3>3. hand[g].next \in Brokering => MyTicket(h).asked /\ hand[h].next \notin Brokering
      BY <1>2, <2>2 DEF TasksInv, AloneInv, CallingOK, MyTicket
    <3> QED BY <2>1, <3>1, <3>2, <3>3
  <2>3. ASSUME NEW f \in Handlers, NEW g \in Handlers, TaskOf[f] = TaskOf[g]
        PROVE  /\ hand'[f].next \in Setup /\ hand'[g].next \in Setup => f = g
               /\ hand'[f].next \in Brokering /\ hand'[g].next \in Brokering => f = g
    <3>1. CASE f = h \/ g = h BY <2>2, <2>3, <3>1
    <3>2. CASE f # h /\ g # h BY <1>1, <2>3, <3>2 DEF TasksInv, AloneInv
    <3> QED BY <3>1, <3>2
  <2> QED BY <2>3 DEF AloneInv
<1>8. CallInv'
  <2>1. ASSUME NEW t \in SiteTasks PROVE CountOK(t)'
    <3>1. CASE t = TaskOf[h] BY <3>1, CallThere
    <3>2. CASE t # TaskOf[h] BY <1>1, <1>2, <3>2 DEF CountOK
    <3> QED BY <3>1, <3>2
  <2>2. ASSUME NEW g \in Handlers PROVE CallingOK(g)'
    <3>1. CASE g = h BY <3>1, CallThere
    <3>2. CASE g # h /\ TaskOf[g] # TaskOf[h]
      BY <1>1, <1>2, <1>3, <3>2 DEF CallingOK, KindOf, MyTicket, CallsOf
    <3>3. CASE g # h /\ TaskOf[g] = TaskOf[h]
      <4>1. hand'[g] = hand[g] /\ ReadOK(g) /\ CallingOK(g) BY <1>1, <1>2, <3>3
      <4>2. CASE KindOf(g) = "none"
        <5>1. hand[g].next \in {"start", "done"} /\ CallsOf(g) = 0
          BY <1>2, <1>3, <4>1, <4>2 DEF ReadOK, FileOK, KindOf, CallsOf
        <5>2. hand[g].verdict.status # "succeeded" BY <4>1, <5>1 DEF CallingOK
        <5> QED BY <4>1, <5>1, <5>2 DEF CallingOK, Brokering
      <4>3. CASE KindOf(g) # "none" /\ CallsOf(g)' = CallsOf(g)
        <5>1. KindOf(g)' = KindOf(g) BY <1>4, <3>3, <4>3 DEF KindOf
        <5>2. MyTicket(g).asked => MyTicket(g).asked' BY <1>5, <3>3 DEF MyTicket
        <5> QED BY <4>1, <4>3, <5>1, <5>2 DEF CallingOK
      <4>4. CASE CallsOf(g)' # CallsOf(g)
        <5>1. /\ CallsOf(g)' = 1 /\ CallsOf(g) = 0 /\ runFile' = runFile
              /\ \/ hand[h].next = "calling"
                 \/ hand[h].next = "started" /\ KindOf(h) = "direct"
          BY <1>5, <3>3, <4>4 DEF CallsOf
        <5>2. hand[h].next = "calling" => KindOf(g) \in Script /\ hand[g].next \notin Brokering
          BY <1>2, <3>3 DEF TasksInv, AloneInv, CallingOK, KindOf, Brokering
        <5>3. hand[h].next = "started" => hand[g].next \notin Setup
          BY <3>3 DEF TasksInv, AloneInv, Setup
        <5>4. KindOf(g)' = KindOf(g) /\ KindOf(g) = KindOf(h) BY <3>3, <5>1 DEF KindOf
        <5>5. MyTicket(g).asked => MyTicket(g).asked' BY <1>5, <3>3 DEF MyTicket
        <5> QED BY <4>1, <5>1, <5>2, <5>3, <5>4, <5>5 DEF CallingOK, Setup, Brokering, Script
      <4> QED BY <4>2, <4>3, <4>4
    <3> QED BY <3>1, <3>2, <3>3
  <2> QED BY <2>1, <2>2 DEF CallInv
<1>9. DispatchInv'
  <2> SUFFICES ASSUME NEW t \in SiteTasks, runFile'[t].kind \in Script, ~IsTerminal(runFile'[t])
               PROVE  /\ calls'[t] = 1 => runFile'[t].dispatched
                      /\ \A g \in Handlers : TaskOf[g] = t /\ hand'[g].next = "calling" =>
                           runFile'[t].dispatched
    BY DEF DispatchInv, DispatchOK, IsTerminal
  <2>1. CASE t # TaskOf[h]
    <3>1. runFile'[t] = runFile[t] /\ calls'[t] = calls[t] BY <1>1, <2>1
    <3>2. \A g \in Handlers : TaskOf[g] = t => hand'[g] = hand[g] BY <1>1, <2>1
    <3> QED BY <1>2, <3>1, <3>2 DEF DispatchOK
  <2>2. CASE t = TaskOf[h]
    <3>1. /\ KindOf(h) # "none" /\ Mine(h).dispatched => runFile'[t].dispatched
          /\ hand[h].next = "dispatching" /\ hand'[h].next = "calling" => runFile'[t].dispatched
      BY <2>2, DispatchedKept
    <3>2. ~IsTerminal(Mine(h)) BY <1>4, <2>2 DEF IsTerminal
    <3>3. CASE KindOf(h) = "none"
      <4>1. calls'[t] = 0
        BY <1>2, <1>3, <1>5, <2>2, <3>3 DEF FileOK, ReadOK, KindOf, CallsOf
      <4>2. \A g \in Handlers : TaskOf[g] = t => hand[g].next \in {"start", "done"}
        BY <1>2, <2>2, <3>3 DEF ReadOK, KindOf
      <4>3. \A g \in Handlers : TaskOf[g] = t => hand'[g].next # "calling"
        BY <1>1, <2>2, <4>2, Enters
      <4> QED BY <4>1, <4>3
    <3>4. CASE KindOf(h) # "none"
      <4>1. KindOf(h) \in Script BY <1>4, <2>2, <3>4
      <4>2. /\ CallsOf(h) = 1 => Mine(h).dispatched
            /\ \A g \in Handlers : TaskOf[g] = t /\ hand[g].next = "calling" => Mine(h).dispatched
        BY <1>2, <2>2, <3>2, <4>1 DEF DispatchOK, KindOf, CallsOf, Mine
      <4>3. calls'[t] = 1 => runFile'[t].dispatched
        BY <1>3, <1>5, <2>2, <3>1, <3>4, <4>1, <4>2 DEF Script
      <4>4. ASSUME NEW g \in Handlers, TaskOf[g] = t, hand'[g].next = "calling"
            PROVE  runFile'[t].dispatched
        BY <1>1, <3>1, <3>4, <4>2, <4>4, Enters
      <4> QED BY <4>3, <4>4
    <3> QED BY <3>3, <3>4
  <2> QED BY <2>1, <2>2
<1>10. LeftInv'
  <2> SUFFICES ASSUME NEW t \in interrupted
               PROVE  LeftOK(t)' /\ \A g \in Handlers : TaskOf[g] = t => LeavesOK(g)'
    BY <1>1 DEF LeftInv
  <2>0. t \in SiteTasks /\ LeftOK(t) /\ \A g \in Handlers : TaskOf[g] = t => LeavesOK(g)
    BY DEF TasksInv, LeftInv, SiteTasksTypeOK
  <2>1. CASE t # TaskOf[h]
    <3>1. runFile'[t] = runFile[t] /\ ticket'[t] = ticket[t] /\ calls'[t] = calls[t]
      BY <1>1, <2>0, <2>1
    <3>2. \A g \in Handlers : TaskOf[g] = t => hand'[g] = hand[g] BY <1>1, <2>1
    <3> QED BY <2>0, <3>1, <3>2 DEF LeftOK, LeavesOK, KindOf, CallsOf
  <2>2. CASE t = TaskOf[h]
    <3>1. LeftOK(t)' /\ LeavesOK(h)' BY <2>2, LeftThere
    <3>2. runFile'[t].kind = runFile[t].kind BY <1>4, <2>0, <2>2 DEF KindOf, LeftOK
    <3>3. calls'[t] = calls[t]
      BY <1>5, <2>0, <2>2 DEF LeavesOK, CallsOf, Setup, Brokering
    <3>4. ASSUME NEW g \in Handlers, TaskOf[g] = t, g # h PROVE LeavesOK(g)'
      <4>1. hand'[g] = hand[g] /\ LeavesOK(g) BY <1>1, <2>0, <3>4
      <4> QED BY <3>2, <3>3, <3>4, <4>1 DEF LeavesOK, KindOf, CallsOf
    <3> QED BY <3>1, <3>4
  <2> QED BY <2>1, <2>2
<1> QED BY <1>6, <1>7, <1>8, <1>9, <1>10 DEF TasksInv

\* The steps of the worker and of time.
LEMMA TaskStepInv ==
  ASSUME TasksInv, SiteTasksTypeOK', NEW u \in SiteTasks, TaskStep(u)
  PROVE  TasksInv'
<1>1. runFile' = runFile /\ hand' = hand /\ calls' = calls /\ interrupted' = interrupted
  BY DEF TaskStep, workerStarted, WriteOutput, DeadlinePasses, pastVars
<1>2. \A t \in SiteTasks :
        /\ ticket'[t].place = ticket[t].place /\ ticket'[t].asked = ticket[t].asked
        /\ ticket'[t].answered = ticket[t].answered
  <2>1. ticket \in [SiteTasks -> Tickets] BY DEF TasksInv, SiteTasksTypeOK
  <2>2. CASE workerStarted(u) BY <2>1, <2>2 DEF workerStarted, Tickets
  <2>3. CASE WriteOutput(u) BY <2>1, <2>3 DEF WriteOutput, Tickets
  <2>4. CASE DeadlinePasses(u) BY <2>4 DEF DeadlinePasses
  <2> QED BY <2>2, <2>3, <2>4 DEF TaskStep
<1>3. TaskOf \in [Handlers -> SiteTasks] BY SiteTasksAssumption
<1>4. FileInv' BY <1>1, <1>2 DEF TasksInv, FileInv, FileOK, ReadOK, KindOf, Mine
<1>5. AloneInv' BY <1>1 DEF TasksInv, AloneInv
<1>6. CallInv'
  BY <1>1, <1>2, <1>3 DEF TasksInv, CallInv, CountOK, CallingOK, KindOf, CallsOf, MyTicket
<1>7. DispatchInv' BY <1>1 DEF TasksInv, DispatchInv, DispatchOK
<1>8. LeftInv'
  BY <1>1, <1>2 DEF TasksInv, LeftInv, LeftOK, LeavesOK, KindOf, CallsOf, SiteTasksTypeOK
<1> QED BY <1>4, <1>5, <1>6, <1>7, <1>8 DEF TasksInv

\* The death of the Core: the runs it leaves have their calls in their records.
LEMMA CoreDiesInv ==
  ASSUME TasksInv, SiteTasksTypeOK', CoreDies
  PROVE  TasksInv'
<1>1. /\ runFile' = runFile /\ calls' = calls
      /\ interrupted' = interrupted \cup {t \in SiteTasks : runFile[t].status \in {"admitted", "running"}}
  BY DEF CoreDies
<1>2. TaskOf \in [Handlers -> SiteTasks] /\ runFile \in [SiteTasks -> Files]
      /\ ticket \in [SiteTasks -> Tickets]
  BY SiteTasksAssumption DEF TasksInv, SiteTasksTypeOK
<1>3. ASSUME NEW h \in Handlers
      PROVE  \/ hand'[h] = hand[h] /\ hand[h].next = "start"
             \/ /\ hand'[h].next = "done" /\ ~IsTerminal(hand'[h].seen)
                /\ hand'[h].verdict.status = "none"
  BY DEF CoreDies, Is, NoFile, NoVerdict, IsTerminal, TerminalStatuses
<1>4. ASSUME NEW t \in SiteTasks
      PROVE  /\ ticket'[t].asked = ticket[t].asked /\ ticket'[t].answered = ticket[t].answered
             /\ ticket'[t].place = IF ticket[t].place = "none" THEN "none" ELSE "gone"
  BY <1>2 DEF CoreDies, Tickets
<1>5. FileInv'
  <2>1. \A t \in SiteTasks : FileOK(t)' BY <1>1, <1>4 DEF TasksInv, FileInv, FileOK
  <2>2. ASSUME NEW h \in Handlers PROVE ReadOK(h)'
    BY <1>1, <1>3 DEF TasksInv, FileInv, ReadOK, KindOf, Mine
  <2> QED BY <2>1, <2>2 DEF FileInv
<1>6. AloneInv' BY <1>3 DEF AloneInv, Setup, Brokering
<1>7. CallInv'
  <2>1. \A t \in SiteTasks : CountOK(t)' BY <1>1, <1>4 DEF TasksInv, CallInv, CountOK
  <2>2. ASSUME NEW h \in Handlers PROVE CallingOK(h)'
    BY <1>1, <1>3 DEF TasksInv, CallInv, CallingOK, KindOf, CallsOf, Brokering
  <2> QED BY <2>1, <2>2 DEF CallInv
<1>8. DispatchInv'
  BY <1>1, <1>3 DEF TasksInv, DispatchInv, DispatchOK, IsTerminal
<1>9. LeftInv'
  <2> SUFFICES ASSUME NEW t \in SiteTasks, t \in interrupted'
               PROVE  LeftOK(t)' /\ \A h \in Handlers : TaskOf[h] = t => LeavesOK(h)'
    BY <1>1 DEF LeftInv, TasksInv, SiteTasksTypeOK
  <2>1. \A h \in Handlers : LeavesOK(h)'
    BY <1>3 DEF LeavesOK, Setup, Brokering
  <2>2. CASE t \in interrupted
    <3>1. LeftOK(t) BY <2>2 DEF TasksInv, LeftInv
    <3> QED BY <1>1, <1>4, <2>1, <3>1 DEF LeftOK
  <2>3. CASE runFile[t].status \in {"admitted", "running"}
    <3>1. /\ runFile[t].kind # "none"
      BY <2>3 DEF TasksInv, FileInv, FileOK, NoFile
    <3>2. runFile[t].kind \in Script /\ calls[t] = 1 => runFile[t].dispatched
      BY <2>3 DEF TasksInv, DispatchInv, DispatchOK, IsTerminal, TerminalStatuses
    <3> QED BY <1>1, <1>4, <2>1, <2>3, <3>1, <3>2 DEF LeftOK
  <2> QED BY <1>1, <2>2, <2>3
<1> QED BY <1>5, <1>6, <1>7, <1>8, <1>9 DEF TasksInv

\* The invariant holds in every state of every behaviour.
THEOREM TasksInvariance == SiteTasksSpec => []TasksInv
<1>1. SiteTasksInit => TasksInv
  <2> SUFFICES ASSUME SiteTasksInit PROVE TasksInv
    OBVIOUS
  <2>1. SiteTasksTypeOK
    <3>1. hand \in [Handlers -> Hands]
      BY HandsTyped, FilesTyped DEF SiteTasksInit, Nexts
    <3>2. NoTicket \in Tickets BY DEF NoTicket, Tickets
    <3> QED BY <3>1, <3>2, FilesTyped, SiteTasksAssumption DEF SiteTasksInit, SiteTasksTypeOK
  <2>2. \A h \in Handlers :
          /\ hand[h].next = "start" /\ ~IsTerminal(hand[h].seen)
          /\ hand[h].verdict.status = "none"
    BY DEF SiteTasksInit, Is, NoFile, NoVerdict, IsTerminal, TerminalStatuses
  <2>3. TaskOf \in [Handlers -> SiteTasks] BY SiteTasksAssumption
  <2>4. FileInv
    BY <2>2, <2>3 DEF SiteTasksInit, FileInv, FileOK, ReadOK, NoFile, NoTicket, Occurring
  <2>5. AloneInv BY <2>2 DEF AloneInv, Setup, Brokering
  <2>6. CallInv
    BY <2>2, <2>3 DEF SiteTasksInit, CallInv, CountOK, CallingOK, NoFile, NoTicket, Brokering
  <2>7. DispatchInv BY <2>2 DEF SiteTasksInit, DispatchInv, DispatchOK, NoFile, Script
  <2>8. LeftInv BY DEF SiteTasksInit, LeftInv
  <2> QED BY <2>1, <2>4, <2>5, <2>6, <2>7, <2>8 DEF TasksInv
<1>2. TasksInv /\ [SiteTasksNext]_taskVars => TasksInv'
  <2> SUFFICES ASSUME TasksInv, [SiteTasksNext]_taskVars PROVE TasksInv'
    OBVIOUS
  <2>1. SiteTasksTypeOK' BY TasksTyped DEF TasksInv
  <2>2. CASE \E h \in Handlers : HandlerStep(h) BY <2>1, <2>2, HandlerStepInv
  <2>3. CASE \E t \in SiteTasks : TaskStep(t) BY <2>1, <2>3, TaskStepInv
  <2>4. CASE CoreDies BY <2>1, <2>4, CoreDiesInv
  <2>5. CASE UNCHANGED taskVars
    BY <2>1, <2>5 DEF taskVars, TasksInv, FileInv, FileOK, ReadOK, AloneInv, CallInv, CountOK,
       CallingOK, DispatchInv, DispatchOK, LeftInv, LeftOK, LeavesOK, KindOf, CallsOf, Mine,
       MyTicket
  <2> QED BY <2>2, <2>3, <2>4, <2>5 DEF SiteTasksNext
<1> QED BY <1>1, <1>2, PTL DEF SiteTasksSpec

\* Type correctness.
THEOREM SiteTasksTypes == SiteTasksSpec => []SiteTasksTypeOK
<1>1. TasksInv => SiteTasksTypeOK BY DEF TasksInv
<1> QED BY <1>1, TasksInvariance, PTL

\* A run makes its call at most once, a success has made it, and a run that a
\* restart finds and settles as failed has made none (managed-task.ts:467, 530).
THEOREM CallsAreAccounted == SiteTasksSpec => []CallsAccounted
<1>1. TasksInv => CallsAccounted
  <2> SUFFICES ASSUME TasksInv, NEW t \in SiteTasks
               PROVE  /\ calls[t] <= 1
                      /\ runFile[t].status = "succeeded" => calls[t] = 1
                      /\ t \in interrupted /\ runFile[t].status = "failed" => calls[t] = 0
    BY DEF CallsAccounted
  <2>1. /\ calls[t] \in {0, 1}
        /\ runFile[t].status = "succeeded" => calls[t] = 1
    BY DEF TasksInv, CallInv, CountOK
  <2>2. runFile[t].kind \in Script \cup {"none", "direct"}
    <3>1. runFile[t] \in Files BY DEF TasksInv, SiteTasksTypeOK
    <3> QED BY <3>1 DEF Files
  <2>3. t \in interrupted /\ runFile[t].status = "failed" => calls[t] # 1
    BY <2>2 DEF TasksInv, LeftInv, LeftOK
  <2> QED BY <2>1, <2>3
<1> QED BY <1>1, TasksInvariance, PTL
=============================================================================
