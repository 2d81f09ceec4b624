--------------------------- MODULE OwnerRefChecks ---------------------------
(***************************************************************************)
(* The bounded checks of owner references in task-thread-store.ts: at most *)
(* Slots calls to the owner at once, the others in a queue, all with a     *)
(* deadline.  A call the caller no longer waits for keeps its slot until   *)
(* the owner answers, which it may never do.                               *)
(***************************************************************************)
EXTENDS Naturals, Sequences, FiniteSets, SequencesExt

CONSTANTS Checks, Slots

ASSUME SlotsAssumption == Slots \in Nat \ {0}

VARIABLES
  check,     \* new, waiting, granted, asking, detached, timedOut or answered
  waiters,   \* ownerRefCheckWaiters
  slotsUsed, \* activeOwnerRefChecks
  late       \* the checks whose deadline has passed

checkVars == <<check, waiters, slotsUsed, late>>

ChecksInit ==
  /\ check = [c \in Checks |-> "new"]
  /\ waiters = <<>>
  /\ slotsUsed = 0
  /\ late = {}

DeadlinePasses(c) ==
  /\ check[c] \in {"new", "waiting", "granted", "asking"}
  /\ c \notin late
  /\ late' = late \cup {c}
  /\ UNCHANGED <<check, waiters, slotsUsed>>

\* acquireOwnerRefCheck
Acquire(c) ==
  /\ check[c] = "new"
  /\ \/ /\ c \in late
        /\ check' = [check EXCEPT ![c] = "timedOut"]
        /\ UNCHANGED <<waiters, slotsUsed>>
     \/ /\ c \notin late /\ slotsUsed < Slots
        /\ check' = [check EXCEPT ![c] = "granted"]
        /\ slotsUsed' = slotsUsed + 1
        /\ UNCHANGED waiters
     \/ /\ c \notin late /\ slotsUsed >= Slots
        /\ check' = [check EXCEPT ![c] = "waiting"]
        /\ waiters' = Append(waiters, c)
        /\ UNCHANGED slotsUsed
  /\ UNCHANGED late

\* Slip: the timer of a waiter is only set when it gets its slot.
WaiterNeverTimesOut(c) == FALSE /\ UNCHANGED checkVars

\* The timer of a waiter that is still queued.
WaiterTimesOut(c) ==
  /\ check[c] = "waiting"
  /\ c \in late
  /\ check' = [check EXCEPT ![c] = "timedOut"]
  /\ \E i \in DOMAIN waiters : waiters[i] = c /\ waiters' = RemoveAt(waiters, i)
  /\ UNCHANGED <<slotsUsed, late>>

\* releaseOwnerRefCheck by check c, which ends as "result": the waiters at the
\* head of the queue that are late are answered, the next one gets the slot.
Release(c, result) == \E n \in 0..Len(waiters) :
  LET next == {waiters[i] : i \in {n + 1} \cap DOMAIN waiters} IN
  /\ \A i \in 1..n : waiters[i] \in late
  /\ next \cap late = {}
  /\ check' = [x \in Checks |->
       IF x = c THEN result
       ELSE IF \E i \in 1..n : waiters[i] = x THEN "timedOut"
       ELSE IF x \in next THEN "granted"
       ELSE check[x]]
  /\ waiters' = SubSeq(waiters, n + 2, Len(waiters))
  /\ slotsUsed' = IF next = {} THEN slotsUsed - 1 ELSE slotsUsed
  /\ UNCHANGED late

\* Slip: a check that finds its time over returns without its slot.
GrantedWithoutRelease(c) ==
  /\ check[c] = "granted"
  /\ check' = [check EXCEPT ![c] = IF c \in late THEN "timedOut" ELSE "asking"]
  /\ UNCHANGED <<waiters, slotsUsed, late>>

\* checkOwnerRef after the await of its slot: the owner is asked if there is time.
Granted(c) ==
  /\ check[c] = "granted"
  /\ \/ c \in late /\ Release(c, "timedOut")
     \/ /\ c \notin late
        /\ check' = [check EXCEPT ![c] = "asking"]
        /\ UNCHANGED <<waiters, slotsUsed, late>>

\* The race is lost: the caller goes on, the call does not end.
CallerTimesOut(c) ==
  /\ check[c] = "asking"
  /\ c \in late
  /\ check' = [check EXCEPT ![c] = "detached"]
  /\ UNCHANGED <<waiters, slotsUsed, late>>

OwnerAnswers(c) ==
  \/ check[c] = "asking" /\ Release(c, "answered")
  \/ check[c] = "detached" /\ Release(c, "timedOut")

ChecksNext == \E c \in Checks :
  \/ DeadlinePasses(c) \/ Acquire(c) \/ WaiterTimesOut(c)
  \/ Granted(c) \/ CallerTimesOut(c) \/ OwnerAnswers(c)

\* Timers fire and awaits resume.  The owner is under no obligation.
ChecksFairness == \A c \in Checks :
  WF_checkVars(DeadlinePasses(c) \/ WaiterTimesOut(c) \/ Granted(c) \/ CallerTimesOut(c))

ChecksSpec == ChecksInit /\ [][ChecksNext]_checkVars /\ ChecksFairness

-----------------------------------------------------------------------------
ChecksTypeOK ==
  /\ check \in [Checks ->
       {"new", "waiting", "granted", "asking", "detached", "timedOut", "answered"}]
  /\ waiters \in Seq(Checks)
  /\ slotsUsed \in Nat
  /\ late \subseteq Checks

Holders == {c \in Checks : check[c] \in {"granted", "asking", "detached"}}

\* A slot is never lost and never given twice, whichever of a time-out, a
\* hand-over and an answer comes first; and nobody queues while one is free.
SlotsAccounted ==
  /\ slotsUsed = Cardinality(Holders)
  /\ slotsUsed <= Slots
  /\ waiters # <<>> => slotsUsed = Slots

\* Every caller is answered, also when the owner never answers anybody.
EveryCheckReturns ==
  \A c \in Checks : check[c] \in {"waiting", "granted", "asking"} ~>
                    check[c] \in {"detached", "timedOut", "answered"}
=============================================================================
