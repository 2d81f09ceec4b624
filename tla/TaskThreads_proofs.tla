------------------------- MODULE TaskThreads_proofs -------------------------
(***************************************************************************)
(* What holds of the task threads and of the runs they start, for any      *)
(* requests, keys, threads, runs and users, and any number of crashes.     *)
(*                                                                         *)
(* IInv says of every handler what is true at the place it has reached:    *)
(* who holds which lock, whose claim is on disk, which run has which       *)
(* creator.  One lemma shows for each action that it keeps IInv and that   *)
(* turns that are over stay over; the theorems follow from that.           *)
(***************************************************************************)
EXTENDS TaskThreads, TLAPS

\* The requests that have a turn, their turns, and those whose turn is over.
Turned == {q \in Requests : HasTurn(q)}
Turn == [q \in Turned |-> TurnOf(q)]
Over == {q \in Turned : ~KeepsLocked(Turn[q])}

\* Where a request is: before its turn is written, in the thread's lock, and
\* between the turn and the record of the answer.
Early == {"new", "lock", "check", "claim", "link", "recheck", "probe", "scan", "recover", "unlink", "write"}
Holding == Early \ {"new", "lock"}
Submitting == {"run_lock", "submit", "persist", "snapshot", "exec", "record", "register"}
ThreadOnly == {"lock", "check", "probe", "scan", "write", "run_lock", "record", "register"}
GuardedOnly == {"run_lock", "persist", "snapshot", "register"}

\* Where a user is: on the way to the run lock, and inside it.
Asking == {"terminate_lock", "allow_lock", "deny_lock"}
Terminating == {"terminate_lock", "terminate", "terminate_run", "terminate_turn"}
InRunLock == UserPCs \ (Asking \cup {"idle"})
Deciding == UserPCs \ (Terminating \cup {"idle"})

\* Each handler is where handlers of its kind are, and only a request that the
\* process handles is under way.
PlaceInv ==
  /\ \A q \in Requests : pc[q] \in RequestPCs
  /\ \A u \in Users : pc[u] \in UserPCs
KindInv ==
  \A q \in Requests :
    /\ Direct(q) => pc[q] \notin ThreadOnly
    /\ pc[q] \in GuardedOnly => Guarded(q)
AliveInv ==
  \A q \in Requests :
    /\ pc[q] \notin {"new", "done"} => q \in alive
    /\ q \in alive => pc[q] # "new"

\* The turns of a thread: each of another request for it, key and run id.
ShapeInv ==
  /\ \A t \in Threads : threads[t] # NoThread => \A i \in DOMAIN threads[t] :
       ThreadOf[threads[t][i].req] = t /\ ~Direct(threads[t][i].req)
  /\ OneTurnPerKey

\* A run has the creator that its claim and its confirmation refer to.
CreatorInv ==
  \A r \in Runs :
    /\ runs[r] = NoRun <=> creator[r] = NoRequest
    /\ runs[r] # NoRun => /\ RunOf[creator[r]] = r
                          /\ runs[r].status # "pending"
                          /\ pc[creator[r]] \notin Early \cup {"run_lock", "submit"}
    /\ confirm[r] # "none" \/ snapshot[r] # "none" =>
         runs[r] # NoRun /\ Guarded(creator[r]) /\ creator[r] \in Turned

\* A request that submits has a turn; one that is past the creation of a run
\* created it.
SubmitInv ==
  \A q \in Requests :
    /\ q \in Turned => pc[q] \notin Early
    /\ ~Direct(q) /\ pc[q] \in Submitting => q \in Turned
    /\ pc[q] \in {"run_lock", "submit", "persist", "snapshot", "exec", "record"} /\ ~Direct(q) =>
         Turn[q].submission_state = "submitting" /\ Turn[q].failure_code = "none"
    /\ pc[q] \in {"persist", "snapshot", "exec", "register"} => creator[RunOf[q]] = q
    /\ pc[q] = "record" /\ answer[q] = "confirmation" => creator[RunOf[q]] = q /\ Guarded(q)

TargetInv ==
  \A u \in Users : pc[u] # "idle" =>
    /\ target[u] \in Requests
    /\ target[u] \in Turned
    /\ pc[u] \in Deciding => confirm[RunAt(u)] # "none" /\ creator[RunAt(u)] = target[u]

\* Who is in a lock holds it.
ThreadLockInv ==
  \A q \in Requests : ~Direct(q) /\ pc[q] \in Holding => threadLock[ThreadOf[q]] = q
RunLockInv ==
  /\ \A q \in Requests : Guarded(q) /\ pc[q] \in Submitting \ {"run_lock"} => runLock[RunOf[q]] = q
  /\ \A u \in Users : pc[u] \in InRunLock => runLock[RunAt(u)] = u

\* Who is past the checks of a reservation found the thread free.
FreeInv ==
  /\ \A q \in Requests : ~Direct(q) /\ pc[q] \in Early \ {"new"} => threads[ThreadOf[q]] # NoThread
  /\ \A q \in Requests : ~Direct(q) /\ pc[q] \in Holding \ {"check"} =>
       \A p \in Turned : ThreadOf[p] = ThreadOf[q] =>
         KeyOf[p] # KeyOf[q] /\ RunOf[p] # RunOf[q] /\ p \in Over

\* What is not the last turn of its thread is over.
OrderInv ==
  \A t \in Threads : threads[t] # NoThread =>
    \A i, j \in DOMAIN threads[t] : i < j => threads[t][i].req \in Over

\* A claim is its turn's and its run's, until a recovery unlinks a living one.
ClaimInv ==
  /\ \A q \in Requests : pc[q] \in {"recheck", "write"} \/ q \in Turned =>
       claims[RunOf[q]] = q \/ RunOf[q] \in orphaned
  /\ \A r \in Runs : runs[r] # NoRun => claims[r] = creator[r] \/ r \in orphaned
  /\ \A r \in Runs : claims[r] # NoRequest => RunOf[claims[r]] = r /\ pc[claims[r]] # "new"
  /\ \A q \in Requests :
       pc[q] \in {"write", "run_lock", "submit"} /\ claims[RunOf[q]] = q => runs[RunOf[q]] = NoRun

\* What a recovery is about to unlink belongs to no turn and no run, unless it
\* is a living request's by now.
RecoveryInv ==
  \A p \in Requests :
    /\ pc[p] \in {"scan", "recover"} /\ ~Direct(p) =>
         /\ owner[p] \in Requests /\ owner[p] \notin alive /\ pc[owner[p]] # "new"
         /\ RunOf[owner[p]] = RunOf[p]
    /\ pc[p] = "recover" /\ ~Direct(p) => owner[p] \notin Turned
    /\ pc[p] = "unlink" => LET c == claims[RunOf[p]] IN
         c = NoRequest \/ c \in alive \/ (c \notin Turned /\ runs[RunOf[p]] = NoRun)

\* A request that is told it was rejected has no run.
RejectedInv ==
  \A q \in Requests : pc[q] = "record" /\ answer[q] = "rejected" =>
    runs[RunOf[q]] = NoRun \/ RunOf[q] \in orphaned

\* A terminated turn: its request does not create the run any more, and the run
\* it created neither goes on nor waits for a confirmation.
EndedInv ==
  \A q \in Requests : q \in Turned /\ Turn[q].terminated =>
    /\ pc[q] \in {"run_lock", "submit"} => claims[RunOf[q]] # q
    /\ creator[RunOf[q]] = q =>
         /\ Status(RunOf[q]) \notin {"admitted", "running"}
         /\ ~WaitsForConfirmation(RunOf[q])
    /\ pc[q] \notin {"persist", "snapshot", "register"}
    /\ ~(pc[q] = "record" /\ answer[q] = "confirmation")
    /\ ~(pc[q] = "exec" /\ Guarded(q))

\* The binding of a run to its decision: none while the creator persists it.
BindingInv ==
  /\ \A q \in Requests :
       /\ pc[q] \in {"persist", "snapshot"} => snapshot[RunOf[q]] = "none"
       /\ pc[q] = "exec" => snapshot[RunOf[q]] # "confirm"
       /\ pc[q] = "register" \/ (pc[q] = "record" /\ answer[q] = "confirmation") =>
            snapshot[RunOf[q]] = "confirm"
       /\ Guarded(q) /\ creator[RunOf[q]] = q =>
            (pc[q] \in {"persist", "snapshot", "exec", "record", "register"} => decided[RunOf[q]] = "none")
  /\ \A r \in Runs :
       /\ r \in resumed => snapshot[r] = "execute"
       /\ decided[r] # "none" => confirm[r] # "none"

\* A user in the run lock.
ConsentInv ==
  \A u \in Users :
    LET r == RunAt(u) IN
    /\ pc[u] = "terminate_turn" => ~WaitsForConfirmation(r)
    /\ pc[u] = "terminate_run" => Status(r) # "none"
    /\ pc[u] \in {"take", "resume", "resume_run"} => decided[r] = "allow"
    /\ pc[u] = "resume" => r \notin resumed
    /\ pc[u] = "resume_run" =>
         /\ confirm[r] \in {"active", "expired"} /\ r \notin resumed
         /\ ~Turn[target[u]].terminated
    /\ pc[u] \in {"resume_run", "resume_exec"} => snapshot[r] = "execute"

\* A continuation that is kept, by who is inside the run lock.
Waiting(r) ==
  /\ WaitsForConfirmation(r)
  /\ confirm[r] = "active" /\ decided[r] = "none"
  /\ ~Turn[creator[r]].terminated
PendingInv ==
  ~StoreFails => \A r \in pending :
    \/ /\ Waiting(r)
       /\ \A u \in Users : pc[u] \in InRunLock /\ RunAt(u) = r => pc[u] \in {"terminate", "allow", "deny"}
    \/ \E u \in Users :
         /\ pc[u] \in {"terminate_run", "take", "deny_confirm", "deny_run"} /\ RunAt(u) = r
         /\ pc[u] = "take" => WaitsForConfirmation(r)

---------------------------------------------------------------------------
(***************************************************************************)
(* The turns of a thread file: found by their request, appended,           *)
(* rewritten.                                                              *)
(***************************************************************************)
LEMMA TurnsOf ==
  ASSUME TypeOK, NEW t \in Threads
  PROVE  /\ threads[t] # NoThread => threads[t] \in Seq(TurnRecord) /\ Turns(t) \subseteq TurnRecord
         /\ threads[t] = NoThread => Turns(t) = {}
BY DEF TypeOK, Turns

\* A turn is found by the request that reserved it.
LEMMA Found ==
  ASSUME TypeOK, ShapeInv
  PROVE  /\ \A q \in Requests : HasTurn(q) =>
              /\ ~Direct(q) /\ threads[ThreadOf[q]] # NoThread
              /\ TurnOf(q) \in TurnRecord /\ TurnOf(q).req = q
              /\ \E i \in DOMAIN threads[ThreadOf[q]] : TurnOf(q) = threads[ThreadOf[q]][i]
         /\ \A t \in Threads : threads[t] # NoThread => \A i \in DOMAIN threads[t] :
              /\ threads[t][i] \in TurnRecord
              /\ threads[t][i].req \in Requests
              /\ HasTurn(threads[t][i].req)
              /\ TurnOf(threads[t][i].req) = threads[t][i]
              /\ ThreadOf[threads[t][i].req] = t
<1>1. ASSUME NEW q \in Requests, HasTurn(q)
      PROVE  /\ ~Direct(q) /\ threads[ThreadOf[q]] # NoThread
             /\ TurnOf(q) \in TurnRecord /\ TurnOf(q).req = q
             /\ \E i \in DOMAIN threads[ThreadOf[q]] : TurnOf(q) = threads[ThreadOf[q]][i]
  <2>1. TurnOf(q) \in Turns(ThreadOf[q]) /\ TurnOf(q).req = q /\ ~Direct(q)
    BY <1>1 DEF HasTurn, TurnOf
  <2>2. ThreadOf[q] \in Threads
    BY RequestAssumption
  <2> QED BY <2>1, <2>2, TurnsOf DEF Turns
<1>2. ASSUME NEW t \in Threads, threads[t] # NoThread, NEW i \in DOMAIN threads[t]
      PROVE  /\ threads[t][i] \in TurnRecord
             /\ threads[t][i].req \in Requests
             /\ HasTurn(threads[t][i].req)
             /\ TurnOf(threads[t][i].req) = threads[t][i]
             /\ ThreadOf[threads[t][i].req] = t
  <2> DEFINE q == threads[t][i].req
  <2>1. threads[t][i] \in TurnRecord /\ threads[t][i] \in Turns(t)
    BY <1>2, TurnsOf DEF Turns
  <2>2. q \in Requests /\ ThreadOf[q] = t /\ ~Direct(q)
    BY <1>2, <2>1 DEF TurnRecord, ShapeInv
  <2>3. HasTurn(q)
    BY <2>1, <2>2 DEF HasTurn
  <2>4. PICK j \in DOMAIN threads[t] : TurnOf(q) = threads[t][j] /\ TurnOf(q).req = q
    BY <1>1, <2>2, <2>3
  <2>5. j = i
    BY <1>2, <2>4 DEF ShapeInv, OneTurnPerKey
  <2> QED BY <2>1, <2>2, <2>3, <2>4, <2>5
<1> QED BY <1>1, <1>2

\* A step that writes no thread file changes no turn.
LEMMA ThreadsKept ==
  ASSUME threads' = threads, NEW q \in Requests
  PROVE  (HasTurn(q)' <=> HasTurn(q)) /\ TurnOf(q)' = TurnOf(q)
BY DEF HasTurn, TurnOf, Turns

\* A new thread has no turn.
LEMMA ThreadCreated ==
  ASSUME TypeOK, ShapeInv, NEW t \in Threads, CreateThread(t)
  PROVE  /\ threads' \in [Threads -> Seq(TurnRecord) \cup {NoThread}] /\ ShapeInv'
         /\ \A q \in Requests : (HasTurn(q)' <=> HasTurn(q)) /\ TurnOf(q)' = TurnOf(q)
<1>1. /\ threads[t] = NoThread /\ threads' = [threads EXCEPT ![t] = <<>>]
      /\ threads \in [Threads -> Seq(TurnRecord) \cup {NoThread}]
  BY DEF CreateThread, TypeOK
<1>2. <<>> \in Seq(TurnRecord) /\ DOMAIN <<>> = {}
  OBVIOUS
<1>3. threads' \in [Threads -> Seq(TurnRecord) \cup {NoThread}] /\ threads'[t] = <<>>
      /\ \A s \in Threads \ {t} : threads'[s] = threads[s]
  BY <1>1, <1>2
<1>4. ASSUME NEW s \in Threads PROVE Turns(s)' = Turns(s)
  <2>1. CASE s = t
    BY <1>1, <1>2, <1>3, <2>1 DEF Turns
  <2>2. CASE s # t
    BY <1>3, <2>2 DEF Turns
  <2> QED BY <2>1, <2>2
<1>5. \A q \in Requests : (HasTurn(q)' <=> HasTurn(q)) /\ TurnOf(q)' = TurnOf(q)
  BY <1>4, RequestAssumption DEF HasTurn, TurnOf
<1>6. ShapeInv'
  BY <1>2, <1>3 DEF ShapeInv, OneTurnPerKey, Direct
<1> QED BY <1>3, <1>5, <1>6

\* The turn that a reservation appends.
NewTurn(q) ==
  [req |-> q, submission_state |-> "submitting", failure_code |-> "none", terminated |-> FALSE]

\* A reservation appends one turn, and changes no other.
LEMMA TurnAppended ==
  ASSUME TypeOK, ShapeInv, FreeInv, NEW q \in Requests, ~Direct(q), pc[q] = "write",
         threads' = [threads EXCEPT ![ThreadOf[q]] = Append(@, NewTurn(q))]
  PROVE  /\ threads' \in [Threads -> Seq(TurnRecord) \cup {NoThread}] /\ ShapeInv'
         /\ HasTurn(q)' /\ TurnOf(q)' = NewTurn(q)
         /\ \A p \in Requests \ {q} : (HasTurn(p)' <=> HasTurn(p)) /\ (HasTurn(p) => TurnOf(p)' = TurnOf(p))
<1> DEFINE t == ThreadOf[q]
<1>1. /\ t \in Threads /\ threads[t] # NoThread /\ threads[t] \in Seq(TurnRecord)
      /\ NewTurn(q) \in TurnRecord
      /\ threads \in [Threads -> Seq(TurnRecord) \cup {NoThread}]
      /\ \A i \in DOMAIN threads[t] : /\ KeyOf[threads[t][i].req] # KeyOf[q]
                                     /\ RunOf[threads[t][i].req] # RunOf[q]
                                     /\ threads[t][i].req # q
  <2>1. t \in Threads /\ threads[t] # NoThread
    BY RequestAssumption DEF FreeInv, Holding, Early
  <2>2. NewTurn(q) \in TurnRecord
    BY DEF NewTurn, TurnRecord
  <2>3. \A i \in DOMAIN threads[t] : /\ KeyOf[threads[t][i].req] # KeyOf[q]
                                    /\ RunOf[threads[t][i].req] # RunOf[q]
    BY <2>1, Found DEF FreeInv, Holding, Early, Turned
  <2> QED BY <2>1, <2>2, <2>3, TurnsOf DEF TypeOK
<1> DEFINE n == Len(threads[t])
<1>2. /\ threads'[t] \in Seq(TurnRecord)
      /\ DOMAIN threads[t] = 1..n /\ DOMAIN threads'[t] = 1..(n + 1) /\ n \in Nat
      /\ \A i \in 1..n : threads'[t][i] = threads[t][i]
      /\ threads'[t][n + 1] = NewTurn(q)
  BY <1>1
<1>3. /\ threads' \in [Threads -> Seq(TurnRecord) \cup {NoThread}]
      /\ \A s \in Threads \ {t} : threads'[s] = threads[s]
  BY <1>1, <1>2
<1>4. /\ NewTurn(q).req = q /\ ~Direct(q)
      /\ threads'[t] # NoThread
  BY <1>1, <1>2, AbsentAssumption DEF NewTurn
<1>5. Turns(t)' = Turns(t) \cup {NewTurn(q)} /\ \A s \in Threads \ {t} : Turns(s)' = Turns(s)
  <2>1. Turns(t) = {threads[t][i] : i \in 1..n}
    BY <1>1, <1>2 DEF Turns
  <2>2. Turns(t)' = {threads'[t][i] : i \in 1..(n + 1)}
    BY <1>2, <1>4 DEF Turns
  <2>3. 1..(n + 1) = (1..n) \cup {n + 1}
    BY <1>2
  <2>4. ASSUME NEW s \in Threads \ {t} PROVE Turns(s)' = Turns(s)
    <3>1. threads'[s] = threads[s]
      BY <1>3
    <3> QED BY <3>1 DEF Turns
  <2> HIDE DEF n, t
  <2> QED BY <1>2, <2>1, <2>2, <2>3, <2>4
<1>6. \A turn \in Turns(t) : turn.req # q
  BY <1>1 DEF Turns
<1>7. HasTurn(q)' /\ TurnOf(q)' = NewTurn(q)
  BY <1>4, <1>5, <1>6 DEF HasTurn, TurnOf
<1>8. ASSUME NEW p \in Requests \ {q}
      PROVE  (HasTurn(p)' <=> HasTurn(p)) /\ (HasTurn(p) => TurnOf(p)' = TurnOf(p))
  <2>0. ThreadOf[p] \in Threads
    BY RequestAssumption
  <2>1. CASE ThreadOf[p] = t
    <3>1. {turn \in Turns(t)' : turn.req = p} = {turn \in Turns(t) : turn.req = p}
      BY <1>4, <1>5
    <3>2. \A turn : turn \in Turns(t)' /\ turn.req = p <=> turn \in Turns(t) /\ turn.req = p
      BY <1>4, <1>5
    <3> QED BY <2>1, <3>2 DEF HasTurn, TurnOf
  <2>2. CASE ThreadOf[p] # t
    BY <1>5, <2>0, <2>2 DEF HasTurn, TurnOf
  <2> QED BY <2>1, <2>2
<1>9. ShapeInv'
  <2>1. ASSUME NEW s \in Threads, threads'[s] # NoThread
        PROVE  \A i \in DOMAIN threads'[s] :
                 ThreadOf[threads'[s][i].req] = s /\ ~Direct(threads'[s][i].req)
    <3>1. CASE s = t
      <4> SUFFICES ASSUME NEW i \in 1..(n + 1)
                   PROVE  ThreadOf[threads'[t][i].req] = t /\ ~Direct(threads'[t][i].req)
        BY <1>2, <3>1
      <4>1. CASE i = n + 1
        BY <1>2, <1>4, <4>1
      <4>2. CASE i \in 1..n
        BY <1>1, <1>2, <4>2 DEF ShapeInv
      <4> QED BY <1>2, <4>1, <4>2
    <3>2. CASE s # t
      BY <1>3, <2>1, <3>2 DEF ShapeInv
    <3> QED BY <3>1, <3>2
  <2>2. ASSUME NEW s \in Threads, threads'[s] # NoThread, NEW i \in DOMAIN threads'[s],
               NEW j \in DOMAIN threads'[s], i # j
        PROVE  /\ KeyOf[threads'[s][i].req] # KeyOf[threads'[s][j].req]
               /\ RunOf[threads'[s][i].req] # RunOf[threads'[s][j].req]
    <3>1. CASE s = t
      <4>1. CASE i \in 1..n /\ j \in 1..n
        BY <1>1, <1>2, <2>2, <3>1, <4>1 DEF ShapeInv, OneTurnPerKey
      <4>2. CASE i = n + 1 /\ j \in 1..n
        BY <1>1, <1>2, <1>4, <3>1, <4>2
      <4>3. CASE i \in 1..n /\ j = n + 1
        BY <1>1, <1>2, <1>4, <3>1, <4>3
      <4>4. i \in 1..(n + 1) /\ j \in 1..(n + 1)
        BY <1>2, <2>2, <3>1
      <4> QED BY SMTT(30), <1>2, <2>2, <4>1, <4>2, <4>3, <4>4
    <3>2. CASE s # t
      BY <1>3, <2>2, <3>2 DEF ShapeInv, OneTurnPerKey
    <3> QED BY <3>1, <3>2
  <2> QED BY <2>1, <2>2 DEF ShapeInv, OneTurnPerKey, Direct
<1> QED BY <1>3, <1>7, <1>8, <1>9

\* A write of a turn record replaces that turn, where it stands.
LEMMA TurnWritten ==
  ASSUME TypeOK, ShapeInv, NEW q \in Requests, HasTurn(q), NEW turn \in TurnRecord, turn.req = q,
         WriteTurnRecord(q, turn)
  PROVE  /\ threads' \in [Threads -> Seq(TurnRecord) \cup {NoThread}] /\ ShapeInv'
         /\ HasTurn(q)' /\ TurnOf(q)' = turn
         /\ \A p \in Requests \ {q} : (HasTurn(p)' <=> HasTurn(p)) /\ (HasTurn(p) => TurnOf(p)' = TurnOf(p))
         /\ \A t \in Threads :
                /\ threads'[t] = NoThread <=> threads[t] = NoThread
                /\ threads[t] # NoThread =>
                     /\ DOMAIN threads'[t] = DOMAIN threads[t]
                     /\ \A i \in DOMAIN threads[t] : threads'[t][i].req = threads[t][i].req
<1> DEFINE t == ThreadOf[q]
           s == threads[t]
           w == [i \in DOMAIN s |-> IF s[i].req = q THEN turn ELSE s[i]]
<1>1. /\ t \in Threads /\ s # NoThread /\ s \in Seq(TurnRecord)
      /\ threads \in [Threads -> Seq(TurnRecord) \cup {NoThread}]
      /\ threads' = [threads EXCEPT ![t] = w]
  BY RequestAssumption, Found, TurnsOf DEF TypeOK, WriteTurnRecord
<1>2. w \in Seq(TurnRecord) /\ DOMAIN w = DOMAIN s
      /\ \A i \in DOMAIN s : w[i].req = s[i].req /\ w[i] = IF s[i].req = q THEN turn ELSE s[i]
  <2> HIDE DEF s
  <2>1. DOMAIN s = 1..Len(s) /\ Len(s) \in Nat /\ \A i \in 1..Len(s) : s[i] \in TurnRecord
    BY <1>1
  <2>2. w \in [1..Len(s) -> TurnRecord]
    BY <2>1
  <2>3. w \in Seq(TurnRecord)
    BY <2>1, <2>2
  <2> QED BY <2>1, <2>3
<1> HIDE DEF w
<1>3. /\ threads' \in [Threads -> Seq(TurnRecord) \cup {NoThread}]
      /\ threads'[t] = w /\ w # NoThread
      /\ \A x \in Threads \ {t} : threads'[x] = threads[x]
  BY <1>1, <1>2, AbsentAssumption
<1>4. \A x \in Threads :
          /\ threads'[x] = NoThread <=> threads[x] = NoThread
          /\ threads[x] # NoThread =>
               /\ DOMAIN threads'[x] = DOMAIN threads[x]
               /\ \A i \in DOMAIN threads[x] : threads'[x][i].req = threads[x][i].req
  BY <1>1, <1>2, <1>3
<1>5. ShapeInv'
  <2>1. ASSUME NEW x \in Threads, threads'[x] # NoThread, NEW i \in DOMAIN threads'[x]
        PROVE  ThreadOf[threads'[x][i].req] = x /\ ~Direct(threads'[x][i].req)
    <3>1. threads[x] # NoThread /\ i \in DOMAIN threads[x] /\ threads'[x][i].req = threads[x][i].req
      BY <1>4, <2>1
    <3>2. ThreadOf[threads[x][i].req] = x /\ ~Direct(threads[x][i].req)
      BY <3>1 DEF ShapeInv
    <3> QED BY <3>1, <3>2
  <2>2. ASSUME NEW x \in Threads, threads'[x] # NoThread, NEW i \in DOMAIN threads'[x],
               NEW j \in DOMAIN threads'[x], i # j
        PROVE  /\ KeyOf[threads'[x][i].req] # KeyOf[threads'[x][j].req]
               /\ RunOf[threads'[x][i].req] # RunOf[threads'[x][j].req]
    <3>1. /\ threads[x] # NoThread /\ i \in DOMAIN threads[x] /\ j \in DOMAIN threads[x]
          /\ threads'[x][i].req = threads[x][i].req /\ threads'[x][j].req = threads[x][j].req
      BY <1>4, <2>2
    <3> QED BY <2>2, <3>1 DEF ShapeInv, OneTurnPerKey
  <2> QED BY <2>1, <2>2 DEF ShapeInv, OneTurnPerKey, Direct
<1>7. /\ \A x \in Threads \ {t} : Turns(x)' = Turns(x)
      /\ Turns(t) = {s[i] : i \in DOMAIN s} /\ Turns(t)' = {w[i] : i \in DOMAIN s}
  <2>1. ASSUME NEW x \in Threads \ {t} PROVE Turns(x)' = Turns(x)
    <3>1. threads'[x] = threads[x]
      BY <1>3
    <3> QED BY <3>1 DEF Turns
  <2>2. Turns(t) = {s[i] : i \in DOMAIN s}
    BY <1>1 DEF Turns
  <2>3. Turns(t)' = {w[i] : i \in DOMAIN s}
    BY <1>2, <1>3 DEF Turns
  <2> QED BY <2>1, <2>2, <2>3
<1>8. \A p \in Requests : (HasTurn(p)' <=> HasTurn(p))
  <2> TAKE p \in Requests
  <2>0. ThreadOf[p] \in Threads
    BY RequestAssumption
  <2>1. CASE ThreadOf[p] = t
    BY <1>2, <1>7, <2>1 DEF HasTurn
  <2>2. CASE ThreadOf[p] # t
    BY <1>7, <2>0, <2>2 DEF HasTurn
  <2> QED BY <2>1, <2>2
<1>9. TurnOf(q)' = turn
  <2>1. \A x \in Turns(t)' : x.req = q => x = turn
    BY <1>2, <1>7
  <2>2. \E x \in Turns(t)' : x.req = q
    BY <1>8 DEF HasTurn
  <2> QED BY <2>1, <2>2 DEF TurnOf
<1>10. ASSUME NEW p \in Requests \ {q}, HasTurn(p) PROVE TurnOf(p)' = TurnOf(p)
  <2>0. ThreadOf[p] \in Threads
    BY RequestAssumption
  <2>1. CASE ThreadOf[p] = t
    <3>1. \A x : x \in Turns(t)' /\ x.req = p <=> x \in Turns(t) /\ x.req = p
      BY <1>2, <1>7
    <3> QED BY <2>1, <3>1 DEF TurnOf
  <2>2. CASE ThreadOf[p] # t
    BY <1>7, <2>0, <2>2 DEF TurnOf
  <2> QED BY <2>1, <2>2
<1> QED BY <1>3, <1>4, <1>5, <1>8, <1>9, <1>10

\* The same facts with the turns as a set and a function.
LEMMA TurnFacts ==
  ASSUME TypeOK, ShapeInv
  PROVE  /\ Turned \subseteq Requests
         /\ \A q \in Requests : HasTurn(q) <=> q \in Turned
         /\ \A q \in Turned : /\ TurnOf(q) = Turn[q] /\ Turn[q] \in TurnRecord /\ Turn[q].req = q
                              /\ ~Direct(q) /\ threads[ThreadOf[q]] # NoThread
         /\ Turn = [q \in Turned |-> Turn[q]]
BY Found DEF Turned, Turn

LEMMA TurnsKept ==
  ASSUME TypeOK, ShapeInv, threads' = threads \/ \E t \in Threads : CreateThread(t)
  PROVE  ShapeInv' /\ Turned' = Turned /\ Turn' = Turn
         /\ threads' \in [Threads -> Seq(TurnRecord) \cup {NoThread}]
<1>1. CASE threads' = threads
  <2>1. Turned' = Turned
    BY <1>1, ThreadsKept DEF Turned
  <2>2. \A q \in Turned : TurnOf(q)' = TurnOf(q)
    BY <1>1, ThreadsKept DEF Turned
  <2>3. Turn' = Turn
    BY <2>1, <2>2 DEF Turn
  <2> QED BY <1>1, <2>1, <2>3 DEF ShapeInv, OneTurnPerKey, Direct, TypeOK
<1>2. ASSUME NEW t \in Threads, CreateThread(t)
      PROVE  ShapeInv' /\ Turned' = Turned /\ Turn' = Turn
             /\ threads' \in [Threads -> Seq(TurnRecord) \cup {NoThread}]
  <2>1. Turned' = Turned
    BY <1>2, ThreadCreated DEF Turned
  <2>2. \A q \in Turned : TurnOf(q)' = TurnOf(q)
    BY <1>2, ThreadCreated DEF Turned
  <2>3. Turn' = Turn
    BY <2>1, <2>2 DEF Turn
  <2> QED BY <1>2, ThreadCreated, <2>1, <2>3
<1> QED BY <1>1, <1>2

LEMMA TurnAdded ==
  ASSUME TypeOK, ShapeInv, FreeInv, NEW q \in Requests, ~Direct(q), pc[q] = "write", q \notin Turned,
         threads' = [threads EXCEPT ![ThreadOf[q]] = Append(@, NewTurn(q))]
  PROVE  /\ threads' \in [Threads -> Seq(TurnRecord) \cup {NoThread}] /\ ShapeInv'
         /\ Turned' = Turned \cup {q} /\ Turn'[q] = NewTurn(q)
         /\ \A p \in Turned : p # q /\ Turn'[p] = Turn[p]
<1>1. Turned' = Turned \cup {q}
  BY TurnAppended DEF Turned
<1>2. Turn'[q] = NewTurn(q)
  BY <1>1, TurnAppended DEF Turn
<1>3. ASSUME NEW p \in Turned PROVE p # q /\ Turn'[p] = Turn[p]
  <2>1. p \in Requests \ {q} /\ HasTurn(p)
    BY DEF Turned
  <2>2. TurnOf(p)' = TurnOf(p)
    BY <2>1, TurnAppended
  <2> QED BY <1>1, <2>1, <2>2 DEF Turn
<1> QED BY <1>1, <1>2, <1>3, TurnAppended

LEMMA TurnChanged ==
  ASSUME TypeOK, ShapeInv, NEW q \in Turned, NEW turn \in TurnRecord, turn.req = q, WriteTurnRecord(q, turn)
  PROVE  /\ threads' \in [Threads -> Seq(TurnRecord) \cup {NoThread}] /\ ShapeInv'
         /\ Turned' = Turned /\ Turn' = [Turn EXCEPT ![q] = turn]
         /\ \A t \in Threads :
              /\ threads'[t] = NoThread <=> threads[t] = NoThread
              /\ threads[t] # NoThread =>
                   /\ DOMAIN threads'[t] = DOMAIN threads[t]
                   /\ \A i \in DOMAIN threads[t] : threads'[t][i].req = threads[t][i].req
<1>1. q \in Requests /\ HasTurn(q)
  BY DEF Turned
<1>2. Turned' = Turned
  BY <1>1, TurnWritten DEF Turned
<1>3. \A p \in Turned : TurnOf(p)' = IF p = q THEN turn ELSE TurnOf(p)
  BY <1>1, TurnWritten DEF Turned
<1>4. Turn' = [Turn EXCEPT ![q] = turn]
  BY <1>2, <1>3 DEF Turn
<1> QED BY <1>1, <1>2, <1>4, TurnWritten

---------------------------------------------------------------------------
(***************************************************************************)
(* What the calls of the run record store do to a record.                  *)
(***************************************************************************)
\* What the operations of the run store do to the status of a run.
Advances(old, new) ==
  \/ new = old
  \/ old = "admitted" /\ new \in {"running", "failed", "cancelled", "expired"}
  \/ old = "running" /\ new \in TerminalStatuses
RunSet(r, status) == \E rec \in RunRecord : runs' = [runs EXCEPT ![r] = rec] /\ rec.status = status

\* Each call, by the record it leaves.
LEMMA RunCreated ==
  ASSUME TypeOK, NEW r \in Runs, NEW s \in RunStatuses, RR!createRunRecord(r, s)
  PROVE  runs[r] = NoRun /\ RunSet(r, s)
<1> DEFINE rec == [status |-> s, terminal_at |-> s \in RR!TerminalStatuses, denied |-> FALSE, bound |-> FALSE]
<1>1. rec \in RunRecord /\ rec.status = s
  BY DEF RunRecord
<1>2. runs[r] = NoRun /\ runs' = [runs EXCEPT ![r] = rec]
  BY DEF RR!createRunRecord
<1> QED BY <1>1, <1>2 DEF RunSet

LEMMA RunTyped ==
  ASSUME TypeOK, NEW r \in Runs, runs[r] # NoRun
  PROVE  runs[r] \in RunRecord /\ runs[r].status \in RunStatuses
BY DEF TypeOK, RunRecord

LEMMA RunUpdated ==
  ASSUME TypeOK, CreatorInv, NEW r \in Runs, NEW s \in RunStatuses, RR!updateRunRecord(r, s)
  PROVE  runs[r] # NoRun /\ RunSet(r, s) /\ Advances(runs[r].status, s)
<1>1. runs[r] # NoRun /\ RR!MayTransition(runs[r].status, s)
  BY DEF RR!updateRunRecord
<1>2. PICK d \in {runs[r].denied, FALSE} :
        runs' = [runs EXCEPT ![r] =
          [runs[r] EXCEPT !.status = s, !.terminal_at = runs[r].terminal_at \/ s \in TerminalStatuses,
                          !.denied = d]]
  BY DEF RR!updateRunRecord, RR!TerminalStatuses, TerminalStatuses
<1> DEFINE old == runs[r]
           t == old.terminal_at \/ s \in TerminalStatuses
           new == [old EXCEPT !.status = s, !.terminal_at = t, !.denied = d]
<1>3. old \in RunRecord /\ t \in BOOLEAN /\ d \in BOOLEAN
  BY <1>1, RunTyped DEF RunRecord
<1>4. runs' = [runs EXCEPT ![r] = new]
  BY <1>2
<1>5. new \in RunRecord /\ new.status = s
  <2> HIDE DEF t, old
  <2> QED BY <1>3 DEF RunRecord
<1>6. RunSet(r, s)
  <2> HIDE DEF new
  <2> QED BY <1>4, <1>5 DEF RunSet
<1>7. Advances(runs[r].status, s)
  BY <1>1, RunTyped DEF RR!MayTransition, RR!runLifecycleTransitions, RR!RunStatuses,
     RR!TerminalStatuses,
     Advances, TerminalStatuses, RunStatuses, CreatorInv
<1> QED BY <1>1, <1>6, <1>7

LEMMA RunBound ==
  ASSUME TypeOK, NEW r \in Runs, RR!bindCoreTaskRuntimeSession(r)
  PROVE  runs[r] # NoRun /\ runs[r].status \in {"admitted", "running"} /\ RunSet(r, "running")
<1> DEFINE old == runs[r]
           new == [old EXCEPT !.status = "running", !.bound = TRUE]
<1>1. runs[r] # NoRun /\ runs[r].status \in {"admitted", "running"} /\ runs' = [runs EXCEPT ![r] = new]
  BY DEF RR!bindCoreTaskRuntimeSession, TypeOK
<1>2. new \in RunRecord /\ new.status = "running"
  <2>1. old \in RunRecord
    BY <1>1, RunTyped
  <2> HIDE DEF old
  <2> QED BY <2>1 DEF RunRecord, RunStatuses
<1> HIDE DEF new
<1> QED BY <1>1, <1>2 DEF RunSet

LEMMA RunContinued ==
  ASSUME TypeOK, NEW r \in Runs, RR!continueRequiresUserActionRun(r)
  PROVE  runs[r] # NoRun /\ runs[r].status = "requires_user_action" /\ RunSet(r, "running")
<1> DEFINE old == runs[r]
           new == [old EXCEPT !.status = "running", !.terminal_at = FALSE, !.denied = FALSE]
<1>1. runs[r] # NoRun /\ runs[r].status = "requires_user_action" /\ runs' = [runs EXCEPT ![r] = new]
  BY DEF RR!continueRequiresUserActionRun, TypeOK
<1>2. new \in RunRecord /\ new.status = "running"
  <2>1. old \in RunRecord
    BY <1>1, RunTyped
  <2> HIDE DEF old
  <2> QED BY <2>1 DEF RunRecord, RunStatuses
<1> HIDE DEF new
<1> QED BY <1>1, <1>2 DEF RunSet

LEMMA RunEnded ==
  ASSUME TypeOK, NEW r \in Runs, NEW s \in {"failed", "cancelled"}, RR!EndWaitingRun(r, s)
  PROVE  /\ runs[r] # NoRun /\ RunSet(r, s)
         /\ runs[r].status = "requires_user_action" \/ (runs[r].status = s /\ runs' = runs)
<1> DEFINE old == runs[r]
           new == [old EXCEPT !.status = s, !.terminal_at = TRUE, !.denied = TRUE]
<1>1. CASE runs[r] # NoRun /\ runs[r].status = "requires_user_action" /\ runs' = [runs EXCEPT ![r] = new]
  <2>1. new \in RunRecord /\ new.status = s
    <3>1. old \in RunRecord
      BY <1>1, RunTyped
    <3> HIDE DEF old
    <3> QED BY <3>1 DEF RunRecord, RunStatuses, TerminalStatuses
  <2> HIDE DEF new
  <2> QED BY <1>1, <2>1 DEF RunSet
<1>2. CASE runs[r] # NoRun /\ runs[r].status = s /\ runs' = runs
  <2>1. runs' = [runs EXCEPT ![r] = runs[r]]
    BY <1>2 DEF TypeOK
  <2> QED BY <1>2, <2>1, RunTyped DEF RunSet
<1> QED BY <1>1, <1>2 DEF RR!EndWaitingRun, TypeOK

\* What makes a turn over, and what no step takes back.
Done(turn, run) ==
  \/ turn.terminated
  \/ turn.submission_state = "rejected"
  \/ run # NoRun /\ run.status \in {"succeeded", "failed", "blocked", "cancelled", "expired"}
TurnsGrow ==
  /\ Turned \subseteq Turned'
  /\ \A q \in Turned : /\ Turn[q].terminated => Turn'[q].terminated
                       /\ Turn[q].submission_state = "rejected" => Turn'[q].submission_state = "rejected"
RunsGrow ==
  \A r \in Runs : runs[r] # NoRun =>
    /\ runs'[r] # NoRun
    /\ runs[r].status \in SettledStatuses => runs'[r].status = runs[r].status

\* A turn is over as soon as one of these is the case; and it stays over.
LEMMA OverIsDone ==
  ASSUME TypeOK, ShapeInv, NEW q \in Turned
  PROVE  q \in Over <=> Done(Turn[q], runs[RunOf[q]])
<1>1. /\ Turn[q].req = q /\ RunOf[q] \in Runs /\ Turn[q].terminated \in BOOLEAN
      /\ runs[RunOf[q]] # NoRun => runs[RunOf[q]].status \in RunStatuses
  BY TurnFacts, RequestAssumption, RunTyped DEF TurnRecord
<1>2. turnState(Turn[q]) \in {"submitting", "accepted", "running", "waiting_for_user", "status_unknown"}
        <=> ~Done(Turn[q], runs[RunOf[q]])
  BY <1>1 DEF turnState, mapRunStatus, Done, RunStatuses, TerminalStatuses
<1> QED BY <1>2 DEF Over, KeepsLocked, statusKeepsThreadLocked

LEMMA OverStays ==
  ASSUME TypeOK, ShapeInv, TypeOK', ShapeInv', TurnsGrow, RunsGrow
  PROVE  Over \subseteq Over'
<1> SUFFICES ASSUME NEW q \in Over PROVE q \in Over'
  OBVIOUS
<1>1. /\ q \in Turned /\ q \in Turned' /\ RunOf[q] \in Runs
      /\ Turn[q].terminated => Turn'[q].terminated
      /\ Turn[q].submission_state = "rejected" => Turn'[q].submission_state = "rejected"
  BY TurnFacts, RequestAssumption DEF Over, TurnsGrow
<1>2. Done(Turn'[q], runs'[RunOf[q]])
  BY <1>1, OverIsDone DEF Done, RunsGrow, SettledStatuses, TerminalStatuses
<1>3. Turn'[q].req = q
  <2>1. \A p \in Requests : HasTurn(p)' => (TurnOf(p).req = p)'
    BY DEF HasTurn, TurnOf
  <2> QED BY <1>1, <2>1 DEF Turned, Turn
<1>4. \/ Turn'[q].terminated \/ Turn'[q].submission_state = "rejected"
      \/ /\ runs'[RunOf[q]] # NoRun
         /\ runs'[RunOf[q]].status \in {"succeeded", "failed", "blocked", "cancelled", "expired"}
  BY <1>2 DEF Done
<1>5. ~KeepsLocked(Turn[q])'
  BY <1>3, <1>4 DEF KeepsLocked, statusKeepsThreadLocked, turnState, mapRunStatus
<1> QED BY <1>1, <1>5 DEF Over

\* What holds in every reachable state.
IInv ==
  /\ TypeOK /\ PlaceInv /\ KindInv /\ AliveInv /\ ShapeInv /\ SubmitInv /\ CreatorInv
  /\ TargetInv /\ ThreadLockInv /\ RunLockInv
  /\ FreeInv /\ OrderInv /\ ClaimInv /\ RecoveryInv /\ RejectedInv
  /\ EndedInv /\ BindingInv /\ ConsentInv /\ PendingInv

\* A step rewrites the turn of q, or the record of run r, and no other.
TurnSet(q, turn) == Turned' = Turned /\ Turn' = [Turn EXCEPT ![q] = turn]
RunIs(r, rec) == rec \in RunRecord /\ runs' = [runs EXCEPT ![r] = rec]

\* The three writers of a turn: the answer of a submission, a decision, and a
\* termination.
LEMMA SubmissionRecorded ==
  ASSUME IInv, NEW q \in Requests, RecordSubmission(q)
  PROVE  /\ q \in Turned /\ ShapeInv' /\ threads' \in [Threads -> Seq(TurnRecord) \cup {NoThread}]
         /\ \A t \in Threads :
              /\ threads'[t] = NoThread <=> threads[t] = NoThread
              /\ threads[t] # NoThread =>
                   /\ DOMAIN threads'[t] = DOMAIN threads[t]
                   /\ \A i \in DOMAIN threads[t] : threads'[t][i].req = threads[t][i].req
         /\ \E turn \in TurnRecord :
              /\ TurnSet(q, turn)
              /\ turn.terminated = Turn[q].terminated
              /\ turn.submission_state = IF answer[q] = "rejected" THEN "rejected" ELSE "accepted"
<1>1. q \in Turned /\ TurnOf(q) = Turn[q] /\ Turn[q] \in TurnRecord /\ Turn[q].req = q
      /\ Turn[q].submission_state = "submitting"
  BY TurnFacts DEF IInv, RecordSubmission, SubmitInv, KindInv, ThreadOnly, Submitting
<1> DEFINE old == Turn[q]
           s == IF answer[q] = "rejected" THEN "rejected" ELSE "accepted"
           f == IF answer[q] \in {"confirmation", "interrupted"} THEN answer[q]
                ELSE IF answer[q] = "accepted" THEN old.failure_code ELSE "other"
           turn == [old EXCEPT !.submission_state = s, !.failure_code = f]
<1>2. WriteTurnRecord(q, turn)
  BY <1>1 DEF RecordSubmission
<1>3. /\ s \in {"accepted", "rejected"} /\ f \in {"none", "confirmation", "interrupted", "other"}
      /\ old \in TurnRecord
      /\ old.req = q
  BY <1>1 DEF TurnRecord
<1>4. turn \in TurnRecord /\ turn.req = q /\ turn.terminated = old.terminated /\ turn.submission_state = s
  <2> HIDE DEF old, s, f
  <2> QED BY <1>3 DEF TurnRecord
<1> HIDE DEF turn
<1> QED BY <1>1, <1>2, <1>4, TurnChanged DEF IInv, TurnSet

LEMMA TurnContinued ==
  ASSUME IInv, NEW u \in Users, target[u] \in Turned, ContinueTurn(u)
  PROVE  /\ ShapeInv' /\ threads' \in [Threads -> Seq(TurnRecord) \cup {NoThread}]
         /\ \A t \in Threads :
              /\ threads'[t] = NoThread <=> threads[t] = NoThread
              /\ threads[t] # NoThread =>
                   /\ DOMAIN threads'[t] = DOMAIN threads[t]
                   /\ \A i \in DOMAIN threads[t] : threads'[t][i].req = threads[t][i].req
         /\ \E turn \in TurnRecord :
              /\ TurnSet(target[u], turn)
              /\ turn.terminated = Turn[target[u]].terminated
              /\ turn.submission_state = Turn[target[u]].submission_state
              /\ turn.failure_code \in {"none", Turn[target[u]].failure_code}
<1> DEFINE q == target[u]
           old == Turn[q]
           turn == [old EXCEPT !.failure_code = "none"]
<1>1. q \in Turned /\ TurnOf(q) = old /\ old \in TurnRecord /\ old.req = q
  BY TurnFacts DEF IInv
<1>2. CASE WriteTurnRecord(q, turn)
  <2>1. /\ turn \in TurnRecord /\ turn.req = q /\ turn.terminated = old.terminated
        /\ turn.submission_state = old.submission_state /\ turn.failure_code = "none"
    <3> HIDE DEF old
    <3> QED BY <1>1 DEF TurnRecord
  <2> HIDE DEF turn
  <2> QED BY <1>1, <1>2, <2>1, TurnChanged DEF IInv, TurnSet
<1>3. CASE threads' = threads
  <2>1. Turn' = [Turn EXCEPT ![q] = old] /\ Turned' = Turned /\ ShapeInv'
        /\ threads' \in [Threads -> Seq(TurnRecord) \cup {NoThread}]
    BY <1>3, TurnFacts, TurnsKept DEF IInv
  <2> QED BY <1>1, <1>3, <2>1 DEF TurnSet
<1> QED BY <1>1, <1>2, <1>3 DEF ContinueTurn

LEMMA TurnTerminated ==
  ASSUME IInv, NEW u \in Users, TerminateTurn(u)
  PROVE  /\ target[u] \in Turned
         /\ ShapeInv' /\ threads' \in [Threads -> Seq(TurnRecord) \cup {NoThread}]
         /\ \A t \in Threads :
              /\ threads'[t] = NoThread <=> threads[t] = NoThread
              /\ threads[t] # NoThread =>
                   /\ DOMAIN threads'[t] = DOMAIN threads[t]
                   /\ \A i \in DOMAIN threads[t] : threads'[t][i].req = threads[t][i].req
         /\ \E turn \in TurnRecord :
              /\ TurnSet(target[u], turn)
              /\ turn.submission_state = Turn[target[u]].submission_state
              /\ turn.failure_code \in {"none", Turn[target[u]].failure_code}
              /\ \/ turn.terminated = Turn[target[u]].terminated
                 \/ /\ turn.terminated
                    /\ turnState(Turn[target[u]]) \in {"cancelled", "status_unknown", "waiting_for_user"}
<1> DEFINE q == target[u]
           old == Turn[q]
           state == turnState(old)
           policy == state = "cancelled" /\ old.failure_code = "confirmation" /\ ~old.terminated
           f == IF policy THEN "none" ELSE old.failure_code
           turn == [old EXCEPT !.terminated = TRUE, !.failure_code = f]
<1>1. q \in Turned /\ TurnOf(q) = old /\ old \in TurnRecord /\ old.req = q
  BY TurnFacts DEF IInv, TargetInv, TerminateTurn
<1>2. CASE WriteTurnRecord(q, turn) /\ state \in {"cancelled", "status_unknown", "waiting_for_user"}
  <2>0. f \in {"none", old.failure_code} /\ f \in {"none", "confirmation", "interrupted", "other"}
    BY <1>1 DEF TurnRecord
  <2>1. /\ turn \in TurnRecord /\ turn.req = q /\ turn.terminated
        /\ turn.submission_state = old.submission_state /\ turn.failure_code \in {"none", old.failure_code}
    <3> HIDE DEF old, f
    <3> QED BY <1>1, <2>0 DEF TurnRecord
  <2> HIDE DEF turn
  <2> QED BY <1>1, <1>2, <2>1, TurnChanged DEF IInv, TurnSet
<1>3. CASE threads' = threads
  <2>1. Turn' = [Turn EXCEPT ![q] = old] /\ Turned' = Turned /\ ShapeInv'
        /\ threads' \in [Threads -> Seq(TurnRecord) \cup {NoThread}]
    BY <1>3, TurnFacts, TurnsKept DEF IInv
  <2> QED BY <1>1, <1>3, <2>1 DEF TurnSet
<1> QED BY <1>1, <1>2, <1>3 DEF TerminateTurn

\* The turns of a thread are those of the requests for it.
LEMMA TurnIn ==
  ASSUME TypeOK, ShapeInv
  PROVE  /\ \A q \in Turned : Turn[q] \in Turns(ThreadOf[q]) /\ Turn[q].req = q
         /\ \A t \in Threads : \A turn \in Turns(t) :
              turn.req \in Turned /\ Turn[turn.req] = turn /\ ThreadOf[turn.req] = t
<1>1. ASSUME NEW q \in Turned PROVE Turn[q] \in Turns(ThreadOf[q]) /\ Turn[q].req = q
  <2>1. q \in Requests /\ HasTurn(q) /\ TurnOf(q) = Turn[q]
    BY TurnFacts
  <2> QED BY <2>1, Found DEF Turns
<1>2. ASSUME NEW t \in Threads, NEW turn \in Turns(t)
      PROVE  turn.req \in Turned /\ Turn[turn.req] = turn /\ ThreadOf[turn.req] = t
  <2>1. PICK i \in DOMAIN threads[t] : threads[t] # NoThread /\ turn = threads[t][i]
    BY DEF Turns
  <2> QED BY <2>1, Found, TurnFacts
<1> QED BY <1>1, <1>2

\* A step that writes no turn and moves no run back leaves the turns alone.
LEMMA Kept ==
  ASSUME IInv, TypeOK', threads' = threads \/ \E t \in Threads : CreateThread(t), runs' = runs \/ RunsGrow
  PROVE  ShapeInv' /\ OrderInv' /\ Turned' = Turned /\ Turn' = Turn /\ Over \subseteq Over'
<1>1. ShapeInv' /\ Turned' = Turned /\ Turn' = Turn
  BY TurnsKept DEF IInv
<1>2. Over \subseteq Over'
  BY <1>1, OverStays DEF IInv, TurnsGrow, RunsGrow
<1>3. CASE threads' = threads
  <2>1. OrderInv'
    BY <1>2, <1>3 DEF IInv, OrderInv
  <2> QED BY <1>1, <1>2, <2>1
<1>4. ASSUME NEW t \in Threads, CreateThread(t) PROVE OrderInv'
  <2>1. DOMAIN <<>> = {}
    OBVIOUS
  <2> QED BY <1>2, <1>4, <2>1 DEF IInv, OrderInv, CreateThread, TypeOK
<1> QED BY <1>1, <1>2, <1>3, <1>4

\* The same for a step that rewrites the turn of one request.
Rewritten ==
  \A t \in Threads :
    /\ threads'[t] = NoThread <=> threads[t] = NoThread
    /\ threads[t] # NoThread =>
         /\ DOMAIN threads'[t] = DOMAIN threads[t]
         /\ \A i \in DOMAIN threads[t] : threads'[t][i].req = threads[t][i].req

LEMMA Changed ==
  ASSUME IInv, TypeOK', ShapeInv', Rewritten, runs' = runs, NEW q \in Turned, NEW turn \in TurnRecord,
         TurnSet(q, turn), Turn[q].terminated => turn.terminated,
         Turn[q].submission_state = "rejected" => turn.submission_state = "rejected"
  PROVE  OrderInv' /\ Over \subseteq Over'
<1>1. Over \subseteq Over'
  BY OverStays, TurnFacts DEF IInv, TurnSet, TurnsGrow, RunsGrow
<1>2. OrderInv'
  BY <1>1 DEF IInv, OrderInv, Rewritten
<1> QED BY <1>1, <1>2

\* A step of a request that does nothing to the continuations, and writes no
\* run but one it creates.
LEMMA PendingKept ==
  ASSUME IInv, pending' = pending, confirm' = confirm, snapshot' = snapshot, decided' = decided,
         target' = target, \A r \in Runs : runs[r] # NoRun => runs'[r] = runs[r] /\ creator'[r] = creator[r],
         \A q \in Turned : Turn'[q] = Turn[q], \A u \in Users : pc'[u] = pc[u]
  PROVE  PendingInv'
<1>1. ASSUME NEW r \in pending, WaitsForConfirmation(r)
      PROVE  WaitsForConfirmation(r)' /\ runs[r] # NoRun /\ creator'[r] = creator[r]
  BY <1>1 DEF IInv, TypeOK, WaitsForConfirmation, Status
<1>2. ASSUME NEW r \in pending, Waiting(r) PROVE Waiting(r)'
  <2>1. creator[r] \in Turned
    BY <1>1, <1>2 DEF IInv, TypeOK, Waiting, WaitsForConfirmation, CreatorInv
  <2> QED BY <1>1, <1>2, <2>1 DEF Waiting
<1> QED BY <1>1, <1>2 DEF IInv, PendingInv, RunAt

\* What a termination that does write found: the run is not active, and no
\* living submission is about to create it.
Unsettled(q) ==
  /\ runs[RunOf[q]] # NoRun => runs[RunOf[q]].status \notin {"pending", "admitted", "running"}
  /\ runs[RunOf[q]] = NoRun => Turn[q].submission_state # "submitting" \/ ~ClaimAlive(RunOf[q])

LEMMA TurnUnsettled ==
  ASSUME IInv, NEW u \in Users, TerminateTurn(u)
  PROVE  /\ target[u] \in Turned
         /\ ShapeInv' /\ threads' \in [Threads -> Seq(TurnRecord) \cup {NoThread}] /\ Rewritten
         /\ \E turn \in TurnRecord :
              /\ TurnSet(target[u], turn)
              /\ turn.submission_state = Turn[target[u]].submission_state
              /\ turn.failure_code \in {"none", Turn[target[u]].failure_code}
              /\ \/ turn.terminated = Turn[target[u]].terminated
                 \/ turn.terminated /\ Unsettled(target[u])
<1>1. target[u] \in Turned
  BY DEF IInv, TargetInv, TerminateTurn
<1>2. PICK turn \in TurnRecord :
        /\ TurnSet(target[u], turn)
        /\ turn.submission_state = Turn[target[u]].submission_state
        /\ turn.failure_code \in {"none", Turn[target[u]].failure_code}
        /\ \/ turn.terminated = Turn[target[u]].terminated
           \/ /\ turn.terminated
              /\ turnState(Turn[target[u]]) \in {"cancelled", "status_unknown", "waiting_for_user"}
  BY TurnTerminated
<1>3. CASE /\ turnState(Turn[target[u]]) \in {"cancelled", "status_unknown", "waiting_for_user"}
           /\ ~Turn[target[u]].terminated
  <2>1. Turn[target[u]].req = target[u]
    BY <1>1, TurnFacts DEF IInv
  <2>2. Unsettled(target[u])
    BY <1>3, <2>1 DEF turnState, mapRunStatus, Unsettled
  <2> QED BY <1>2, <2>2, TurnTerminated DEF Rewritten
<1>4. CASE \/ Turn[target[u]].terminated
           \/ turnState(Turn[target[u]]) \notin {"cancelled", "status_unknown", "waiting_for_user"}
  <2>1. turn.terminated = Turn[target[u]].terminated
    BY <1>1, <1>2, <1>4, TurnFacts DEF IInv, TurnRecord
  <2> QED BY <1>2, <2>1, TurnTerminated DEF Rewritten
<1> QED BY <1>3, <1>4

\* An execution that ends settles its run.
LEMMA RunSettled ==
  ASSUME TypeOK, CreatorInv, NEW r \in Runs, SettleRun(r)
  PROVE  \E rec \in RunRecord :
           /\ runs[r] # NoRun /\ Advances(runs[r].status, rec.status)
           /\ runs' = [runs EXCEPT ![r] = rec]
           /\ rec.status \in TerminalStatuses
<1>1. PICK o \in Outcomes : RR!updateRunRecord(r, o)
  BY DEF SettleRun
<1>2. o \in TerminalStatuses /\ o \in RunStatuses
  BY OutcomeAssumption DEF RunStatuses
<1> QED BY <1>1, <1>2, RunUpdated DEF RunSet

---------------------------------------------------------------------------
(***************************************************************************)
(* Every action keeps the invariant.  First the reservation of a turn,     *)
(* then the submission of its run, then terminations, decisions, and what  *)
(* happens to the process.                                                 *)
(***************************************************************************)
LEMMA CreateThreadSafe ==
  ASSUME IInv, NEW t \in Threads, CreateThread(t) PROVE IInv'
<1>1. TypeOK'
  BY TurnsKept, RequestAssumption, ActorAssumption, FailureAssumption DEF IInv, TypeOK,
          CreateThread, diskRuns, confirmation, scratch, locks, server, RequestPCs, UserPCs
<1>2. ShapeInv' /\ OrderInv' /\ Turned' = Turned /\ Turn' = Turn /\ Over \subseteq Over'
  BY <1>1, Kept DEF CreateThread, diskRuns
<1> USE RequestAssumption, ActorAssumption DEF IInv, TypeOK, CreateThread, diskRuns, confirmation,
        scratch, locks, server
<1>3. PlaceInv' /\ KindInv' /\ AliveInv'
  BY <1>1, <1>2 DEF PlaceInv, UserPCs, RequestPCs, KindInv, ThreadOnly, GuardedOnly, Direct,
     Guarded, AliveInv
<1>4. /\ SubmitInv' /\ CreatorInv' /\ TargetInv' /\ FreeInv' /\ ClaimInv'
      /\ RecoveryInv' /\ RejectedInv' /\ EndedInv' /\ BindingInv' /\ ConsentInv'
  BY <1>1, <1>2 DEF SubmitInv, Early, Submitting, Direct, Guarded, CreatorInv, TargetInv,
     Deciding, RunAt, UserPCs, Terminating, FreeInv, Holding, Over, ClaimInv, RecoveryInv,
     RejectedInv, EndedInv, Status, WaitsForConfirmation, BindingInv, ConsentInv
<1>5. ThreadLockInv' /\ RunLockInv'
  BY <1>1, <1>2 DEF ThreadLockInv, Holding, Direct, Early, RunLockInv, Submitting, InRunLock,
     Guarded, RunAt, UserPCs, Asking
<1>6. PendingInv'
  BY <1>1, <1>2 DEF PendingInv, InRunLock, Waiting, RunAt, WaitsForConfirmation, UserPCs,
     Asking, Status
<1> QED BY <1>1, <1>2, <1>3, <1>4, <1>5, <1>6

LEMMA StartSafe ==
  ASSUME IInv, NEW q \in Requests, Start(q) PROVE IInv'
<1>1. PICK place \in {"claim", "lock", "done"} :
        /\ pc' = [pc EXCEPT ![q] = place]
        /\ place = "claim" <=> Direct(q)
        /\ place = "lock" => threads[ThreadOf[q]] # NoThread /\ ~Direct(q)
  BY ActorAssumption DEF Start, Goto, Direct, Guarded
<1>2. TypeOK'
  <2>1. pc' \in [Requests \cup Users -> RequestPCs \cup UserPCs]
    BY <1>1 DEF IInv, TypeOK, RequestPCs, UserPCs
  <2>2. threads' \in [Threads -> Seq(TurnRecord) \cup {NoThread}]
    BY TurnsKept DEF IInv, Start
  <2> QED BY <2>1, <2>2, RequestAssumption, ActorAssumption, FailureAssumption DEF IInv, TypeOK,
            Start, Goto, Direct, Guarded, diskRuns, confirmation, scratch, locks
<1>3. ShapeInv' /\ OrderInv' /\ Turned' = Turned /\ Turn' = Turn /\ Over \subseteq Over'
  BY <1>2, Kept DEF Start, diskRuns
<1>4. /\ pc[q] = "new"
      /\ UNCHANGED <<threads, runs, creator, resumed, claims, confirm, snapshot, decided, pending,
                      threadLock, runLock, tried, owner, answer, target, orphaned, crashes>>
  BY DEF Start, diskRuns, confirmation, locks, scratch
<1>5. KindInv'
  BY <1>1, <1>4, <1>2, <1>3, RequestAssumption, ActorAssumption DEF IInv, TypeOK, KindInv,
     ThreadOnly, GuardedOnly, Direct, Guarded
<1>6. SubmitInv'
  BY <1>1, <1>4, <1>2, <1>3, RequestAssumption, ActorAssumption DEF IInv, TypeOK,
     SubmitInv, Early, Submitting, Direct, Guarded
<1>7. CreatorInv'
  BY <1>1, <1>4, <1>2, <1>3, RequestAssumption, ActorAssumption DEF IInv, TypeOK,
     CreatorInv, Early, Guarded
<1>8. TargetInv'
  BY <1>1, <1>4, <1>2, <1>3, RequestAssumption, ActorAssumption DEF IInv, TypeOK,
     TargetInv, Deciding, RunAt, UserPCs, Terminating
<1>9. ThreadLockInv'
  BY <1>1, <1>4, <1>2, <1>3, RequestAssumption, ActorAssumption DEF IInv, TypeOK,
     ThreadLockInv, Holding, Direct, Early
<1>10. RunLockInv'
  BY <1>1, <1>4, <1>2, <1>3, RequestAssumption, ActorAssumption DEF IInv, TypeOK,
     RunLockInv, Submitting, InRunLock, Guarded, RunAt, UserPCs, Asking
<1>11. FreeInv'
  BY <1>1, <1>4, <1>2, <1>3, RequestAssumption, ActorAssumption DEF IInv, TypeOK, FreeInv,
     Early, Holding, Over, Direct
<1>12. ClaimInv'
  BY <1>1, <1>4, <1>2, <1>3, RequestAssumption, ActorAssumption DEF IInv, TypeOK, ClaimInv
<1>13. RejectedInv'
  BY <1>1, <1>4, <1>2, <1>3, RequestAssumption, ActorAssumption DEF IInv, TypeOK,
     RejectedInv
<1>14. EndedInv'
  BY <1>1, <1>4, <1>2, <1>3, RequestAssumption, ActorAssumption DEF IInv, TypeOK, EndedInv,
     Guarded, Status, WaitsForConfirmation
<1>15. BindingInv'
  BY <1>1, <1>4, <1>2, <1>3, RequestAssumption, ActorAssumption DEF IInv, TypeOK,
     BindingInv, Guarded
<1>16. ConsentInv'
  BY <1>1, <1>4, <1>2, <1>3, RequestAssumption, ActorAssumption DEF IInv, TypeOK,
     ConsentInv, RunAt, Status, WaitsForConfirmation
<1>17. PendingInv'
  BY <1>1, <1>4, <1>2, <1>3, RequestAssumption, ActorAssumption DEF IInv, TypeOK,
     PendingInv, InRunLock, Waiting, RunAt, WaitsForConfirmation, UserPCs, Asking, Status
<1>18. PlaceInv'
  BY <1>1, ActorAssumption DEF IInv, TypeOK, PlaceInv, RequestPCs, UserPCs
<1> USE RequestAssumption, ActorAssumption DEF IInv, TypeOK, Start, Goto, Direct, Guarded, diskRuns,
        confirmation, scratch, locks
<1>19. AliveInv'
  BY <1>2, <1>3 DEF AliveInv
<1>20. RecoveryInv'
  BY <1>2, <1>3 DEF RecoveryInv
<1> QED BY <1>1, <1>2, <1>3, <1>4, <1>5, <1>6, <1>7, <1>8, <1>9, <1>10, <1>11, <1>12, <1>13, <1>14,
           <1>15, <1>16, <1>17, <1>18, <1>19, <1>20

LEMMA AcquireThreadLockSafe ==
  ASSUME IInv, NEW q \in Requests, AcquireThreadLock(q) PROVE IInv'
<1>1. PICK place \in {"check", "done"} : pc' = [pc EXCEPT ![q] = place]
  BY ActorAssumption DEF AcquireThreadLock, Goto
<1>2. TypeOK'
  <2>1. pc' \in [Requests \cup Users -> RequestPCs \cup UserPCs]
    BY <1>1 DEF IInv, TypeOK, RequestPCs, UserPCs
  <2>2. threads' \in [Threads -> Seq(TurnRecord) \cup {NoThread}]
    BY TurnsKept DEF IInv, AcquireThreadLock
  <2>3. threadLock' \in [Threads -> Requests \cup {NoRequest}]
    BY RequestAssumption DEF IInv, TypeOK, AcquireThreadLock, Goto
  <2> QED BY <2>1, <2>2, <2>3, RequestAssumption, ActorAssumption, FailureAssumption DEF IInv,
            TypeOK, AcquireThreadLock, Goto, diskRuns, confirmation, scratch, server
<1>3. ShapeInv' /\ OrderInv' /\ Turned' = Turned /\ Turn' = Turn /\ Over \subseteq Over'
  BY <1>2, Kept DEF AcquireThreadLock, diskRuns
<1>4. /\ pc[q] = "lock"
      /\ UNCHANGED <<threads, runs, creator, resumed, claims, confirm, snapshot, decided, pending,
                      runLock, tried, owner, answer, target, alive, orphaned, crashes>>
  BY DEF AcquireThreadLock, diskRuns, confirmation, scratch, server
<1>5. KindInv'
  BY <1>1, <1>4, <1>2, <1>3, RequestAssumption, ActorAssumption DEF IInv, TypeOK, KindInv,
     ThreadOnly, GuardedOnly, Direct, Guarded
<1>6. AliveInv'
  BY <1>1, <1>4, <1>2, <1>3, RequestAssumption, ActorAssumption DEF IInv, TypeOK, AliveInv
<1>7. SubmitInv'
  BY <1>1, <1>4, <1>2, <1>3, RequestAssumption, ActorAssumption DEF IInv, TypeOK,
     SubmitInv, Early, Submitting, Direct, Guarded
<1>8. CreatorInv'
  BY <1>1, <1>4, <1>2, <1>3, RequestAssumption, ActorAssumption DEF IInv, TypeOK,
     CreatorInv, Early, Guarded
<1>9. TargetInv'
  BY <1>1, <1>4, <1>2, <1>3, RequestAssumption, ActorAssumption DEF IInv, TypeOK,
     TargetInv, Deciding, RunAt, UserPCs, Terminating
<1>10. RunLockInv'
  BY <1>1, <1>4, <1>2, <1>3, RequestAssumption, ActorAssumption DEF IInv, TypeOK,
     RunLockInv, Submitting, InRunLock, Guarded, RunAt, UserPCs, Asking
<1>11. FreeInv'
  BY <1>1, <1>4, <1>2, <1>3, RequestAssumption, ActorAssumption DEF IInv, TypeOK, FreeInv,
     Early, Holding, Over, Direct, TargetInv, Deciding, RunAt, UserPCs, Terminating
<1>12. ClaimInv'
  BY <1>1, <1>4, <1>2, <1>3, RequestAssumption, ActorAssumption DEF IInv, TypeOK, ClaimInv
<1>13. RecoveryInv'
  BY <1>1, <1>4, <1>2, <1>3, RequestAssumption, ActorAssumption DEF IInv, TypeOK,
     RecoveryInv, Direct
<1>14. RejectedInv'
  BY <1>1, <1>4, <1>2, <1>3, RequestAssumption, ActorAssumption DEF IInv, TypeOK,
     RejectedInv
<1>15. EndedInv'
  BY <1>1, <1>4, <1>2, <1>3, RequestAssumption, ActorAssumption DEF IInv, TypeOK, EndedInv,
     Guarded, Status, WaitsForConfirmation
<1>16. BindingInv'
  BY <1>1, <1>4, <1>2, <1>3, RequestAssumption, ActorAssumption DEF IInv, TypeOK,
     BindingInv, Guarded
<1>17. ConsentInv'
  BY <1>1, <1>4, <1>2, <1>3, RequestAssumption, ActorAssumption DEF IInv, TypeOK,
     ConsentInv, RunAt, Status, WaitsForConfirmation
<1>18. PlaceInv'
  BY <1>1, ActorAssumption DEF IInv, TypeOK, PlaceInv, RequestPCs, UserPCs
<1>19. PendingInv'
  BY <1>3, PendingKept, ActorAssumption DEF IInv, TypeOK, AcquireThreadLock, Goto, LeaveLock,
     diskRuns, confirmation, server
<1> USE RequestAssumption, ActorAssumption DEF IInv, TypeOK, AcquireThreadLock, Goto, diskRuns,
        confirmation, scratch, server
<1>20. ThreadLockInv'
  BY <1>2, <1>3 DEF ThreadLockInv, Holding, Direct, Early
<1> QED BY <1>1, <1>2, <1>3, <1>4, <1>5, <1>6, <1>7, <1>8, <1>9, <1>10, <1>11, <1>12, <1>13, <1>14,
           <1>15, <1>16, <1>17, <1>18, <1>19, <1>20

LEMMA CheckThreadSafe ==
  ASSUME IInv, NEW q \in Requests, CheckThread(q) PROVE IInv'
<1>1. PICK place \in {"claim", "done"} : pc' = [pc EXCEPT ![q] = place]
  BY ActorAssumption DEF CheckThread, Goto, LeaveLock, Direct, Guarded
<1>2. TypeOK'
  <2>1. pc' \in [Requests \cup Users -> RequestPCs \cup UserPCs]
    BY <1>1 DEF IInv, TypeOK, RequestPCs, UserPCs
  <2>2. threads' \in [Threads -> Seq(TurnRecord) \cup {NoThread}]
    BY TurnsKept DEF IInv, CheckThread
  <2> QED BY <2>1, <2>2, RequestAssumption, ActorAssumption, FailureAssumption DEF IInv, TypeOK,
            CheckThread, Goto, LeaveLock, Direct, Guarded, diskRuns, confirmation, scratch, server
<1>3. ShapeInv' /\ OrderInv' /\ Turned' = Turned /\ Turn' = Turn /\ Over \subseteq Over'
  BY <1>2, Kept DEF CheckThread, diskRuns
<1>4. /\ pc[q] = "check"
      /\ UNCHANGED <<threads, runs, creator, resumed, claims, confirm, snapshot, decided, pending,
                      runLock, tried, owner, answer, target, alive, orphaned, crashes>>
  BY DEF CheckThread, diskRuns, confirmation, scratch, server
<1>5. KindInv'
  BY <1>1, <1>4, <1>2, <1>3, RequestAssumption, ActorAssumption DEF IInv, TypeOK, KindInv,
     ThreadOnly, GuardedOnly, Direct, Guarded
<1>6. AliveInv'
  BY <1>1, <1>4, <1>2, <1>3, RequestAssumption, ActorAssumption DEF IInv, TypeOK, AliveInv
<1>7. SubmitInv'
  BY <1>1, <1>4, <1>2, <1>3, RequestAssumption, ActorAssumption DEF IInv, TypeOK,
     SubmitInv, Early, Submitting, Direct, Guarded
<1>8. CreatorInv'
  BY <1>1, <1>4, <1>2, <1>3, RequestAssumption, ActorAssumption DEF IInv, TypeOK,
     CreatorInv, Early, Guarded
<1>9. TargetInv'
  BY <1>1, <1>4, <1>2, <1>3, RequestAssumption, ActorAssumption DEF IInv, TypeOK,
     TargetInv, Deciding, RunAt, UserPCs, Terminating
<1>10. RunLockInv'
  BY <1>1, <1>4, <1>2, <1>3, RequestAssumption, ActorAssumption DEF IInv, TypeOK,
     RunLockInv, Submitting, InRunLock, Guarded, RunAt, UserPCs, Asking
<1>11. ClaimInv'
  BY <1>1, <1>4, <1>2, <1>3, RequestAssumption, ActorAssumption DEF IInv, TypeOK, ClaimInv
<1>12. RecoveryInv'
  BY <1>1, <1>4, <1>2, <1>3, RequestAssumption, ActorAssumption DEF IInv, TypeOK,
     RecoveryInv, Direct
<1>13. RejectedInv'
  BY <1>1, <1>4, <1>2, <1>3, RequestAssumption, ActorAssumption DEF IInv, TypeOK,
     RejectedInv
<1>14. EndedInv'
  BY <1>1, <1>4, <1>2, <1>3, RequestAssumption, ActorAssumption DEF IInv, TypeOK, EndedInv,
     Guarded, Status, WaitsForConfirmation
<1>15. BindingInv'
  BY <1>1, <1>4, <1>2, <1>3, RequestAssumption, ActorAssumption DEF IInv, TypeOK,
     BindingInv, Guarded
<1>16. ConsentInv'
  BY <1>1, <1>4, <1>2, <1>3, RequestAssumption, ActorAssumption DEF IInv, TypeOK,
     ConsentInv, RunAt, Status, WaitsForConfirmation
<1>17. PlaceInv'
  BY <1>1, ActorAssumption DEF IInv, TypeOK, PlaceInv, RequestPCs, UserPCs
<1>18. FreeInv'
  <2>1. \A p \in Requests : ~Direct(p) /\ pc'[p] \in Early \ {"new"} => threads'[ThreadOf[p]] # NoThread
    BY <1>2 DEF IInv, TypeOK, FreeInv, Early, CheckThread, Goto, LeaveLock
  <2>2. ASSUME NEW p \in Requests, ~Direct(p), pc'[p] \in Holding \ {"check"},
               NEW x \in Turned, ThreadOf[x] = ThreadOf[p]
        PROVE  KeyOf[x] # KeyOf[p] /\ RunOf[x] # RunOf[p] /\ x \in Over
    <3>1. CASE p # q
      BY <2>2, <3>1 DEF IInv, TypeOK, FreeInv, CheckThread, Goto, LeaveLock
    <3>2. CASE p = q
      <4>1. /\ ~SameKey(q)
            /\ ~\E turn \in Turns(ThreadOf[q]) : RunOf[turn.req] = RunOf[q]
            /\ ~\E turn \in Turns(ThreadOf[q]) : KeepsLocked(turn)
        BY <2>2, <3>2 DEF IInv, TypeOK, CheckThread, Goto, LeaveLock, Holding, Early
      <4>2. Turn[x] \in Turns(ThreadOf[q]) /\ Turn[x].req = x
        BY <2>2, <3>2, TurnIn DEF IInv
      <4>3. KeyOf[x] # KeyOf[q] /\ RunOf[x] # RunOf[q] /\ ~KeepsLocked(Turn[x])
        BY <4>1, <4>2 DEF SameKey
      <4> QED BY <2>2, <3>2, <4>3 DEF Over
    <3> QED BY <3>1, <3>2
  <2> QED BY <2>1, <2>2, <1>3 DEF FreeInv
<1>19. PendingInv'
  BY <1>3, PendingKept, ActorAssumption DEF IInv, TypeOK, CheckThread, Goto, LeaveLock, diskRuns,
     confirmation, server
<1> USE RequestAssumption, ActorAssumption DEF IInv, TypeOK, CheckThread, Goto, LeaveLock, Direct,
        Guarded, diskRuns, confirmation, scratch, server
<1>20. ThreadLockInv'
  BY <1>2, <1>3 DEF ThreadLockInv, Holding, Early
<1> QED BY <1>1, <1>2, <1>3, <1>4, <1>5, <1>6, <1>7, <1>8, <1>9, <1>10, <1>11, <1>12, <1>13, <1>14,
           <1>15, <1>16, <1>17, <1>18, <1>19, <1>20

LEMMA ClaimReadSafe ==
  ASSUME IInv, NEW q \in Requests, ClaimRead(q) PROVE IInv'
<1>1. PICK place \in {"link", "probe", "recover", "done"} :
        /\ pc' = [pc EXCEPT ![q] = place]
        /\ Direct(q) => place # "probe"
  BY ActorAssumption DEF ClaimRead, Goto, ClaimFailed, LeaveLock, Direct, Guarded
<1>2. TypeOK'
  <2>1. pc' \in [Requests \cup Users -> RequestPCs \cup UserPCs]
    BY <1>1 DEF IInv, TypeOK, RequestPCs, UserPCs
  <2>2. threads' \in [Threads -> Seq(TurnRecord) \cup {NoThread}]
    BY TurnsKept DEF IInv, ClaimRead
  <2> QED BY <2>1, <2>2, RequestAssumption, ActorAssumption, FailureAssumption DEF IInv, TypeOK,
            ClaimRead, Goto, ClaimFailed, LeaveLock, Direct, Guarded, diskRuns, confirmation,
            scratch, server
<1>3. ShapeInv' /\ OrderInv' /\ Turned' = Turned /\ Turn' = Turn /\ Over \subseteq Over'
  BY <1>2, Kept DEF ClaimRead, diskRuns
<1>4. /\ pc[q] = "claim"
      /\ UNCHANGED <<threads, runs, creator, resumed, claims, confirm, snapshot, decided, pending,
                      runLock, tried, owner, answer, target, alive, orphaned, crashes>>
  BY DEF ClaimRead, diskRuns, confirmation, scratch, server
<1>5. KindInv'
  BY <1>1, <1>4, <1>2, <1>3, RequestAssumption, ActorAssumption DEF IInv, TypeOK, KindInv,
     ThreadOnly, GuardedOnly, Direct, Guarded
<1>6. AliveInv'
  BY <1>1, <1>4, <1>2, <1>3, RequestAssumption, ActorAssumption DEF IInv, TypeOK, AliveInv
<1>7. SubmitInv'
  BY <1>1, <1>4, <1>2, <1>3, RequestAssumption, ActorAssumption DEF IInv, TypeOK,
     SubmitInv, Early, Submitting, Direct, Guarded
<1>8. CreatorInv'
  BY <1>1, <1>4, <1>2, <1>3, RequestAssumption, ActorAssumption DEF IInv, TypeOK,
     CreatorInv, Early, Guarded
<1>9. TargetInv'
  BY <1>1, <1>4, <1>2, <1>3, RequestAssumption, ActorAssumption DEF IInv, TypeOK,
     TargetInv, Deciding, RunAt, UserPCs, Terminating
<1>10. RunLockInv'
  BY <1>1, <1>4, <1>2, <1>3, RequestAssumption, ActorAssumption DEF IInv, TypeOK,
     RunLockInv, Submitting, InRunLock, Guarded, RunAt, UserPCs, Asking
<1>11. FreeInv'
  BY <1>1, <1>4, <1>2, <1>3, RequestAssumption, ActorAssumption DEF IInv, TypeOK, FreeInv,
     Early, Holding, Over, Direct
<1>12. ClaimInv'
  BY <1>1, <1>4, <1>2, <1>3, RequestAssumption, ActorAssumption DEF IInv, TypeOK, ClaimInv
<1>13. RejectedInv'
  BY <1>1, <1>4, <1>2, <1>3, RequestAssumption, ActorAssumption DEF IInv, TypeOK,
     RejectedInv
<1>14. EndedInv'
  BY <1>1, <1>4, <1>2, <1>3, RequestAssumption, ActorAssumption DEF IInv, TypeOK, EndedInv,
     Guarded, Status, WaitsForConfirmation
<1>15. BindingInv'
  BY <1>1, <1>4, <1>2, <1>3, RequestAssumption, ActorAssumption DEF IInv, TypeOK,
     BindingInv, Guarded
<1>16. ConsentInv'
  BY <1>1, <1>4, <1>2, <1>3, RequestAssumption, ActorAssumption DEF IInv, TypeOK,
     ConsentInv, RunAt, Status, WaitsForConfirmation
<1>17. PlaceInv'
  BY <1>1, ActorAssumption DEF IInv, TypeOK, PlaceInv, RequestPCs, UserPCs
<1>18. PendingInv'
  BY <1>3, PendingKept, ActorAssumption DEF IInv, TypeOK, ClaimRead, ClaimFailed, Goto, LeaveLock,
     diskRuns, confirmation, server
<1> USE RequestAssumption, ActorAssumption DEF IInv, TypeOK, ClaimRead, Goto, ClaimFailed,
        LeaveLock, Direct, Guarded, diskRuns, confirmation, scratch, server
<1>19. ThreadLockInv'
  BY SMTT(30), <1>2, <1>3 DEF ThreadLockInv, Holding, Early
<1>20. RecoveryInv'
  BY <1>2, <1>3 DEF RecoveryInv
<1> QED BY <1>1, <1>2, <1>3, <1>4, <1>5, <1>6, <1>7, <1>8, <1>9, <1>10, <1>11, <1>12, <1>13, <1>14,
           <1>15, <1>16, <1>17, <1>18, <1>19, <1>20

LEMMA LinkClaimSafe ==
  ASSUME IInv, NEW q \in Requests, LinkClaim(q) PROVE IInv'
<1>1. PICK place \in {"recheck", "probe", "recover", "done"} :
        /\ pc' = [pc EXCEPT ![q] = place]
        /\ Direct(q) => place # "probe"
  BY ActorAssumption DEF LinkClaim, Goto, ClaimFailed, LeaveLock, Direct, Guarded
<1>2. TypeOK'
  <2>1. pc' \in [Requests \cup Users -> RequestPCs \cup UserPCs]
    BY <1>1 DEF IInv, TypeOK, RequestPCs, UserPCs
  <2>2. threads' \in [Threads -> Seq(TurnRecord) \cup {NoThread}]
    BY TurnsKept DEF IInv, LinkClaim
  <2> QED BY <2>1, <2>2, RequestAssumption, ActorAssumption, FailureAssumption DEF IInv, TypeOK,
            LinkClaim, Goto, ClaimFailed, LeaveLock, Direct, Guarded, diskRuns, confirmation,
            scratch, server
<1>3. ShapeInv' /\ OrderInv' /\ Turned' = Turned /\ Turn' = Turn /\ Over \subseteq Over'
  BY <1>2, Kept DEF LinkClaim, diskRuns
<1>4. /\ pc[q] = "link"
      /\ UNCHANGED <<threads, runs, creator, resumed, confirm, snapshot, decided, pending, runLock,
                      tried, owner, answer, target, alive, orphaned, crashes>>
  BY DEF LinkClaim, diskRuns, confirmation, scratch, server
<1>5. KindInv'
  BY <1>1, <1>4, <1>2, <1>3, RequestAssumption, ActorAssumption DEF IInv, TypeOK, KindInv,
     ThreadOnly, GuardedOnly, Direct, Guarded
<1>6. AliveInv'
  BY <1>1, <1>4, <1>2, <1>3, RequestAssumption, ActorAssumption DEF IInv, TypeOK, AliveInv
<1>7. SubmitInv'
  BY <1>1, <1>4, <1>2, <1>3, RequestAssumption, ActorAssumption DEF IInv, TypeOK,
     SubmitInv, Early, Submitting, Direct, Guarded
<1>8. CreatorInv'
  BY <1>1, <1>4, <1>2, <1>3, RequestAssumption, ActorAssumption DEF IInv, TypeOK,
     CreatorInv, Early, Guarded
<1>9. TargetInv'
  BY <1>1, <1>4, <1>2, <1>3, RequestAssumption, ActorAssumption DEF IInv, TypeOK,
     TargetInv, Deciding, RunAt, UserPCs, Terminating
<1>10. RunLockInv'
  BY <1>1, <1>4, <1>2, <1>3, RequestAssumption, ActorAssumption DEF IInv, TypeOK,
     RunLockInv, Submitting, InRunLock, Guarded, RunAt, UserPCs, Asking
<1>11. FreeInv'
  BY <1>1, <1>4, <1>2, <1>3, RequestAssumption, ActorAssumption DEF IInv, TypeOK, FreeInv,
     Early, Holding, Over, Direct
<1>12. RejectedInv'
  BY <1>1, <1>4, <1>2, <1>3, RequestAssumption, ActorAssumption DEF IInv, TypeOK,
     RejectedInv
<1>13. BindingInv'
  BY <1>1, <1>4, <1>2, <1>3, RequestAssumption, ActorAssumption DEF IInv, TypeOK,
     BindingInv, Guarded
<1>14. ConsentInv'
  BY <1>1, <1>4, <1>2, <1>3, RequestAssumption, ActorAssumption DEF IInv, TypeOK,
     ConsentInv, RunAt, Status, WaitsForConfirmation
<1>15. PlaceInv'
  BY <1>1, ActorAssumption DEF IInv, TypeOK, PlaceInv, RequestPCs, UserPCs
<1>16. PendingInv'
  BY <1>3, PendingKept, ActorAssumption DEF IInv, TypeOK, LinkClaim, ClaimFailed, Goto, LeaveLock,
     diskRuns, confirmation, server
<1> USE RequestAssumption, ActorAssumption DEF IInv, TypeOK, LinkClaim, Goto, ClaimFailed,
        LeaveLock, Direct, Guarded, diskRuns, confirmation, scratch, server
<1>17. ThreadLockInv'
  BY SMTT(30), <1>2, <1>3 DEF ThreadLockInv, Holding, Early
<1>18. EndedInv'
  BY <1>2, <1>3 DEF EndedInv, Status, WaitsForConfirmation
<1>19. ClaimInv'
  BY SMTT(30), <1>2, <1>3 DEF ClaimInv, CreatorInv, Early
<1>20. RecoveryInv'
  BY SMTT(30), <1>2, <1>3 DEF RecoveryInv, AliveInv
<1> QED BY <1>1, <1>2, <1>3, <1>4, <1>5, <1>6, <1>7, <1>8, <1>9, <1>10, <1>11, <1>12, <1>13, <1>14,
           <1>15, <1>16, <1>17, <1>18, <1>19, <1>20

LEMMA RecheckRunSafe ==
  ASSUME IInv, NEW q \in Requests, RecheckRun(q) PROVE IInv'
<1>1. PICK place \in {"submit", "write", "probe", "recover", "done"} :
        /\ pc' = [pc EXCEPT ![q] = place]
        /\ Direct(q) => place \notin {"probe", "write"}
        /\ place = "submit" => Direct(q)
  BY ActorAssumption DEF RecheckRun, Goto, ClaimFailed, LeaveLock, Direct, Guarded, ReleaseClaim
<1>2. TypeOK'
  <2>1. pc' \in [Requests \cup Users -> RequestPCs \cup UserPCs]
    BY <1>1 DEF IInv, TypeOK, RequestPCs, UserPCs
  <2>2. threads' \in [Threads -> Seq(TurnRecord) \cup {NoThread}]
    BY TurnsKept DEF IInv, RecheckRun
  <2>3. claims' \in [Runs -> Requests \cup {NoRequest}]
    BY RequestAssumption DEF IInv, TypeOK, RecheckRun, Goto, ClaimFailed, LeaveLock, Direct,
       Guarded, ReleaseClaim
  <2>4. threadLock' \in [Threads -> Requests \cup {NoRequest}]
    BY RequestAssumption DEF IInv, TypeOK, RecheckRun, Goto, ClaimFailed, LeaveLock, Direct,
       Guarded, ReleaseClaim
  <2> QED BY <2>1, <2>2, <2>3, <2>4, RequestAssumption, ActorAssumption, FailureAssumption DEF IInv,
            TypeOK, RecheckRun, Goto, ClaimFailed, LeaveLock, Direct, Guarded, ReleaseClaim,
            diskRuns, confirmation, scratch, server
<1>3. ShapeInv' /\ OrderInv' /\ Turned' = Turned /\ Turn' = Turn /\ Over \subseteq Over'
  BY <1>2, Kept DEF RecheckRun, diskRuns
<1>4. /\ pc[q] = "recheck"
      /\ UNCHANGED <<threads, runs, creator, resumed, confirm, snapshot, decided, pending, runLock,
                      tried, owner, answer, target, alive, orphaned, crashes>>
  BY DEF RecheckRun, diskRuns, confirmation, scratch, server
<1>5. KindInv'
  BY <1>1, <1>4, <1>2, <1>3, RequestAssumption, ActorAssumption DEF IInv, TypeOK, KindInv,
     ThreadOnly, GuardedOnly, Direct, Guarded
<1>6. AliveInv'
  BY <1>1, <1>4, <1>2, <1>3, RequestAssumption, ActorAssumption DEF IInv, TypeOK, AliveInv,
     Direct
<1>7. SubmitInv'
  BY <1>1, <1>4, <1>2, <1>3, RequestAssumption, ActorAssumption DEF IInv, TypeOK,
     SubmitInv, Early, Submitting, Direct, Guarded
<1>8. CreatorInv'
  BY <1>1, <1>4, <1>2, <1>3, RequestAssumption, ActorAssumption DEF IInv, TypeOK,
     CreatorInv, Early, Guarded, Direct
<1>9. TargetInv'
  BY <1>1, <1>4, <1>2, <1>3, RequestAssumption, ActorAssumption DEF IInv, TypeOK,
     TargetInv, Deciding, RunAt, UserPCs, Terminating, Direct
<1>10. RunLockInv'
  BY <1>1, <1>4, <1>2, <1>3, RequestAssumption, ActorAssumption DEF IInv, TypeOK,
     RunLockInv, Submitting, InRunLock, Guarded, RunAt, UserPCs, Asking, Direct
<1>11. FreeInv'
  BY <1>1, <1>4, <1>2, <1>3, RequestAssumption, ActorAssumption DEF IInv, TypeOK, FreeInv,
     Early, Holding, Over, Direct
<1>12. RejectedInv'
  BY <1>1, <1>4, <1>2, <1>3, RequestAssumption, ActorAssumption DEF IInv, TypeOK,
     RejectedInv, Direct
<1>13. BindingInv'
  BY <1>1, <1>4, <1>2, <1>3, RequestAssumption, ActorAssumption DEF IInv, TypeOK,
     BindingInv, Guarded, Direct
<1>14. ConsentInv'
  BY <1>1, <1>4, <1>2, <1>3, RequestAssumption, ActorAssumption DEF IInv, TypeOK,
     ConsentInv, RunAt, Status, WaitsForConfirmation, Direct
<1>15. PlaceInv'
  BY <1>1, ActorAssumption DEF IInv, TypeOK, PlaceInv, RequestPCs, UserPCs
<1>16. PendingInv'
  BY <1>3, PendingKept, ActorAssumption DEF IInv, TypeOK, RecheckRun, ClaimFailed, Goto, LeaveLock,
     diskRuns, confirmation, server
<1> USE RequestAssumption, ActorAssumption DEF IInv, TypeOK, RecheckRun, Goto, ClaimFailed,
        LeaveLock, Direct, Guarded, ReleaseClaim, diskRuns, confirmation, scratch, server
<1>17. RecoveryInv'
  BY <1>2, <1>3 DEF RecoveryInv
<1>18. ThreadLockInv'
  BY <1>2, <1>3 DEF ThreadLockInv, Holding, Early
<1>19. ClaimInv'
  BY SMTT(30), <1>2, <1>3 DEF ClaimInv, SubmitInv, Early, Submitting, CreatorInv
<1>20. EndedInv'
  <2>1. (\A p \in Requests : p \in Turned /\ Turn[p].terminated =>
             /\ pc[p] \in {"run_lock", "submit"} => claims[RunOf[p]] # p)'
    BY <1>2, <1>3 DEF EndedInv, Status, WaitsForConfirmation, SubmitInv, Early, Submitting
  <2>2. (\A p \in Requests : p \in Turned /\ Turn[p].terminated =>
             /\ creator[RunOf[p]] = p =>
               /\ Status(RunOf[p]) \notin {"admitted", "running"}
               /\ ~WaitsForConfirmation(RunOf[p]))'
    BY <1>2, <1>3 DEF EndedInv, Status, WaitsForConfirmation
  <2>3. (\A p \in Requests : p \in Turned /\ Turn[p].terminated =>
             /\ pc[p] \notin {"persist", "snapshot", "register"})'
    BY <1>2, <1>3 DEF EndedInv, Status, WaitsForConfirmation
  <2>4. (\A p \in Requests : p \in Turned /\ Turn[p].terminated =>
             /\ ~(pc[p] = "record" /\ answer[p] = "confirmation"))'
    BY <1>2, <1>3 DEF EndedInv, Status, WaitsForConfirmation
  <2>5. (\A p \in Requests : p \in Turned /\ Turn[p].terminated =>
             /\ ~(pc[p] = "exec" /\ Guarded(p)))'
    BY <1>2, <1>3 DEF EndedInv, Status, WaitsForConfirmation
  <2> QED BY <2>1, <2>2, <2>3, <2>4, <2>5 DEF EndedInv
<1> QED BY <1>1, <1>2, <1>3, <1>4, <1>5, <1>6, <1>7, <1>8, <1>9, <1>10, <1>11, <1>12, <1>13, <1>14,
           <1>15, <1>16, <1>17, <1>18, <1>19, <1>20

LEMMA ProbeClaimSafe ==
  ASSUME IInv, NEW q \in Requests, ProbeClaim(q) PROVE IInv'
<1>1. PICK place \in {"scan", "done"} : pc' = [pc EXCEPT ![q] = place]
  BY ActorAssumption DEF ProbeClaim, Goto, LeaveLock, Direct, Guarded, ClaimAlive
<1>2. TypeOK'
  <2>1. pc' \in [Requests \cup Users -> RequestPCs \cup UserPCs]
    BY <1>1 DEF IInv, TypeOK, RequestPCs, UserPCs
  <2>2. threads' \in [Threads -> Seq(TurnRecord) \cup {NoThread}]
    BY TurnsKept DEF IInv, ProbeClaim
  <2>3. threadLock' \in [Threads -> Requests \cup {NoRequest}]
    BY RequestAssumption DEF IInv, TypeOK, ProbeClaim, Goto, LeaveLock, Direct, Guarded, ClaimAlive
  <2>4. owner' \in [Requests -> Requests \cup {NoRequest}]
    BY RequestAssumption DEF IInv, TypeOK, ProbeClaim, Goto, LeaveLock, Direct, Guarded, ClaimAlive
  <2> QED BY <2>1, <2>2, <2>3, <2>4, RequestAssumption, ActorAssumption, FailureAssumption DEF IInv,
            TypeOK, ProbeClaim, Goto, LeaveLock, Direct, Guarded, ClaimAlive, diskRuns,
            confirmation, server
<1>3. ShapeInv' /\ OrderInv' /\ Turned' = Turned /\ Turn' = Turn /\ Over \subseteq Over'
  BY <1>2, Kept DEF ProbeClaim, diskRuns
<1>4. /\ pc[q] = "probe"
      /\ UNCHANGED <<threads, runs, creator, resumed, claims, confirm, snapshot, decided, pending,
                      runLock, tried, answer, target, alive, orphaned, crashes>>
  BY DEF ProbeClaim, diskRuns, confirmation, server
<1>5. KindInv'
  BY <1>1, <1>4, <1>2, <1>3, RequestAssumption, ActorAssumption DEF IInv, TypeOK, KindInv,
     ThreadOnly, GuardedOnly, Direct, Guarded
<1>6. AliveInv'
  BY <1>1, <1>4, <1>2, <1>3, RequestAssumption, ActorAssumption DEF IInv, TypeOK, AliveInv
<1>7. SubmitInv'
  BY <1>1, <1>4, <1>2, <1>3, RequestAssumption, ActorAssumption DEF IInv, TypeOK,
     SubmitInv, Early, Submitting, Direct, Guarded
<1>8. CreatorInv'
  BY <1>1, <1>4, <1>2, <1>3, RequestAssumption, ActorAssumption DEF IInv, TypeOK,
     CreatorInv, Early, Guarded
<1>9. TargetInv'
  BY <1>1, <1>4, <1>2, <1>3, RequestAssumption, ActorAssumption DEF IInv, TypeOK,
     TargetInv, Deciding, RunAt, UserPCs, Terminating
<1>10. RunLockInv'
  BY <1>1, <1>4, <1>2, <1>3, RequestAssumption, ActorAssumption DEF IInv, TypeOK,
     RunLockInv, Submitting, InRunLock, Guarded, RunAt, UserPCs, Asking
<1>11. FreeInv'
  BY <1>1, <1>4, <1>2, <1>3, RequestAssumption, ActorAssumption DEF IInv, TypeOK, FreeInv,
     Early, Holding, Over, Direct
<1>12. ClaimInv'
  BY <1>1, <1>4, <1>2, <1>3, RequestAssumption, ActorAssumption DEF IInv, TypeOK, ClaimInv
<1>13. RejectedInv'
  BY <1>1, <1>4, <1>2, <1>3, RequestAssumption, ActorAssumption DEF IInv, TypeOK,
     RejectedInv
<1>14. EndedInv'
  BY <1>1, <1>4, <1>2, <1>3, RequestAssumption, ActorAssumption DEF IInv, TypeOK, EndedInv,
     Guarded, Status, WaitsForConfirmation
<1>15. BindingInv'
  BY <1>1, <1>4, <1>2, <1>3, RequestAssumption, ActorAssumption DEF IInv, TypeOK,
     BindingInv, Guarded
<1>16. ConsentInv'
  BY <1>1, <1>4, <1>2, <1>3, RequestAssumption, ActorAssumption DEF IInv, TypeOK,
     ConsentInv, RunAt, Status, WaitsForConfirmation
<1>17. PlaceInv'
  BY <1>1, ActorAssumption DEF IInv, TypeOK, PlaceInv, RequestPCs, UserPCs
<1>18. PendingInv'
  BY <1>3, PendingKept, ActorAssumption DEF IInv, TypeOK, ProbeClaim, Goto, LeaveLock, diskRuns,
     confirmation, server
<1> USE RequestAssumption, ActorAssumption DEF IInv, TypeOK, ProbeClaim, Goto, LeaveLock, Direct,
        Guarded, ClaimAlive, diskRuns, confirmation, server
<1>19. ThreadLockInv'
  BY SMTT(30), <1>2, <1>3 DEF ThreadLockInv, Holding, Early
<1>20. RecoveryInv'
  BY <1>2, <1>3 DEF RecoveryInv, ClaimInv
<1> QED BY <1>1, <1>2, <1>3, <1>4, <1>5, <1>6, <1>7, <1>8, <1>9, <1>10, <1>11, <1>12, <1>13, <1>14,
           <1>15, <1>16, <1>17, <1>18, <1>19, <1>20

LEMMA ScanThreadsSafe ==
  ASSUME IInv, NEW q \in Requests, ScanThreads(q) PROVE IInv'
<1>1. PICK place \in {"recover", "done"} : pc' = [pc EXCEPT ![q] = place]
  BY ActorAssumption DEF ScanThreads, Goto, LeaveLock, Direct, Guarded
<1>2. TypeOK'
  <2>1. pc' \in [Requests \cup Users -> RequestPCs \cup UserPCs]
    BY <1>1 DEF IInv, TypeOK, RequestPCs, UserPCs
  <2>2. threads' \in [Threads -> Seq(TurnRecord) \cup {NoThread}]
    BY TurnsKept DEF IInv, ScanThreads
  <2> QED BY <2>1, <2>2, RequestAssumption, ActorAssumption, FailureAssumption DEF IInv, TypeOK,
            ScanThreads, Goto, LeaveLock, Direct, Guarded, diskRuns, confirmation, scratch, server
<1>3. ShapeInv' /\ OrderInv' /\ Turned' = Turned /\ Turn' = Turn /\ Over \subseteq Over'
  BY <1>2, Kept DEF ScanThreads, diskRuns
<1>4. /\ pc[q] = "scan"
      /\ UNCHANGED <<threads, runs, creator, resumed, claims, confirm, snapshot, decided, pending,
                      runLock, tried, owner, answer, target, alive, orphaned, crashes>>
  BY DEF ScanThreads, diskRuns, confirmation, scratch, server
<1>5. KindInv'
  BY <1>1, <1>4, <1>2, <1>3, RequestAssumption, ActorAssumption DEF IInv, TypeOK, KindInv,
     ThreadOnly, GuardedOnly, Direct, Guarded
<1>6. AliveInv'
  BY <1>1, <1>4, <1>2, <1>3, RequestAssumption, ActorAssumption DEF IInv, TypeOK, AliveInv
<1>7. SubmitInv'
  BY <1>1, <1>4, <1>2, <1>3, RequestAssumption, ActorAssumption DEF IInv, TypeOK,
     SubmitInv, Early, Submitting, Direct, Guarded
<1>8. CreatorInv'
  BY <1>1, <1>4, <1>2, <1>3, RequestAssumption, ActorAssumption DEF IInv, TypeOK,
     CreatorInv, Early, Guarded
<1>9. TargetInv'
  BY <1>1, <1>4, <1>2, <1>3, RequestAssumption, ActorAssumption DEF IInv, TypeOK,
     TargetInv, Deciding, RunAt, UserPCs, Terminating
<1>10. RunLockInv'
  BY <1>1, <1>4, <1>2, <1>3, RequestAssumption, ActorAssumption DEF IInv, TypeOK,
     RunLockInv, Submitting, InRunLock, Guarded, RunAt, UserPCs, Asking, TargetInv, Deciding,
     Terminating
<1>11. FreeInv'
  BY <1>1, <1>4, <1>2, <1>3, RequestAssumption, ActorAssumption DEF IInv, TypeOK, FreeInv,
     Early, Holding, Over, Direct
<1>12. ClaimInv'
  BY <1>1, <1>4, <1>2, <1>3, RequestAssumption, ActorAssumption DEF IInv, TypeOK, ClaimInv
<1>13. RejectedInv'
  BY <1>1, <1>4, <1>2, <1>3, RequestAssumption, ActorAssumption DEF IInv, TypeOK,
     RejectedInv
<1>14. EndedInv'
  BY <1>1, <1>4, <1>2, <1>3, RequestAssumption, ActorAssumption DEF IInv, TypeOK, EndedInv,
     Guarded, Status, WaitsForConfirmation
<1>15. BindingInv'
  BY <1>1, <1>4, <1>2, <1>3, RequestAssumption, ActorAssumption DEF IInv, TypeOK,
     BindingInv, Guarded
<1>16. ConsentInv'
  BY <1>1, <1>4, <1>2, <1>3, RequestAssumption, ActorAssumption DEF IInv, TypeOK,
     ConsentInv, RunAt, Status, WaitsForConfirmation
<1>17. PlaceInv'
  BY <1>1, ActorAssumption DEF IInv, TypeOK, PlaceInv, RequestPCs, UserPCs
<1>18. RecoveryInv'
  <2> SUFFICES ASSUME NEW p \in Requests
               PROVE  /\ pc'[p] \in {"scan", "recover"} /\ ~Direct(p) =>
                           /\ owner[p] \in Requests /\ owner[p] \notin alive /\ pc'[owner[p]] # "new"
                           /\ RunOf[owner[p]] = RunOf[p]
                      /\ pc'[p] = "recover" /\ ~Direct(p) => owner[p] \notin Turned
                      /\ pc'[p] = "unlink" => LET c == claims[RunOf[p]] IN
                           c = NoRequest \/ c \in alive \/ (c \notin Turned /\ runs[RunOf[p]] = NoRun)
    BY <1>3 DEF RecoveryInv, ScanThreads, diskRuns, scratch, server
  <2>1. CASE p # q
    BY <2>1 DEF IInv, TypeOK, RecoveryInv, ScanThreads, Goto, LeaveLock
  <2>2. CASE p = q
    <3>1. pc'[q] = "recover" => owner[q] \notin Turned
      <4> SUFFICES ASSUME pc'[q] = "recover", owner[q] \in Turned PROVE FALSE
        OBVIOUS
      <4>1. /\ ~\E t \in Threads : \E turn \in Turns(t) : RunOf[turn.req] = RunOf[q]
            /\ RunOf[owner[q]] = RunOf[q] /\ owner[q] \in Requests
        BY DEF IInv, TypeOK, RecoveryInv, KindInv, ThreadOnly, ScanThreads, Goto, LeaveLock
      <4>2. Turn[owner[q]] \in Turns(ThreadOf[owner[q]]) /\ Turn[owner[q]].req = owner[q]
        BY TurnIn DEF IInv
      <4> QED BY <4>1, <4>2, RequestAssumption
    <3>2. pc'[q] # "unlink" /\ pc[q] = "scan" /\ \A x \in Requests : pc'[x] = "new" => pc[x] = "new"
      BY DEF IInv, TypeOK, ScanThreads, Goto, LeaveLock
    <3> QED BY <2>2, <3>1, <3>2 DEF IInv, RecoveryInv
  <2> QED BY <2>1, <2>2
<1>19. PendingInv'
  BY <1>3, PendingKept, ActorAssumption DEF IInv, TypeOK, ScanThreads, Goto, LeaveLock, diskRuns,
     confirmation, server
<1> USE RequestAssumption, ActorAssumption DEF IInv, TypeOK, ScanThreads, Goto, LeaveLock, Direct,
        Guarded, diskRuns, confirmation, scratch, server
<1>20. ThreadLockInv'
  BY SMTT(30), <1>2, <1>3 DEF ThreadLockInv, Holding, Early
<1> QED BY <1>1, <1>2, <1>3, <1>4, <1>5, <1>6, <1>7, <1>8, <1>9, <1>10, <1>11, <1>12, <1>13, <1>14,
           <1>15, <1>16, <1>17, <1>18, <1>19, <1>20

LEMMA RecoverClaimSafe ==
  ASSUME IInv, NEW q \in Requests, RecoverClaim(q) PROVE IInv'
<1>1. PICK place \in {"unlink", "done"} : pc' = [pc EXCEPT ![q] = place]
  BY ActorAssumption DEF RecoverClaim, Goto, LeaveLock, Direct, Guarded, ClaimAlive
<1>2. TypeOK'
  <2>1. pc' \in [Requests \cup Users -> RequestPCs \cup UserPCs]
    BY <1>1 DEF IInv, TypeOK, RequestPCs, UserPCs
  <2>2. threads' \in [Threads -> Seq(TurnRecord) \cup {NoThread}]
    BY TurnsKept DEF IInv, RecoverClaim
  <2> QED BY <2>1, <2>2, RequestAssumption, ActorAssumption, FailureAssumption DEF IInv, TypeOK,
            RecoverClaim, Goto, LeaveLock, Direct, Guarded, ClaimAlive, diskRuns, confirmation,
            scratch, server
<1>3. ShapeInv' /\ OrderInv' /\ Turned' = Turned /\ Turn' = Turn /\ Over \subseteq Over'
  BY <1>2, Kept DEF RecoverClaim, diskRuns
<1>4. /\ pc[q] = "recover"
      /\ UNCHANGED <<threads, runs, creator, resumed, claims, confirm, snapshot, decided, pending,
                      runLock, tried, owner, answer, target, alive, orphaned, crashes>>
  BY DEF RecoverClaim, diskRuns, confirmation, scratch, server
<1>5. KindInv'
  BY <1>1, <1>4, <1>2, <1>3, RequestAssumption, ActorAssumption DEF IInv, TypeOK, KindInv,
     ThreadOnly, GuardedOnly, Direct, Guarded
<1>6. AliveInv'
  BY <1>1, <1>4, <1>2, <1>3, RequestAssumption, ActorAssumption DEF IInv, TypeOK, AliveInv
<1>7. SubmitInv'
  BY <1>1, <1>4, <1>2, <1>3, RequestAssumption, ActorAssumption DEF IInv, TypeOK,
     SubmitInv, Early, Submitting, Direct, Guarded
<1>8. CreatorInv'
  BY <1>1, <1>4, <1>2, <1>3, RequestAssumption, ActorAssumption DEF IInv, TypeOK,
     CreatorInv, Early, Guarded
<1>9. TargetInv'
  BY <1>1, <1>4, <1>2, <1>3, RequestAssumption, ActorAssumption DEF IInv, TypeOK,
     TargetInv, Deciding, RunAt, UserPCs, Terminating
<1>10. RunLockInv'
  BY <1>1, <1>4, <1>2, <1>3, RequestAssumption, ActorAssumption DEF IInv, TypeOK,
     RunLockInv, Submitting, InRunLock, Guarded, RunAt, UserPCs, Asking
<1>11. FreeInv'
  BY <1>1, <1>4, <1>2, <1>3, RequestAssumption, ActorAssumption DEF IInv, TypeOK, FreeInv,
     Early, Holding, Over, Direct
<1>12. ClaimInv'
  BY <1>1, <1>4, <1>2, <1>3, RequestAssumption, ActorAssumption DEF IInv, TypeOK, ClaimInv
<1>13. RejectedInv'
  BY <1>1, <1>4, <1>2, <1>3, RequestAssumption, ActorAssumption DEF IInv, TypeOK,
     RejectedInv
<1>14. EndedInv'
  BY <1>1, <1>4, <1>2, <1>3, RequestAssumption, ActorAssumption DEF IInv, TypeOK, EndedInv,
     Guarded, Status, WaitsForConfirmation
<1>15. BindingInv'
  BY <1>1, <1>4, <1>2, <1>3, RequestAssumption, ActorAssumption DEF IInv, TypeOK,
     BindingInv, Guarded
<1>16. ConsentInv'
  BY <1>1, <1>4, <1>2, <1>3, RequestAssumption, ActorAssumption DEF IInv, TypeOK,
     ConsentInv, RunAt, Status, WaitsForConfirmation
<1>17. PlaceInv'
  BY <1>1, ActorAssumption DEF IInv, TypeOK, PlaceInv, RequestPCs, UserPCs
<1>18. PendingInv'
  BY <1>3, PendingKept, ActorAssumption DEF IInv, TypeOK, RecoverClaim, Goto, LeaveLock, diskRuns,
     confirmation, server
<1> USE RequestAssumption, ActorAssumption DEF IInv, TypeOK, RecoverClaim, Goto, LeaveLock, Direct,
        Guarded, ClaimAlive, diskRuns, confirmation, scratch, server
<1>19. ThreadLockInv'
  BY SMTT(30), <1>2, <1>3 DEF ThreadLockInv, Holding, Early
<1>20. RecoveryInv'
  BY <1>2, <1>3, TurnFacts DEF RecoveryInv
<1> QED BY <1>1, <1>2, <1>3, <1>4, <1>5, <1>6, <1>7, <1>8, <1>9, <1>10, <1>11, <1>12, <1>13, <1>14,
           <1>15, <1>16, <1>17, <1>18, <1>19, <1>20

LEMMA UnlinkClaimSafe ==
  ASSUME IInv, NEW q \in Requests, UnlinkClaim(q) PROVE IInv'
<1>1. PICK place \in {"done", "claim"} : pc' = [pc EXCEPT ![q] = place]
  BY ActorAssumption DEF UnlinkClaim, Goto, LeaveLock, Direct, Guarded, ClaimAlive
<1>2. TypeOK'
  <2>1. pc' \in [Requests \cup Users -> RequestPCs \cup UserPCs]
    BY <1>1 DEF IInv, TypeOK, RequestPCs, UserPCs
  <2>2. threads' \in [Threads -> Seq(TurnRecord) \cup {NoThread}]
    BY TurnsKept DEF IInv, UnlinkClaim
  <2>3. claims' \in [Runs -> Requests \cup {NoRequest}]
    BY RequestAssumption DEF IInv, TypeOK, UnlinkClaim, Goto, LeaveLock, Direct, Guarded, ClaimAlive
  <2>4. orphaned' \subseteq Runs
    BY RequestAssumption DEF IInv, TypeOK, UnlinkClaim, Goto, LeaveLock, Direct, Guarded, ClaimAlive
  <2>5. threadLock' \in [Threads -> Requests \cup {NoRequest}]
    BY RequestAssumption DEF IInv, TypeOK, UnlinkClaim, Goto, LeaveLock, Direct, Guarded, ClaimAlive
  <2>6. tried' \in [Requests -> BOOLEAN]
    BY RequestAssumption DEF IInv, TypeOK, UnlinkClaim, Goto, LeaveLock, Direct, Guarded, ClaimAlive
  <2> QED BY <2>1, <2>2, <2>3, <2>4, <2>5, <2>6, RequestAssumption, ActorAssumption,
            FailureAssumption DEF IInv, TypeOK, UnlinkClaim, Goto, LeaveLock, Direct, Guarded,
            ClaimAlive, diskRuns, confirmation
<1>3. ShapeInv' /\ OrderInv' /\ Turned' = Turned /\ Turn' = Turn /\ Over \subseteq Over'
  BY <1>2, Kept DEF UnlinkClaim, diskRuns
<1>4. /\ pc[q] = "unlink"
      /\ UNCHANGED <<threads, runs, creator, resumed, confirm, snapshot, decided, pending, runLock,
                      owner, answer, target, alive, crashes>>
  BY DEF UnlinkClaim, diskRuns, confirmation
<1>5. KindInv'
  BY <1>1, <1>4, <1>2, <1>3, RequestAssumption, ActorAssumption DEF IInv, TypeOK, KindInv,
     ThreadOnly, GuardedOnly, Direct, Guarded
<1>6. AliveInv'
  BY <1>1, <1>4, <1>2, <1>3, RequestAssumption, ActorAssumption DEF IInv, TypeOK, AliveInv
<1>7. SubmitInv'
  BY <1>1, <1>4, <1>2, <1>3, RequestAssumption, ActorAssumption DEF IInv, TypeOK,
     SubmitInv, Early, Submitting, Direct, Guarded
<1>8. CreatorInv'
  BY <1>1, <1>4, <1>2, <1>3, RequestAssumption, ActorAssumption DEF IInv, TypeOK,
     CreatorInv, Early, Guarded
<1>9. TargetInv'
  BY <1>1, <1>4, <1>2, <1>3, RequestAssumption, ActorAssumption DEF IInv, TypeOK,
     TargetInv, Deciding, RunAt, UserPCs, Terminating
<1>10. RunLockInv'
  BY <1>1, <1>4, <1>2, <1>3, RequestAssumption, ActorAssumption DEF IInv, TypeOK,
     RunLockInv, Submitting, InRunLock, Guarded, RunAt, UserPCs, Asking
<1>11. FreeInv'
  BY <1>1, <1>4, <1>2, <1>3, RequestAssumption, ActorAssumption DEF IInv, TypeOK, FreeInv,
     Early, Holding, Over, Direct
<1>12. BindingInv'
  BY <1>1, <1>4, <1>2, <1>3, RequestAssumption, ActorAssumption DEF IInv, TypeOK,
     BindingInv, Guarded
<1>13. ConsentInv'
  BY <1>1, <1>4, <1>2, <1>3, RequestAssumption, ActorAssumption DEF IInv, TypeOK,
     ConsentInv, RunAt, Status, WaitsForConfirmation
<1>14. PlaceInv'
  BY <1>1, ActorAssumption DEF IInv, TypeOK, PlaceInv, RequestPCs, UserPCs
<1>15. PendingInv'
  BY <1>3, PendingKept, ActorAssumption DEF IInv, TypeOK, UnlinkClaim, Goto, LeaveLock, diskRuns,
     confirmation, server
<1> USE RequestAssumption, ActorAssumption DEF IInv, TypeOK, UnlinkClaim, Goto, LeaveLock, Direct,
        Guarded, ClaimAlive, diskRuns, confirmation
<1>16. RejectedInv' /\ EndedInv'
  BY <1>2, <1>3 DEF RejectedInv, EndedInv, Status, WaitsForConfirmation
<1>17. ThreadLockInv'
  BY <1>2, <1>3 DEF ThreadLockInv, Holding, Early
<1>18. RecoveryInv'
  BY <1>2, <1>3 DEF RecoveryInv
<1>19. ClaimInv'
  BY <1>2, <1>3 DEF ClaimInv, AliveInv, RecoveryInv
<1> QED BY <1>1, <1>2, <1>3, <1>4, <1>5, <1>6, <1>7, <1>8, <1>9, <1>10, <1>11, <1>12, <1>13, <1>14,
           <1>15, <1>16, <1>17, <1>18, <1>19

\* The submission of the run.
LEMMA LockRunToSubmitSafe ==
  ASSUME IInv, NEW q \in Requests, LockRunToSubmit(q) PROVE IInv'
<1>1. TypeOK'
  BY TurnsKept, RequestAssumption, ActorAssumption, FailureAssumption DEF IInv, TypeOK,
          LockRunToSubmit, AcquireRunLock, Goto, diskRuns, confirmation, scratch, server,
          RequestPCs, UserPCs
<1>2. ShapeInv' /\ OrderInv' /\ Turned' = Turned /\ Turn' = Turn /\ Over \subseteq Over'
  BY <1>1, Kept DEF LockRunToSubmit, diskRuns
<1> USE RequestAssumption, ActorAssumption DEF IInv, TypeOK, LockRunToSubmit, AcquireRunLock, Goto,
        diskRuns, confirmation, scratch, server
<1>3. PlaceInv' /\ KindInv' /\ AliveInv'
  BY <1>1, <1>2 DEF PlaceInv, UserPCs, RequestPCs, KindInv, ThreadOnly, GuardedOnly, Direct,
     Guarded, AliveInv
<1>4. /\ SubmitInv' /\ CreatorInv' /\ TargetInv' /\ FreeInv' /\ ClaimInv'
      /\ RecoveryInv' /\ RejectedInv' /\ EndedInv' /\ BindingInv' /\ ConsentInv'
  BY <1>1, <1>2 DEF SubmitInv, Early, Submitting, Direct, Guarded, CreatorInv, TargetInv,
     Deciding, RunAt, UserPCs, Terminating, FreeInv, Holding, Over, ClaimInv, RecoveryInv,
     RejectedInv, EndedInv, Status, WaitsForConfirmation, BindingInv, ConsentInv
<1>5. ThreadLockInv' /\ RunLockInv'
  BY <1>1, <1>2 DEF ThreadLockInv, Holding, Direct, Early, RunLockInv, Submitting, InRunLock,
     Guarded, RunAt, UserPCs, Asking
<1>6. PendingInv'
  BY <1>1, <1>2 DEF PendingInv, InRunLock, Waiting, RunAt, WaitsForConfirmation, UserPCs,
     Asking, Status
<1> QED BY <1>1, <1>2, <1>3, <1>4, <1>5, <1>6

LEMMA SubmitRejectedSafe ==
  ASSUME IInv, NEW q \in Requests, SubmitRejected(q) PROVE IInv'
<1>1. PICK place \in {"record", "done"} :
        /\ pc' = [pc EXCEPT ![q] = place]
        /\ Direct(q) => place # "record"
  BY ActorAssumption DEF SubmitRejected, Answer, Goto, Finish, Direct, Guarded
<1>2. TypeOK'
  <2>1. pc' \in [Requests \cup Users -> RequestPCs \cup UserPCs]
    BY <1>1 DEF IInv, TypeOK, RequestPCs, UserPCs
  <2>2. threads' \in [Threads -> Seq(TurnRecord) \cup {NoThread}]
    BY TurnsKept DEF IInv, SubmitRejected
  <2>3. runLock' \in [Runs -> Requests \cup Users \cup {NoRequest}]
    BY RequestAssumption DEF IInv, TypeOK, SubmitRejected, Answer, Goto, Finish, Direct, Guarded
  <2>4. answer' \in [Requests -> {"none", "accepted", "rejected", "confirmation", "interrupted", "other"}]
    BY RequestAssumption DEF IInv, TypeOK, SubmitRejected, Answer, Goto, Finish, Direct, Guarded
  <2> QED BY <2>1, <2>2, <2>3, <2>4, RequestAssumption, ActorAssumption, FailureAssumption DEF IInv,
            TypeOK, SubmitRejected, Answer, Goto, Finish, Direct, Guarded, diskRuns, confirmation,
            server
<1>3. ShapeInv' /\ OrderInv' /\ Turned' = Turned /\ Turn' = Turn /\ Over \subseteq Over'
  BY <1>2, Kept DEF SubmitRejected, diskRuns
<1>4. /\ pc[q] = "submit"
      /\ UNCHANGED <<threads, runs, creator, resumed, claims, confirm, snapshot, decided, pending,
                      threadLock, tried, owner, target, alive, orphaned, crashes>>
  BY DEF SubmitRejected, diskRuns, confirmation, server
<1>5. KindInv'
  BY <1>1, <1>4, <1>2, <1>3, RequestAssumption, ActorAssumption DEF IInv, TypeOK, KindInv,
     ThreadOnly, GuardedOnly, Direct, Guarded
<1>6. AliveInv'
  BY <1>1, <1>4, <1>2, <1>3, RequestAssumption, ActorAssumption DEF IInv, TypeOK, AliveInv
<1>7. CreatorInv'
  BY <1>1, <1>4, <1>2, <1>3, RequestAssumption, ActorAssumption DEF IInv, TypeOK,
     CreatorInv, Early, Guarded
<1>8. TargetInv'
  BY <1>1, <1>4, <1>2, <1>3, RequestAssumption, ActorAssumption DEF IInv, TypeOK,
     TargetInv, Deciding, RunAt, UserPCs, Terminating
<1>9. ThreadLockInv'
  BY <1>1, <1>4, <1>2, <1>3, RequestAssumption, ActorAssumption DEF IInv, TypeOK,
     ThreadLockInv, Holding, Direct, Early
<1>10. FreeInv'
  BY <1>1, <1>4, <1>2, <1>3, RequestAssumption, ActorAssumption DEF IInv, TypeOK, FreeInv,
     Early, Holding, Over, Direct
<1>11. ClaimInv'
  BY <1>1, <1>4, <1>2, <1>3, RequestAssumption, ActorAssumption DEF IInv, TypeOK, ClaimInv
<1>12. RecoveryInv'
  BY <1>1, <1>4, <1>2, <1>3, RequestAssumption, ActorAssumption DEF IInv, TypeOK,
     RecoveryInv, Direct
<1>13. ConsentInv'
  BY <1>1, <1>4, <1>2, <1>3, RequestAssumption, ActorAssumption DEF IInv, TypeOK,
     ConsentInv, RunAt, Status, WaitsForConfirmation
<1>14. PlaceInv'
  BY <1>1, ActorAssumption DEF IInv, TypeOK, PlaceInv, RequestPCs, UserPCs
<1>15. PendingInv'
  BY <1>3, PendingKept, ActorAssumption DEF IInv, TypeOK, SubmitRejected, Answer, Goto, Finish,
     diskRuns, confirmation, server
<1> USE RequestAssumption, ActorAssumption DEF IInv, TypeOK, SubmitRejected, Answer, Goto, Finish,
        Direct, Guarded, diskRuns, confirmation, server
<1>16. EndedInv'
  BY <1>2, <1>3 DEF EndedInv, Status, WaitsForConfirmation
<1>17. SubmitInv'
  BY <1>2, <1>3 DEF SubmitInv, Early, Submitting
<1>18. RunLockInv'
  BY SMTT(30), <1>2, <1>3 DEF RunLockInv, Submitting, InRunLock, RunAt, UserPCs, Asking, TargetInv,
     Deciding, Terminating
<1>19. RejectedInv'
  BY <1>2, <1>3 DEF RejectedInv, SubmitInv, Early, Submitting, ClaimInv
<1>20. BindingInv'
  BY <1>2, <1>3 DEF BindingInv, CreatorInv, Early
<1> QED BY <1>1, <1>2, <1>3, <1>4, <1>5, <1>6, <1>7, <1>8, <1>9, <1>10, <1>11, <1>12, <1>13, <1>14,
           <1>15, <1>16, <1>17, <1>18, <1>19, <1>20

LEMMA SubmitNotAdmittedSafe ==
  ASSUME IInv, NEW q \in Requests, SubmitNotAdmitted(q) PROVE IInv'
<1>1. PICK rec \in RunRecord :
        /\ runs[RunOf[q]] = NoRun
        /\ runs' = [runs EXCEPT ![RunOf[q]] = rec]
        /\ rec.status = "failed" \/ (rec.status = "requires_user_action" /\ ~Guarded(q))
        /\ rec # NoRun
  BY AbsentAssumption, RunCreated, RequestAssumption DEF IInv, SubmitNotAdmitted, CreateRun, RunSet,
     RunStatuses, TerminalStatuses
<1>2. PICK place \in {"record", "done"} :
        /\ pc' = [pc EXCEPT ![q] = place]
        /\ Direct(q) => place # "record"
  BY ActorAssumption DEF SubmitNotAdmitted, Answer, Goto, Finish, Direct, Guarded, CreateRun
<1>3. RunsGrow
  BY <1>1 DEF IInv, TypeOK, RunsGrow, SettledStatuses, TerminalStatuses
<1>4. TypeOK'
  BY SMTT(30), <1>1, RequestAssumption, ActorAssumption DEF IInv, TypeOK, SubmitNotAdmitted, Answer,
     Goto,
          Finish, Direct, Guarded, CreateRun, confirmation, server, RequestPCs, UserPCs
<1>5. ShapeInv' /\ OrderInv' /\ Turned' = Turned /\ Turn' = Turn /\ Over \subseteq Over'
  BY <1>3, <1>4, Kept DEF SubmitNotAdmitted, CreateRun
<1>6. /\ pc[q] = "submit"
      /\ UNCHANGED <<threads, claims, confirm, snapshot, decided, pending, threadLock, tried, owner,
                      target, resumed, alive, orphaned, crashes>>
  BY DEF SubmitNotAdmitted, confirmation, server, CreateRun
<1>7. KindInv'
  BY <1>2, <1>6, <1>1, <1>4, <1>5, RequestAssumption, ActorAssumption DEF IInv, TypeOK,
     KindInv, ThreadOnly, GuardedOnly, Direct, Guarded
<1>8. AliveInv'
  BY <1>2, <1>6, <1>1, <1>4, <1>5, RequestAssumption, ActorAssumption DEF IInv, TypeOK,
     AliveInv
<1>9. ThreadLockInv'
  BY <1>2, <1>6, <1>1, <1>4, <1>5, RequestAssumption, ActorAssumption DEF IInv, TypeOK,
     ThreadLockInv, Holding, Direct, Early
<1>10. FreeInv'
  BY <1>2, <1>6, <1>1, <1>4, <1>5, RequestAssumption, ActorAssumption DEF IInv, TypeOK,
     FreeInv, Early, Holding, Over, Direct
<1>11. ConsentInv'
  BY <1>2, <1>6, <1>1, <1>4, <1>5, RequestAssumption, ActorAssumption DEF IInv, TypeOK,
     ConsentInv, RunAt, Status, WaitsForConfirmation, CreatorInv, Early, Guarded
<1>12. PlaceInv'
  BY <1>2, ActorAssumption DEF IInv, TypeOK, PlaceInv, RequestPCs, UserPCs
<1>13. RejectedInv'
  <2> SUFFICES ASSUME NEW p \in Requests, pc'[p] = "record", answer'[p] = "rejected"
               PROVE  runs'[RunOf[p]] = NoRun \/ RunOf[p] \in orphaned'
    BY DEF RejectedInv
  <2>1. p # q /\ pc[p] = "record" /\ answer[p] = "rejected" /\ orphaned' = orphaned
    BY ActorAssumption DEF IInv, TypeOK, SubmitNotAdmitted, CreateRun, Answer, Goto, Finish, server
  <2>2. CASE RunOf[p] = RunOf[q]
    <3>1. p \in Turned /\ claims[RunOf[p]] = q
      BY <2>1, <2>2 DEF IInv, SubmitInv, KindInv, ThreadOnly, Submitting, SubmitNotAdmitted,
         CreateRun
    <3> QED BY <2>1, <3>1 DEF IInv, ClaimInv
  <2>3. CASE RunOf[p] # RunOf[q]
    BY <2>1, <2>3, <1>1, RequestAssumption DEF IInv, TypeOK, RejectedInv
  <2> QED BY <2>2, <2>3
<1>14. PendingInv'
  BY <1>5, <1>1, RequestAssumption, PendingKept, ActorAssumption DEF IInv, TypeOK,
     SubmitNotAdmitted, CreateRun, Answer, Goto, Finish, confirmation
<1> USE RequestAssumption, ActorAssumption DEF IInv, TypeOK, SubmitNotAdmitted, Answer, Goto,
        Finish, Direct, Guarded, CreateRun, confirmation, server
<1>15. ClaimInv' /\ EndedInv'
  BY <1>1, <1>4, <1>5 DEF ClaimInv, EndedInv, Status, WaitsForConfirmation
<1>16. CreatorInv'
  BY <1>1, <1>4, <1>5 DEF CreatorInv, Early
<1>17. SubmitInv'
  BY <1>1, <1>4, <1>5 DEF SubmitInv, Early, Submitting, CreatorInv
<1>18. TargetInv'
  BY <1>1, <1>4, <1>5 DEF TargetInv, Deciding, RunAt, UserPCs, Terminating, CreatorInv, Early
<1>19. RunLockInv'
  BY <1>1, <1>4, <1>5 DEF RunLockInv, Submitting, InRunLock, RunAt, UserPCs, Asking, TargetInv,
     Deciding, Terminating
<1>20. RecoveryInv'
  BY SMTT(30), <1>1, <1>4, <1>5 DEF RecoveryInv, AliveInv
<1>21. BindingInv'
  BY <1>1, <1>4, <1>5 DEF BindingInv, CreatorInv, Early
<1> QED BY <1>1, <1>2, <1>3, <1>4, <1>5, <1>6, <1>7, <1>8, <1>9, <1>10, <1>11, <1>12, <1>13, <1>14,
           <1>15, <1>16, <1>17, <1>18, <1>19, <1>20, <1>21

LEMMA SubmitAdmittedSafe ==
  ASSUME IInv, NEW q \in Requests, SubmitAdmitted(q) PROVE IInv'
<1>1. PICK rec \in RunRecord :
        /\ runs[RunOf[q]] = NoRun
        /\ runs' = [runs EXCEPT ![RunOf[q]] = rec]
        /\ rec.status = "admitted"
        /\ rec # NoRun
  BY AbsentAssumption, RunCreated, RequestAssumption DEF IInv, SubmitAdmitted, CreateRun, RunSet,
     RunStatuses
<1>2. RunsGrow
  BY <1>1 DEF IInv, TypeOK, RunsGrow, SettledStatuses, TerminalStatuses
<1>3. TypeOK'
  BY <1>1, RequestAssumption, ActorAssumption DEF IInv, TypeOK, SubmitAdmitted, Goto, CreateRun,
          confirmation, server, Guarded, RequestPCs, UserPCs
<1>4. ShapeInv' /\ OrderInv' /\ Turned' = Turned /\ Turn' = Turn /\ Over \subseteq Over'
  BY <1>2, <1>3, Kept DEF SubmitAdmitted, CreateRun
<1>5. RejectedInv'
  <2> SUFFICES ASSUME NEW p \in Requests, pc'[p] = "record", answer'[p] = "rejected"
               PROVE  runs'[RunOf[p]] = NoRun \/ RunOf[p] \in orphaned'
    BY DEF RejectedInv
  <2>1. p # q /\ pc[p] = "record" /\ answer[p] = "rejected" /\ orphaned' = orphaned
    BY ActorAssumption DEF IInv, TypeOK, SubmitAdmitted, CreateRun, Goto, server
  <2>2. CASE RunOf[p] = RunOf[q]
    <3>1. p \in Turned /\ claims[RunOf[p]] = q
      BY <2>1, <2>2 DEF IInv, SubmitInv, KindInv, ThreadOnly, Submitting, SubmitAdmitted, CreateRun
    <3> QED BY <2>1, <3>1 DEF IInv, ClaimInv
  <2>3. CASE RunOf[p] # RunOf[q]
    BY <2>1, <2>3, <1>1, RequestAssumption DEF IInv, TypeOK, RejectedInv
  <2> QED BY <2>2, <2>3
<1> USE RequestAssumption, ActorAssumption DEF IInv, TypeOK, SubmitAdmitted, Goto, CreateRun,
        confirmation, server, Guarded
<1>6. PlaceInv' /\ KindInv' /\ AliveInv'
  BY <1>1, <1>3, <1>4 DEF PlaceInv, UserPCs, RequestPCs, KindInv, ThreadOnly, GuardedOnly,
     Direct, AliveInv
<1>7. CreatorInv' /\ FreeInv' /\ ClaimInv' /\ EndedInv' /\ ConsentInv'
  BY <1>1, <1>3, <1>4 DEF CreatorInv, Early, FreeInv, Holding, Over, Direct, ClaimInv,
     EndedInv, Status, WaitsForConfirmation, ConsentInv, RunAt
<1>8. ThreadLockInv' /\ RunLockInv'
  BY <1>1, <1>3, <1>4 DEF ThreadLockInv, Holding, Direct, Early, RunLockInv, Submitting,
     InRunLock, RunAt, UserPCs, Asking
<1>9. PendingInv'
  BY <1>1, <1>3, <1>4 DEF PendingInv, InRunLock, Waiting, RunAt, WaitsForConfirmation, UserPCs,
     Asking, Status
<1>10. SubmitInv'
  BY <1>1, <1>3, <1>4 DEF SubmitInv, Early, Submitting, Direct, CreatorInv
<1>11. TargetInv'
  BY <1>1, <1>3, <1>4 DEF TargetInv, Deciding, RunAt, UserPCs, Terminating, CreatorInv, Early
<1>12. RecoveryInv'
  BY SMTT(30), <1>1, <1>3, <1>4 DEF RecoveryInv, Direct, AliveInv
<1>13. BindingInv'
  BY <1>1, <1>3, <1>4 DEF BindingInv, CreatorInv, Early
<1> QED BY <1>1, <1>2, <1>3, <1>4, <1>5, <1>6, <1>7, <1>8, <1>9, <1>10, <1>11, <1>12, <1>13

LEMMA SubmitConfirmSafe ==
  ASSUME IInv, NEW q \in Requests, SubmitConfirm(q) PROVE IInv'
<1>1. PICK rec \in RunRecord :
        /\ runs[RunOf[q]] = NoRun
        /\ runs' = [runs EXCEPT ![RunOf[q]] = rec]
        /\ rec.status = "requires_user_action"
        /\ rec # NoRun
  BY AbsentAssumption, RunCreated, RequestAssumption DEF IInv, SubmitConfirm, CreateRun, RunSet,
     RunStatuses, TerminalStatuses
<1>2. RunsGrow
  BY <1>1 DEF IInv, TypeOK, RunsGrow, SettledStatuses, TerminalStatuses
<1>3. TypeOK'
  BY <1>1, RequestAssumption, ActorAssumption DEF IInv, TypeOK, SubmitConfirm, Goto, CreateRun,
          confirmation, server, Guarded, RequestPCs, UserPCs
<1>4. ShapeInv' /\ OrderInv' /\ Turned' = Turned /\ Turn' = Turn /\ Over \subseteq Over'
  BY <1>2, <1>3, Kept DEF SubmitConfirm, CreateRun
<1>5. RejectedInv'
  <2> SUFFICES ASSUME NEW p \in Requests, pc'[p] = "record", answer'[p] = "rejected"
               PROVE  runs'[RunOf[p]] = NoRun \/ RunOf[p] \in orphaned'
    BY DEF RejectedInv
  <2>1. p # q /\ pc[p] = "record" /\ answer[p] = "rejected" /\ orphaned' = orphaned
    BY ActorAssumption DEF IInv, TypeOK, SubmitConfirm, CreateRun, Goto, server
  <2>2. CASE RunOf[p] = RunOf[q]
    <3>1. p \in Turned /\ claims[RunOf[p]] = q
      BY <2>1, <2>2 DEF IInv, SubmitInv, KindInv, ThreadOnly, Submitting, SubmitConfirm, CreateRun
    <3> QED BY <2>1, <3>1 DEF IInv, ClaimInv
  <2>3. CASE RunOf[p] # RunOf[q]
    BY <2>1, <2>3, <1>1, RequestAssumption DEF IInv, TypeOK, RejectedInv
  <2> QED BY <2>2, <2>3
<1> USE RequestAssumption, ActorAssumption DEF IInv, TypeOK, SubmitConfirm, Goto, CreateRun,
        confirmation, server, Guarded
<1>6. PlaceInv' /\ KindInv' /\ AliveInv'
  BY <1>1, <1>3, <1>4 DEF PlaceInv, UserPCs, RequestPCs, KindInv, ThreadOnly, GuardedOnly,
     Direct, AliveInv
<1>7. CreatorInv' /\ FreeInv' /\ ClaimInv' /\ EndedInv'
  BY <1>1, <1>3, <1>4 DEF CreatorInv, Early, FreeInv, Holding, Over, Direct, ClaimInv,
     EndedInv, Status, WaitsForConfirmation
<1>8. ThreadLockInv' /\ RunLockInv'
  BY <1>1, <1>3, <1>4 DEF ThreadLockInv, Holding, Direct, Early, RunLockInv, Submitting,
     InRunLock, RunAt, UserPCs, Asking
<1>9. PendingInv'
  BY <1>1, <1>3, <1>4 DEF PendingInv, InRunLock, Waiting, RunAt, WaitsForConfirmation, UserPCs,
     Asking, Status
<1>10. SubmitInv'
  BY <1>1, <1>3, <1>4 DEF SubmitInv, Early, Submitting, Direct, CreatorInv
<1>11. TargetInv'
  BY <1>1, <1>3, <1>4 DEF TargetInv, Deciding, RunAt, UserPCs, Terminating, CreatorInv, Early
<1>12. RecoveryInv'
  BY <1>1, <1>3, <1>4 DEF RecoveryInv, Direct, AliveInv
<1>13. BindingInv'
  BY <1>1, <1>3, <1>4 DEF BindingInv, CreatorInv, Early
<1>14. ConsentInv'
  BY SMTT(30), <1>1, <1>3, <1>4 DEF ConsentInv, RunAt, Status, WaitsForConfirmation, RunLockInv,
     Submitting, InRunLock, UserPCs, Asking
<1> QED BY <1>1, <1>2, <1>3, <1>4, <1>5, <1>6, <1>7, <1>8, <1>9, <1>10, <1>11, <1>12, <1>13, <1>14

LEMMA PersistDecisionSafe ==
  ASSUME IInv, NEW q \in Requests, PersistDecision(q) PROVE IInv'
<1>1. TypeOK'
  BY TurnsKept, RequestAssumption, ActorAssumption, FailureAssumption DEF IInv, TypeOK,
          PersistDecision, Goto, diskRuns, scratch, locks, server, RequestPCs, UserPCs
<1>2. ShapeInv' /\ OrderInv' /\ Turned' = Turned /\ Turn' = Turn /\ Over \subseteq Over'
  BY <1>1, Kept DEF PersistDecision, diskRuns
<1>3. CreatorInv'
  <2>1. creator[RunOf[q]] = q /\ Guarded(q) /\ q \in Turned /\ runs[RunOf[q]] # NoRun
    BY RequestAssumption, ActorAssumption
       DEF IInv, PersistDecision, SubmitInv, KindInv, CreatorInv, GuardedOnly, Submitting, Guarded, Direct
  <2>2. \A p \in Requests : p # q => pc'[p] = pc[p]
    BY DEF IInv, TypeOK, PersistDecision, Goto
  <2>3. pc'[q] = "snapshot"
    BY DEF IInv, TypeOK, PersistDecision, Goto
  <2>4. ASSUME NEW r \in Runs, runs[r] # NoRun
        PROVE  pc'[creator[r]] \notin Early \cup {"run_lock", "submit"}
    BY <2>2, <2>3, <2>4 DEF IInv, TypeOK, CreatorInv, Early
  <2>5. \A r \in Runs : confirm'[r] # "none" => confirm[r] # "none" \/ r = RunOf[q]
    BY DEF IInv, TypeOK, PersistDecision
  <2> QED BY <2>1, <2>4, <2>5, <1>2 DEF IInv, PersistDecision, CreatorInv, diskRuns, Guarded
<1> USE RequestAssumption, ActorAssumption DEF IInv, TypeOK, PersistDecision, Goto, diskRuns,
        scratch, locks, server
<1>4. PlaceInv' /\ KindInv' /\ AliveInv'
  BY <1>1, <1>2 DEF PlaceInv, UserPCs, RequestPCs, KindInv, ThreadOnly, GuardedOnly, Direct,
     Guarded, AliveInv
<1>5. /\ SubmitInv' /\ TargetInv' /\ FreeInv' /\ ClaimInv' /\ RecoveryInv'
      /\ RejectedInv' /\ EndedInv' /\ BindingInv' /\ ConsentInv'
  BY <1>1, <1>2 DEF SubmitInv, Early, Submitting, Direct, Guarded, TargetInv, Deciding, RunAt,
     UserPCs, Terminating, FreeInv, Holding, Over, ClaimInv, RecoveryInv, RejectedInv, EndedInv,
     Status, WaitsForConfirmation, BindingInv, ConsentInv
<1>6. ThreadLockInv' /\ RunLockInv'
  BY <1>1, <1>2 DEF ThreadLockInv, Holding, Direct, Early, RunLockInv, Submitting, InRunLock,
     Guarded, RunAt, UserPCs, Asking
<1>7. PendingInv'
  BY <1>1, <1>2 DEF PendingInv, InRunLock, Waiting, RunAt, WaitsForConfirmation, UserPCs,
     Asking, Status
<1> QED BY <1>1, <1>2, <1>3, <1>4, <1>5, <1>6, <1>7

LEMMA PersistSnapshotSafe ==
  ASSUME IInv, NEW q \in Requests, PersistSnapshot(q) PROVE IInv'
<1>1. PICK place \in {"exec", "record", "done"} : pc' = [pc EXCEPT ![q] = place]
  BY ActorAssumption DEF PersistSnapshot, Goto, Answer, Finish, Direct, Guarded
<1>2. TypeOK'
  <2>1. pc' \in [Requests \cup Users -> RequestPCs \cup UserPCs]
    BY <1>1 DEF IInv, TypeOK, RequestPCs, UserPCs
  <2>2. threads' \in [Threads -> Seq(TurnRecord) \cup {NoThread}]
    BY TurnsKept DEF IInv, PersistSnapshot
  <2>3. snapshot' \in [Runs -> {"none", "confirm", "execute"}]
    BY SMTT(30), RequestAssumption DEF IInv, TypeOK, PersistSnapshot, Goto, Answer, Finish, Direct,
       Guarded
  <2>4. runLock' \in [Runs -> Requests \cup Users \cup {NoRequest}]
    BY RequestAssumption DEF IInv, TypeOK, PersistSnapshot, Goto, Answer, Finish, Direct, Guarded
  <2>5. answer' \in [Requests -> {"none", "accepted", "rejected", "confirmation", "interrupted", "other"}]
    BY RequestAssumption DEF IInv, TypeOK, PersistSnapshot, Goto, Answer, Finish, Direct, Guarded
  <2> QED BY <2>1, <2>2, <2>3, <2>4, <2>5, RequestAssumption, ActorAssumption, FailureAssumption DEF
            IInv, TypeOK, PersistSnapshot, Goto, Answer, Finish, Direct, Guarded, diskRuns,
            confirmation, server
<1>3. ShapeInv' /\ OrderInv' /\ Turned' = Turned /\ Turn' = Turn /\ Over \subseteq Over'
  BY <1>2, Kept DEF PersistSnapshot, diskRuns
<1>4. /\ pc[q] = "snapshot"
      /\ UNCHANGED <<threads, runs, creator, resumed, claims, confirm, decided, pending, threadLock,
                      tried, owner, target, alive, orphaned, crashes>>
  BY DEF PersistSnapshot, diskRuns, server
<1>5. AliveInv'
  BY <1>1, <1>4, <1>2, <1>3, RequestAssumption, ActorAssumption DEF IInv, TypeOK, AliveInv
<1>6. TargetInv'
  BY <1>1, <1>4, <1>2, <1>3, RequestAssumption, ActorAssumption DEF IInv, TypeOK,
     TargetInv, Deciding, RunAt, UserPCs, Terminating
<1>7. ThreadLockInv'
  BY <1>1, <1>4, <1>2, <1>3, RequestAssumption, ActorAssumption DEF IInv, TypeOK,
     ThreadLockInv, Holding, Direct, Early
<1>8. FreeInv'
  BY <1>1, <1>4, <1>2, <1>3, RequestAssumption, ActorAssumption DEF IInv, TypeOK, FreeInv,
     Early, Holding, Over, Direct
<1>9. ClaimInv'
  BY <1>1, <1>4, <1>2, <1>3, RequestAssumption, ActorAssumption DEF IInv, TypeOK, ClaimInv
<1>10. RecoveryInv'
  BY <1>1, <1>4, <1>2, <1>3, RequestAssumption, ActorAssumption DEF IInv, TypeOK,
     RecoveryInv, Direct
<1>11. PlaceInv'
  BY <1>1, ActorAssumption DEF IInv, TypeOK, PlaceInv, RequestPCs, UserPCs
<1>12. CreatorInv'
  <2>1. creator[RunOf[q]] = q /\ Guarded(q) /\ q \in Turned /\ runs[RunOf[q]] # NoRun
    BY RequestAssumption, ActorAssumption
       DEF IInv, PersistSnapshot, SubmitInv, KindInv, CreatorInv, GuardedOnly, Submitting, Guarded, Direct
  <2>2. \A p \in Requests : p # q => pc'[p] = pc[p]
    BY DEF IInv, TypeOK, PersistSnapshot, Answer, Finish, Goto
  <2>3. pc'[q] \in {"exec", "record", "done"}
    BY ActorAssumption DEF IInv, TypeOK, PersistSnapshot, Answer, Finish, Goto
  <2>4. ASSUME NEW r \in Runs, runs[r] # NoRun
        PROVE  pc'[creator[r]] \notin Early \cup {"run_lock", "submit"}
    BY <2>2, <2>3, <2>4 DEF IInv, TypeOK, CreatorInv, Early
  <2>5. \A r \in Runs : snapshot'[r] # "none" => snapshot[r] # "none" \/ r = RunOf[q]
    BY DEF IInv, TypeOK, PersistSnapshot
  <2> QED BY <2>1, <2>4, <2>5, <1>3 DEF IInv, PersistSnapshot, CreatorInv, diskRuns, Guarded
<1> USE RequestAssumption, ActorAssumption DEF IInv, TypeOK, PersistSnapshot, Goto, Answer, Finish,
        Direct, Guarded, diskRuns, confirmation, server
<1>13. PendingInv'
  BY SMTT(30), <1>2, <1>3 DEF PendingInv, InRunLock, Waiting, RunAt, WaitsForConfirmation, UserPCs,
     Asking, Status
<1>14. RejectedInv'
  BY <1>2, <1>3 DEF RejectedInv
<1>15. KindInv'
  BY <1>2, <1>3 DEF KindInv, ThreadOnly, GuardedOnly
<1>16. SubmitInv'
  BY <1>2, <1>3 DEF SubmitInv, Early, Submitting, KindInv, ThreadOnly, GuardedOnly
<1>17. RunLockInv'
  BY SMTT(30), <1>2, <1>3 DEF RunLockInv, Submitting, InRunLock, RunAt, UserPCs, Asking, TargetInv,
     Deciding, Terminating
<1>18. EndedInv'
  BY <1>2, <1>3 DEF EndedInv, Status, WaitsForConfirmation, SubmitInv, Early, Submitting
<1>19. BindingInv'
  BY <1>2, <1>3 DEF BindingInv, SubmitInv, Early, Submitting
<1>20. ConsentInv'
  BY SMTT(30), <1>2, <1>3 DEF ConsentInv, RunAt, Status, WaitsForConfirmation, KindInv, ThreadOnly,
     GuardedOnly, TargetInv, Deciding, UserPCs, Terminating, RunLockInv, Submitting, InRunLock,
     Asking
<1> QED BY <1>1, <1>2, <1>3, <1>4, <1>5, <1>6, <1>7, <1>8, <1>9, <1>10, <1>11, <1>12, <1>13, <1>14,
           <1>15, <1>16, <1>17, <1>18, <1>19, <1>20

LEMMA PersistFailsSafe ==
  ASSUME IInv, NEW q \in Requests, PersistFails(q) PROVE IInv'
<1>1. PICK rec \in RunRecord :
        /\ runs[RunOf[q]] # NoRun
        /\ runs' = [runs EXCEPT ![RunOf[q]] = rec]
        /\ rec.status = IF runs[RunOf[q]].status = "admitted" THEN "failed" ELSE runs[RunOf[q]].status
        /\ rec # NoRun
  <2> DEFINE s == IF runs[RunOf[q]].status = "admitted" THEN "failed" ELSE runs[RunOf[q]].status
  <2>1. RR!updateRunRecord(RunOf[q], s)
    BY DEF PersistFails
  <2>2. runs[RunOf[q]] # NoRun /\ s \in RunStatuses
    BY <2>1, RunTyped, RequestAssumption DEF IInv, RR!updateRunRecord, RunStatuses, TerminalStatuses
  <2> HIDE DEF s
  <2>3. RunSet(RunOf[q], s)
    BY <2>1, <2>2, RunUpdated, RequestAssumption DEF IInv
  <2> QED BY <2>2, <2>3, AbsentAssumption DEF RunSet, s
<1>2. PICK place \in {"record", "done"} :
        /\ pc' = [pc EXCEPT ![q] = place]
        /\ Direct(q) => place # "record"
  BY ActorAssumption DEF PersistFails, Answer, Goto, Finish, Direct, Guarded
<1>3. RunsGrow
  BY <1>1 DEF IInv, TypeOK, RunsGrow, SettledStatuses, TerminalStatuses
<1>4. TypeOK'
  <2>1. pc' \in [Requests \cup Users -> RequestPCs \cup UserPCs]
    BY <1>2 DEF IInv, TypeOK, RequestPCs, UserPCs
  <2>2. runLock' \in [Runs -> Requests \cup Users \cup {NoRequest}]
    BY RequestAssumption DEF IInv, TypeOK, PersistFails, Answer, Goto, Finish, Direct, Guarded
  <2>3. answer' \in [Requests -> {"none", "accepted", "rejected", "confirmation", "interrupted", "other"}]
    BY RequestAssumption DEF IInv, TypeOK, PersistFails, Answer, Goto, Finish, Direct, Guarded
  <2> QED BY <2>1, <2>2, <2>3, <1>1, RequestAssumption, ActorAssumption, FailureAssumption DEF
            IInv, TypeOK, PersistFails, Answer, Goto, Finish, Direct, Guarded, confirmation, server
<1>5. ShapeInv' /\ OrderInv' /\ Turned' = Turned /\ Turn' = Turn /\ Over \subseteq Over'
  BY <1>3, <1>4, Kept DEF PersistFails
<1>6. /\ pc[q] \in {"persist", "snapshot"}
      /\ UNCHANGED <<threads, creator, resumed, claims, confirm, snapshot, decided, pending,
                      threadLock, tried, owner, target, alive, orphaned, crashes>>
  BY DEF PersistFails, confirmation, server
<1>7. KindInv'
  BY <1>2, <1>6, <1>1, <1>4, <1>5, RequestAssumption, ActorAssumption DEF IInv, TypeOK,
     KindInv, ThreadOnly, GuardedOnly, Direct, Guarded
<1>8. AliveInv'
  BY <1>2, <1>6, <1>1, <1>4, <1>5, RequestAssumption, ActorAssumption DEF IInv, TypeOK,
     AliveInv
<1>9. CreatorInv'
  BY <1>2, <1>6, <1>1, <1>4, <1>5, RequestAssumption, ActorAssumption DEF IInv, TypeOK,
     CreatorInv, Early, Guarded
<1>10. TargetInv'
  BY <1>2, <1>6, <1>1, <1>4, <1>5, RequestAssumption, ActorAssumption DEF IInv, TypeOK,
     TargetInv, Deciding, RunAt, UserPCs, Terminating
<1>11. ThreadLockInv'
  BY <1>2, <1>6, <1>1, <1>4, <1>5, RequestAssumption, ActorAssumption DEF IInv, TypeOK,
     ThreadLockInv, Holding, Direct, Early
<1>12. FreeInv'
  BY <1>2, <1>6, <1>1, <1>4, <1>5, RequestAssumption, ActorAssumption DEF IInv, TypeOK,
     FreeInv, Early, Holding, Over, Direct
<1>13. ClaimInv'
  BY <1>2, <1>6, <1>1, <1>4, <1>5, RequestAssumption, ActorAssumption DEF IInv, TypeOK,
     ClaimInv
<1>14. RecoveryInv'
  BY <1>2, <1>6, <1>1, <1>4, <1>5, RequestAssumption, ActorAssumption DEF IInv, TypeOK,
     RecoveryInv, Direct
<1>15. ConsentInv'
  BY <1>2, <1>6, <1>1, <1>4, <1>5, RequestAssumption, ActorAssumption DEF IInv, TypeOK,
     ConsentInv, RunAt, Status, WaitsForConfirmation
<1>16. PendingInv'
  BY SMTT(30), <1>2, <1>6, <1>1, <1>4, <1>5, RequestAssumption, ActorAssumption DEF IInv, TypeOK,
     PendingInv, InRunLock, Waiting, RunAt, WaitsForConfirmation, UserPCs, Asking, Status
<1>17. PlaceInv'
  BY <1>2, ActorAssumption DEF IInv, TypeOK, PlaceInv, RequestPCs, UserPCs
<1> USE RequestAssumption, ActorAssumption DEF IInv, TypeOK, PersistFails, Answer, Goto, Finish,
        Direct, Guarded, confirmation, server
<1>18. SubmitInv'
  BY <1>1, <1>4, <1>5 DEF SubmitInv, Early, Submitting
<1>19. RejectedInv' /\ EndedInv' /\ BindingInv'
  BY <1>1, <1>4, <1>5 DEF RejectedInv, EndedInv, Status, WaitsForConfirmation, BindingInv
<1>20. RunLockInv'
  <2>1. (\A p \in Requests : Guarded(p) /\ pc[p] \in Submitting \ {"run_lock"} => runLock[RunOf[p]] = p)'
    BY <1>1, <1>4, <1>5 DEF RunLockInv, Submitting, InRunLock, RunAt, UserPCs, Asking
  <2>2. (\A u \in Users : pc[u] \in InRunLock => runLock[RunAt(u)] = u)'
    BY <1>1, <1>4, <1>5 DEF RunLockInv, Submitting, InRunLock, RunAt, UserPCs, Asking,
       TargetInv, Deciding, Terminating
  <2> QED BY <2>1, <2>2 DEF RunLockInv
<1> QED BY <1>1, <1>2, <1>3, <1>4, <1>5, <1>6, <1>7, <1>8, <1>9, <1>10, <1>11, <1>12, <1>13, <1>14,
           <1>15, <1>16, <1>17, <1>18, <1>19, <1>20

LEMMA ExecuteStartSafe ==
  ASSUME IInv, NEW q \in Requests, ExecuteStart(q) PROVE IInv'
<1>1. PICK rec \in RunRecord :
        /\ runs[RunOf[q]] # NoRun /\ runs[RunOf[q]].status = "admitted"
        /\ runs' = [runs EXCEPT ![RunOf[q]] = rec]
        /\ rec.status = "running"
        /\ rec # NoRun
  BY AbsentAssumption, RunUpdated, RunBound, RequestAssumption DEF IInv, ExecuteStart, StartRun,
     RunSet, RunStatuses
<1>2. RunsGrow
  BY <1>1 DEF IInv, TypeOK, RunsGrow, SettledStatuses, TerminalStatuses
<1>3. TypeOK'
  BY <1>1, RequestAssumption, ActorAssumption DEF IInv, TypeOK, ExecuteStart, StartRun, SettleRun,
          confirmation, scratch, locks, server, RequestPCs, UserPCs
<1>4. ShapeInv' /\ OrderInv' /\ Turned' = Turned /\ Turn' = Turn /\ Over \subseteq Over'
  BY <1>2, <1>3, Kept DEF ExecuteStart, StartRun
<1> USE RequestAssumption, ActorAssumption DEF IInv, TypeOK, ExecuteStart, StartRun, SettleRun,
        confirmation, scratch, locks, server
<1>5. PlaceInv' /\ KindInv' /\ AliveInv'
  BY <1>1, <1>3, <1>4 DEF PlaceInv, UserPCs, RequestPCs, KindInv, ThreadOnly, GuardedOnly,
     Direct, Guarded, AliveInv
<1>6. /\ SubmitInv' /\ CreatorInv' /\ TargetInv' /\ FreeInv' /\ ClaimInv'
      /\ RecoveryInv' /\ RejectedInv' /\ EndedInv' /\ BindingInv' /\ ConsentInv'
  BY <1>1, <1>3, <1>4 DEF SubmitInv, Early, Submitting, Direct, Guarded, CreatorInv, TargetInv,
     Deciding, RunAt, UserPCs, Terminating, FreeInv, Holding, Over, ClaimInv, RecoveryInv,
     RejectedInv, EndedInv, Status, WaitsForConfirmation, BindingInv, ConsentInv
<1>7. ThreadLockInv' /\ RunLockInv'
  BY <1>1, <1>3, <1>4 DEF ThreadLockInv, Holding, Direct, Early, RunLockInv, Submitting,
     InRunLock, Guarded, RunAt, UserPCs, Asking
<1>8. PendingInv'
  BY <1>1, <1>3, <1>4 DEF PendingInv, InRunLock, Waiting, RunAt, WaitsForConfirmation, UserPCs,
     Asking, Status
<1> QED BY <1>1, <1>2, <1>3, <1>4, <1>5, <1>6, <1>7, <1>8

LEMMA ExecuteEndSafe ==
  ASSUME IInv, NEW q \in Requests, ExecuteEnd(q) PROVE IInv'
<1>1. PICK rec \in RunRecord :
        /\ runs[RunOf[q]] # NoRun /\ runs[RunOf[q]].status = "running"
        /\ runs' = [runs EXCEPT ![RunOf[q]] = rec]
        /\ rec.status \in TerminalStatuses
        /\ rec # NoRun
  BY AbsentAssumption, RunSettled, RequestAssumption DEF IInv, ExecuteEnd
<1>2. PICK place \in {"record", "done"} :
        /\ pc' = [pc EXCEPT ![q] = place]
        /\ Direct(q) => place # "record"
  BY ActorAssumption DEF ExecuteEnd, Answer, Goto, Finish, Direct, Guarded, SettleRun
<1>3. RunsGrow
  BY <1>1 DEF IInv, TypeOK, RunsGrow, SettledStatuses, TerminalStatuses
<1>4. TypeOK'
  <2>1. pc' \in [Requests \cup Users -> RequestPCs \cup UserPCs]
    BY <1>2 DEF IInv, TypeOK, RequestPCs, UserPCs
  <2> QED BY SMTT(30), <2>1, <1>1, RequestAssumption, ActorAssumption, FailureAssumption DEF IInv,
             TypeOK,
            ExecuteEnd, Answer, Goto, Finish, Direct, Guarded, SettleRun, confirmation, server
<1>5. ShapeInv' /\ OrderInv' /\ Turned' = Turned /\ Turn' = Turn /\ Over \subseteq Over'
  BY <1>3, <1>4, Kept DEF ExecuteEnd
<1>6. /\ pc[q] = "exec"
      /\ UNCHANGED <<threads, creator, resumed, claims, confirm, snapshot, decided, pending,
                      threadLock, tried, owner, target, alive, orphaned, crashes>>
  BY DEF ExecuteEnd, confirmation, server
<1>7. KindInv'
  BY <1>2, <1>6, <1>1, <1>4, <1>5, RequestAssumption, ActorAssumption DEF IInv, TypeOK,
     KindInv, ThreadOnly, GuardedOnly, Direct, Guarded, TerminalStatuses
<1>8. AliveInv'
  BY <1>2, <1>6, <1>1, <1>4, <1>5, RequestAssumption, ActorAssumption DEF IInv, TypeOK,
     AliveInv, TerminalStatuses
<1>9. CreatorInv'
  BY <1>2, <1>6, <1>1, <1>4, <1>5, RequestAssumption, ActorAssumption DEF IInv, TypeOK,
     CreatorInv, Early, Guarded, TerminalStatuses
<1>10. TargetInv'
  BY <1>2, <1>6, <1>1, <1>4, <1>5, RequestAssumption, ActorAssumption DEF IInv, TypeOK,
     TargetInv, Deciding, RunAt, UserPCs, Terminating, TerminalStatuses
<1>11. ThreadLockInv'
  BY <1>2, <1>6, <1>1, <1>4, <1>5, RequestAssumption, ActorAssumption DEF IInv, TypeOK,
     ThreadLockInv, Holding, Direct, Early, TerminalStatuses
<1>12. FreeInv'
  BY <1>2, <1>6, <1>1, <1>4, <1>5, RequestAssumption, ActorAssumption DEF IInv, TypeOK,
     FreeInv, Early, Holding, Over, Direct, TerminalStatuses
<1>13. ClaimInv'
  BY <1>2, <1>6, <1>1, <1>4, <1>5, RequestAssumption, ActorAssumption DEF IInv, TypeOK,
     ClaimInv, TerminalStatuses
<1>14. RecoveryInv'
  BY <1>2, <1>6, <1>1, <1>4, <1>5, RequestAssumption, ActorAssumption DEF IInv, TypeOK,
     RecoveryInv, Direct, TerminalStatuses
<1>15. ConsentInv'
  BY SMTT(30), <1>2, <1>6, <1>1, <1>4, <1>5, RequestAssumption, ActorAssumption DEF IInv, TypeOK,
     ConsentInv, RunAt, Status, WaitsForConfirmation, SubmitInv, Early, Submitting, Direct, Guarded,
     CreatorInv, RunLockInv, InRunLock, UserPCs, Asking, TerminalStatuses
<1>16. PendingInv'
  BY SMTT(30), <1>2, <1>6, <1>1, <1>4, <1>5, RequestAssumption, ActorAssumption DEF IInv, TypeOK,
     PendingInv, InRunLock, Waiting, RunAt, WaitsForConfirmation, UserPCs, Asking, Status,
     TerminalStatuses
<1>17. PlaceInv'
  BY <1>2, ActorAssumption DEF IInv, TypeOK, PlaceInv, RequestPCs, UserPCs
<1> USE RequestAssumption, ActorAssumption DEF IInv, TypeOK, ExecuteEnd, Answer, Goto, Finish,
        Direct, Guarded, SettleRun, confirmation, server, TerminalStatuses
<1>18. SubmitInv'
  BY <1>1, <1>4, <1>5 DEF SubmitInv, Early, Submitting
<1>19. RejectedInv'
  BY <1>1, <1>4, <1>5 DEF RejectedInv
<1>20. EndedInv'
  BY <1>1, <1>4, <1>5 DEF EndedInv, Status, WaitsForConfirmation
<1>21. BindingInv'
  BY <1>1, <1>4, <1>5 DEF BindingInv
<1>22. RunLockInv'
  <2>1. (\A p \in Requests : Guarded(p) /\ pc[p] \in Submitting \ {"run_lock"} => runLock[RunOf[p]] = p)'
    BY <1>1, <1>4, <1>5 DEF RunLockInv, Submitting, InRunLock, RunAt, UserPCs, Asking
  <2>2. (\A u \in Users : pc[u] \in InRunLock => runLock[RunAt(u)] = u)'
    BY SMTT(30), <1>1, <1>4, <1>5 DEF RunLockInv, Submitting, InRunLock, RunAt, UserPCs, Asking,
       TargetInv, Deciding, Terminating
  <2> QED BY <2>1, <2>2 DEF RunLockInv
<1> QED BY <1>1, <1>2, <1>3, <1>4, <1>5, <1>6, <1>7, <1>8, <1>9, <1>10, <1>11, <1>12, <1>13, <1>14,
           <1>15, <1>16, <1>17, <1>18, <1>19, <1>20, <1>21, <1>22

LEMMA SubmitThrowsSafe ==
  ASSUME IInv, NEW q \in Requests, SubmitThrows(q) PROVE IInv'
<1>1. PICK place \in {"record", "done"} :
        /\ pc' = [pc EXCEPT ![q] = place]
        /\ Direct(q) => place # "record"
  BY ActorAssumption DEF SubmitThrows, Answer, Goto, Finish, Direct, Guarded
<1>2. TypeOK'
  <2>1. pc' \in [Requests \cup Users -> RequestPCs \cup UserPCs]
    BY <1>1 DEF IInv, TypeOK, RequestPCs, UserPCs
  <2>2. threads' \in [Threads -> Seq(TurnRecord) \cup {NoThread}]
    BY TurnsKept DEF IInv, SubmitThrows
  <2> QED BY <2>1, <2>2, RequestAssumption, ActorAssumption, FailureAssumption DEF IInv, TypeOK,
            SubmitThrows, Answer, Goto, Finish, Direct, Guarded, diskRuns, confirmation, server
<1>3. ShapeInv' /\ OrderInv' /\ Turned' = Turned /\ Turn' = Turn /\ Over \subseteq Over'
  BY <1>2, Kept DEF SubmitThrows, diskRuns
<1>4. /\ pc[q] \in {"submit", "persist", "snapshot", "exec"}
      /\ UNCHANGED <<threads, runs, creator, resumed, claims, confirm, snapshot, decided, pending,
                      threadLock, tried, owner, target, alive, orphaned, crashes>>
  BY DEF SubmitThrows, diskRuns, confirmation, server
<1>5. KindInv'
  BY <1>1, <1>4, <1>2, <1>3, RequestAssumption, ActorAssumption DEF IInv, TypeOK, KindInv,
     ThreadOnly, GuardedOnly, Direct, Guarded
<1>6. AliveInv'
  BY <1>1, <1>4, <1>2, <1>3, RequestAssumption, ActorAssumption DEF IInv, TypeOK, AliveInv
<1>7. CreatorInv'
  BY <1>1, <1>4, <1>2, <1>3, RequestAssumption, ActorAssumption DEF IInv, TypeOK,
     CreatorInv, Early, Guarded
<1>8. TargetInv'
  BY <1>1, <1>4, <1>2, <1>3, RequestAssumption, ActorAssumption DEF IInv, TypeOK,
     TargetInv, Deciding, RunAt, UserPCs, Terminating
<1>9. ThreadLockInv'
  BY <1>1, <1>4, <1>2, <1>3, RequestAssumption, ActorAssumption DEF IInv, TypeOK,
     ThreadLockInv, Holding, Direct, Early
<1>10. FreeInv'
  BY <1>1, <1>4, <1>2, <1>3, RequestAssumption, ActorAssumption DEF IInv, TypeOK, FreeInv,
     Early, Holding, Over, Direct
<1>11. ClaimInv'
  BY <1>1, <1>4, <1>2, <1>3, RequestAssumption, ActorAssumption DEF IInv, TypeOK, ClaimInv
<1>12. RecoveryInv'
  BY <1>1, <1>4, <1>2, <1>3, RequestAssumption, ActorAssumption DEF IInv, TypeOK,
     RecoveryInv, Direct
<1>13. ConsentInv'
  BY <1>1, <1>4, <1>2, <1>3, RequestAssumption, ActorAssumption DEF IInv, TypeOK,
     ConsentInv, RunAt, Status, WaitsForConfirmation
<1>14. PlaceInv'
  BY <1>1, ActorAssumption DEF IInv, TypeOK, PlaceInv, RequestPCs, UserPCs
<1>15. PendingInv'
  BY <1>3, PendingKept, ActorAssumption DEF IInv, TypeOK, SubmitThrows, Answer, Goto, Finish,
     diskRuns, confirmation, server
<1> USE RequestAssumption, ActorAssumption DEF IInv, TypeOK, SubmitThrows, Answer, Goto, Finish,
        Direct, Guarded, diskRuns, confirmation, server
<1>16. SubmitInv'
  BY <1>2, <1>3 DEF SubmitInv, Early, Submitting
<1>17. RejectedInv'
  BY <1>2, <1>3 DEF RejectedInv
<1>18. EndedInv'
  BY <1>2, <1>3 DEF EndedInv, Status, WaitsForConfirmation
<1>19. RunLockInv'
  BY <1>2, <1>3 DEF RunLockInv, Submitting, InRunLock, RunAt, UserPCs, Asking, TargetInv,
     Deciding, Terminating
<1>20. BindingInv'
  BY <1>2, <1>3 DEF BindingInv, CreatorInv, Early
<1> QED BY <1>1, <1>2, <1>3, <1>4, <1>5, <1>6, <1>7, <1>8, <1>9, <1>10, <1>11, <1>12, <1>13, <1>14,
           <1>15, <1>16, <1>17, <1>18, <1>19, <1>20

LEMMA RecordSubmissionSafe ==
  ASSUME IInv, NEW q \in Requests, RecordSubmission(q) PROVE IInv'
<1>1. /\ q \in Turned /\ ShapeInv' /\ threads' \in [Threads -> Seq(TurnRecord) \cup {NoThread}] /\ Rewritten
      /\ \E turn \in TurnRecord : /\ TurnSet(q, turn)
                                  /\ turn.terminated = Turn[q].terminated
                                  /\ turn.submission_state = IF answer[q] = "rejected" THEN "rejected" ELSE "accepted"
  BY SubmissionRecorded DEF Rewritten
<1>2. PICK turn \in TurnRecord : /\ TurnSet(q, turn)
                               /\ turn.terminated = Turn[q].terminated
                               /\ turn.submission_state = IF answer[q] = "rejected" THEN "rejected" ELSE "accepted"
  BY <1>1
<1>3. /\ pc[q] = "record"
      /\ IF answer[q] = "confirmation" THEN Goto(q, "register") /\ UNCHANGED runLock ELSE Finish(q, RunOf[q])
      /\ UNCHANGED <<diskRuns, claims, confirmation, threadLock, scratch, target, server>>
  BY DEF RecordSubmission
<1>4. PICK place \in {"register", "done"} : pc' = [pc EXCEPT ![q] = place]
  BY <1>3, ActorAssumption DEF Goto, Finish
<1>5. TypeOK'
  <2>1. pc' \in [Requests \cup Users -> RequestPCs \cup UserPCs]
    BY <1>4 DEF IInv, TypeOK, RequestPCs, UserPCs
  <2> QED BY <2>1, <1>1, <1>3, RequestAssumption, ActorAssumption, FailureAssumption DEF IInv,
            TypeOK, Goto, Finish, diskRuns, confirmation, scratch, server
<1>6. OrderInv' /\ Over \subseteq Over'
  BY <1>1, <1>2, <1>3, <1>5, Changed, TurnFacts DEF IInv, SubmitInv, diskRuns
<1>7. PlaceInv'
  BY <1>4, ActorAssumption DEF IInv, TypeOK, PlaceInv, RequestPCs, UserPCs
<1>8. FreeInv'
  BY <1>1, <1>2, <1>3, <1>4, <1>6, RequestAssumption, ActorAssumption
     DEF IInv, TypeOK, TurnSet, Rewritten, FreeInv, Early, Holding, Direct
<1> USE RequestAssumption, ActorAssumption DEF IInv, TypeOK, Goto, Finish, TurnSet, Rewritten,
        diskRuns, confirmation, scratch, server
<1>9. AliveInv'
  BY <1>1, <1>2, <1>3, <1>5, <1>6 DEF AliveInv
<1>10. ThreadLockInv'
  BY SMTT(30), <1>1, <1>2, <1>3, <1>5, <1>6 DEF ThreadLockInv, Holding, Direct, Early
<1>11. RecoveryInv' /\ RejectedInv' /\ EndedInv' /\ BindingInv' /\ ConsentInv'
  BY <1>1, <1>2, <1>3, <1>5, <1>6 DEF RecoveryInv, Direct, RejectedInv, EndedInv, Guarded,
     Status, WaitsForConfirmation, BindingInv, ConsentInv, RunAt
<1>12. SubmitInv' /\ CreatorInv' /\ TargetInv'
  BY <1>1, <1>2, <1>3, <1>5, <1>6 DEF SubmitInv, Early, Submitting, Direct, Guarded,
     CreatorInv, TargetInv, Deciding, RunAt, UserPCs, Terminating
<1>13. ClaimInv'
  BY <1>1, <1>2, <1>3, <1>5, <1>6 DEF ClaimInv
<1>14. KindInv'
  BY <1>1, <1>2, <1>3, <1>5, <1>6 DEF KindInv, ThreadOnly, GuardedOnly, Direct, Guarded,
     SubmitInv, Early, Submitting
<1>15. RunLockInv'
  <2>1. (\A p \in Requests : Guarded(p) /\ pc[p] \in Submitting \ {"run_lock"} => runLock[RunOf[p]] = p)'
    BY SMTT(30), <1>1, <1>2, <1>3, <1>5, <1>6 DEF RunLockInv, Submitting, InRunLock, Guarded, RunAt,
       UserPCs, Asking
  <2>2. (\A u \in Users : pc[u] \in InRunLock => runLock[RunAt(u)] = u)'
    BY <1>1, <1>2, <1>3, <1>5, <1>6 DEF RunLockInv, Submitting, InRunLock, Guarded, RunAt,
       UserPCs, Asking, TargetInv, Deciding, Terminating
  <2> QED BY <2>1, <2>2 DEF RunLockInv
<1>16. PendingInv'
  BY SMTT(30), <1>1, <1>2, <1>3, <1>5, <1>6 DEF PendingInv, InRunLock, Waiting, RunAt,
     WaitsForConfirmation, UserPCs, Asking, Status, TargetInv, Deciding, Terminating
<1> QED BY <1>1, <1>2, <1>3, <1>4, <1>5, <1>6, <1>7, <1>8, <1>9, <1>10, <1>11, <1>12, <1>13, <1>14,
           <1>15, <1>16

LEMMA RecordFailsSafe ==
  ASSUME IInv, NEW q \in Requests, RecordFails(q) PROVE IInv'
<1>1. TypeOK'
  BY TurnsKept, RequestAssumption, ActorAssumption, FailureAssumption DEF IInv, TypeOK, RecordFails,
          Finish, Goto, diskRuns, confirmation, scratch, server, RequestPCs, UserPCs
<1>2. ShapeInv' /\ OrderInv' /\ Turned' = Turned /\ Turn' = Turn /\ Over \subseteq Over'
  BY <1>1, Kept DEF RecordFails, diskRuns
<1> USE RequestAssumption, ActorAssumption DEF IInv, TypeOK, RecordFails, Finish, Goto, diskRuns,
        confirmation, scratch, server
<1>3. PlaceInv' /\ KindInv' /\ AliveInv'
  BY <1>1, <1>2 DEF PlaceInv, UserPCs, RequestPCs, KindInv, ThreadOnly, GuardedOnly, Direct,
     Guarded, AliveInv
<1>4. /\ SubmitInv' /\ CreatorInv' /\ TargetInv' /\ FreeInv' /\ ClaimInv'
      /\ RecoveryInv' /\ RejectedInv' /\ EndedInv' /\ BindingInv' /\ ConsentInv'
  BY <1>1, <1>2 DEF SubmitInv, Early, Submitting, Direct, Guarded, CreatorInv, TargetInv,
     Deciding, RunAt, UserPCs, Terminating, FreeInv, Holding, Over, ClaimInv, RecoveryInv,
     RejectedInv, EndedInv, Status, WaitsForConfirmation, BindingInv, ConsentInv
<1>5. ThreadLockInv' /\ RunLockInv'
  BY <1>1, <1>2 DEF ThreadLockInv, Holding, Direct, Early, RunLockInv, Submitting, InRunLock,
     Guarded, RunAt, UserPCs, Asking
<1>6. PendingInv'
  BY <1>1, <1>2 DEF PendingInv, InRunLock, Waiting, RunAt, WaitsForConfirmation, UserPCs,
     Asking, Status
<1> QED BY <1>1, <1>2, <1>3, <1>4, <1>5, <1>6

LEMMA RegisterPendingSafe ==
  ASSUME IInv, NEW q \in Requests, RegisterPending(q) PROVE IInv'
<1>1. TypeOK'
  BY TurnsKept, RequestAssumption, ActorAssumption, FailureAssumption DEF IInv, TypeOK,
          RegisterPending, Finish, Goto, diskRuns, scratch, server, RequestPCs, UserPCs
<1>2. ShapeInv' /\ OrderInv' /\ Turned' = Turned /\ Turn' = Turn /\ Over \subseteq Over'
  BY <1>1, Kept DEF RegisterPending, diskRuns
<1> USE RequestAssumption, ActorAssumption DEF IInv, TypeOK, RegisterPending, Finish, Goto,
        diskRuns, scratch, server
<1>3. PlaceInv' /\ KindInv' /\ AliveInv'
  BY <1>1, <1>2 DEF PlaceInv, UserPCs, RequestPCs, KindInv, ThreadOnly, GuardedOnly, Direct,
     Guarded, AliveInv
<1>4. /\ SubmitInv' /\ CreatorInv' /\ TargetInv' /\ FreeInv' /\ ClaimInv'
      /\ RecoveryInv' /\ RejectedInv' /\ EndedInv' /\ BindingInv' /\ ConsentInv'
  BY <1>1, <1>2 DEF SubmitInv, Early, Submitting, Direct, Guarded, CreatorInv, TargetInv,
     Deciding, RunAt, UserPCs, Terminating, FreeInv, Holding, Over, ClaimInv, RecoveryInv,
     RejectedInv, EndedInv, Status, WaitsForConfirmation, BindingInv, ConsentInv
<1>5. ThreadLockInv' /\ RunLockInv'
  BY <1>1, <1>2 DEF ThreadLockInv, Holding, Direct, Early, RunLockInv, Submitting, InRunLock,
     Guarded, RunAt, UserPCs, Asking
<1>6. PendingInv'
  BY <1>1, <1>2 DEF PendingInv, InRunLock, Waiting, RunAt, WaitsForConfirmation, UserPCs,
     Asking, Status, SubmitInv, Early, Submitting, Direct, Guarded, CreatorInv, RunLockInv,
     EndedInv, BindingInv
<1> QED BY <1>1, <1>2, <1>3, <1>4, <1>5, <1>6

\* A termination.
LEMMA AskTerminateSafe ==
  ASSUME IInv, NEW u \in Users, AskTerminate(u) PROVE IInv'
<1>1. TypeOK'
  BY TurnsKept, RequestAssumption, ActorAssumption, FailureAssumption DEF IInv, TypeOK,
          AskTerminate, Goto, diskRuns, confirmation, scratch, locks, server, RequestPCs, UserPCs
<1>2. ShapeInv' /\ OrderInv' /\ Turned' = Turned /\ Turn' = Turn /\ Over \subseteq Over'
  BY <1>1, Kept DEF AskTerminate, diskRuns
<1>3. TargetInv'
  BY <1>1, <1>2, ActorAssumption
     DEF IInv, TypeOK, AskTerminate, Goto, TargetInv, Deciding, UserPCs, Terminating, RunAt, Turned,
         diskRuns, confirmation
<1> USE RequestAssumption, ActorAssumption DEF IInv, TypeOK, AskTerminate, Goto, diskRuns,
        confirmation, scratch, locks, server
<1>4. PlaceInv' /\ KindInv' /\ AliveInv'
  BY <1>1, <1>2 DEF PlaceInv, UserPCs, RequestPCs, KindInv, ThreadOnly, GuardedOnly, Direct,
     Guarded, AliveInv
<1>5. /\ SubmitInv' /\ CreatorInv' /\ FreeInv' /\ ClaimInv' /\ RecoveryInv'
      /\ RejectedInv' /\ EndedInv' /\ BindingInv' /\ ConsentInv'
  BY <1>1, <1>2 DEF SubmitInv, Early, Submitting, Direct, Guarded, CreatorInv, FreeInv, Holding,
     Over, ClaimInv, RecoveryInv, RejectedInv, EndedInv, Status, WaitsForConfirmation, BindingInv,
     ConsentInv, RunAt
<1>6. ThreadLockInv' /\ RunLockInv'
  BY <1>1, <1>2 DEF ThreadLockInv, Holding, Direct, Early, RunLockInv, Submitting, InRunLock,
     Guarded, RunAt, UserPCs, Asking
<1>7. PendingInv'
  BY SMTT(30), <1>1, <1>2 DEF PendingInv, InRunLock, Waiting, RunAt, WaitsForConfirmation, UserPCs,
     Asking, Status
<1> QED BY <1>1, <1>2, <1>3, <1>4, <1>5, <1>6, <1>7

LEMMA LockToTerminateSafe ==
  ASSUME IInv, NEW u \in Users, LockToTerminate(u) PROVE IInv'
<1>1. TypeOK'
  BY TurnsKept, RequestAssumption, ActorAssumption, FailureAssumption DEF IInv, TypeOK,
          LockToTerminate, AcquireRunLock, Goto, RunAt, diskRuns, confirmation, scratch, server,
          RequestPCs, UserPCs
<1>2. ShapeInv' /\ OrderInv' /\ Turned' = Turned /\ Turn' = Turn /\ Over \subseteq Over'
  BY <1>1, Kept DEF LockToTerminate, diskRuns
<1> USE RequestAssumption, ActorAssumption DEF IInv, TypeOK, LockToTerminate, AcquireRunLock, Goto,
        RunAt, diskRuns, confirmation, scratch, server
<1>3. PlaceInv' /\ KindInv' /\ AliveInv'
  BY <1>1, <1>2 DEF PlaceInv, UserPCs, RequestPCs, KindInv, ThreadOnly, GuardedOnly, Direct,
     Guarded, AliveInv
<1>4. /\ SubmitInv' /\ CreatorInv' /\ TargetInv' /\ FreeInv' /\ ClaimInv'
      /\ RecoveryInv' /\ RejectedInv' /\ EndedInv' /\ BindingInv' /\ ConsentInv'
  BY <1>1, <1>2 DEF SubmitInv, Early, Submitting, Direct, Guarded, CreatorInv, TargetInv,
     Deciding, UserPCs, Terminating, FreeInv, Holding, Over, ClaimInv, RecoveryInv, RejectedInv,
     EndedInv, Status, WaitsForConfirmation, BindingInv, ConsentInv
<1>5. ThreadLockInv' /\ RunLockInv'
  BY <1>1, <1>2 DEF ThreadLockInv, Holding, Direct, Early, RunLockInv, Submitting, InRunLock,
     Guarded, UserPCs, Asking
<1>6. PendingInv'
  BY <1>1, <1>2 DEF PendingInv, InRunLock, Waiting, WaitsForConfirmation, UserPCs, Asking,
     Status
<1> QED BY <1>1, <1>2, <1>3, <1>4, <1>5, <1>6

LEMMA CancelConfirmationSafe ==
  ASSUME IInv, NEW u \in Users, CancelConfirmation(u) PROVE IInv'
<1>1. TypeOK'
  <2>1. pc' \in [Requests \cup Users -> RequestPCs \cup UserPCs]
    BY ActorAssumption DEF IInv, TypeOK, CancelConfirmation, Goto, RunAt, RequestPCs, UserPCs
  <2>2. threads' \in [Threads -> Seq(TurnRecord) \cup {NoThread}]
    BY TurnsKept DEF IInv, CancelConfirmation
  <2> QED BY <2>1, <2>2, RequestAssumption, ActorAssumption, FailureAssumption DEF IInv, TypeOK,
            CancelConfirmation, Goto, RunAt, diskRuns, scratch, locks, server
<1>2. ShapeInv' /\ OrderInv' /\ Turned' = Turned /\ Turn' = Turn /\ Over \subseteq Over'
  BY <1>1, Kept DEF CancelConfirmation, diskRuns
<1> USE RequestAssumption, ActorAssumption DEF IInv, TypeOK, CancelConfirmation, Goto, RunAt,
        diskRuns, scratch, locks, server
<1>3. /\ SubmitInv' /\ CreatorInv' /\ TargetInv' /\ ClaimInv'
      /\ RecoveryInv' /\ RejectedInv' /\ EndedInv' /\ BindingInv'
  BY <1>1, <1>2 DEF SubmitInv, Early, Submitting, Direct, Guarded, CreatorInv, TargetInv,
     Deciding, UserPCs, Terminating, ClaimInv, RecoveryInv, RejectedInv, EndedInv, Status,
     WaitsForConfirmation, BindingInv
<1>4. ThreadLockInv'
  BY <1>1, <1>2 DEF ThreadLockInv, Holding, Direct, Early
<1>5. PendingInv'
  BY SMTT(30), <1>1, <1>2 DEF PendingInv, InRunLock, Waiting, WaitsForConfirmation, UserPCs, Asking,
     Status
<1>6. AliveInv'
  BY <1>1, <1>2 DEF AliveInv
<1>7. PlaceInv'
  BY SMTT(30), <1>1, <1>2 DEF PlaceInv, UserPCs, RequestPCs
<1>8. KindInv'
  BY <1>1, <1>2 DEF KindInv, ThreadOnly, GuardedOnly, Direct, Guarded
<1>9. RunLockInv'
  BY SMTT(30), <1>1, <1>2 DEF RunLockInv, Submitting, InRunLock, Guarded, UserPCs, Asking,
     TargetInv,
     Deciding, Terminating
<1>10. FreeInv'
  <2>1. (\A q \in Requests : ~Direct(q) /\ pc[q] \in Early \ {"new"} => threads[ThreadOf[q]] # NoThread)'
    BY SMTT(30), <1>1, <1>2 DEF FreeInv, Early, Holding, Over, Direct
  <2>2. (\A q \in Requests : ~Direct(q) /\ pc[q] \in Holding \ {"check"} =>
           \A p \in Turned : ThreadOf[p] = ThreadOf[q] =>
             KeyOf[p] # KeyOf[q] /\ RunOf[p] # RunOf[q] /\ p \in Over)'
    BY <1>1, <1>2 DEF FreeInv, Early, Holding, Over, Direct
  <2> QED BY <2>1, <2>2 DEF FreeInv
<1>11. ConsentInv'
  BY SMTT(30), <1>1, <1>2 DEF ConsentInv, Status, WaitsForConfirmation, TargetInv, Deciding,
     UserPCs,
     Terminating, RunLockInv, Submitting, InRunLock, Guarded, Asking
<1> QED BY <1>1, <1>2, <1>3, <1>4, <1>5, <1>6, <1>7, <1>8, <1>9, <1>10, <1>11

LEMMA CancelRunSafe ==
  ASSUME IInv, NEW u \in Users, CancelRun(u) PROVE IInv'
<1>1. RunAt(u) \in Runs
  BY RequestAssumption DEF IInv, TargetInv, RunAt, CancelRun
<1>2. PICK rec \in RunRecord :
        /\ runs[RunAt(u)] # NoRun
        /\ runs' = [runs EXCEPT ![RunAt(u)] = rec]
        /\ rec.status = IF runs[RunAt(u)].status = "requires_user_action" THEN "cancelled" ELSE runs[RunAt(u)].status
        /\ rec # NoRun
  <2>1. runs[RunAt(u)] # NoRun /\ runs[RunAt(u)] \in RunRecord
    BY <1>1, RunTyped DEF IInv, ConsentInv, CancelRun, Status
  <2>2. CASE runs[RunAt(u)].status = "requires_user_action"
    BY <2>1, <2>2, <1>1, RunEnded, AbsentAssumption DEF IInv, CancelRun, Status,
       RR!cancelRequiresUserActionRun, RunSet
  <2>3. CASE runs[RunAt(u)].status # "requires_user_action"
    <3>1. runs' = [runs EXCEPT ![RunAt(u)] = runs[RunAt(u)]]
      BY <2>1, <2>3 DEF IInv, CancelRun, Status, TypeOK
    <3> QED BY <2>1, <2>3, <3>1, AbsentAssumption
  <2> QED BY <2>2, <2>3
<1>3. RunsGrow
  BY <1>2 DEF IInv, TypeOK, RunsGrow, SettledStatuses, TerminalStatuses
<1>4. TypeOK'
  BY <1>2, RequestAssumption, ActorAssumption, <1>1 DEF IInv, TypeOK, CancelRun, Goto, RunAt,
          scratch, locks, server, RequestPCs, UserPCs
<1>5. ShapeInv' /\ OrderInv' /\ Turned' = Turned /\ Turn' = Turn /\ Over \subseteq Over'
  BY <1>3, <1>4, Kept DEF CancelRun
<1> USE RequestAssumption, ActorAssumption DEF IInv, TypeOK, CancelRun, Goto, RunAt, scratch, locks,
        server
<1>6. PlaceInv' /\ KindInv' /\ AliveInv'
  BY <1>2, <1>4, <1>5 DEF PlaceInv, UserPCs, RequestPCs, KindInv, ThreadOnly, GuardedOnly,
     Direct, Guarded, AliveInv
<1>7. /\ SubmitInv' /\ CreatorInv' /\ TargetInv' /\ FreeInv' /\ ClaimInv'
      /\ RecoveryInv' /\ RejectedInv' /\ EndedInv' /\ BindingInv' /\ ConsentInv'
  BY <1>2, <1>4, <1>5 DEF SubmitInv, Early, Submitting, Direct, Guarded, CreatorInv, TargetInv,
     Deciding, UserPCs, Terminating, FreeInv, Holding, Over, ClaimInv, RecoveryInv, RejectedInv,
     EndedInv, Status, WaitsForConfirmation, BindingInv, ConsentInv
<1>8. ThreadLockInv' /\ RunLockInv'
  BY <1>2, <1>4, <1>5 DEF ThreadLockInv, Holding, Direct, Early, RunLockInv, Submitting,
     InRunLock, Guarded, UserPCs, Asking
<1>9. PendingInv'
  BY <1>2, <1>4, <1>5 DEF PendingInv, InRunLock, Waiting, WaitsForConfirmation, UserPCs,
     Asking, Status
<1> QED BY <1>1, <1>2, <1>3, <1>4, <1>5, <1>6, <1>7, <1>8, <1>9

LEMMA TerminateTurnSafe ==
  ASSUME IInv, NEW u \in Users, TerminateTurn(u) PROVE IInv'
<1>1. /\ target[u] \in Turned /\ ShapeInv' /\ threads' \in [Threads -> Seq(TurnRecord) \cup {NoThread}]
      /\ Rewritten
      /\ \E turn \in TurnRecord :
           /\ TurnSet(target[u], turn)
           /\ turn.submission_state = Turn[target[u]].submission_state
           /\ turn.failure_code \in {"none", Turn[target[u]].failure_code}
           /\ \/ turn.terminated = Turn[target[u]].terminated
              \/ turn.terminated /\ Unsettled(target[u])
  BY TurnUnsettled DEF Rewritten
<1>2. PICK turn \in TurnRecord :
        /\ TurnSet(target[u], turn)
        /\ turn.submission_state = Turn[target[u]].submission_state
        /\ turn.failure_code \in {"none", Turn[target[u]].failure_code}
        /\ \/ turn.terminated = Turn[target[u]].terminated
           \/ turn.terminated /\ Unsettled(target[u])
  BY <1>1
<1>3. /\ pc[u] = "terminate_turn" /\ Finish(u, RunAt(u))
      /\ UNCHANGED <<diskRuns, claims, confirmation, threadLock, scratch, target, server>>
  BY DEF TerminateTurn
<1>4. TypeOK'
  BY <1>1, <1>3, RequestAssumption, ActorAssumption
     DEF IInv, TypeOK, Goto, Finish, RequestPCs, UserPCs, diskRuns, confirmation, scratch, server
<1>5. OrderInv' /\ Over \subseteq Over'
  BY <1>1, <1>2, <1>3, <1>4, Changed, TurnFacts DEF IInv, diskRuns
<1>6. EndedInv'
  <2> SUFFICES ASSUME NEW x \in Requests, x \in Turned', Turn'[x].terminated
               PROVE  /\ pc'[x] \in {"run_lock", "submit"} => claims[RunOf[x]] # x
                      /\ creator[RunOf[x]] = x =>
                           Status(RunOf[x]) \notin {"admitted", "running"} /\ ~WaitsForConfirmation(RunOf[x])
                      /\ pc'[x] \notin {"persist", "snapshot", "register"}
                      /\ ~(pc'[x] = "record" /\ answer[x] = "confirmation")
                      /\ ~(pc'[x] = "exec" /\ Guarded(x))
    BY <1>3 DEF EndedInv, Status, WaitsForConfirmation, diskRuns, confirmation, scratch
  <2>1. x \in Turned /\ pc'[x] = pc[x] /\ ~Direct(x)
    BY <1>2, <1>3, TurnFacts, ActorAssumption DEF IInv, TypeOK, TurnSet, Finish, Goto
  <2>2. CASE x # target[u] \/ Turn[x].terminated
    BY <2>1, <2>2, <1>2 DEF IInv, TurnSet, EndedInv
  <2>3. CASE x = target[u] /\ ~Turn[x].terminated
    <3>1. Unsettled(x)
      BY <2>1, <2>3, <1>2, TurnFacts DEF IInv, TurnSet
    <3>2. runLock[RunOf[x]] = u /\ u # x /\ ~WaitsForConfirmation(RunOf[x])
      BY <2>3, <1>3, ActorAssumption DEF IInv, RunLockInv, ConsentInv, InRunLock, UserPCs, Asking,
         RunAt
    <3>3. pc[x] \in {"run_lock", "submit"} => claims[RunOf[x]] # x
      <4> SUFFICES ASSUME pc[x] \in {"run_lock", "submit"}, claims[RunOf[x]] = x PROVE FALSE
        OBVIOUS
      <4>1. x \in Requests /\ runs[RunOf[x]] = NoRun
        BY DEF IInv, ClaimInv
      <4>2. x \in alive /\ ClaimAlive(RunOf[x])
        BY <4>1, ActorAssumption DEF IInv, AliveInv, ClaimAlive
      <4>3. Turn[x].submission_state = "submitting"
        BY <2>1, <4>1 DEF IInv, SubmitInv
      <4> QED BY <3>1, <4>1, <4>2, <4>3 DEF Unsettled
    <3>4. Status(RunOf[x]) \notin {"admitted", "running"}
      BY <3>1 DEF Unsettled, Status
    <3>5. Guarded(x) => pc[x] \notin Submitting \ {"run_lock"}
      BY <3>2 DEF IInv, RunLockInv
    <3> QED BY <2>1, <3>2, <3>3, <3>4, <3>5 DEF IInv, KindInv, SubmitInv, GuardedOnly, Submitting
  <2> QED BY <2>2, <2>3
<1> USE RequestAssumption, ActorAssumption DEF IInv, TypeOK, Goto, Finish, TurnSet, Rewritten,
        diskRuns, confirmation, scratch, server, Unsettled, ClaimAlive
<1>7. PlaceInv' /\ KindInv' /\ AliveInv'
  BY <1>1, <1>2, <1>3, <1>4, <1>5 DEF PlaceInv, UserPCs, RequestPCs, KindInv, ThreadOnly,
     GuardedOnly, Direct, Guarded, AliveInv
<1>8. /\ SubmitInv' /\ CreatorInv' /\ TargetInv' /\ FreeInv'
      /\ ClaimInv' /\ RecoveryInv' /\ RejectedInv' /\ BindingInv'
  BY <1>1, <1>2, <1>3, <1>4, <1>5 DEF SubmitInv, Early, Submitting, Direct, Guarded,
     CreatorInv, TargetInv, Deciding, RunAt, UserPCs, Terminating, FreeInv, Holding, Over, ClaimInv,
     RecoveryInv, RejectedInv, BindingInv
<1>9. ThreadLockInv' /\ RunLockInv'
  BY <1>1, <1>2, <1>3, <1>4, <1>5 DEF ThreadLockInv, Holding, Direct, Early, RunLockInv,
     Submitting, InRunLock, Guarded, RunAt, UserPCs, Asking
<1>10. ConsentInv'
  BY SMTT(30), <1>1, <1>2, <1>3, <1>4, <1>5 DEF ConsentInv, RunAt, Status, WaitsForConfirmation,
     RunLockInv, Submitting, InRunLock, Guarded, UserPCs, Asking
<1>11. PendingInv'
  BY SMTT(30), <1>1, <1>2, <1>3, <1>4, <1>5 DEF PendingInv, InRunLock, Waiting, RunAt,
     WaitsForConfirmation, UserPCs, Asking, Status, CreatorInv, Early, Guarded
<1> QED BY <1>1, <1>2, <1>3, <1>4, <1>5, <1>6, <1>7, <1>8, <1>9, <1>10, <1>11

\* A decision on a confirmation: denied, or allowed and the run resumed.
LEMMA AskDecideSafe ==
  ASSUME IInv, NEW u \in Users, AskDecide(u) PROVE IInv'
<1>1. TypeOK'
  BY TurnsKept, RequestAssumption, ActorAssumption, FailureAssumption DEF IInv, TypeOK, AskDecide,
          Goto, diskRuns, confirmation, scratch, locks, server, RequestPCs, UserPCs
<1>2. ShapeInv' /\ OrderInv' /\ Turned' = Turned /\ Turn' = Turn /\ Over \subseteq Over'
  BY <1>1, Kept DEF AskDecide, diskRuns
<1> USE RequestAssumption, ActorAssumption DEF IInv, TypeOK, AskDecide, Goto, diskRuns,
        confirmation, scratch, locks, server
<1>3. PlaceInv' /\ KindInv' /\ AliveInv'
  BY <1>1, <1>2 DEF PlaceInv, UserPCs, RequestPCs, KindInv, ThreadOnly, GuardedOnly, Direct,
     Guarded, AliveInv
<1>4. /\ SubmitInv' /\ CreatorInv' /\ FreeInv' /\ ClaimInv' /\ RecoveryInv'
      /\ RejectedInv' /\ EndedInv' /\ BindingInv' /\ ConsentInv'
  BY <1>1, <1>2 DEF SubmitInv, Early, Submitting, Direct, Guarded, CreatorInv, FreeInv, Holding,
     Over, ClaimInv, RecoveryInv, RejectedInv, EndedInv, Status, WaitsForConfirmation, BindingInv,
     ConsentInv, RunAt
<1>5. ThreadLockInv' /\ RunLockInv'
  BY <1>1, <1>2 DEF ThreadLockInv, Holding, Direct, Early, RunLockInv, Submitting, InRunLock,
     Guarded, RunAt, UserPCs, Asking
<1>6. PendingInv'
  BY SMTT(30), <1>1, <1>2 DEF PendingInv, InRunLock, Waiting, RunAt, WaitsForConfirmation, UserPCs,
     Asking, Status
<1>7. TargetInv'
  BY <1>1, <1>2 DEF TargetInv, Deciding, RunAt, UserPCs, Terminating, CreatorInv, Early, Guarded
<1> QED BY <1>1, <1>2, <1>3, <1>4, <1>5, <1>6, <1>7

LEMMA LockToDecideSafe ==
  ASSUME IInv, NEW u \in Users, LockToDecide(u) PROVE IInv'
<1>1. PICK place \in {"allow", "deny"} : pc' = [pc EXCEPT ![u] = place]
  BY ActorAssumption DEF LockToDecide, AcquireRunLock, Goto, RunAt
<1>2. TypeOK'
  <2>1. pc' \in [Requests \cup Users -> RequestPCs \cup UserPCs]
    BY <1>1 DEF IInv, TypeOK, RequestPCs, UserPCs
  <2>2. threads' \in [Threads -> Seq(TurnRecord) \cup {NoThread}]
    BY TurnsKept DEF IInv, LockToDecide
  <2> QED BY <2>1, <2>2, RequestAssumption, ActorAssumption, FailureAssumption DEF IInv, TypeOK,
            LockToDecide, AcquireRunLock, Goto, RunAt, diskRuns, confirmation, scratch, server
<1>3. ShapeInv' /\ OrderInv' /\ Turned' = Turned /\ Turn' = Turn /\ Over \subseteq Over'
  BY <1>2, Kept DEF LockToDecide, diskRuns
<1>4. /\ pc[u] \in {"allow_lock", "deny_lock"}
      /\ UNCHANGED <<threads, runs, creator, resumed, claims, confirm, snapshot, decided, pending,
                      threadLock, tried, owner, answer, target, alive, orphaned, crashes>>
  BY DEF LockToDecide, diskRuns, confirmation, scratch, server, AcquireRunLock
<1>5. KindInv'
  BY <1>1, <1>4, <1>2, <1>3, RequestAssumption, ActorAssumption DEF IInv, TypeOK, KindInv,
     ThreadOnly, GuardedOnly, Direct, Guarded
<1>6. AliveInv'
  BY <1>1, <1>4, <1>2, <1>3, RequestAssumption, ActorAssumption DEF IInv, TypeOK, AliveInv
<1>7. SubmitInv'
  BY <1>1, <1>4, <1>2, <1>3, RequestAssumption, ActorAssumption DEF IInv, TypeOK,
     SubmitInv, Early, Submitting, Direct, Guarded
<1>8. CreatorInv'
  BY <1>1, <1>4, <1>2, <1>3, RequestAssumption, ActorAssumption DEF IInv, TypeOK,
     CreatorInv, Early, Guarded
<1>9. TargetInv'
  BY <1>1, <1>4, <1>2, <1>3, RequestAssumption, ActorAssumption DEF IInv, TypeOK,
     TargetInv, Deciding, RunAt, UserPCs, Terminating
<1>10. ThreadLockInv'
  BY <1>1, <1>4, <1>2, <1>3, RequestAssumption, ActorAssumption DEF IInv, TypeOK,
     ThreadLockInv, Holding, Direct, Early
<1>11. FreeInv'
  BY <1>1, <1>4, <1>2, <1>3, RequestAssumption, ActorAssumption DEF IInv, TypeOK, FreeInv,
     Early, Holding, Over, Direct
<1>12. ClaimInv'
  BY <1>1, <1>4, <1>2, <1>3, RequestAssumption, ActorAssumption DEF IInv, TypeOK, ClaimInv
<1>13. RecoveryInv'
  BY <1>1, <1>4, <1>2, <1>3, RequestAssumption, ActorAssumption DEF IInv, TypeOK,
     RecoveryInv, Direct
<1>14. RejectedInv'
  BY <1>1, <1>4, <1>2, <1>3, RequestAssumption, ActorAssumption DEF IInv, TypeOK,
     RejectedInv
<1>15. EndedInv'
  BY <1>1, <1>4, <1>2, <1>3, RequestAssumption, ActorAssumption DEF IInv, TypeOK, EndedInv,
     Guarded, Status, WaitsForConfirmation
<1>16. BindingInv'
  BY <1>1, <1>4, <1>2, <1>3, RequestAssumption, ActorAssumption DEF IInv, TypeOK,
     BindingInv, Guarded
<1>17. ConsentInv'
  BY <1>1, <1>4, <1>2, <1>3, RequestAssumption, ActorAssumption DEF IInv, TypeOK,
     ConsentInv, RunAt, Status, WaitsForConfirmation
<1>18. PendingInv'
  BY SMTT(30), <1>1, <1>4, <1>2, <1>3, RequestAssumption, ActorAssumption DEF IInv, TypeOK,
     PendingInv, InRunLock, Waiting, RunAt, WaitsForConfirmation, UserPCs, Asking, Status
<1>19. PlaceInv'
  BY <1>1, ActorAssumption DEF IInv, TypeOK, PlaceInv, RequestPCs, UserPCs
<1> USE RequestAssumption, ActorAssumption DEF IInv, TypeOK, LockToDecide, AcquireRunLock, Goto,
        RunAt, diskRuns, confirmation, scratch, server
<1>20. RunLockInv'
  BY SMTT(30), <1>2, <1>3 DEF RunLockInv, Submitting, InRunLock, Guarded, UserPCs, Asking,
     TargetInv,
     Deciding, Terminating
<1> QED BY <1>1, <1>2, <1>3, <1>4, <1>5, <1>6, <1>7, <1>8, <1>9, <1>10, <1>11, <1>12, <1>13, <1>14,
           <1>15, <1>16, <1>17, <1>18, <1>19, <1>20

LEMMA DecideSingleActionSafe ==
  ASSUME IInv, NEW u \in Users, DecideSingleAction(u) PROVE IInv'
<1>1. PICK place \in {"take", "deny_confirm"} : pc' = [pc EXCEPT ![u] = place]
  <2>1. decided[RunAt(u)] \in {"none", "allow", "deny"}
    BY RequestAssumption DEF IInv, TypeOK, TargetInv, RunAt, DecideSingleAction
  <2> QED BY <2>1 DEF DecideSingleAction, Goto, FirstStepOf
<1>2. TypeOK'
  <2>1. pc' \in [Requests \cup Users -> RequestPCs \cup UserPCs]
    BY <1>1 DEF IInv, TypeOK, RequestPCs, UserPCs
  <2>2. threads' \in [Threads -> Seq(TurnRecord) \cup {NoThread}]
    BY TurnsKept DEF IInv, DecideSingleAction
  <2> QED BY <2>1, <2>2, RequestAssumption, ActorAssumption, FailureAssumption DEF IInv, TypeOK,
            DecideSingleAction, Goto, FirstStepOf, RunAt, diskRuns, scratch, locks, server
<1>3. ShapeInv' /\ OrderInv' /\ Turned' = Turned /\ Turn' = Turn /\ Over \subseteq Over'
  BY <1>2, Kept DEF DecideSingleAction, diskRuns
<1>4. /\ pc[u] \in {"allow", "deny"}
      /\ UNCHANGED <<threads, runs, creator, resumed, claims, confirm, snapshot, pending,
                      threadLock, runLock, tried, owner, answer, target, alive, orphaned, crashes>>
  BY DEF DecideSingleAction, diskRuns, locks, scratch, server
<1>5. KindInv'
  BY <1>1, <1>4, <1>2, <1>3, RequestAssumption, ActorAssumption DEF IInv, TypeOK, KindInv,
     ThreadOnly, GuardedOnly, Direct, Guarded
<1>6. AliveInv'
  BY <1>1, <1>4, <1>2, <1>3, RequestAssumption, ActorAssumption DEF IInv, TypeOK, AliveInv
<1>7. SubmitInv'
  BY <1>1, <1>4, <1>2, <1>3, RequestAssumption, ActorAssumption DEF IInv, TypeOK,
     SubmitInv, Early, Submitting, Direct, Guarded
<1>8. CreatorInv'
  BY <1>1, <1>4, <1>2, <1>3, RequestAssumption, ActorAssumption DEF IInv, TypeOK,
     CreatorInv, Early, Guarded
<1>9. TargetInv'
  BY <1>1, <1>4, <1>2, <1>3, RequestAssumption, ActorAssumption DEF IInv, TypeOK,
     TargetInv, Deciding, RunAt, UserPCs, Terminating
<1>10. ThreadLockInv'
  BY <1>1, <1>4, <1>2, <1>3, RequestAssumption, ActorAssumption DEF IInv, TypeOK,
     ThreadLockInv, Holding, Direct, Early
<1>11. RunLockInv'
  BY <1>1, <1>4, <1>2, <1>3, RequestAssumption, ActorAssumption DEF IInv, TypeOK,
     RunLockInv, Submitting, InRunLock, Guarded, RunAt, UserPCs, Asking, TargetInv, Deciding,
     Terminating
<1>12. FreeInv'
  BY <1>1, <1>4, <1>2, <1>3, RequestAssumption, ActorAssumption DEF IInv, TypeOK, FreeInv,
     Early, Holding, Over, Direct
<1>13. ClaimInv'
  BY <1>1, <1>4, <1>2, <1>3, RequestAssumption, ActorAssumption DEF IInv, TypeOK, ClaimInv
<1>14. RecoveryInv'
  BY <1>1, <1>4, <1>2, <1>3, RequestAssumption, ActorAssumption DEF IInv, TypeOK,
     RecoveryInv, Direct
<1>15. RejectedInv'
  BY <1>1, <1>4, <1>2, <1>3, RequestAssumption, ActorAssumption DEF IInv, TypeOK,
     RejectedInv
<1>16. EndedInv'
  BY <1>1, <1>4, <1>2, <1>3, RequestAssumption, ActorAssumption DEF IInv, TypeOK, EndedInv,
     Guarded, Status, WaitsForConfirmation
<1>17. PlaceInv'
  BY <1>1, ActorAssumption DEF IInv, TypeOK, PlaceInv, RequestPCs, UserPCs
<1> USE RequestAssumption, ActorAssumption DEF IInv, TypeOK, DecideSingleAction, Goto, FirstStepOf,
        RunAt, diskRuns, scratch, locks, server
<1>18. BindingInv'
  BY SMTT(30), <1>2, <1>3 DEF BindingInv, Guarded, RunLockInv, Submitting, InRunLock, UserPCs,
     Asking
<1>19. ConsentInv'
  BY <1>2, <1>3 DEF ConsentInv, Status, WaitsForConfirmation, TargetInv, Deciding, UserPCs,
     Terminating
<1>20. PendingInv'
  BY SMTT(30), <1>2, <1>3 DEF PendingInv, InRunLock, Waiting, WaitsForConfirmation, UserPCs,
     Asking, Status, RunLockInv, Submitting, Guarded
<1> QED BY <1>1, <1>2, <1>3, <1>4, <1>5, <1>6, <1>7, <1>8, <1>9, <1>10, <1>11, <1>12, <1>13, <1>14,
           <1>15, <1>16, <1>17, <1>18, <1>19, <1>20

LEMMA DecisionRefusedSafe ==
  ASSUME IInv, NEW u \in Users, DecisionRefused(u) PROVE IInv'
<1>1. TypeOK'
  BY TurnsKept, RequestAssumption, ActorAssumption, FailureAssumption DEF IInv, TypeOK,
          DecisionRefused, Finish, Goto, RunAt, diskRuns, scratch, server, RequestPCs, UserPCs
<1>2. ShapeInv' /\ OrderInv' /\ Turned' = Turned /\ Turn' = Turn /\ Over \subseteq Over'
  BY <1>1, Kept DEF DecisionRefused, diskRuns
<1> USE RequestAssumption, ActorAssumption DEF IInv, TypeOK, DecisionRefused, Finish, Goto, RunAt,
        diskRuns, scratch, server
<1>3. PlaceInv' /\ KindInv' /\ AliveInv'
  BY <1>1, <1>2 DEF PlaceInv, UserPCs, RequestPCs, KindInv, ThreadOnly, GuardedOnly, Direct,
     Guarded, AliveInv
<1>4. /\ SubmitInv' /\ CreatorInv' /\ TargetInv' /\ FreeInv' /\ ClaimInv'
      /\ RecoveryInv' /\ RejectedInv' /\ EndedInv' /\ BindingInv' /\ ConsentInv'
  BY <1>1, <1>2 DEF SubmitInv, Early, Submitting, Direct, Guarded, CreatorInv, TargetInv,
     Deciding, UserPCs, Terminating, FreeInv, Holding, Over, ClaimInv, RecoveryInv, RejectedInv,
     EndedInv, Status, WaitsForConfirmation, BindingInv, ConsentInv
<1>5. ThreadLockInv' /\ RunLockInv'
  BY <1>1, <1>2 DEF ThreadLockInv, Holding, Direct, Early, RunLockInv, Submitting, InRunLock,
     Guarded, UserPCs, Asking
<1>6. PendingInv'
  BY <1>1, <1>2 DEF PendingInv, InRunLock, Waiting, WaitsForConfirmation, UserPCs, Asking,
     Status
<1> QED BY <1>1, <1>2, <1>3, <1>4, <1>5, <1>6

LEMMA DenyConfirmationSafe ==
  ASSUME IInv, NEW u \in Users, DenyConfirmation(u) PROVE IInv'
<1>1. PICK place \in {"deny_run", "idle"} : pc' = [pc EXCEPT ![u] = place]
  BY ActorAssumption DEF DenyConfirmation, Goto, Finish, RunAt
<1>2. TypeOK'
  <2>1. pc' \in [Requests \cup Users -> RequestPCs \cup UserPCs]
    BY <1>1 DEF IInv, TypeOK, RequestPCs, UserPCs
  <2>2. threads' \in [Threads -> Seq(TurnRecord) \cup {NoThread}]
    BY TurnsKept DEF IInv, DenyConfirmation
  <2> QED BY <2>1, <2>2, RequestAssumption, ActorAssumption, FailureAssumption DEF IInv, TypeOK,
            DenyConfirmation, Goto, Finish, RunAt, diskRuns, scratch, server
<1>3. ShapeInv' /\ OrderInv' /\ Turned' = Turned /\ Turn' = Turn /\ Over \subseteq Over'
  BY <1>2, Kept DEF DenyConfirmation, diskRuns
<1>4. /\ pc[u] = "deny_confirm"
      /\ UNCHANGED <<threads, runs, creator, resumed, claims, snapshot, decided, threadLock, tried,
                      owner, answer, target, alive, orphaned, crashes>>
  BY DEF DenyConfirmation, diskRuns, scratch, server
<1>5. KindInv'
  BY <1>1, <1>4, <1>2, <1>3, RequestAssumption, ActorAssumption DEF IInv, TypeOK, KindInv,
     ThreadOnly, GuardedOnly, Direct, Guarded
<1>6. AliveInv'
  BY <1>1, <1>4, <1>2, <1>3, RequestAssumption, ActorAssumption DEF IInv, TypeOK, AliveInv
<1>7. SubmitInv'
  BY <1>1, <1>4, <1>2, <1>3, RequestAssumption, ActorAssumption DEF IInv, TypeOK,
     SubmitInv, Early, Submitting, Direct, Guarded
<1>8. ThreadLockInv'
  BY <1>1, <1>4, <1>2, <1>3, RequestAssumption, ActorAssumption DEF IInv, TypeOK,
     ThreadLockInv, Holding, Direct, Early
<1>9. FreeInv'
  BY <1>1, <1>4, <1>2, <1>3, RequestAssumption, ActorAssumption DEF IInv, TypeOK, FreeInv,
     Early, Holding, Over, Direct
<1>10. ClaimInv'
  BY <1>1, <1>4, <1>2, <1>3, RequestAssumption, ActorAssumption DEF IInv, TypeOK, ClaimInv
<1>11. RecoveryInv'
  BY <1>1, <1>4, <1>2, <1>3, RequestAssumption, ActorAssumption DEF IInv, TypeOK,
     RecoveryInv, Direct
<1>12. RejectedInv'
  BY <1>1, <1>4, <1>2, <1>3, RequestAssumption, ActorAssumption DEF IInv, TypeOK,
     RejectedInv
<1>13. EndedInv'
  BY <1>1, <1>4, <1>2, <1>3, RequestAssumption, ActorAssumption DEF IInv, TypeOK, EndedInv,
     Guarded, Status, WaitsForConfirmation
<1>14. PlaceInv'
  BY <1>1, ActorAssumption DEF IInv, TypeOK, PlaceInv, RequestPCs, UserPCs
<1> USE RequestAssumption, ActorAssumption DEF IInv, TypeOK, DenyConfirmation, Goto, Finish, RunAt,
        diskRuns, scratch, server
<1>15. CreatorInv' /\ TargetInv' /\ BindingInv'
  BY <1>2, <1>3 DEF CreatorInv, Early, Guarded, TargetInv, Deciding, UserPCs, Terminating,
     BindingInv
<1>16. PendingInv'
  BY SMTT(30), <1>2, <1>3 DEF PendingInv, InRunLock, Waiting, WaitsForConfirmation, UserPCs, Asking,
     Status
<1>17. RunLockInv'
  BY <1>2, <1>3 DEF RunLockInv, Submitting, InRunLock, Guarded, UserPCs, Asking, TargetInv,
     Deciding, Terminating
<1>18. ConsentInv'
  BY <1>2, <1>3 DEF ConsentInv, Status, WaitsForConfirmation, TargetInv, Deciding, UserPCs,
     Terminating
<1> QED BY <1>1, <1>2, <1>3, <1>4, <1>5, <1>6, <1>7, <1>8, <1>9, <1>10, <1>11, <1>12, <1>13, <1>14,
           <1>15, <1>16, <1>17, <1>18

LEMMA DenyRunSafe ==
  ASSUME IInv, NEW u \in Users, DenyRun(u) PROVE IInv'
<1>1. RunAt(u) \in Runs
  BY RequestAssumption DEF IInv, TargetInv, RunAt, DenyRun
<1>2. PICK rec \in RunRecord :
        /\ runs[RunAt(u)] # NoRun
        /\ runs[RunAt(u)].status \in {"requires_user_action", "failed"}
        /\ runs' = [runs EXCEPT ![RunAt(u)] = rec]
        /\ rec.status = "failed"
        /\ rec # NoRun
  BY AbsentAssumption, <1>1, RunEnded DEF IInv, DenyRun, RR!denyRequiresUserActionRun, RunSet
<1>3. RunsGrow
  BY <1>2 DEF IInv, TypeOK, RunsGrow, SettledStatuses, TerminalStatuses
<1>4. TypeOK'
  BY <1>2, RequestAssumption, ActorAssumption, <1>1 DEF IInv, TypeOK, DenyRun, Goto, RunAt,
          scratch, locks, server, RequestPCs, UserPCs
<1>5. ShapeInv' /\ OrderInv' /\ Turned' = Turned /\ Turn' = Turn /\ Over \subseteq Over'
  BY <1>3, <1>4, Kept DEF DenyRun
<1> USE RequestAssumption, ActorAssumption DEF IInv, TypeOK, DenyRun, Goto, RunAt, scratch, locks,
        server
<1>6. PlaceInv' /\ KindInv' /\ AliveInv'
  BY <1>2, <1>4, <1>5 DEF PlaceInv, UserPCs, RequestPCs, KindInv, ThreadOnly, GuardedOnly,
     Direct, Guarded, AliveInv
<1>7. /\ SubmitInv' /\ CreatorInv' /\ TargetInv' /\ FreeInv' /\ ClaimInv'
      /\ RecoveryInv' /\ RejectedInv' /\ EndedInv' /\ BindingInv' /\ ConsentInv'
  BY <1>2, <1>4, <1>5 DEF SubmitInv, Early, Submitting, Direct, Guarded, CreatorInv, TargetInv,
     Deciding, UserPCs, Terminating, FreeInv, Holding, Over, ClaimInv, RecoveryInv, RejectedInv,
     EndedInv, Status, WaitsForConfirmation, BindingInv, ConsentInv
<1>8. ThreadLockInv' /\ RunLockInv'
  BY <1>2, <1>4, <1>5 DEF ThreadLockInv, Holding, Direct, Early, RunLockInv, Submitting,
     InRunLock, Guarded, UserPCs, Asking
<1>9. PendingInv'
  BY <1>2, <1>4, <1>5 DEF PendingInv, InRunLock, Waiting, WaitsForConfirmation, UserPCs,
     Asking, Status
<1> QED BY <1>1, <1>2, <1>3, <1>4, <1>5, <1>6, <1>7, <1>8, <1>9

LEMMA DenyTurnSafe ==
  ASSUME IInv, NEW u \in Users, DenyTurn(u) PROVE IInv'
<1>1. /\ target[u] \in Turned /\ ShapeInv' /\ threads' \in [Threads -> Seq(TurnRecord) \cup {NoThread}]
      /\ Rewritten
      /\ \E turn \in TurnRecord :
           /\ TurnSet(target[u], turn)
           /\ turn.terminated = Turn[target[u]].terminated
           /\ turn.submission_state = Turn[target[u]].submission_state
           /\ turn.failure_code \in {"none", Turn[target[u]].failure_code}
  BY TurnContinued DEF IInv, TargetInv, Rewritten, DenyTurn
<1>2. PICK turn \in TurnRecord :
        /\ TurnSet(target[u], turn)
        /\ turn.terminated = Turn[target[u]].terminated
        /\ turn.submission_state = Turn[target[u]].submission_state
        /\ turn.failure_code \in {"none", Turn[target[u]].failure_code}
  BY <1>1
<1>3. /\ pc[u] = "deny_turn" /\ Finish(u, RunAt(u))
      /\ UNCHANGED <<diskRuns, claims, confirmation, threadLock, scratch, target, server>>
  BY DEF DenyTurn
<1>4. TypeOK'
  BY <1>1, <1>3, RequestAssumption, ActorAssumption
     DEF IInv, TypeOK, Goto, Finish, RequestPCs, UserPCs, diskRuns, confirmation, scratch, server
<1>5. OrderInv' /\ Over \subseteq Over'
  BY <1>1, <1>2, <1>3, <1>4, Changed, TurnFacts DEF IInv, diskRuns
<1> USE RequestAssumption, ActorAssumption DEF IInv, TypeOK, Goto, Finish, TurnSet, Rewritten,
        diskRuns, confirmation, scratch, server
<1>6. PlaceInv' /\ KindInv' /\ AliveInv'
  BY <1>1, <1>2, <1>3, <1>4, <1>5 DEF PlaceInv, UserPCs, RequestPCs, KindInv, ThreadOnly,
     GuardedOnly, Direct, Guarded, AliveInv
<1>7. /\ SubmitInv' /\ CreatorInv' /\ TargetInv' /\ FreeInv' /\ ClaimInv'
      /\ RecoveryInv' /\ RejectedInv' /\ EndedInv' /\ BindingInv' /\ ConsentInv'
  BY <1>1, <1>2, <1>3, <1>4, <1>5 DEF SubmitInv, Early, Submitting, Direct, Guarded,
     CreatorInv, TargetInv, Deciding, RunAt, UserPCs, Terminating, FreeInv, Holding, Over, ClaimInv,
     RecoveryInv, RejectedInv, EndedInv, Status, WaitsForConfirmation, BindingInv, ConsentInv
<1>8. ThreadLockInv' /\ RunLockInv'
  BY <1>1, <1>2, <1>3, <1>4, <1>5 DEF ThreadLockInv, Holding, Direct, Early, RunLockInv,
     Submitting, InRunLock, Guarded, RunAt, UserPCs, Asking
<1>9. PendingInv'
  BY SMTT(30), <1>1, <1>2, <1>3, <1>4, <1>5 DEF PendingInv, InRunLock, Waiting, RunAt,
     WaitsForConfirmation, UserPCs, Asking, Status
<1> QED BY <1>1, <1>2, <1>3, <1>4, <1>5, <1>6, <1>7, <1>8, <1>9

LEMMA TakePendingSafe ==
  ASSUME IInv, NEW u \in Users, TakePending(u) PROVE IInv'
<1>1. PICK place \in {"resume", "idle"} : pc' = [pc EXCEPT ![u] = place]
  BY ActorAssumption DEF TakePending, Goto, Finish, RunAt
<1>2. TypeOK'
  <2>1. pc' \in [Requests \cup Users -> RequestPCs \cup UserPCs]
    BY <1>1 DEF IInv, TypeOK, RequestPCs, UserPCs
  <2>2. threads' \in [Threads -> Seq(TurnRecord) \cup {NoThread}]
    BY TurnsKept DEF IInv, TakePending
  <2> QED BY <2>1, <2>2, RequestAssumption, ActorAssumption, FailureAssumption DEF IInv, TypeOK,
            TakePending, Goto, Finish, RunAt, diskRuns, scratch, server
<1>3. ShapeInv' /\ OrderInv' /\ Turned' = Turned /\ Turn' = Turn /\ Over \subseteq Over'
  BY <1>2, Kept DEF TakePending, diskRuns
<1>4. /\ pc[u] = "take"
      /\ UNCHANGED <<threads, runs, creator, resumed, claims, confirm, snapshot, decided,
                      threadLock, tried, owner, answer, target, alive, orphaned, crashes>>
  BY DEF TakePending, diskRuns, scratch, server
<1>5. KindInv'
  BY <1>1, <1>4, <1>2, <1>3, RequestAssumption, ActorAssumption DEF IInv, TypeOK, KindInv,
     ThreadOnly, GuardedOnly, Direct, Guarded
<1>6. AliveInv'
  BY <1>1, <1>4, <1>2, <1>3, RequestAssumption, ActorAssumption DEF IInv, TypeOK, AliveInv
<1>7. SubmitInv'
  BY <1>1, <1>4, <1>2, <1>3, RequestAssumption, ActorAssumption DEF IInv, TypeOK,
     SubmitInv, Early, Submitting, Direct, Guarded
<1>8. TargetInv'
  BY <1>1, <1>4, <1>2, <1>3, RequestAssumption, ActorAssumption DEF IInv, TypeOK,
     TargetInv, Deciding, RunAt, UserPCs, Terminating
<1>9. ThreadLockInv'
  BY <1>1, <1>4, <1>2, <1>3, RequestAssumption, ActorAssumption DEF IInv, TypeOK,
     ThreadLockInv, Holding, Direct, Early
<1>10. FreeInv'
  BY <1>1, <1>4, <1>2, <1>3, RequestAssumption, ActorAssumption DEF IInv, TypeOK, FreeInv,
     Early, Holding, Over, Direct
<1>11. ClaimInv'
  BY <1>1, <1>4, <1>2, <1>3, RequestAssumption, ActorAssumption DEF IInv, TypeOK, ClaimInv
<1>12. RecoveryInv'
  BY <1>1, <1>4, <1>2, <1>3, RequestAssumption, ActorAssumption DEF IInv, TypeOK,
     RecoveryInv, Direct
<1>13. RejectedInv'
  BY <1>1, <1>4, <1>2, <1>3, RequestAssumption, ActorAssumption DEF IInv, TypeOK,
     RejectedInv
<1>14. EndedInv'
  BY <1>1, <1>4, <1>2, <1>3, RequestAssumption, ActorAssumption DEF IInv, TypeOK, EndedInv,
     Guarded, Status, WaitsForConfirmation
<1>15. BindingInv'
  BY <1>1, <1>4, <1>2, <1>3, RequestAssumption, ActorAssumption DEF IInv, TypeOK,
     BindingInv, Guarded
<1>16. PlaceInv'
  BY <1>1, ActorAssumption DEF IInv, TypeOK, PlaceInv, RequestPCs, UserPCs
<1> USE RequestAssumption, ActorAssumption DEF IInv, TypeOK, TakePending, Goto, Finish, RunAt,
        diskRuns, scratch, server
<1>17. CreatorInv'
  BY <1>2, <1>3 DEF CreatorInv, Early, Guarded
<1>18. PendingInv'
  BY SMTT(30), <1>2, <1>3 DEF PendingInv, InRunLock, Waiting, WaitsForConfirmation, UserPCs,
     Asking, Status
<1>19. RunLockInv'
  BY SMTT(30), <1>2, <1>3 DEF RunLockInv, Submitting, InRunLock, Guarded, UserPCs, Asking,
     TargetInv, Deciding, Terminating
<1>20. ConsentInv'
  BY <1>2, <1>3 DEF ConsentInv, Status, WaitsForConfirmation, BindingInv, Guarded
<1> QED BY <1>1, <1>2, <1>3, <1>4, <1>5, <1>6, <1>7, <1>8, <1>9, <1>10, <1>11, <1>12, <1>13, <1>14,
           <1>15, <1>16, <1>17, <1>18, <1>19, <1>20

LEMMA RecordResumptionSafe ==
  ASSUME IInv, NEW u \in Users, RecordResumption(u) PROVE IInv'
<1>1. TypeOK'
  BY TurnsKept, RequestAssumption, ActorAssumption, FailureAssumption DEF IInv, TypeOK,
          RecordResumption, Goto, RunAt, diskRuns, scratch, locks, server, RequestPCs, UserPCs
<1>2. ShapeInv' /\ OrderInv' /\ Turned' = Turned /\ Turn' = Turn /\ Over \subseteq Over'
  BY <1>1, Kept DEF RecordResumption, diskRuns
<1> USE RequestAssumption, ActorAssumption DEF IInv, TypeOK, RecordResumption, Goto, RunAt,
        diskRuns, scratch, locks, server
<1>3. PlaceInv' /\ KindInv' /\ AliveInv'
  BY <1>1, <1>2 DEF PlaceInv, UserPCs, RequestPCs, KindInv, ThreadOnly, GuardedOnly, Direct,
     Guarded, AliveInv
<1>4. /\ SubmitInv' /\ CreatorInv' /\ TargetInv' /\ FreeInv'
      /\ ClaimInv' /\ RecoveryInv' /\ RejectedInv' /\ EndedInv'
  BY <1>1, <1>2 DEF SubmitInv, Early, Submitting, Direct, Guarded, CreatorInv, TargetInv,
     Deciding, UserPCs, Terminating, FreeInv, Holding, Over, ClaimInv, RecoveryInv, RejectedInv,
     EndedInv, Status, WaitsForConfirmation
<1>5. ThreadLockInv' /\ RunLockInv'
  BY <1>1, <1>2 DEF ThreadLockInv, Holding, Direct, Early, RunLockInv, Submitting, InRunLock,
     Guarded, UserPCs, Asking
<1>6. BindingInv'
  BY SMTT(30), <1>1, <1>2 DEF BindingInv, Guarded, SubmitInv, Early, Submitting, Direct, CreatorInv,
     RunLockInv, InRunLock, UserPCs, Asking
<1>7. ConsentInv'
  BY <1>1, <1>2 DEF ConsentInv, Status, WaitsForConfirmation, TargetInv, Deciding, UserPCs,
     Terminating, EndedInv, Guarded
<1>8. PendingInv'
  BY SMTT(30), <1>1, <1>2 DEF PendingInv, InRunLock, Waiting, WaitsForConfirmation, UserPCs, Asking,
     Status, RunLockInv, Submitting, Guarded
<1> QED BY <1>1, <1>2, <1>3, <1>4, <1>5, <1>6, <1>7, <1>8

LEMMA ResumptionRefusedSafe ==
  ASSUME IInv, NEW u \in Users, ResumptionRefused(u) PROVE IInv'
<1>1. TypeOK'
  BY TurnsKept, RequestAssumption, ActorAssumption, FailureAssumption DEF IInv, TypeOK,
          ResumptionRefused, Finish, Goto, RunAt, diskRuns, confirmation, scratch, server,
          RequestPCs, UserPCs
<1>2. ShapeInv' /\ OrderInv' /\ Turned' = Turned /\ Turn' = Turn /\ Over \subseteq Over'
  BY <1>1, Kept DEF ResumptionRefused, diskRuns
<1> USE RequestAssumption, ActorAssumption DEF IInv, TypeOK, ResumptionRefused, Finish, Goto, RunAt,
        diskRuns, confirmation, scratch, server
<1>3. PlaceInv' /\ KindInv' /\ AliveInv'
  BY <1>1, <1>2 DEF PlaceInv, UserPCs, RequestPCs, KindInv, ThreadOnly, GuardedOnly, Direct,
     Guarded, AliveInv
<1>4. /\ SubmitInv' /\ CreatorInv' /\ TargetInv' /\ FreeInv' /\ ClaimInv'
      /\ RecoveryInv' /\ RejectedInv' /\ EndedInv' /\ BindingInv' /\ ConsentInv'
  BY <1>1, <1>2 DEF SubmitInv, Early, Submitting, Direct, Guarded, CreatorInv, TargetInv,
     Deciding, UserPCs, Terminating, FreeInv, Holding, Over, ClaimInv, RecoveryInv, RejectedInv,
     EndedInv, Status, WaitsForConfirmation, BindingInv, ConsentInv
<1>5. ThreadLockInv' /\ RunLockInv'
  BY <1>1, <1>2 DEF ThreadLockInv, Holding, Direct, Early, RunLockInv, Submitting, InRunLock,
     Guarded, UserPCs, Asking
<1>6. PendingInv'
  BY SMTT(30), <1>1, <1>2 DEF PendingInv, InRunLock, Waiting, WaitsForConfirmation, UserPCs, Asking,
     Status
<1> QED BY <1>1, <1>2, <1>3, <1>4, <1>5, <1>6

LEMMA ResumeRunSafe ==
  ASSUME IInv, NEW u \in Users, ResumeRun(u) PROVE IInv'
<1>1. RunAt(u) \in Runs
  BY RequestAssumption DEF IInv, TargetInv, RunAt, ResumeRun
<1>2. PICK rec \in RunRecord :
        /\ runs[RunAt(u)] # NoRun
        /\ runs[RunAt(u)].status = "requires_user_action"
        /\ runs' = [runs EXCEPT ![RunAt(u)] = rec]
        /\ rec.status = "running"
        /\ rec # NoRun
  BY AbsentAssumption, <1>1, RunContinued DEF IInv, ResumeRun, RunSet
<1>3. RunsGrow
  BY <1>2 DEF IInv, TypeOK, RunsGrow, SettledStatuses, TerminalStatuses
<1>4. TypeOK'
  BY <1>2, RequestAssumption, ActorAssumption, <1>1 DEF IInv, TypeOK, ResumeRun, Goto, RunAt,
          confirmation, scratch, locks, server, RequestPCs, UserPCs
<1>5. ShapeInv' /\ OrderInv' /\ Turned' = Turned /\ Turn' = Turn /\ Over \subseteq Over'
  BY <1>3, <1>4, Kept DEF ResumeRun
<1> USE RequestAssumption, ActorAssumption DEF IInv, TypeOK, ResumeRun, Goto, RunAt, confirmation,
        scratch, locks, server
<1>6. PlaceInv' /\ KindInv' /\ AliveInv'
  BY <1>2, <1>4, <1>5 DEF PlaceInv, UserPCs, RequestPCs, KindInv, ThreadOnly, GuardedOnly,
     Direct, Guarded, AliveInv
<1>7. /\ SubmitInv' /\ CreatorInv' /\ TargetInv' /\ FreeInv'
      /\ ClaimInv' /\ RecoveryInv' /\ RejectedInv'
  BY <1>2, <1>4, <1>5 DEF SubmitInv, Early, Submitting, Direct, Guarded, CreatorInv, TargetInv,
     Deciding, UserPCs, Terminating, FreeInv, Holding, Over, ClaimInv, RecoveryInv, RejectedInv
<1>8. ThreadLockInv' /\ RunLockInv'
  BY <1>2, <1>4, <1>5 DEF ThreadLockInv, Holding, Direct, Early, RunLockInv, Submitting,
     InRunLock, Guarded, UserPCs, Asking
<1>9. EndedInv'
  BY SMTT(30), <1>2, <1>4, <1>5 DEF EndedInv, Guarded, Status, WaitsForConfirmation, TargetInv,
     Deciding,
     UserPCs, Terminating, ConsentInv
<1>10. BindingInv'
  BY <1>2, <1>4, <1>5 DEF BindingInv, Guarded, ConsentInv, Status, WaitsForConfirmation
<1>11. ConsentInv'
  BY SMTT(30), <1>2, <1>4, <1>5 DEF ConsentInv, Status, WaitsForConfirmation, RunLockInv,
     Submitting,
     InRunLock, Guarded, UserPCs, Asking
<1>12. PendingInv'
  BY SMTT(30), <1>2, <1>4, <1>5 DEF PendingInv, InRunLock, Waiting, WaitsForConfirmation, UserPCs,
     Asking, Status, RunLockInv, Submitting, Guarded
<1> QED BY <1>1, <1>2, <1>3, <1>4, <1>5, <1>6, <1>7, <1>8, <1>9, <1>10, <1>11, <1>12

LEMMA ResumeStartSafe ==
  ASSUME IInv, NEW u \in Users, ResumeStart(u) PROVE IInv'
<1>1. RunAt(u) \in Runs
  BY RequestAssumption DEF IInv, TargetInv, RunAt, ResumeStart
<1>2. PICK rec \in RunRecord :
        /\ runs[RunAt(u)] # NoRun
        /\ runs[RunAt(u)].status \in {"admitted", "running"}
        /\ runs' = [runs EXCEPT ![RunAt(u)] = rec]
        /\ rec.status = "running"
        /\ rec # NoRun
  BY AbsentAssumption, <1>1, RunBound DEF IInv, ResumeStart, RunSet
<1>3. RunsGrow
  BY <1>2 DEF IInv, TypeOK, RunsGrow, SettledStatuses, TerminalStatuses
<1>4. TypeOK'
  BY <1>2, RequestAssumption, ActorAssumption, <1>1 DEF IInv, TypeOK, ResumeStart, RunAt,
          confirmation, scratch, locks, server, RequestPCs, UserPCs
<1>5. ShapeInv' /\ OrderInv' /\ Turned' = Turned /\ Turn' = Turn /\ Over \subseteq Over'
  BY <1>3, <1>4, Kept DEF ResumeStart
<1> USE RequestAssumption, ActorAssumption DEF IInv, TypeOK, ResumeStart, RunAt, confirmation,
        scratch, locks, server
<1>6. PlaceInv' /\ KindInv' /\ AliveInv'
  BY <1>2, <1>4, <1>5 DEF PlaceInv, UserPCs, RequestPCs, KindInv, ThreadOnly, GuardedOnly,
     Direct, Guarded, AliveInv
<1>7. /\ SubmitInv' /\ CreatorInv' /\ TargetInv' /\ FreeInv' /\ ClaimInv'
      /\ RecoveryInv' /\ RejectedInv' /\ EndedInv' /\ BindingInv' /\ ConsentInv'
  BY <1>2, <1>4, <1>5 DEF SubmitInv, Early, Submitting, Direct, Guarded, CreatorInv, TargetInv,
     Deciding, UserPCs, Terminating, FreeInv, Holding, Over, ClaimInv, RecoveryInv, RejectedInv,
     EndedInv, Status, WaitsForConfirmation, BindingInv, ConsentInv
<1>8. ThreadLockInv' /\ RunLockInv'
  BY <1>2, <1>4, <1>5 DEF ThreadLockInv, Holding, Direct, Early, RunLockInv, Submitting,
     InRunLock, Guarded, UserPCs, Asking
<1>9. PendingInv'
  BY <1>2, <1>4, <1>5 DEF PendingInv, InRunLock, Waiting, WaitsForConfirmation, UserPCs,
     Asking, Status
<1> QED BY <1>1, <1>2, <1>3, <1>4, <1>5, <1>6, <1>7, <1>8, <1>9

LEMMA ResumeEndSafe ==
  ASSUME IInv, NEW u \in Users, ResumeEnd(u) PROVE IInv'
<1>1. RunAt(u) \in Runs
  BY RequestAssumption DEF IInv, TargetInv, RunAt, ResumeEnd
<1>2. PICK rec \in RunRecord :
        /\ runs[RunAt(u)] # NoRun
        /\ Advances(runs[RunAt(u)].status, rec.status)
        /\ runs' = [runs EXCEPT ![RunAt(u)] = rec]
        /\ rec.status \in TerminalStatuses
        /\ rec # NoRun
  BY AbsentAssumption, <1>1, RunSettled DEF IInv, ResumeEnd
<1>3. PICK place \in {"resume_turn", "idle"} : pc' = [pc EXCEPT ![u] = place]
  BY ActorAssumption DEF ResumeEnd, Goto, Finish, RunAt
<1>4. RunsGrow
  BY <1>2 DEF IInv, Advances, TypeOK, RunsGrow, SettledStatuses, TerminalStatuses
<1>5. TypeOK'
  BY <1>2, RequestAssumption, ActorAssumption, <1>1 DEF IInv, TypeOK, ResumeEnd, Goto, Finish,
          SettleRun, RunAt, confirmation, scratch, server, RequestPCs, UserPCs
<1>6. ShapeInv' /\ OrderInv' /\ Turned' = Turned /\ Turn' = Turn /\ Over \subseteq Over'
  BY <1>4, <1>5, Kept DEF ResumeEnd
<1>7. /\ pc[u] = "resume_exec"
      /\ UNCHANGED <<threads, creator, resumed, claims, confirm, snapshot, decided, pending,
                      threadLock, tried, owner, answer, target, alive, orphaned, crashes>>
  BY DEF ResumeEnd, confirmation, scratch, server
<1>8. KindInv'
  BY <1>3, <1>7, <1>2, <1>5, <1>6, RequestAssumption, ActorAssumption DEF IInv, TypeOK,
     KindInv, ThreadOnly, GuardedOnly, Direct, Guarded
<1>9. AliveInv'
  BY <1>3, <1>7, <1>2, <1>5, <1>6, RequestAssumption, ActorAssumption DEF IInv, TypeOK,
     AliveInv
<1>10. SubmitInv'
  BY <1>3, <1>7, <1>2, <1>5, <1>6, RequestAssumption, ActorAssumption DEF IInv, TypeOK,
     SubmitInv, Early, Submitting, Direct, Guarded
<1>11. TargetInv'
  BY <1>3, <1>7, <1>2, <1>5, <1>6, RequestAssumption, ActorAssumption DEF IInv, TypeOK,
     TargetInv, Deciding, RunAt, UserPCs, Terminating
<1>12. ThreadLockInv'
  BY <1>3, <1>7, <1>2, <1>5, <1>6, RequestAssumption, ActorAssumption DEF IInv, TypeOK,
     ThreadLockInv, Holding, Direct, Early
<1>13. FreeInv'
  BY <1>3, <1>7, <1>2, <1>5, <1>6, RequestAssumption, ActorAssumption DEF IInv, TypeOK,
     FreeInv, Early, Holding, Over, Direct
<1>14. ClaimInv'
  BY <1>3, <1>7, <1>2, <1>5, <1>6, RequestAssumption, ActorAssumption DEF IInv, TypeOK,
     ClaimInv
<1>15. RecoveryInv'
  BY <1>3, <1>7, <1>2, <1>5, <1>6, RequestAssumption, ActorAssumption DEF IInv, TypeOK,
     RecoveryInv, Direct
<1>16. RejectedInv'
  BY <1>3, <1>7, <1>2, <1>5, <1>6, RequestAssumption, ActorAssumption DEF IInv, TypeOK,
     RejectedInv
<1>17. BindingInv'
  BY <1>3, <1>7, <1>2, <1>5, <1>6, RequestAssumption, ActorAssumption DEF IInv, TypeOK,
     BindingInv, Guarded
<1>18. PlaceInv'
  BY <1>3, ActorAssumption DEF IInv, TypeOK, PlaceInv, RequestPCs, UserPCs
<1> USE RequestAssumption, ActorAssumption DEF IInv, TypeOK, ResumeEnd, Goto, Finish, SettleRun,
        RunAt, confirmation, scratch, server, Advances, TerminalStatuses
<1>19. EndedInv' /\ ConsentInv'
  BY <1>2, <1>5, <1>6 DEF EndedInv, Guarded, Status, WaitsForConfirmation, ConsentInv
<1>20. CreatorInv'
  BY <1>2, <1>5, <1>6 DEF CreatorInv, Early, Guarded
<1>21. RunLockInv'
  BY SMTT(30), <1>2, <1>5, <1>6 DEF RunLockInv, Submitting, InRunLock, Guarded, UserPCs, Asking,
     TargetInv, Deciding, Terminating
<1>22. PendingInv'
  BY SMTT(30), <1>2, <1>5, <1>6 DEF PendingInv, InRunLock, Waiting, WaitsForConfirmation,
     UserPCs, Asking, Status, AliveInv
<1> QED BY <1>1, <1>2, <1>3, <1>4, <1>5, <1>6, <1>7, <1>8, <1>9, <1>10, <1>11, <1>12, <1>13, <1>14,
           <1>15, <1>16, <1>17, <1>18, <1>19, <1>20, <1>21, <1>22

LEMMA ResumeTurnSafe ==
  ASSUME IInv, NEW u \in Users, ResumeTurn(u) PROVE IInv'
<1>1. /\ target[u] \in Turned /\ ShapeInv' /\ threads' \in [Threads -> Seq(TurnRecord) \cup {NoThread}]
      /\ Rewritten
      /\ \E turn \in TurnRecord :
           /\ TurnSet(target[u], turn)
           /\ turn.terminated = Turn[target[u]].terminated
           /\ turn.submission_state = Turn[target[u]].submission_state
           /\ turn.failure_code \in {"none", Turn[target[u]].failure_code}
  BY TurnContinued DEF IInv, TargetInv, Rewritten, ResumeTurn
<1>2. PICK turn \in TurnRecord :
        /\ TurnSet(target[u], turn)
        /\ turn.terminated = Turn[target[u]].terminated
        /\ turn.submission_state = Turn[target[u]].submission_state
        /\ turn.failure_code \in {"none", Turn[target[u]].failure_code}
  BY <1>1
<1>3. /\ pc[u] = "resume_turn" /\ Finish(u, RunAt(u))
      /\ UNCHANGED <<diskRuns, claims, confirmation, threadLock, scratch, target, server>>
  BY DEF ResumeTurn
<1>4. TypeOK'
  BY <1>1, <1>3, RequestAssumption, ActorAssumption
     DEF IInv, TypeOK, Goto, Finish, RequestPCs, UserPCs, diskRuns, confirmation, scratch, server
<1>5. OrderInv' /\ Over \subseteq Over'
  BY <1>1, <1>2, <1>3, <1>4, Changed, TurnFacts DEF IInv, diskRuns
<1> USE RequestAssumption, ActorAssumption DEF IInv, TypeOK, Goto, Finish, TurnSet, Rewritten,
        diskRuns, confirmation, scratch, server
<1>6. PlaceInv' /\ KindInv' /\ AliveInv'
  BY <1>1, <1>2, <1>3, <1>4, <1>5 DEF PlaceInv, UserPCs, RequestPCs, KindInv, ThreadOnly,
     GuardedOnly, Direct, Guarded, AliveInv
<1>7. /\ SubmitInv' /\ CreatorInv' /\ TargetInv' /\ FreeInv' /\ ClaimInv'
      /\ RecoveryInv' /\ RejectedInv' /\ EndedInv' /\ BindingInv' /\ ConsentInv'
  BY <1>1, <1>2, <1>3, <1>4, <1>5 DEF SubmitInv, Early, Submitting, Direct, Guarded,
     CreatorInv, TargetInv, Deciding, RunAt, UserPCs, Terminating, FreeInv, Holding, Over, ClaimInv,
     RecoveryInv, RejectedInv, EndedInv, Status, WaitsForConfirmation, BindingInv, ConsentInv
<1>8. ThreadLockInv' /\ RunLockInv'
  BY <1>1, <1>2, <1>3, <1>4, <1>5 DEF ThreadLockInv, Holding, Direct, Early, RunLockInv,
     Submitting, InRunLock, Guarded, RunAt, UserPCs, Asking
<1>9. PendingInv'
  BY SMTT(30), <1>1, <1>2, <1>3, <1>4, <1>5 DEF PendingInv, InRunLock, Waiting, RunAt,
     WaitsForConfirmation, UserPCs, Asking, Status
<1> QED BY <1>1, <1>2, <1>3, <1>4, <1>5, <1>6, <1>7, <1>8, <1>9

\* A store that throws, a confirmation that expires, a process that ends.
LEMMA UserStepThrowsSafe ==
  ASSUME IInv, NEW u \in Users, UserStepThrows(u) PROVE IInv'
<1>1. TypeOK'
  BY TurnsKept, RequestAssumption, ActorAssumption, FailureAssumption DEF IInv, TypeOK,
          UserStepThrows, Finish, Goto, RunAt, diskRuns, confirmation, scratch, server, RequestPCs,
          UserPCs
<1>2. ShapeInv' /\ OrderInv' /\ Turned' = Turned /\ Turn' = Turn /\ Over \subseteq Over'
  BY <1>1, Kept DEF UserStepThrows, diskRuns
<1> USE RequestAssumption, ActorAssumption DEF IInv, TypeOK, UserStepThrows, Finish, Goto, RunAt,
        diskRuns, confirmation, scratch, server
<1>3. PlaceInv' /\ KindInv' /\ AliveInv'
  BY <1>1, <1>2 DEF PlaceInv, UserPCs, RequestPCs, KindInv, ThreadOnly, GuardedOnly, Direct,
     Guarded, AliveInv
<1>4. /\ SubmitInv' /\ CreatorInv' /\ TargetInv' /\ FreeInv' /\ ClaimInv'
      /\ RecoveryInv' /\ RejectedInv' /\ EndedInv' /\ BindingInv' /\ ConsentInv'
  BY <1>1, <1>2 DEF SubmitInv, Early, Submitting, Direct, Guarded, CreatorInv, TargetInv,
     Deciding, UserPCs, Terminating, FreeInv, Holding, Over, ClaimInv, RecoveryInv, RejectedInv,
     EndedInv, Status, WaitsForConfirmation, BindingInv, ConsentInv
<1>5. ThreadLockInv' /\ RunLockInv'
  BY <1>1, <1>2 DEF ThreadLockInv, Holding, Direct, Early, RunLockInv, Submitting, InRunLock,
     Guarded, UserPCs, Asking
<1>6. PendingInv'
  BY <1>1, <1>2 DEF PendingInv, InRunLock, Waiting, WaitsForConfirmation, UserPCs, Asking,
     Status
<1> QED BY <1>1, <1>2, <1>3, <1>4, <1>5, <1>6

LEMMA ExpireSafe ==
  ASSUME IInv, NEW r \in Runs, Expire(r) PROVE IInv'
<1>1. TypeOK'
  BY TurnsKept, RequestAssumption, ActorAssumption, FailureAssumption DEF IInv, TypeOK, Expire,
          diskRuns, scratch, locks, server, RequestPCs, UserPCs
<1>2. ShapeInv' /\ OrderInv' /\ Turned' = Turned /\ Turn' = Turn /\ Over \subseteq Over'
  BY <1>1, Kept DEF Expire, diskRuns
<1> USE RequestAssumption, ActorAssumption DEF IInv, TypeOK, Expire, diskRuns, scratch, locks,
        server
<1>3. PlaceInv' /\ KindInv' /\ AliveInv'
  BY <1>1, <1>2 DEF PlaceInv, UserPCs, RequestPCs, KindInv, ThreadOnly, GuardedOnly, Direct,
     Guarded, AliveInv
<1>4. /\ SubmitInv' /\ CreatorInv' /\ TargetInv' /\ FreeInv' /\ ClaimInv'
      /\ RecoveryInv' /\ RejectedInv' /\ EndedInv' /\ BindingInv' /\ ConsentInv'
  BY <1>1, <1>2 DEF SubmitInv, Early, Submitting, Direct, Guarded, CreatorInv, TargetInv,
     Deciding, RunAt, UserPCs, Terminating, FreeInv, Holding, Over, ClaimInv, RecoveryInv,
     RejectedInv, EndedInv, Status, WaitsForConfirmation, BindingInv, ConsentInv
<1>5. ThreadLockInv' /\ RunLockInv'
  BY <1>1, <1>2 DEF ThreadLockInv, Holding, Direct, Early, RunLockInv, Submitting, InRunLock,
     Guarded, RunAt, UserPCs, Asking
<1>6. PendingInv'
  BY <1>1, <1>2 DEF PendingInv, InRunLock, Waiting, RunAt, WaitsForConfirmation, UserPCs,
     Asking, Status
<1> QED BY <1>1, <1>2, <1>3, <1>4, <1>5, <1>6

LEMMA CrashSafe ==
  ASSUME IInv, Crash PROVE IInv'
<1>1. TypeOK'
  BY TurnsKept, RequestAssumption, ActorAssumption, FailureAssumption DEF IInv, TypeOK, Crash,
          diskRuns, scratch, RequestPCs, UserPCs
<1>2. ShapeInv' /\ OrderInv' /\ Turned' = Turned /\ Turn' = Turn /\ Over \subseteq Over'
  BY <1>1, Kept DEF Crash, diskRuns
<1> USE RequestAssumption, ActorAssumption DEF IInv, TypeOK, Crash, diskRuns, scratch
<1>3. PlaceInv' /\ KindInv' /\ AliveInv'
  BY <1>1, <1>2 DEF PlaceInv, UserPCs, RequestPCs, KindInv, ThreadOnly, GuardedOnly, Direct,
     Guarded, AliveInv
<1>4. /\ SubmitInv' /\ CreatorInv' /\ TargetInv' /\ FreeInv' /\ ClaimInv'
      /\ RecoveryInv' /\ RejectedInv' /\ EndedInv' /\ BindingInv' /\ ConsentInv'
  BY <1>1, <1>2 DEF SubmitInv, Early, Submitting, Direct, Guarded, CreatorInv, TargetInv,
     Deciding, RunAt, UserPCs, Terminating, FreeInv, Holding, Over, ClaimInv, RecoveryInv,
     RejectedInv, EndedInv, Status, WaitsForConfirmation, BindingInv, ConsentInv
<1>5. ThreadLockInv' /\ RunLockInv'
  BY <1>1, <1>2 DEF ThreadLockInv, Holding, Direct, Early, RunLockInv, Submitting, InRunLock,
     Guarded, RunAt, UserPCs, Asking
<1>6. PendingInv'
  BY <1>1, <1>2 DEF PendingInv, InRunLock, Waiting, RunAt, WaitsForConfirmation, UserPCs,
     Asking, Status
<1> QED BY <1>1, <1>2, <1>3, <1>4, <1>5, <1>6

\* A turn that cannot be written leaves the thread as it is, and the claim is
\* given back.
LEMMA WriteFailsSafe ==
  ASSUME IInv, NEW q \in Requests, pc[q] = "write",
         threadLock' = [threadLock EXCEPT ![ThreadOf[q]] = NoRequest],
         StoreFails, ReleaseClaim(q), Goto(q, "done"), UNCHANGED threads,
         UNCHANGED <<diskRuns, confirmation, runLock, scratch, target, server>>
  PROVE  IInv'
<1>1. TypeOK'
  BY TurnsKept, RequestAssumption, ActorAssumption
     DEF IInv, TypeOK, ReleaseClaim, Goto, RequestPCs, UserPCs, diskRuns, confirmation, scratch, server
<1>2. ShapeInv' /\ OrderInv' /\ Turned' = Turned /\ Turn' = Turn /\ Over \subseteq Over'
  BY <1>1, Kept DEF diskRuns
<1>3. /\ ~Direct(q) /\ q \notin Turned
      /\ pc' = [pc EXCEPT ![q] = "done"]
      /\ claims' = [claims EXCEPT ![RunOf[q]] = IF @ = q THEN NoRequest ELSE @]
      /\ UNCHANGED <<runs, creator, resumed, confirm, snapshot, decided, pending, runLock, tried, owner,
                     answer, target, alive, orphaned, crashes, threads>>
  BY DEF IInv, SubmitInv, Early, KindInv, ThreadOnly, ReleaseClaim, Goto, diskRuns, confirmation,
     scratch, server
<1> USE <1>1, <1>2, <1>3, RequestAssumption, ActorAssumption DEF IInv, TypeOK
<1>4. PlaceInv' /\ KindInv' /\ AliveInv'
  BY DEF PlaceInv, UserPCs, RequestPCs, KindInv, ThreadOnly, GuardedOnly, AliveInv, Direct, Guarded
<1>5. SubmitInv' /\ CreatorInv'
  BY DEF SubmitInv, Early, Submitting, CreatorInv, Direct, Guarded
<1>6. TargetInv'
  BY DEF TargetInv, Deciding, RunAt, UserPCs, Terminating
<1>7. ThreadLockInv'
  BY DEF ThreadLockInv, Holding, Early, Direct
<1>8. RunLockInv'
  BY DEF RunLockInv, Submitting, InRunLock, RunAt, UserPCs, Asking, Guarded, Direct
<1>9. FreeInv'
  BY DEF FreeInv, Early, Holding, Over, Direct
<1>10. ClaimInv'
  BY DEF ClaimInv, CreatorInv, Early
<1>11. RecoveryInv'
  BY DEF RecoveryInv, AliveInv, Direct
<1>12. RejectedInv' /\ EndedInv' /\ BindingInv' /\ ConsentInv'
  BY DEF RejectedInv, EndedInv, Status, WaitsForConfirmation, BindingInv, ConsentInv, RunAt, Guarded
<1>13. PendingInv'
  BY PendingKept
<1> QED BY <1>4, <1>5, <1>6, <1>7, <1>8, <1>9, <1>10, <1>11, <1>12, <1>13

\* A turn that is written is the last of a thread whose other turns are over,
\* and its request is the only one in the thread's lock.
LEMMA WriteAddsSafe ==
  ASSUME IInv, NEW q \in Requests, pc[q] = "write",
         threadLock' = [threadLock EXCEPT ![ThreadOf[q]] = NoRequest],
         threads' = [threads EXCEPT ![ThreadOf[q]] = Append(@, NewTurn(q))],
         Goto(q, IF Guarded(q) THEN "run_lock" ELSE "submit"), UNCHANGED claims,
         UNCHANGED <<diskRuns, confirmation, runLock, scratch, target, server>>
  PROVE  IInv'
<1>1. ~Direct(q) /\ q \notin Turned /\ threadLock[ThreadOf[q]] = q
  BY DEF IInv, SubmitInv, Early, KindInv, ThreadOnly, ThreadLockInv, Holding
<1>2. /\ threads' \in [Threads -> Seq(TurnRecord) \cup {NoThread}] /\ ShapeInv'
      /\ Turned' = Turned \cup {q}
      /\ Turn'[q].submission_state = "submitting" /\ Turn'[q].failure_code = "none"
      /\ ~Turn'[q].terminated
      /\ \A p \in Turned : p # q /\ Turn'[p] = Turn[p]
  <2>1. /\ threads' \in [Threads -> Seq(TurnRecord) \cup {NoThread}] /\ ShapeInv'
        /\ Turned' = Turned \cup {q} /\ Turn'[q] = NewTurn(q)
        /\ \A p \in Turned : p # q /\ Turn'[p] = Turn[p]
    BY <1>1, TurnAdded DEF IInv
  <2> QED BY <2>1 DEF NewTurn
<1>3. PICK place \in {"run_lock", "submit"} :
        pc' = [pc EXCEPT ![q] = place] /\ (place = "run_lock" <=> Guarded(q))
  BY DEF Goto
<1>4. TypeOK'
  BY <1>2, <1>3, RequestAssumption, ActorAssumption
     DEF IInv, TypeOK, RequestPCs, UserPCs, diskRuns, confirmation, scratch, server
<1>5. Over \subseteq Over'
  BY <1>2, <1>4, OverStays DEF IInv, TurnsGrow, RunsGrow, diskRuns
<1>6. UNCHANGED <<claims, runs, creator, resumed, confirm, snapshot, decided, pending, runLock, tried,
                  owner, answer, target, alive, orphaned, crashes>>
  BY DEF diskRuns, confirmation, scratch, server
<1>7. \A p \in Requests : ~Direct(p) /\ pc[p] \in Holding /\ ThreadOf[p] = ThreadOf[q] => p = q
  BY <1>1 DEF IInv, ThreadLockInv
<1>8. OrderInv'
  <2> DEFINE t == ThreadOf[q]
             n == Len(threads[t])
  <2>1. t \in Threads /\ threads[t] # NoThread /\ threads[t] \in Seq(TurnRecord)
    BY <1>1, RequestAssumption DEF IInv, TypeOK, FreeInv, Early
  <2>2. /\ \A s \in Threads \ {t} : threads'[s] = threads[s]
        /\ n \in Nat /\ DOMAIN threads[t] = 1..n /\ DOMAIN threads'[t] = 1..(n + 1)
        /\ \A i \in 1..n : threads'[t][i] = threads[t][i]
    BY <2>1 DEF IInv, TypeOK
  <2>3. ASSUME NEW i \in 1..n PROVE threads[t][i].req \in Over
    <3>1. threads[t][i] \in Turns(t)
      BY <2>1, <2>2 DEF Turns
    <3>2. threads[t][i].req \in Turned /\ ThreadOf[threads[t][i].req] = t
      BY <2>1, <3>1, TurnIn DEF IInv
    <3> QED BY <1>1, <3>2 DEF IInv, FreeInv, Holding, Early
  <2>4. ASSUME NEW s \in Threads, threads'[s] # NoThread, NEW i \in DOMAIN threads'[s],
               NEW j \in DOMAIN threads'[s], i < j
        PROVE  threads'[s][i].req \in Over'
    <3>1. CASE s # t
      BY <1>5, <2>2, <2>4, <3>1 DEF IInv, OrderInv
    <3>2. CASE s = t
      <4> HIDE DEF n
      <4>1. i \in 1..n
        BY <2>2, <2>4, <3>2
      <4> QED BY <1>5, <2>2, <2>3, <3>2, <4>1
    <3> QED BY <3>1, <3>2
  <2> QED BY <2>4 DEF OrderInv
<1>9. PendingInv'
  BY <1>2, <1>3, <1>6, PendingKept, ActorAssumption DEF IInv, TypeOK
<1> USE <1>1, <1>2, <1>3, <1>4, <1>6, RequestAssumption, ActorAssumption DEF IInv, TypeOK
<1>10. PlaceInv' /\ KindInv' /\ AliveInv'
  BY DEF PlaceInv, UserPCs, RequestPCs, KindInv, ThreadOnly, GuardedOnly, AliveInv, Direct, Guarded
<1>11. SubmitInv'
  BY SMTT(30) DEF SubmitInv, Early, Submitting, Direct, Guarded
<1>12. CreatorInv'
  <2>1. runs[RunOf[q]] # NoRun => creator[RunOf[q]] # q
    BY DEF CreatorInv, Early
  <2> QED BY <2>1 DEF CreatorInv, Early, Guarded, Direct
<1>13. TargetInv'
  BY DEF TargetInv, Deciding, RunAt, UserPCs, Terminating
<1>14. ThreadLockInv'
  BY <1>7 DEF ThreadLockInv, Holding, Early, Direct
<1>15. RunLockInv'
  BY DEF RunLockInv, Submitting, InRunLock, RunAt, UserPCs, Asking, Guarded, Direct
<1>16. FreeInv'
  <2>1. \A p \in Requests : ~Direct(p) /\ pc'[p] \in Early \ {"new"} => threads'[ThreadOf[p]] # NoThread
    <3>1. threads[ThreadOf[q]] \in Seq(TurnRecord) /\ ThreadOf[q] \in Threads
      BY DEF FreeInv, Early
    <3>2. NewTurn(q) \in TurnRecord
      BY DEF NewTurn, TurnRecord
    <3> DEFINE longer == Append(threads[ThreadOf[q]], NewTurn(q))
    <3>3. longer # NoThread
      <4>1. longer \in Seq(TurnRecord)
        BY <3>1, <3>2
      <4> HIDE DEF longer
      <4> QED BY <4>1, AbsentAssumption
    <3>4. \A t \in Threads : threads[t] # NoThread => threads'[t] # NoThread
      BY <3>1, <3>3
    <3>5. \A p \in Requests : ~Direct(p) /\ pc'[p] \in Early \ {"new"} => pc[p] \in Early \ {"new"}
      BY DEF Early
    <3> QED BY <3>4, <3>5 DEF FreeInv
  <2>2. ASSUME NEW p \in Requests, ~Direct(p), pc'[p] \in Holding \ {"check"},
               NEW x \in Turned', ThreadOf[x] = ThreadOf[p]
        PROVE  KeyOf[x] # KeyOf[p] /\ RunOf[x] # RunOf[p] /\ x \in Over'
    <3>1. p # q /\ pc[p] = pc'[p]
      BY <2>2 DEF Holding, Early
    <3>2. x # q
      BY <1>7, <2>2, <3>1
    <3> QED BY <1>5, <2>2, <3>1, <3>2 DEF FreeInv
  <2> QED BY <2>1, <2>2 DEF FreeInv, Direct
<1>17. ClaimInv'
  BY DEF ClaimInv, CreatorInv, Early
<1>18. RecoveryInv'
  BY DEF RecoveryInv, AliveInv, Direct
<1>19. RejectedInv' /\ BindingInv'
  BY DEF RejectedInv, BindingInv, Guarded
<1>20. EndedInv'
  BY DEF EndedInv, Status, WaitsForConfirmation, Guarded
<1>21. ConsentInv'
  BY DEF ConsentInv, TargetInv, RunAt, Status, WaitsForConfirmation
<1> QED BY <1>8, <1>9, <1>10, <1>11, <1>12, <1>13, <1>14, <1>15, <1>16, <1>17, <1>18, <1>19, <1>20,
           <1>21

LEMMA WriteTurnSafe ==
  ASSUME IInv, NEW q \in Requests, WriteTurn(q) PROVE IInv'
BY WriteFailsSafe, WriteAddsSafe DEF WriteTurn, NewTurn

LEMMA StutterSafe ==
  ASSUME IInv, UNCHANGED vars PROVE IInv'
<1>1. Turned' = Turned /\ Turn' = Turn
  BY TurnsKept DEF IInv, vars
<1>2. \A turn : KeepsLocked(turn)' <=> KeepsLocked(turn)
  BY DEF KeepsLocked, turnState, ClaimAlive, vars
<1>3. Over' = Over
  BY <1>1, <1>2 DEF Over
<1>4. ShapeInv' /\ TypeOK'
  BY DEF IInv, vars, ShapeInv, OneTurnPerKey, TypeOK
<1> USE <1>1, <1>3 DEF IInv, vars
<1>5. PlaceInv' /\ KindInv' /\ AliveInv' /\ SubmitInv' /\ CreatorInv' /\ TargetInv'
  BY DEF PlaceInv, KindInv, AliveInv, SubmitInv, CreatorInv, TargetInv, RunAt
<1>6. ThreadLockInv' /\ RunLockInv' /\ FreeInv' /\ OrderInv' /\ ClaimInv'
  BY DEF ThreadLockInv, RunLockInv, FreeInv, OrderInv, ClaimInv, RunAt
<1>7. RecoveryInv' /\ RejectedInv' /\ EndedInv' /\ BindingInv' /\ ConsentInv' /\ PendingInv'
  BY DEF RecoveryInv, RejectedInv, EndedInv, BindingInv, ConsentInv, PendingInv, Waiting, RunAt,
     Status,
         WaitsForConfirmation
<1> QED BY <1>4, <1>5, <1>6, <1>7

LEMMA InitSafe == Init => IInv
<1> SUFFICES ASSUME Init PROVE IInv
  OBVIOUS
<1>1. Turned = {} /\ Over = {}
  BY RequestAssumption DEF Turned, Over, HasTurn, Turns, Init
<1>2. \A a \in Requests : pc[a] = "new"
  BY DEF Init
<1>3. \A u \in Users : pc[u] = "idle"
  BY ActorAssumption DEF Init
<1>4. TypeOK
  BY RequestAssumption, ActorAssumption, FailureAssumption DEF Init, RR!Init, TypeOK, RequestPCs,
     UserPCs
<1> USE <1>1, <1>2, <1>3, RequestAssumption, ActorAssumption DEF Init, RR!Init
<1>5. PlaceInv /\ KindInv /\ AliveInv
  BY DEF PlaceInv, KindInv, AliveInv, RequestPCs, UserPCs, ThreadOnly, GuardedOnly
<1>6. ShapeInv /\ SubmitInv /\ CreatorInv /\ TargetInv
  BY DEF ShapeInv, OneTurnPerKey, SubmitInv, CreatorInv, TargetInv, Submitting
<1>7. ThreadLockInv /\ RunLockInv /\ FreeInv /\ OrderInv /\ ClaimInv
  BY DEF ThreadLockInv, RunLockInv, FreeInv, OrderInv, ClaimInv, Submitting, InRunLock, Holding,
     Early
<1>8. RecoveryInv /\ RejectedInv /\ EndedInv /\ BindingInv /\ ConsentInv /\ PendingInv
  BY DEF RecoveryInv, RejectedInv, EndedInv, BindingInv, ConsentInv, PendingInv
<1> QED BY <1>4, <1>5, <1>6, <1>7, <1>8 DEF IInv

LEMMA StepSafe == IInv /\ [Next]_vars => IInv'
<1> SUFFICES ASSUME IInv, [Next]_vars PROVE IInv'
  OBVIOUS
<1>1. ASSUME NEW t \in Threads, CreateThread(t) PROVE IInv'
  BY <1>1, CreateThreadSafe
<1>2. ASSUME NEW q \in Requests, Reserve(q) PROVE IInv'
  BY <1>2, StartSafe, AcquireThreadLockSafe, CheckThreadSafe, ClaimReadSafe, LinkClaimSafe,
     RecheckRunSafe,
     ProbeClaimSafe, ScanThreadsSafe, RecoverClaimSafe, UnlinkClaimSafe, WriteTurnSafe DEF Reserve
<1>3. ASSUME NEW q \in Requests, Submit(q) PROVE IInv'
  BY <1>3, LockRunToSubmitSafe, SubmitRejectedSafe, SubmitNotAdmittedSafe, SubmitAdmittedSafe,
     SubmitConfirmSafe,
     PersistDecisionSafe, PersistSnapshotSafe, PersistFailsSafe, ExecuteStartSafe, ExecuteEndSafe,
     SubmitThrowsSafe, RecordSubmissionSafe, RecordFailsSafe, RegisterPendingSafe DEF Submit
<1>4. ASSUME NEW u \in Users, Terminate(u) PROVE IInv'
  BY <1>4, AskTerminateSafe, LockToTerminateSafe, CancelConfirmationSafe, CancelRunSafe,
     TerminateTurnSafe
     DEF Terminate
<1>5. ASSUME NEW u \in Users, Decide(u) PROVE IInv'
  BY <1>5, AskDecideSafe, LockToDecideSafe, DecideSingleActionSafe, DecisionRefusedSafe,
     DenyConfirmationSafe, DenyRunSafe, DenyTurnSafe, TakePendingSafe, RecordResumptionSafe,
     ResumptionRefusedSafe, ResumeRunSafe, ResumeStartSafe, ResumeEndSafe, ResumeTurnSafe
     DEF Decide
<1>6. ASSUME NEW u \in Users, UserStepThrows(u) PROVE IInv'
  BY <1>6, UserStepThrowsSafe
<1>7. ASSUME NEW r \in Runs, Expire(r) PROVE IInv'
  BY <1>7, ExpireSafe
<1>8. CASE Crash
  BY <1>8, CrashSafe
<1>9. CASE UNCHANGED vars
  BY <1>9, StutterSafe
<1> QED BY <1>1, <1>2, <1>3, <1>4, <1>5, <1>6, <1>7, <1>8, <1>9 DEF Next

\* The invariant holds of every behaviour.
THEOREM Invariance == Spec => []IInv
BY InitSafe, StepSafe, PTL DEF Spec

---------------------------------------------------------------------------
(* What the runs check, from the invariant.                                *)

LEMMA ExclusiveHolds == IInv => ThreadExclusive
<1> SUFFICES ASSUME IInv, NEW t \in Threads, threads[t] # NoThread, NEW i \in DOMAIN threads[t],
                    NEW j \in DOMAIN threads[t], i < j
             PROVE  ~KeepsLocked(threads[t][i])
  BY DEF ThreadExclusive
<1>1. threads[t][i] \in Turns(t)
  BY DEF Turns
<1>2. Turn[threads[t][i].req] = threads[t][i]
  BY <1>1, TurnIn DEF IInv
<1>3. threads[t][i].req \in Over
  BY DEF IInv, OrderInv
<1> QED BY <1>2, <1>3 DEF Over

LEMMA LinkedOnceHolds == IInv => RunLinkedOnce
<1> SUFFICES ASSUME IInv, NEW q \in Requests, NEW p \in Requests, HasTurn(q), HasTurn(p),
                    RunOf[q] = RunOf[p], RunOf[q] \notin orphaned
             PROVE  q = p
  BY DEF RunLinkedOnce
<1>1. q \in Turned /\ p \in Turned
  BY DEF Turned
<1> QED BY <1>1 DEF IInv, ClaimInv

LEMMA RunIsTurnsHolds == IInv => RunIsTurns
<1> SUFFICES ASSUME IInv, NEW q \in Requests, HasTurn(q), runs[RunOf[q]] # NoRun, RunOf[q] \notin orphaned
             PROVE  creator[RunOf[q]] = q
  BY DEF RunIsTurns
<1>1. q \in Turned /\ RunOf[q] \in Runs
  BY RequestAssumption DEF Turned
<1> QED BY <1>1 DEF IInv, ClaimInv

LEMMA TerminatedHolds == IInv => TerminatedNotExecuting
<1> SUFFICES ASSUME IInv, NEW q \in Requests, HasTurn(q), TurnOf(q).terminated, creator[RunOf[q]] = q
             PROVE  Status(RunOf[q]) \notin {"admitted", "running"}
  BY DEF TerminatedNotExecuting
<1>1. q \in Turned /\ Turn[q].terminated
  BY DEF Turned, Turn
<1> QED BY <1>1 DEF IInv, EndedInv

LEMMA PendingHolds == IInv /\ ~StoreFails => PendingIsWaiting
<1> SUFFICES ASSUME IInv, ~StoreFails, NEW r \in pending, runLock[r] = NoRequest
             PROVE  /\ WaitsForConfirmation(r)
                    /\ confirm[r] = "active" /\ decided[r] = "none"
                    /\ ~TurnOf(creator[r]).terminated
  BY DEF PendingIsWaiting
<1>1. \A u \in Users : pc[u] \in {"terminate_run", "take", "deny_confirm", "deny_run"} => RunAt(u) # r
  <2> SUFFICES ASSUME NEW u \in Users, pc[u] \in {"terminate_run", "take", "deny_confirm", "deny_run"}
               PROVE  RunAt(u) # r
    OBVIOUS
  <2>1. pc[u] \in InRunLock
    BY DEF InRunLock, UserPCs, Asking
  <2> QED BY <2>1, ActorAssumption DEF IInv, RunLockInv
<1>2. Waiting(r)
  BY <1>1 DEF IInv, PendingInv
<1>3. creator[r] \in Turned /\ TurnOf(creator[r]) = Turn[creator[r]]
  <2>1. r \in Runs /\ snapshot[r] # "none"
    BY <1>2 DEF IInv, TypeOK, Waiting, WaitsForConfirmation
  <2>2. creator[r] \in Turned
    BY <2>1 DEF IInv, CreatorInv
  <2> QED BY <2>2, TurnFacts DEF IInv
<1> QED BY <1>2, <1>3 DEF Waiting

\* The thread files, runs, claims, confirmations and handlers of any requests
\* and users keep their types.
THEOREM ThreadsTyped == Spec => []TypeOK
BY Invariance, PTL DEF IInv

\* Whatever requests, terminations, decisions and crashes of a thread
\* interleave, only its last turn can be active, wait or be unknown.
THEOREM ThreadIsExclusive == Spec => []ThreadExclusive
BY Invariance, ExclusiveHolds, PTL

\* However requests are repeated, a thread has one turn per idempotency key
\* and one per run id.
THEOREM OneTurnForAKey == Spec => []OneTurnPerKey
<1>1. IInv => OneTurnPerKey
  BY DEF IInv, ShapeInv
<1> QED BY <1>1, Invariance, PTL

\* Two threads never link one run id, while no recovery has unlinked the claim
\* of a living request.
THEOREM RunIsLinkedOnce == Spec => []RunLinkedOnce
BY Invariance, LinkedOnceHolds, PTL

\* The run that a turn shows was created by the submission of that turn, under
\* the same proviso.
THEOREM RunBelongsToTurn == Spec => []RunIsTurns
BY Invariance, RunIsTurnsHolds, PTL

\* Nothing is executed for a turn that its user was told is terminated.
THEOREM TerminatedIsOver == Spec => []TerminatedNotExecuting
BY Invariance, TerminatedHolds, PTL

\* With stores that answer, a continuation outlives the run lock only for a run
\* that waits on an active, undecided confirmation of a turn still open.
THEOREM PendingWaits == ~StoreFails /\ Spec => []PendingIsWaiting
<1>1. CASE ~StoreFails
  <2>1. IInv => PendingIsWaiting
    BY <1>1, PendingHolds
  <2> QED BY <2>1, Invariance, PTL
<1> QED BY <1>1

---------------------------------------------------------------------------
(* What a step does to the runs and to the turns, whoever takes it.        *)

\* A call of the run record store that continues no waiting run; a run is
\* created by a submission under its own claim.
StoreCall(r) ==
  \/ \E q \in Requests : RunOf[q] = r /\ \E s \in RR!InitialStatuses : CreateRun(q, s)
  \/ \E s \in RunStatuses : RR!updateRunRecord(r, s)
  \/ RR!bindCoreTaskRuntimeSession(r)
  \/ RR!denyRequiresUserActionRun(r)
  \/ RR!cancelRequiresUserActionRun(r)

\* Who writes a run file, and who writes a thread file.
LEMMA RunWriters ==
  ASSUME IInv, [Next]_vars
  PROVE  \/ runs' = runs
         \/ \E u \in Users : ResumeRun(u)
         \/ \E r \in Runs : StoreCall(r)
<1> DEFINE Writes == runs' = runs \/ \E r \in Runs : StoreCall(r)
<1>1. ASSUME NEW q \in Requests, Reserve(q) PROVE runs' = runs
  BY <1>1 DEF Reserve, Start, AcquireThreadLock, CheckThread, ClaimRead, LinkClaim, RecheckRun,
     ProbeClaim,
     ScanThreads, RecoverClaim, UnlinkClaim, WriteTurn, diskRuns
<1>2. ASSUME NEW q \in Requests, Submit(q) PROVE Writes
  <2>1. RunOf[q] \in Runs
    BY RequestAssumption
  <2>2. CASE SubmitNotAdmitted(q) \/ SubmitAdmitted(q) \/ SubmitConfirm(q)
    <3>1. PICK s \in {"failed", "requires_user_action", "admitted"} : CreateRun(q, s)
      BY <2>2 DEF SubmitNotAdmitted, SubmitAdmitted, SubmitConfirm
    <3>2. s \in RR!InitialStatuses
      BY DEF RR!InitialStatuses
    <3> QED BY <2>1, <3>1, <3>2 DEF StoreCall
  <2>3. CASE PersistFails(q)
    <3> DEFINE s == IF runs[RunOf[q]].status = "admitted" THEN "failed" ELSE runs[RunOf[q]].status
    <3>1. RR!updateRunRecord(RunOf[q], s)
      BY <2>3 DEF PersistFails
    <3>2. s \in RunStatuses
      BY <2>1, <3>1, RunTyped DEF IInv, RR!updateRunRecord, RunStatuses, TerminalStatuses
    <3> QED BY <2>1, <3>1, <3>2 DEF StoreCall
  <2>4. CASE ExecuteStart(q)
    BY <2>1, <2>4 DEF ExecuteStart, StartRun, StoreCall, RunStatuses
  <2>5. CASE ExecuteEnd(q)
    BY <2>1, <2>5, OutcomeAssumption DEF ExecuteEnd, SettleRun, StoreCall, RunStatuses
  <2>6. CASE LockRunToSubmit(q) \/ SubmitRejected(q) \/ PersistDecision(q) \/ PersistSnapshot(q)
    BY <2>6 DEF LockRunToSubmit, SubmitRejected, PersistDecision, PersistSnapshot, diskRuns
  <2>7. CASE SubmitThrows(q) \/ RecordSubmission(q) \/ RecordFails(q) \/ RegisterPending(q)
    BY <2>7 DEF SubmitThrows, RecordSubmission, RecordFails, RegisterPending, diskRuns
  <2> QED BY <1>2, <2>2, <2>3, <2>4, <2>5, <2>6, <2>7 DEF Submit
<1>3. ASSUME NEW u \in Users, Terminate(u) PROVE Writes
  <2>1. CASE CancelRun(u)
    <3>1. RunAt(u) \in Runs
      BY <2>1, RequestAssumption DEF IInv, TargetInv, RunAt, CancelRun
    <3> QED BY <2>1, <3>1 DEF CancelRun, StoreCall
  <2>2. CASE AskTerminate(u) \/ LockToTerminate(u) \/ CancelConfirmation(u) \/ TerminateTurn(u)
    BY <2>2 DEF AskTerminate, LockToTerminate, CancelConfirmation, TerminateTurn, diskRuns
  <2> QED BY <1>3, <2>1, <2>2 DEF Terminate
<1>4. ASSUME NEW u \in Users, Decide(u) PROVE Writes \/ ResumeRun(u)
  <2>1. CASE DenyRun(u) \/ ResumeStart(u) \/ ResumeEnd(u)
    <3>1. RunAt(u) \in Runs
      BY <2>1, RequestAssumption DEF IInv, TargetInv, RunAt, DenyRun, ResumeStart, ResumeEnd
    <3> QED BY <2>1, <3>1, OutcomeAssumption
            DEF DenyRun, ResumeStart, ResumeEnd, SettleRun, StoreCall, RunStatuses
  <2>2. CASE \/ AskDecide(u) \/ LockToDecide(u) \/ DecideSingleAction(u) \/ DecisionRefused(u)
             \/ DenyConfirmation(u) \/ DenyTurn(u)
    BY <2>2 DEF AskDecide, LockToDecide, DecideSingleAction, DecisionRefused, DenyConfirmation,
       DenyTurn, diskRuns
  <2>3. CASE TakePending(u) \/ RecordResumption(u) \/ ResumptionRefused(u) \/ ResumeTurn(u)
    BY <2>3 DEF TakePending, RecordResumption, ResumptionRefused, ResumeTurn, diskRuns
  <2> QED BY <1>4, <2>1, <2>2, <2>3 DEF Decide
<1>5. ASSUME NEW t \in Threads, CreateThread(t) PROVE runs' = runs
  BY <1>5 DEF CreateThread, diskRuns
<1>6. ASSUME NEW u \in Users, UserStepThrows(u) PROVE runs' = runs
  BY <1>6 DEF UserStepThrows, diskRuns
<1>7. ASSUME NEW r \in Runs, Expire(r) PROVE runs' = runs
  BY <1>7 DEF Expire, diskRuns
<1>8. CASE Crash
  BY <1>8 DEF Crash, diskRuns
<1>9. CASE UNCHANGED vars
  BY <1>9 DEF vars
<1> QED BY <1>1, <1>2, <1>3, <1>4, <1>5, <1>6, <1>7, <1>8, <1>9 DEF Next

LEMMA ThreadWriters ==
  ASSUME IInv, [Next]_vars
  PROVE  \/ threads' = threads
         \/ \E t \in Threads : CreateThread(t)
         \/ \E q \in Requests : WriteTurn(q) \/ RecordSubmission(q)
         \/ \E u \in Users : TerminateTurn(u) \/ DenyTurn(u) \/ ResumeTurn(u)
<1>1. ASSUME NEW q \in Requests, Reserve(q) PROVE threads' = threads \/ WriteTurn(q)
  BY <1>1 DEF Reserve, Start, AcquireThreadLock, CheckThread, ClaimRead, LinkClaim, RecheckRun,
     ProbeClaim,
     ScanThreads, RecoverClaim, UnlinkClaim
<1>2. ASSUME NEW q \in Requests, Submit(q) PROVE threads' = threads \/ RecordSubmission(q)
  <2>1. CASE SubmitNotAdmitted(q) \/ SubmitAdmitted(q) \/ SubmitConfirm(q)
    BY <2>1 DEF SubmitNotAdmitted, SubmitAdmitted, SubmitConfirm, CreateRun
  <2>2. CASE LockRunToSubmit(q) \/ SubmitRejected(q) \/ PersistDecision(q) \/ PersistSnapshot(q) \/ PersistFails(q)
    BY <2>2 DEF LockRunToSubmit, SubmitRejected, PersistDecision, PersistSnapshot, PersistFails
  <2>3. CASE ExecuteStart(q) \/ ExecuteEnd(q) \/ SubmitThrows(q) \/ RecordFails(q) \/ RegisterPending(q)
    BY <2>3 DEF ExecuteStart, ExecuteEnd, SubmitThrows, RecordFails, RegisterPending
  <2> QED BY <1>2, <2>1, <2>2, <2>3 DEF Submit
<1>3. ASSUME NEW u \in Users, Terminate(u) PROVE threads' = threads \/ TerminateTurn(u)
  BY <1>3 DEF Terminate, AskTerminate, LockToTerminate, CancelConfirmation, CancelRun
<1>4. ASSUME NEW u \in Users, Decide(u) PROVE threads' = threads \/ DenyTurn(u) \/ ResumeTurn(u)
  <2>1. CASE \/ AskDecide(u) \/ LockToDecide(u) \/ DecideSingleAction(u) \/ DecisionRefused(u)
             \/ DenyConfirmation(u) \/ DenyRun(u)
    BY <2>1 DEF AskDecide, LockToDecide, DecideSingleAction, DecisionRefused, DenyConfirmation,
       DenyRun
  <2>2. CASE \/ TakePending(u) \/ RecordResumption(u) \/ ResumptionRefused(u) \/ ResumeRun(u)
             \/ ResumeStart(u) \/ ResumeEnd(u)
    BY <2>2 DEF TakePending, RecordResumption, ResumptionRefused, ResumeRun, ResumeStart, ResumeEnd
  <2> QED BY <1>4, <2>1, <2>2 DEF Decide
<1>5. ASSUME NEW u \in Users, UserStepThrows(u) PROVE threads' = threads
  BY <1>5 DEF UserStepThrows
<1>6. ASSUME NEW r \in Runs, Expire(r) PROVE threads' = threads
  BY <1>6 DEF Expire
<1>7. CASE Crash
  BY <1>7 DEF Crash
<1>8. CASE UNCHANGED vars
  BY <1>8 DEF vars
<1> QED BY <1>1, <1>2, <1>3, <1>4, <1>5, <1>6, <1>7, <1>8 DEF Next

\* No call takes back the outcome of a run.
LEMMA CallAdvances ==
  ASSUME IInv, NEW r \in Runs, StoreCall(r)
  PROVE  \E s \in RunStatuses :
           /\ RunSet(r, s)
           /\ runs[r] # NoRun =>
                \/ Advances(runs[r].status, s)
                \/ runs[r].status = "requires_user_action" /\ s \in {"failed", "cancelled"}
<1>1. CASE \E q \in Requests : RunOf[q] = r /\ \E s \in RR!InitialStatuses : CreateRun(q, s)
  <2>1. PICK s \in RunStatuses : RR!createRunRecord(r, s)
    BY <1>1 DEF CreateRun, RR!InitialStatuses, RunStatuses, TerminalStatuses
  <2> QED BY <2>1, RunCreated DEF IInv
<1>2. CASE \E s \in RunStatuses : RR!updateRunRecord(r, s)
  BY <1>2, RunUpdated DEF IInv
<1>3. CASE RR!bindCoreTaskRuntimeSession(r)
  BY <1>3, RunBound DEF IInv, Advances, RunStatuses
<1>4. ASSUME NEW s \in {"failed", "cancelled"}, RR!EndWaitingRun(r, s)
      PROVE  /\ s \in RunStatuses /\ RunSet(r, s)
             /\ Advances(runs[r].status, s) \/ runs[r].status = "requires_user_action"
  BY <1>4, RunEnded DEF IInv, Advances, RunStatuses, TerminalStatuses
<1> QED BY <1>1, <1>2, <1>3, <1>4
        DEF StoreCall, RR!denyRequiresUserActionRun, RR!cancelRequiresUserActionRun

LEMMA RunsAdvance ==
  ASSUME IInv, [Next]_vars
  PROVE  /\ RunsGrow
         /\ \A r \in Runs : Status(r) = "requires_user_action" /\ Status(r)' = "running" =>
              \E u \in Users : ResumeRun(u) /\ RunAt(u) = r
<1>1. CASE runs' = runs
  BY <1>1 DEF RunsGrow, Status
<1>2. ASSUME NEW u \in Users, ResumeRun(u)
      PROVE  /\ RunsGrow
             /\ \A x \in Runs : Status(x) = "requires_user_action" /\ Status(x)' = "running" =>
                  \E v \in Users : ResumeRun(v) /\ RunAt(v) = x
  <2>1. RunAt(u) \in Runs
    BY <1>2, RequestAssumption DEF IInv, TargetInv, RunAt, ResumeRun
  <2>2. PICK rec \in RunRecord : runs' = [runs EXCEPT ![RunAt(u)] = rec]
    BY <1>2, <2>1, RunContinued DEF IInv, ResumeRun, RunSet
  <2>3. runs[RunAt(u)] # NoRun /\ runs[RunAt(u)].status = "requires_user_action" /\ rec # NoRun
    BY <1>2, <2>1, RunContinued, AbsentAssumption DEF IInv, ResumeRun
  <2> QED BY <1>2, <2>1, <2>2, <2>3 DEF IInv, TypeOK, RunsGrow, SettledStatuses, Status
<1>3. ASSUME NEW r \in Runs, StoreCall(r)
      PROVE  /\ RunsGrow
             /\ \A x \in Runs : Status(x) = "requires_user_action" /\ Status(x)' = "running" =>
                  \E v \in Users : ResumeRun(v) /\ RunAt(v) = x
  <2>1. PICK s \in RunStatuses :
          /\ RunSet(r, s)
          /\ runs[r] # NoRun =>
               \/ Advances(runs[r].status, s)
               \/ runs[r].status = "requires_user_action" /\ s \in {"failed", "cancelled"}
    BY <1>3, CallAdvances
  <2>2. PICK rec \in RunRecord : runs' = [runs EXCEPT ![r] = rec] /\ rec.status = s /\ rec # NoRun
    BY <2>1, AbsentAssumption DEF RunSet
  <2> QED BY <2>1, <2>2 DEF IInv, TypeOK, RunsGrow, SettledStatuses, TerminalStatuses, Status,
             Advances
<1> QED BY <1>1, <1>2, <1>3, RunWriters

\* What a turn keeps, and what has to be the case for it to end.
TurnsAdvanced ==
  /\ Turned \subseteq Turned'
  /\ \A q \in Turned :
       /\ Turn[q].terminated => Turn'[q].terminated
       /\ Turn[q].submission_state = "rejected" => Turn'[q].submission_state = "rejected"
       /\ Turn'[q].terminated /\ ~Turn[q].terminated =>
            /\ turnState(Turn[q]) \in {"cancelled", "status_unknown", "waiting_for_user"}
            /\ \E u \in Users : pc[u] = "terminate_turn" /\ target[u] = q
       /\ Turn'[q].submission_state = "submitting" => Turn[q].submission_state = "submitting"
       /\ Turn'[q].submission_state = "rejected" /\ Turn[q].submission_state # "rejected" =>
            pc[q] = "record" /\ answer[q] = "rejected"

LEMMA TurnsAdvance ==
  ASSUME IInv, [Next]_vars
  PROVE  TurnsAdvanced
<1>1. CASE threads' = threads \/ \E t \in Threads : CreateThread(t)
  <2>1. Turned' = Turned /\ Turn' = Turn
    BY <1>1, TurnsKept DEF IInv
  <2> QED BY <2>1 DEF TurnsAdvanced
<1>2. ASSUME NEW q \in Requests, WriteTurn(q), threads' # threads PROVE TurnsAdvanced
  <2>1. ~Direct(q) /\ q \notin Turned /\ pc[q] = "write"
    BY <1>2 DEF IInv, WriteTurn, SubmitInv, Early, KindInv, ThreadOnly
  <2>2. threads' = [threads EXCEPT ![ThreadOf[q]] = Append(@, NewTurn(q))]
    BY <1>2 DEF WriteTurn, NewTurn
  <2> QED BY <2>1, <2>2, TurnAdded DEF IInv, TurnsAdvanced
<1>3. ASSUME NEW q \in Requests, RecordSubmission(q) PROVE TurnsAdvanced
  <2>1. PICK turn \in TurnRecord :
          /\ TurnSet(q, turn)
          /\ turn.terminated = Turn[q].terminated
          /\ turn.submission_state = IF answer[q] = "rejected" THEN "rejected" ELSE "accepted"
    BY <1>3, SubmissionRecorded
  <2>2. q \in Turned /\ Turn[q].submission_state = "submitting" /\ pc[q] = "record"
    <3>1. q \in Turned
      BY <1>3, SubmissionRecorded
    <3>2. pc[q] = "record"
      BY <1>3 DEF RecordSubmission
    <3>3. ~Direct(q)
      BY <3>2 DEF IInv, KindInv, ThreadOnly
    <3> QED BY <3>1, <3>2, <3>3 DEF IInv, SubmitInv
  <2>3. \A p \in Turned : Turn'[p] = IF p = q THEN turn ELSE Turn[p]
    BY <2>1, TurnFacts DEF IInv, TurnSet
  <2> QED BY <2>1, <2>2, <2>3 DEF TurnSet, TurnsAdvanced
<1>4. ASSUME NEW u \in Users, DenyTurn(u) \/ ResumeTurn(u) PROVE TurnsAdvanced
  <2>1. target[u] \in Turned /\ ContinueTurn(u)
    BY <1>4 DEF IInv, TargetInv, DenyTurn, ResumeTurn
  <2>2. PICK turn \in TurnRecord :
          /\ TurnSet(target[u], turn)
          /\ turn.terminated = Turn[target[u]].terminated
          /\ turn.submission_state = Turn[target[u]].submission_state
    BY <2>1, TurnContinued
  <2>3. \A p \in Turned : Turn'[p] = IF p = target[u] THEN turn ELSE Turn[p]
    BY <2>2, TurnFacts DEF IInv, TurnSet
  <2> QED BY <2>2, <2>3 DEF TurnSet, TurnsAdvanced
<1>5. ASSUME NEW u \in Users, TerminateTurn(u) PROVE TurnsAdvanced
  <2>1. PICK turn \in TurnRecord :
          /\ TurnSet(target[u], turn)
          /\ turn.submission_state = Turn[target[u]].submission_state
          /\ \/ turn.terminated = Turn[target[u]].terminated
             \/ /\ turn.terminated
                /\ turnState(Turn[target[u]]) \in {"cancelled", "status_unknown", "waiting_for_user"}
    BY <1>5, TurnTerminated
  <2>2. \A p \in Turned : Turn'[p] = IF p = target[u] THEN turn ELSE Turn[p]
    BY <2>1, TurnFacts DEF IInv, TurnSet
  <2>3. pc[u] = "terminate_turn"
    BY <1>5 DEF TerminateTurn
  <2> QED BY <2>1, <2>2, <2>3 DEF TurnSet, TurnsAdvanced
<1> QED BY <1>1, <1>2, <1>3, <1>4, <1>5, ThreadWriters

\* A run that appears is that of a submission that holds the claim on its id.
LEMMA RunAppears ==
  ASSUME IInv, [Next]_vars, NEW r \in Runs, runs[r] = NoRun, runs'[r] # NoRun
  PROVE  \E q \in Requests : pc[q] = "submit" /\ RunOf[q] = r /\ claims[r] = q
<1>1. ASSUME NEW x \in Runs, NEW s, runs[x] # NoRun, RunSet(x, s) PROVE FALSE
  BY <1>1 DEF RunSet, IInv, TypeOK
<1>2. ASSUME NEW u \in Users, ResumeRun(u) PROVE FALSE
  <2>1. RunAt(u) \in Runs
    BY <1>2, RequestAssumption DEF IInv, TargetInv, RunAt, ResumeRun
  <2> QED BY <1>1, <1>2, <2>1, RunContinued DEF IInv, ResumeRun
<1>3. PICK x \in Runs : StoreCall(x)
  BY <1>2, RunWriters
<1>4. PICK q \in Requests : RunOf[q] = x /\ \E s \in RR!InitialStatuses : CreateRun(q, s)
  <2>1. ~\E s \in RunStatuses : RR!updateRunRecord(x, s)
    BY <1>1, RunUpdated DEF IInv
  <2>2. ~RR!bindCoreTaskRuntimeSession(x)
    BY <1>1, RunBound DEF IInv
  <2>3. ~RR!denyRequiresUserActionRun(x) /\ ~RR!cancelRequiresUserActionRun(x)
    BY <1>1, RunEnded DEF IInv, RR!denyRequiresUserActionRun, RR!cancelRequiresUserActionRun
  <2> QED BY <1>3, <2>1, <2>2, <2>3 DEF StoreCall
<1>5. PICK s \in RunStatuses : CreateRun(q, s)
  BY <1>4 DEF RR!InitialStatuses, RunStatuses, TerminalStatuses
<1>6. x = r
  BY <1>4, <1>5, RunCreated DEF IInv, TypeOK, CreateRun, RunSet
<1> QED BY <1>4, <1>5, <1>6 DEF CreateRun

\* Only a request that arrives becomes one that the process handles, and a run
\* is marked as orphaned by the step that leaves it without a claim.
LEMMA ServerAdvances ==
  ASSUME IInv, [Next]_vars
  PROVE  /\ \A q \in alive' : q \in alive \/ pc[q] = "new"
         /\ \A r \in Runs : r \in orphaned' => r \in orphaned \/ claims'[r] = NoRequest
<1> DEFINE Same == alive' = alive /\ orphaned' = orphaned
<1>1. ASSUME NEW q \in Requests, Reserve(q), ~Start(q), ~UnlinkClaim(q) PROVE Same
  BY <1>1 DEF Reserve, AcquireThreadLock, CheckThread, ClaimRead, LinkClaim, RecheckRun,
     ProbeClaim, ScanThreads, RecoverClaim, WriteTurn, server
<1>2. ASSUME NEW q \in Requests, UnlinkClaim(q)
      PROVE  alive' = alive /\ \A r \in Runs : r \in orphaned' => r \in orphaned \/ claims'[r] = NoRequest
  <2>1. orphaned' \subseteq orphaned \cup {RunOf[q]} /\ alive' = alive
    BY <1>2 DEF UnlinkClaim
  <2>2. RunOf[q] \in Runs => claims'[RunOf[q]] = NoRequest
    BY <1>2 DEF UnlinkClaim, IInv, TypeOK
  <2> QED BY <2>1, <2>2
<1>3. ASSUME NEW q \in Requests, Start(q) PROVE alive' = alive \cup {q} /\ pc[q] = "new" /\ orphaned' = orphaned
  BY <1>3 DEF Start
<1>4. ASSUME NEW q \in Requests, Submit(q) PROVE Same
  <2>1. CASE SubmitNotAdmitted(q) \/ SubmitAdmitted(q) \/ SubmitConfirm(q)
    BY <2>1 DEF SubmitNotAdmitted, SubmitAdmitted, SubmitConfirm, CreateRun, server
  <2>2. CASE LockRunToSubmit(q) \/ SubmitRejected(q) \/ PersistDecision(q) \/ PersistSnapshot(q) \/ PersistFails(q)
    BY <2>2 DEF LockRunToSubmit, SubmitRejected, PersistDecision, PersistSnapshot, PersistFails, server
  <2>3. CASE ExecuteStart(q) \/ ExecuteEnd(q) \/ SubmitThrows(q) \/ RecordFails(q) \/ RegisterPending(q)
    BY <2>3 DEF ExecuteStart, ExecuteEnd, SubmitThrows, RecordFails, RegisterPending, server
  <2>4. CASE RecordSubmission(q)
    BY <2>4 DEF RecordSubmission, server
  <2> QED BY <1>4, <2>1, <2>2, <2>3, <2>4 DEF Submit
<1>5. ASSUME NEW u \in Users, Terminate(u) PROVE Same
  BY <1>5 DEF Terminate, AskTerminate, LockToTerminate, CancelConfirmation, CancelRun, TerminateTurn, server
<1>6. ASSUME NEW u \in Users, Decide(u) PROVE Same
  <2>1. CASE \/ AskDecide(u) \/ LockToDecide(u) \/ DecideSingleAction(u) \/ DecisionRefused(u)
             \/ DenyConfirmation(u) \/ DenyRun(u) \/ DenyTurn(u)
    BY <2>1 DEF AskDecide, LockToDecide, DecideSingleAction, DecisionRefused, DenyConfirmation,
       DenyRun, DenyTurn, server
  <2>2. CASE \/ TakePending(u) \/ RecordResumption(u) \/ ResumptionRefused(u) \/ ResumeRun(u)
             \/ ResumeStart(u) \/ ResumeEnd(u) \/ ResumeTurn(u)
    BY <2>2 DEF TakePending, RecordResumption, ResumptionRefused, ResumeRun, ResumeStart, ResumeEnd,
       ResumeTurn, server
  <2> QED BY <1>6, <2>1, <2>2 DEF Decide
<1>7. ASSUME NEW t \in Threads, CreateThread(t) PROVE Same
  BY <1>7 DEF CreateThread, server
<1>8. ASSUME NEW u \in Users, UserStepThrows(u) PROVE Same
  BY <1>8 DEF UserStepThrows, server
<1>9. ASSUME NEW r \in Runs, Expire(r) PROVE Same
  BY <1>9 DEF Expire, server
<1>10. CASE Crash
  BY <1>10 DEF Crash
<1>11. CASE UNCHANGED vars
  BY <1>11 DEF vars
<1> QED BY <1>1, <1>2, <1>3, <1>4, <1>5, <1>6, <1>7, <1>8, <1>9, <1>10, <1>11 DEF Next

\* What is shown of a turn, before and after a step.
LEMMA Shown ==
  ASSUME IInv, NEW q \in Requests
  PROVE  /\ StateOf(q) = IF q \in Turned THEN turnState(Turn[q]) ELSE "none"
         /\ q \in Turned => Turn[q].req = q
BY TurnFacts DEF IInv, StateOf

LEMMA ShownNext ==
  ASSUME IInv', NEW q \in Requests
  PROVE  /\ q \in Turned' => StateOf(q)' = turnState(Turn[q])'
         /\ q \in Turned' => Turn'[q].req = q
<1>1. HasTurn(q)' => (TurnOf(q).req = q)'
  BY DEF HasTurn, TurnOf
<1>2. q \in Turned' => HasTurn(q)' /\ Turn'[q] = TurnOf(q)'
  BY DEF Turned, Turn
<1> QED BY <1>1, <1>2 DEF StateOf

\* What a step does to a turn that is over, and to a run that waits.
LEMMA OverStaysStep ==
  ASSUME IInv, IInv', [Next]_vars, NEW q \in Requests,
         StateOf(q) \in {"completed", "failed", "cancelled"}, RunOf[q] \notin orphaned
  PROVE  StateOf(q)' = StateOf(q)
<1>1. /\ q \in Turned /\ q \in Turned' /\ RunOf[q] \in Runs
      /\ StateOf(q) = turnState(Turn[q]) /\ StateOf(q)' = turnState(Turn[q])'
      /\ Turn[q].req = q /\ Turn'[q].req = q
  BY Shown, ShownNext, TurnsAdvance, RequestAssumption DEF TurnsAdvanced
<1>2. CASE Turn'[q].terminated
  <2>1. StateOf(q)' = "cancelled"
    BY <1>1, <1>2 DEF turnState
  <2>2. StateOf(q) = "cancelled"
    <3>1. Turn[q].terminated \/ turnState(Turn[q]) = "cancelled"
      BY <1>1, <1>2, TurnsAdvance DEF TurnsAdvanced
    <3> QED BY <1>1, <3>1 DEF turnState
  <2> QED BY <2>1, <2>2
<1>3. CASE ~Turn'[q].terminated
  <2>1. ~Turn[q].terminated
    BY <1>1, <1>3, TurnsAdvance DEF TurnsAdvanced
  <2>2. CASE Turn[q].submission_state = "rejected"
    <3>1. Turn'[q].submission_state = "rejected"
      BY <1>1, <2>2, TurnsAdvance DEF TurnsAdvanced
    <3> QED BY <1>1, <1>3, <2>1, <2>2, <3>1 DEF turnState
  <2>3. CASE Turn[q].submission_state # "rejected"
    <3>1. runs[RunOf[q]] # NoRun /\ StateOf(q) = mapRunStatus(runs[RunOf[q]].status)
      BY <1>1, <2>1, <2>3 DEF turnState
    <3>2. Turn'[q].submission_state # "rejected"
      BY <1>1, <2>3, <3>1, TurnsAdvance DEF TurnsAdvanced, IInv, RejectedInv
    <3>3. runs[RunOf[q]].status \in SettledStatuses
      BY <1>1, <3>1, RunTyped DEF IInv, mapRunStatus, SettledStatuses, RunStatuses, TerminalStatuses
    <3>4. runs'[RunOf[q]] # NoRun /\ runs'[RunOf[q]].status = runs[RunOf[q]].status
      BY <1>1, <3>1, <3>3, RunsAdvance DEF RunsGrow
    <3> QED BY <1>1, <1>3, <3>1, <3>2, <3>4 DEF turnState
  <2> QED BY <2>2, <2>3
<1> QED BY <1>2, <1>3

LEMMA ConsentStep ==
  ASSUME IInv, [Next]_vars, NEW r \in Runs,
         Status(r) = "requires_user_action", Status(r)' = "running"
  PROVE  /\ decided[r] = "allow"
         /\ confirm[r] \in {"active", "expired"}
         /\ r \notin resumed
         /\ ~TurnOf(creator[r]).terminated
<1>1. PICK u \in Users : ResumeRun(u) /\ RunAt(u) = r
  BY RunsAdvance
<1>2. pc[u] = "resume_run" /\ pc[u] \in Deciding
  BY <1>1 DEF ResumeRun, Deciding, UserPCs, Terminating
<1>3. creator[r] = target[u] /\ target[u] \in Turned
  BY <1>1, <1>2 DEF IInv, TargetInv
<1>4. TurnOf(creator[r]) = Turn[target[u]]
  BY <1>3, TurnFacts DEF IInv
<1> QED BY <1>1, <1>2, <1>4 DEF IInv, ConsentInv

\* What a step does to a turn whose outcome is not known.  Either its run says
\* so, and that is settled; or there is no run and no living submission of the
\* turn, so that nobody creates one, records an answer or revives the claim.
LEMMA UnknownStep ==
  ASSUME IInv, IInv', [Next]_vars, NEW q \in Requests,
         StateOf(q) = "status_unknown", RunOf[q] \notin orphaned
  PROVE  \/ StateOf(q)' = "status_unknown"
         \/ /\ StateOf(q)' = "cancelled"
            /\ \E u \in Users : pc[u] = "terminate_turn" /\ target[u] = q
<1> DEFINE r == RunOf[q]
<1>1. /\ q \in Turned /\ q \in Turned' /\ r \in Runs /\ q # NoRequest
      /\ turnState(Turn[q]) = "status_unknown" /\ StateOf(q)' = turnState(Turn[q])'
      /\ Turn[q].req = q /\ Turn'[q].req = q
  BY Shown, ShownNext, TurnsAdvance, RequestAssumption, ActorAssumption DEF TurnsAdvanced
<1>2. ~Turn[q].terminated /\ Turn[q].submission_state # "rejected"
  BY <1>1 DEF turnState
<1>3. CASE Turn'[q].terminated
  <2>1. StateOf(q)' = "cancelled"
    BY <1>1, <1>3 DEF turnState
  <2> QED BY <1>1, <1>2, <1>3, <2>1, TurnsAdvance DEF TurnsAdvanced
<1>4. CASE ~Turn'[q].terminated /\ runs[r] # NoRun
  <2>1. mapRunStatus(runs[r].status) = "status_unknown"
    BY <1>1, <1>2, <1>4 DEF turnState
  <2>2. runs[r].status \in SettledStatuses
    BY <1>1, <1>4, <2>1, RunTyped DEF IInv, mapRunStatus, SettledStatuses, RunStatuses, TerminalStatuses
  <2>3. runs'[r] # NoRun /\ runs'[r].status = runs[r].status
    BY <1>1, <1>4, <2>2, RunsAdvance DEF RunsGrow
  <2>4. Turn'[q].submission_state # "rejected"
    BY <1>1, <1>2, <1>4, TurnsAdvance DEF TurnsAdvanced, IInv, RejectedInv
  <2> QED BY <1>1, <1>4, <2>1, <2>3, <2>4 DEF turnState
<1>5. CASE ~Turn'[q].terminated /\ runs[r] = NoRun
  <2>1. claims[r] = q
    BY <1>1 DEF IInv, ClaimInv
  <2>2. Turn[q].submission_state = "submitting" => q \notin alive
    BY <1>1, <1>2, <1>5, <2>1 DEF turnState, ClaimAlive
  <2>3. pc[q] \notin {"submit", "record"} \cup Early
    <3>1. ~Direct(q)
      BY <1>1 DEF Turned, HasTurn
    <3> QED BY <1>1, <2>2, <3>1 DEF IInv, SubmitInv, AliveInv
  <2>4. runs'[r] = NoRun
    BY <1>1, <1>5, <2>1, <2>3, RunAppears
  <2>5. Turn'[q].submission_state # "rejected"
    BY <1>1, <1>2, <2>3, TurnsAdvance DEF TurnsAdvanced
  <2>6. ~(Turn'[q].submission_state = "submitting" /\ ClaimAlive(r)')
    <3> SUFFICES ASSUME Turn'[q].submission_state = "submitting", ClaimAlive(r)' PROVE FALSE
      OBVIOUS
    <3>1. q \notin alive'
      BY <1>1, <2>2, <2>3, TurnsAdvance, ServerAdvances DEF TurnsAdvanced, Early
    <3>2. claims'[r] # q /\ claims'[r] # NoRequest
      BY <3>1 DEF ClaimAlive
    <3>3. r \in orphaned'
      BY <1>1, <3>2 DEF IInv, ClaimInv
    <3> QED BY <1>1, <3>2, <3>3, ServerAdvances
  <2> QED BY <1>1, <1>5, <2>4, <2>5, <2>6 DEF turnState
<1> QED BY <1>3, <1>4, <1>5

\* A waiting run goes on only once, after an allowing decision, and no denial,
\* cancellation or termination is overtaken by that.
THEOREM ConsentComesFirst == Spec => ResumedByConsent
<1> DEFINE Consent ==
      \A r \in Runs :
        Status(r) = "requires_user_action" /\ Status(r)' = "running" =>
          /\ decided[r] = "allow"
          /\ confirm[r] \in {"active", "expired"}
          /\ r \notin resumed
          /\ ~TurnOf(creator[r]).terminated
<1>1. IInv /\ [Next]_vars => [Consent]_vars
  BY ConsentStep
<1>2. ResumedByConsent <=> [][Consent]_vars
  BY DEF ResumedByConsent
<1> HIDE DEF Consent
<1> QED BY <1>1, <1>2, Invariance, PTL DEF Spec

\* A turn that is over stays as it ended, whatever is still written to it, to
\* its run or to its claim, while that claim is not unlinked from the living.
THEOREM OverIsFinal == Spec => TurnOverStays
<1> DEFINE Stays ==
      \A q \in Requests :
        StateOf(q) \in {"completed", "failed", "cancelled"} /\ RunOf[q] \notin orphaned =>
          StateOf(q)' = StateOf(q)
<1>1. IInv /\ IInv' /\ [Next]_vars => [Stays]_vars
  BY OverStaysStep
<1>2. TurnOverStays <=> [][Stays]_vars
  BY DEF TurnOverStays
<1> HIDE DEF Stays
<1> QED BY <1>1, <1>2, Invariance, PTL DEF Spec

\* A turn whose outcome is not known stays so, and its thread locked, until its
\* user terminates it, while that claim is not unlinked from the living.
THEOREM UnknownIsTheUsers == Spec => UnknownStaysUntilTerminated
<1> DEFINE Stays ==
      \A q \in Requests :
        StateOf(q) = "status_unknown" /\ RunOf[q] \notin orphaned =>
          \/ StateOf(q)' = "status_unknown"
          \/ /\ StateOf(q)' = "cancelled"
             /\ \E u \in Users : pc[u] = "terminate_turn" /\ target[u] = q
<1>1. IInv /\ IInv' /\ [Next]_vars => [Stays]_vars
  BY UnknownStep
<1>2. UnknownStaysUntilTerminated <=> [][Stays]_vars
  BY DEF UnknownStaysUntilTerminated
<1> HIDE DEF Stays
<1> QED BY <1>1, <1>2, Invariance, PTL DEF Spec
=============================================================================
