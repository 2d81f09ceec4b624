------------------------------ MODULE MCParts ------------------------------
(* Small instances of the components that share no state, checked in one    *)
(* run: part says which of them takes the steps of a behaviour, and the     *)
(* others stay as they begin.                                               *)
EXTENDS AuthorizationJournal, RuntimeSessions, IdentityMutations, ManagedCreation,
        ProfileRecovery, CacheOwnership, ManagedTasks, ProviderExchange, RunRecords, TLC

CONSTANTS
  r1, r2,                     \* runs
  v1, v2,                     \* provider versions
  c1, x1, c2, x2,             \* decisions: two confirmations, two that answer them
  o1, o2, ob, b1, b2, f, pr,  \* opens and provider operations
  s1, s2,                     \* sessions
  i1, i2, i3, cf, d1, d2, rm, ar, im, \* identities and keys
  n1, n2, n3,                 \* creations
  k1, p1, p2, m1, m2, e1, e2, \* a backup, applies, materials and environments
  h1, h2, h3,                 \* runtimes
  t1, sb1, sb2, qy, st, br1, br2, wc, wf, tm \* a managed task and its handlers

\* Two streams, each with a confirmation that a single-action decision answers.
AuthStream == c1 :> "s1" @@ x1 :> "s1" @@ c2 :> "s2" @@ x2 :> "s2"
AuthScope == [d \in Decisions |-> IF d \in {c1, x1} THEN "task" ELSE "environment"]
AuthAction == [d \in Decisions |-> "submit"]
AuthPolicy == [d \in Decisions |-> IF d \in {c1, c2} THEN "ask" ELSE "one"]
AuthConfirm == [d \in Decisions |-> IF d = x1 THEN c1 ELSE IF d = x2 THEN c2 ELSE NoDecision]
AuthLife == [d \in Decisions |-> IF d \in {c1, c2} THEN 2 ELSE 0]

\* b1 and b2 are an input and its retry; pr is a probe of the site.
CallRef == ob :> "a" @@ b1 :> "b" @@ b2 :> "b" @@ pr :> "p" @@ f :> "f"
CallKinds == ob :> {"snapshot", "observe", "list"} @@ b1 :> {"input", "wait"} @@ b2 :> {"input"}
             @@ f :> {"file", "page"} @@ pr :> {"probe"}

\* i1 is registered; cf copies it to i2, im imports i3 onto i1's storage.
MutationOp == cf :> "copy_full" @@ d1 :> "delete" @@ d2 :> "delete" @@ rm :> "remove"
              @@ ar :> "archive" @@ im :> "import"
MutationSource == [k \in Keys |-> CASE k = d2 -> i2 [] k = im -> i3 [] OTHER -> i1]
MutationTarget == [k \in Keys |-> CASE k = cf -> i2 [] OTHER -> MutationSource[k]]
MutationStorage == [i \in Ids |-> IF i = i2 THEN "copied" ELSE "original"]

Creating == n1 :> "create" @@ n2 :> "copy" @@ n3 :> "import"

\* Two submissions, a query, a stop, two calls of the worker, its end and the timer.
TaskRoles == sb1 :> "submit" @@ sb2 :> "submit" @@ qy :> "query" @@ st :> "stop" @@ br1 :> "broker"
             @@ br2 :> "broker" @@ wc :> "complete" @@ wf :> "fail" @@ tm :> "timer"
TheTask == [h \in Handlers |-> t1]
Crews == {{sb1, sb2, br1, wc}, {sb1, br1, br2, wf}, {sb1, qy, br1, wf}, {sb1, st, br1, wc},
          {sb1, st, br1, tm}, {sb1, sb2, st}}

VARIABLE part
partsVars ==
  <<part, authVars, sessionVars, mutationVars, creationVars, recoveryVars, ownerVars, taskVars,
    exchangeVars, vars>>

PartsInit ==
  /\ part \in {"authorization", "profile", "control", "mutations", "creation", "recovery", "ownership",
              "tasks", "exchange", "runs"}
  /\ AuthInit /\ SessionsInit /\ MutationsInit /\ CreationInit /\ RecoveryInit /\ OwnershipInit
  /\ SiteTasksInit
  /\ ExchangeInit /\ Init
  /\ part # "exchange" => marker = NoVersion  \* the other parts need one initial state of
  /\ part # "recovery" => profileDir = m1 /\ environment = e1  \* the exchange and of recovery

\* The sessions in two parts: openers, a mutation and probes compete for the
\* profile; or the calls on the one session compete, with nobody reopening and
\* no lock file of the browser's own.
ProfileNext == SessionsNext /\ (\A c \in Calls \ {pr} : call'[c] = call[c])
ControlNext ==
  /\ SessionsNext /\ open'[o2] = open[o2] /\ mutation' = "none" /\ call'[pr] = call[pr]
  /\ \A s \in Sessions : ~sess'[s].native

\* The runtimes are alike: h1 starts first, then h2; one of them dies or one lease
\* runs out, and after that h3 starts.
OwnersNext ==
  /\ OwnershipNext
  /\ deaths' + lapses' <= 1
  /\ doing'[h2] # "start" => doing[h1] # "start"
  /\ doing'[h3] # "start" => doing[h2] # "start" /\ deaths + lapses = 1

\* SiteTasksNext for the handlers of one crew: those that can still act are in
\* a crew with all that have begun.
Begun == {h \in Handlers : hand[h].next # "start"}
MayAct == UNION {crew \in Crews : Begun \subseteq crew}
TasksNext ==
  \/ \E h \in MayAct : HandlerStep(h)
  \/ \E t \in SiteTasks : TaskStep(t)
  \/ CoreDies

\* A step of the part, and what it leaves alone.
PartsNext ==
  \/ /\ part = "authorization" /\ AuthNext
     /\ UNCHANGED <<part, sessionVars, mutationVars, creationVars, recoveryVars, ownerVars, taskVars, exchangeVars, vars>>
  \/ /\ part = "profile" /\ ProfileNext
     /\ UNCHANGED <<part, authVars, mutationVars, creationVars, recoveryVars, ownerVars, taskVars, exchangeVars, vars>>
  \/ /\ part = "control" /\ ControlNext
     /\ UNCHANGED <<part, authVars, mutationVars, creationVars, recoveryVars, ownerVars, taskVars, exchangeVars, vars>>
  \/ /\ part = "mutations" /\ MutationsNext
     /\ UNCHANGED <<part, authVars, sessionVars, creationVars, recoveryVars, ownerVars, taskVars, exchangeVars, vars>>
  \/ /\ part = "creation" /\ CreationNext
     /\ UNCHANGED <<part, authVars, sessionVars, mutationVars, recoveryVars, ownerVars, taskVars, exchangeVars, vars>>
  \/ /\ part = "recovery" /\ RecoveryNext
     /\ UNCHANGED <<part, authVars, sessionVars, mutationVars, creationVars, ownerVars, taskVars, exchangeVars, vars>>
  \/ /\ part = "ownership" /\ OwnersNext
     /\ UNCHANGED <<part, authVars, sessionVars, mutationVars, creationVars, recoveryVars, taskVars, exchangeVars, vars>>
  \/ /\ part = "tasks" /\ TasksNext
     /\ UNCHANGED <<part, authVars, sessionVars, mutationVars, creationVars, recoveryVars, ownerVars, exchangeVars, vars>>
  \/ /\ part = "exchange" /\ ExchangeNext
     /\ UNCHANGED <<part, authVars, sessionVars, mutationVars, creationVars, recoveryVars, ownerVars, taskVars, vars>>
  \/ /\ part = "runs" /\ Next
     /\ UNCHANGED <<part, authVars, sessionVars, mutationVars, creationVars, recoveryVars, ownerVars, taskVars, exchangeVars>>
PartsSpec == PartsInit /\ [][PartsNext]_partsVars

\* The part that moves keeps the types its modules state.
PartsTyped ==
  /\ part = "authorization" => AuthTypeOK
  /\ part \in {"profile", "control"} => SessionsTypeOK
  /\ part = "mutations" => MutationsTypeOK
  /\ part = "creation" => CreationTypeOK
  /\ part = "recovery" => RecoveryTypeOK
  /\ part = "ownership" => OwnershipTypeOK
  /\ part = "tasks" => SiteTasksTypeOK
  /\ part = "exchange" => ExchangeTypeOK
  /\ part = "runs" => TypeOK
=============================================================================
