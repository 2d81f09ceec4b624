# Formal models of WebEnvoy

TLA+ models of the parts of WebEnvoy in which several actors, files and failures
meet: what they promise, checked with TLC on small instances and, where marked,
proved with TLAPS for every value of the constants. Paths are relative to the
repository (`src/` in `PROJECT.json`). `PROJECT.json` maps every definition to
the lines it models, and lists the hazards each property is for.

    tlc -config threads_retry.cfg MCTaskThreads      # one run
    tlapm FileOwnership_proofs.tla                   # one module's proofs

## 1. The system

WebEnvoy lets an agent do tasks on web sites in browsers that carry a user's
identity. Three programs matter here:

* **Core** (`packages/core`, `packages/api-server`): one HTTP API server process
  that accepts tasks, applies execution policies, keeps threads, runs, decisions
  and managed objects as JSON files, and drives Harbor. Command-line tools and
  other processes of the host open some of the same files.
* **Harbor** (`services/harbor/packages/runtime-api`): the runtime that installs
  browser providers, keeps identity environments and profiles, opens runtime
  sessions and performs page operations.
* **Desktop** (`apps/desktop`): starts and supervises the two, and shows them.

All state is in memory of one of these processes or in files. Durable writes are
a temporary file and a rename; mutual exclusion between processes is a file
created with `link(2)` (Core) or a lease with claim files (Harbor).

### 1.1 Inventory

| Component | State it keeps | Operations | What makes it correct |
| --- | --- | --- | --- |
| File ownership lock (`core/src/file-ownership.ts`) | the lock file, recovery markers beside it | acquire with retry, release, recovery of a dead owner | exclusion; a release or recovery never removes another's file; a dead owner's file is recovered |
| Run record store (`run-record-store.ts`) | one file per run: status, `terminal_at`, failure, bindings; run-id claims; decision references | create, update, bind session, continue, deny, cancel, claim/recover a run id, commit an authorization decision | status only moves along the table; a settled outcome stays; `terminal_at` agrees with the status; one creator per run id |
| Task thread store (`task-thread-store.ts`) | one file per thread: its turns; in memory the slots and the queue of owner-reference checks | create, reserve, record, continue, terminate, list; check an owner reference | one active turn per thread; one turn per key and per run id; a run id in one thread only; a finished turn stays finished |
| Thread and task handlers (`api-server/src/task-thread-api.ts`, `task-api.ts`, `server.ts`) | per-run promise chain, up to 256 pending continuations | submit, terminate, decide, resume, deny | a waiting run resumes once and by consent; nothing executes after a termination; partial failures can be repeated |
| Single-action decisions (`single-action-decision.ts`, `execution-policy-api.ts`) | the decision inside the policy document | decide, replay | first decision wins; a replay has no second effect |
| Submission and task chain (`task-submission.ts`, `runtime-task-chain.ts`, `write-precheck-policy.ts`) | none of its own | admit, start, execute, settle | every path leaves the run in a status somebody can act on |
| Authorization decisions (`authorization-decision-*.ts`) | a journal per stream, prepared/linked/committed | record, link, commit, invalidate, query | a linked decision is committed and the reverse; one active per stream |
| Execution policy configuration (`execution-policy-*.ts`) | a document with a revision | replace, override, decide | compare-and-swap on the revision |
| Managed access and browser (`managed-access.ts`, `managed-browser.ts`) | principals, grants with the profiles created under them, connections; run summaries | grant, revoke, check; create, copy, import and query a profile | no access through what was revoked; the quota bounds what Harbor made, whatever answers were lost |
| Managed tasks and sites (`managed-task.ts`, `managed-site-*.ts`) | tickets of workers, runs and their summaries | submit, call, complete, stop, query | a stopped or orphaned run reports what its calls did |
| Skill library, definitions, targets (`skill-library.ts`, ...) | one document each | read, check, replace | serialised replacement (the lock) |
| Admission, queries, projections | none | pure functions | tables |
| Provider exchange (`harbor/.../managed-provider-exchange.ts`) | provider directories, staging, backup, marker, journal | publish, commit, roll back, recover | the provider in use survives; recovery always possible; nothing half-removed without a journal |
| Provider lifecycle (`managed-provider-lifecycle.ts`) | current operation, blocked flag | start, cancel, recheck, close | operations serialised; no work on an unresolved exchange |
| Provider cache ownership (`managed-provider-cache-ownership.ts`) | claim files with their modification times, one fence file | claim, give way, fence, assert, renew, reclaim, release | one runtime changes the cache; a dead owner's claim is reclaimed |
| Runtime sessions, viewer control (`runtime-session.ts`, `viewer-control.ts`) | sessions, drivers, locks, control generation | open, reuse, close, act, hand over control | one owner per profile; stale control is fenced |
| Identity environments (`identity-environment-*.ts`) | environments, receipts, repairs, staged copies and quarantines | provisional record, copy or delete, finish, repair | a retried mutation applies once; what is reported deleted is gone |
| Profiles (`profile-*.ts`) | profile directories, backups, recovery plans | back up, plan, apply, undo; import bookmarks | a restoration that fails anywhere leaves the owner's material; nothing starts on half of one |
| Launchers, drivers, page operations, HTTP servers | processes, pages | I/O | the browser's |
| Desktop supervisor, agent entry, renderer | child processes | start, stop, restart | one service of a kind |
| Schemas, conformance | data | - | - |

### 1.2 How they interact, and what is hard

A `POST` of a turn takes the thread's file lock, claims the run id, writes the
turn, releases the lock, and only then submits: submission creates the run
record, asks policies, perhaps waits for a confirmation, drives Harbor and
settles the run; last, the handler records the answer in the turn. A turn does not
store its status: it is computed from the turn, the run's file and whether the
run-id claim has a living owner. A run that waits for a confirmation can be
allowed, denied or terminated by other requests, each of which writes three or
four files one after another under a lock that lives in the server's memory. The
process may die between any two of these writes, and a retry of the same request
may come at any time.

Hard, then, are: interleavings of handlers at their awaits; checks made outside
the lock; several files written by one handler; recovery of what dead processes
left; retries with the same key; expiry racing a decision; and, in Harbor, the
replacement of a directory tree that takes seven durable steps. The list with
lines is `hazards` in `PROJECT.json`.

## 2. Modules

| Module | Models | State | Actions |
| --- | --- | --- | --- |
| `OwnershipLock` | abstract specification: what users of the file lock rely on | who is inside, whether a lock was orphaned | `Acquire`, `Release`, `Die` |
| `FileOwnership` | `file-ownership.ts`, one lock path | lock file, markers, scan and recovery state per caller | one per file-system call; `Crash`, `GiveUp` |
| `RunLifecycle` | status sets, transition table, `mapRunStatus` | none | none |
| `RunRecords` | abstract specification and model of the run record store: one step per call | `runs` | `createRunRecord`, `updateRunRecord`, both bindings, continue, deny, cancel |
| `TaskThreads` | thread store, run-id claims, handlers of turns, terminations and decisions; composes `RunRecords` (its run steps ARE that module's actions, by `INSTANCE`) | thread, run, claim, confirmation files; locks and pending continuations of the process; a program counter per request and user | `Reserve`, `Submit`, `Terminate`, `Decide` and their steps; `Expire`, `Crash`, `UserStepThrows` |
| `OwnerRefChecks` | the bounded checks of owner references in the thread store | the checks, the queue, the slots in use | acquire, grant, ask, answer, time out, release |
| `AuthorizationJournal` | authorization decisions and their link into a run | journals, links, the recording that holds the lock, a clock | record (prepare, link, commit), decide a single action, invalidate; time, failing writes, crashes |
| `ManagedCreation` | profile creation under a grant: Core handlers, the network, Harbor's receipts | run and import status, quota, requests and answers, receipts, sessions | submit and query, one action per await; answers lost, handlers killed, grant revoked |
| `ManagedTasks` | `managed-task.ts`: submission, worker tickets, broker, stop, query, recovery | run records, locks, tickets in memory, deadlines, a handler's step with the record it has read | one per read or write of a record; time-outs, failing writes, deaths of the Core |
| `ProviderExchange` | `managed-provider-exchange.ts` and the lifecycle that drives it | cache directory, journal, the runtime's next step | one per durable change; `Cancel`, `StepFails`, `Crash`, `Recheck`, `Restart` |
| `CacheOwnership` | `managed-provider-cache-ownership.ts` | claims and their leases, the fence, where each runtime is | one per look at or change of a file; deaths, lapses of a lease |
| `RuntimeSessions` | sessions of one identity and profile, viewer control, provider calls | sessions, ownership lock, browsers, opens, calls, receipts | open, reuse, replace, launch, close, lock, release, hand off, call, probe; mutations of the profile |
| `IdentityMutations` | identity records, mutation receipts, profile directories | records, receipts, repairs, directories, residue, the running mutation | create, import, edit, copy, archive, remove, delete, one action per durable write; failing writes, crashes |
| `ProfileRecovery` | `profile-recovery.ts` with the check at launch | profile, environment, statuses, backups, plans, staged trees, the running task | back up, plan, apply, undo, one action per durable change; launch, configure; failing steps, crashes |
| `FileOwnership_proofs`, `TaskThreads_proofs`, `ManagedCreation_proofs`, `ProviderExchange_proofs` | theorems about the module in their name | | |
| `Runs_proofs` | theorems about `RunRecords` and `ManagedTasks` | | |
| `CoreStores_proofs` | theorems about `AuthorizationJournal` and `OwnerRefChecks` | | |
| `Sessions_proofs` | theorems about `CacheOwnership` and `RuntimeSessions` | | |
| `Profiles_proofs` | theorems about `ProfileRecovery` and `IdentityMutations` | | |
| `MCParts` | small instances of the components that share no state, checked in one run: `part` says which takes the steps of a behaviour | | |
| `MCFileOwnership`, `MCRunRecords`, `MCTaskThreads`, `MCThreadsLiveness`, `MCProviderExchange` | instances for TLC | | |

A definition whose comment starts with "Slip:" is not part of a specification: it
is the definition below it with a plausible mistake, and `PROJECT.json` names the
property that catches it.

### 2.1 How the models stand to the code

**FileOwnership.** A step is one file-system call, the place where another
caller may run. A token is the caller that wrote it; a caller that is running
again has a new token in the code, and the caller is sequential, so the two are
not confused. Callers of one process die together. `scan1`/`scan2` are
`hasLiveRecovery` before and after the link. `return releaseFileOwnership(...)`
inside `try/finally` (line 151) is not awaited, so in the model the marker is
removed by `Unmark` while the unlink is still to come. A caller that starves
may time out in `GiveUp`. `Fairness` is weak fairness of each call that was made:
Node resumes it when its system call or its 10 ms wait ends. Nobody is obliged to call.

**RunRecords.** An operation reads, checks and renames one file inside the run's
lock, so it is one step. A record is reduced to its status, whether it has a
`terminal_at`, whether its failure is the one a denial or cancellation left, and
whether a session is bound. Callers are free: any update a caller could ask for.

**TaskThreads.** A step is what a handler does between two awaits whose order
matters to others. Reading and replacing a thread file under its lock is one step
that needs the lock free; `reserveTaskTurn` is spelled out (lock, check, claim,
link, recheck, probe, scan, recover, unlink, write), because it works on other
files while it holds the lock. The lock of a thread is taken to exclude: after a
process has died owning it that is not certain (section 4, `lock_exclusion`).
The run-id claim is the opposite: its recovery is modelled with the
unlink by path of `recoverDeadFileOwnership`. The work Harbor does is the choice
of an outcome from `Outcomes`. `Crash` ends the server process and all its
handlers, in-memory locks and continuations; files stay, and claims have dead
owners. One API server process uses these stores (`api-server/src/index.ts`).
Fairness is weak for the steps of a handler, for its calls return or time out, and
strong for getting the per-run lock, which is a promise chain, that is, a queue.

**ProviderExchange.** A step is one durable change of the cache directory:
renames and replaced files are atomic, the removal of a tree is not (`Partial`).
A provider directory is represented by the operation that unpacked it, so that
losing the old build and installing a new one of the same version are told apart.
`exchange` is the journal object in memory, whose phase is ahead of the file's
between a rename and the write that follows it. `StepFails` is an error thrown by
any step; the operation's `catch` and `finally` are what follows. The loss of
the cache's lease stops every later change of that runtime, so it is a `Crash`;
that one runtime at a time makes changes is what `CacheOwnership` is about.

**AuthorizationJournal.** A task's decision is written three times (prepared in
the stream's journal, linked into the run, committed in the journal), an
environment's twice; each write is a step that may fail, and the process may die
after it. Every caller holds the single-action lock, so one recording runs at a
time; the entry a recording has in memory carries the time of its evaluation
(`made`), which is not the time it began. Whether a decision is in force is
computed from the journal and the clock, as the code does.

**OwnerRefChecks.** A check whose caller's deadline passed while the owner was asked
keeps its slot until the owner answers (`detached`). A waiter is granted a slot
by the release that removes it from the queue, and may find its deadline passed
before it resumes. `ChecksFairness` asks that timers fire and awaits resume; the
owner is under no obligation.

**RuntimeSessions.** An action is what runs between two awaits of
`RuntimeSessionStore` and of its callers in `index.ts`. An open reads the session
it replaces, awaits its close, takes the ownership lock, awaits the launch and
publishes the session, each a step; a call to the provider is admitted under a
control generation, runs, and has its result applied after the same checks the
code repeats. `tenure` and `dispatches` are history, not state of the code.

**IdentityMutations.** The store's file lock makes mutations one at a time
(`job`), each starting from the file. A step is one durable write: the
provisional record, the staged copy, its publication, the quarantine, its
removal, the final record. A failing write runs the code's compensation, a crash
does not; a retry under the same key meets the receipt and the residue.

**ManagedCreation.** A step of a handler is what it does between two awaits, while
it holds the grant's file lock. A request to Harbor and its answer are two
steps; the answer may be lost (`post`) although Harbor made the profile (`made`).
The transition table and `terminal` statuses are `RunLifecycle`'s. A handler that
is killed leaves its run as it stands, and a query finds it. Harbor's records
are taken as well formed: the handler of an import fails its run on a created
profile whose record it cannot read (managed-browser.ts:898-899, 955), a profile
that is then made and not counted, and the model has no such branch.

**ManagedTasks.** A handler carries the record it has read (`seen`) until it writes,
because the code writes whole summaries: what was written between is lost. The
store's own rules are `RunLifecycle`'s table. `place` of a ticket says whether it is in
`activeTickets` and whether a worker has been given it. The call of the worker, to
Harbor or to a public page, is a step of its own between the write of
`dispatch_state` and the answer. The checks of a ticket and the read that follows
them are one step. `calls` and `interrupted` are history. Keys that are used
for two runs, and the redirects of a public read, are left out.

**ProfileRecovery.** A step is one durable change of a backup, an apply or its
undoing: the staged tree, the copy set aside, the rename into place, the
environment in the identity's record, the status. `whole` is history: which
material and environment belong together. Each write is taken to be atomic. Not
covered by that: an error thrown after the environment reached the disk would
answer `rejected` with a mixed pair. Two things the model shows and accepts, as the code
and `docs/specs/installed-profile-recovery-v1.md` do: after a crash the status stays
`running` and blocks launches for good, and so does a staging tree that could not
be removed, although its status is `rejected`.

**CacheOwnership.** A step is one look at or one change of a file, since other
runtimes run between. A runtime acquires the cache once; its next acquisition has
a new token and is another member of `Runtimes`. A lease may run out while its
owner lives (`lapses`: the host slept, the event loop was blocked). Owners of the
legacy format, the bound on the number of claims, and the reuse of a process id
are left out. A fence created and not written (a crash or a failed write between)
blocks the cache for good, in the model as in the code.

## 3. What the runs check

| Run | Instance | Question | States |
| --- | --- | --- | --- |
| `lock_shared` | 4 callers in 3 processes (two share one), 2 deaths, timeouts | exclusion until a lock is orphaned; a living caller leaves its file only at a torn marker; the holder keeps its file; refinement of `OwnershipLock`; a dead owner's file is recovered | 113 459 |
| `lock_exclusion` | 3 processes, deaths | finding: see section 4 | - |
| `runs_terminal` | 2 runs | finding: see section 4 | - |
| `threads_retry` | a write precheck, a retry with its key and another run id, a third request with that run id, one user, one crash | one active turn per thread; one turn per key and run id | 391 439 |
| `threads_confirm` | a write precheck and a follower, two users | consent, termination, continuations | 173 221 |
| `threads_failures` | two threads and a direct submission asking for one run id, stores that throw anywhere, one crash | run ids linked once, a run is its turn's own, finished turns stay, unknown ones are for the user to end (until a recovery unlinks a living claim) | 366 784 |
| `threads_liveness` | three requests (one direct) and a user, no failures; or three owner-reference checks on one slot | every turn gets past the active states; every check returns; slots are accounted for | 47 299 |
| `threads_interrupted` | stores that throw | finding: see section 4 | - |
| `parts` | nine components that share no state, one of them running in each behaviour | below | 523 178 |
| `provider_lost` | the exchange | finding: see section 4 | - |
| `sessions_intent` | the sessions | finding: see section 4 | - |
| `creation_import` | the creations | finding: see section 4 | - |

The parts of `parts`, in one initial state each (the exchange and the recovery in
several):

| Part | Instance | States |
| --- | --- | --- |
| `authorization` | two streams, each with a confirmation that expires and a single-action decision that answers it | 23 000 |
| `profile` | two opens, two sessions, a mutation of the profile, a probe | 74 000 |
| `control` | one open; an observation, an input and its retry, a file or page operation; a core and the user; no lock file of the browser's own | 65 000 |
| `mutations` | a full copy, two deletes, a removal, an archive, an import onto the copied identity's storage | 46 000 |
| `creation` | a create, a copy and an import under a quota of two | 61 000 |
| `recovery` | a backup, two applies, two materials, two environments | 55 000 |
| `ownership` | three runtimes, the third starting after a death or a lapse of another | 110 000 |
| `tasks` | one run with or without a script; groups of up to four of: a submission and its retry, a query, a stop, two calls, an end, a failure, the timer; one death | 55 000 |
| `exchange` | 2 versions, 2 operations, 3 interruptions, starting with or without an installed provider | 32 097 |
| `runs` | 2 runs | 576 |

`CHECK_DEADLOCK FALSE` everywhere: each instance has a bounded number of
requests, operations or crashes and really ends.

### 3.1 The properties

*Lock.* `ExclusionUntilOrphaned` and `HolderKeepsFile` hold as long as no process
has died with its token in the lock file; deaths elsewhere in the protocol are
harmless. `LeakNeedsTornMarker` is about the error path: a marker that is created
and not yet written makes the scan after the link throw, and the caller's own
lock file stays (file-ownership.ts:113) until its process ends. That is the only
way a living caller leaves it, and it takes a death: nobody makes a marker before
he has read a dead owner's token. `DeadFileRecovered`
excuses a recoverer that died between creating and filling its marker: such a
marker is never removed and every scan throws on it (file-ownership.ts:34-41,
147), so the path is blocked for good.

*Runs.* `TerminalAtSound` relates two fields that five different functions write;
`SettledStays` is about all their sequences.

*Threads.* `ThreadExclusive`, `OneTurnPerKey`, `RunLinkedOnce`, `RunIsTurns`
relate turns to each other, to claims and to runs. The last two and
`TurnOverStays` make one exception: a run id whose claim a recovery has unlinked
from a living request, which the history variable `orphaned` keeps (finding 1 is
how that comes about). Without it two threads can link one run. `TurnOverStays` is a
property of the computed status: it fails if any of the files it comes from is
changed in the wrong order. `UnknownStaysUntilTerminated` is about the same
status when nobody knows the outcome: the request died between its claim, its
turn and its run, or the run says so. No late handler, no retry of the run id (a
direct submission recovers dead claims as well), no failing store and no
restart may settle such a turn or go on in its name; it and its thread wait for
a termination. It makes the same exception. `ResumedByConsent`, `TerminatedNotExecuting`,
`PendingIsWaiting` are what the per-run lock is for. `TurnsEnd` needs every path
through the handlers to release what it holds.

*Checks.* `SlotsAccounted`: the counter is the number of checks that hold a slot, with
waiters that time out while a slot is handed to them and callers that gave up
while the owner was asked; and nobody queues while a slot is free.
`EveryCheckReturns`: to its caller, also when owners never answer.

*Authorization.* `SingleActionOnce`: an action gets one answer, in whatever stream
its retry is recorded and wherever the first recording stopped.
`ActiveDecisionsAgree`: the decisions in force in a stream are about one action under one
policy, with expiry decided by a clock that moves between the writes.

*Sessions.* `ProfileExclusive`: browsers, launches and mutations of one profile
exclude each other over all the awaits of opens that replace each other.
`InputsFenced` and `ResultsFenced` are action properties: an input reaches the
provider, and a result the session, only under the control it was admitted under.

*Mutations.* `RepairsPaired`: what a failed copy or delete leaves on disk is known
to a repair and a receipt that belong together. `DeletedIsGone`: a delete that reported
success leaves no directory, residue or record that a later mutation brings back.

*Creation.* `NothingUncounted`: a profile that was or may be made is counted, blocks
its grant, or was taken over by the owner. `QuotaBoundsCreation`: Harbor never makes more than
the quota, although it knows of none. `SuccessIsWhole`: a run that reports success
made and counted its profile and merged its bookmarks.

*Tasks.* `CallsAccounted`: a run makes its call once, a success has made it, and a run
that a restart settles as failed made none, although the ticket that knew is gone
and queries, retries and stops settle it from what they read.

*Recovery.* `MaterialKept`: whatever step fails or is the last before a crash, the
owner's material is in place or set aside. `LaunchedWhole`: no session starts on a
profile and an environment that do not belong together.

*Ownership.* `OwnersFenced`: with one lapse at most, no runtime that was superseded
passes an assertion again, and without a lapse there is one owner at a time. Both
bounds are real. With one lapse, two changes may overlap once: a stale claim is
moved aside while its owner, which lives, is past its assertion. With two lapses
and five runtimes a superseded owner could pass again.

*Exchange.* `InstallSurvives`: one cancellation, failure or crash at any step is
survived, and any number once the rollback or commit is journaled. `SettledSound`:
and then the marker leads to it; and a backup or half-removed
version without a journal would stay for ever, as nothing scavenges them.
`RecoveryNotStuck`: the two "missing both" errors cannot be thrown.
`StartsSettled`: also for a runtime that found the cache busy when it started.

### 3.2 Bounds, and why they are enough

* Three contenders are what the recovery of a lock needs to go wrong (a dead
  owner, a recoverer, a newcomer); the fourth gives two callers of one process.
  Two deaths allow a recoverer to die as well.
* Threads: the retry asks for another run id, since with the same one the run-id
  claim stops a second turn even where the idempotency check fails. A retry and a
  follower are the two ways a second request can matter to the first; a third
  request adds a second kind of competitor. Two users are enough for a decision to
  race a decision or a termination. One crash separates
  every pair of writes; a second one only meets states the first can leave.
  `Outcomes` takes two representatives in each run: one settled and one that keeps
  the thread locked (`unknown_outcome`) or waits again (`requires_user_action`).
* Exchange: two operations let the second meet what the first left, over the same
  and another version; three interruptions are an operation's, its rollback's and
  its recovery's.
* Checks: one slot and three checks give a holder, a waiter to hand over to and one
  behind it; more slots only make waiting rarer (the theorem is for any number).
* Authorization: a confirmation and its answer in each of two streams, so that
  an answer can be repeated in its own and in the other; a clock of three values is
  before, at and after the expiry.
* Sessions: two opens and two sessions are what a replacement needs. The profile's
  part leaves out calls but the probe, and the control's part lets one open run,
  since a second open and a call meet only in the close of a session, which both
  parts have, and no browser with a lock file of its own, which matters to opens and
  mutations only. `MaxGen` bounds the changes of control: three are a handoff, its
  return and one more.
* Mutations: every operation once, a delete twice (one on the copy), as a retry is a
  second run under the same key and needs no second key.
* Creation: one run of every kind under a quota of two, so that the third must be
  refused or blocked. Recovery: two applies, for the second to meet what the first left.
* Tasks: one run, since handlers of two runs share nothing but the uniqueness of keys. Of nine
  handlers those take part that can matter to each other; all nine together give
  more states than a run can hold.
* Ownership: three runtimes are an owner, one that reclaims it and a newcomer; the
  run starts them in order because they are alike, the newcomer after the owner died
  or its lease ran out. One death or one lapse: the proof covers any number of deaths.

## 4. Findings

Each is a run that TLC finds violated.

1. `lock_exclusion` / `MutualExclusion`. After a process died owning a lock file,
   two recoverers and a newcomer: a recoverer compares the owner and then unlinks
   by path, and its marker is gone before the unlink happens (line 151), so it can
   remove the newcomer's fresh file. The same cause lets a run id be linked in
   two threads when a direct submission dies holding the claim.
2. `runs_terminal` / `TerminalIsFinal`. ADR 0003 counts `requires_user_action` among
   the terminal states and ADR 0005 says a terminal state is never overwritten;
   the store continues, denies and cancels such runs.
3. `threads_interrupted` / `InterruptedIsTerminable`. An interrupted submission
   answers "inspect the run status or terminate"; the run is still active then, a
   termination is refused, and nothing settles the run.
4. `provider_lost` / `InstallNeverLost`. Two interruptions lose the only installed
   provider: a repair fails (or is cancelled) while the journal says `prepared`,
   and the rollback cannot write its journal entry. `finally` removes the staging
   directory, and recovery takes "prepared, target there, no staging" for a
   published build and removes it. (Also: a recovery that restored the backup and is
   interrupted before the journal goes is followed by one that removes what was
   restored, unless a rollback was journaled.)
5. `sessions_intent` / `IntentCanBeRetried`. A handoff asked for while an operation
   runs leaves an intent (`runtime-session.ts:953`), to be retried when the
   operation has settled. If the core releases control first, nothing clears the
   intent: the handoff is refused because control is not the core's, and
   `acquireControl` refuses everybody because of the intent, until the session is stopped.
6. `creation_import` / `ImportReconciles`. An import whose answer was lost is
   `unknown_outcome`. The query that finds Harbor's completed receipt and the session
   stopped tries to complete the run, which the transition table does not allow; the
   error is swallowed (`managed-browser.ts:2032`), and the import stays unknown.

## 5. What is proved

For any constants satisfying the modules' `ASSUME`s; every theorem is checked by
`tlapm` to the last leaf.

**FileOwnership_proofs** (any number of callers, processes, deaths). The
exclusion property is not inductive: it says nothing about callers on their way
to the lock. `IInv` adds `RecoveryInv` (whoever is past the check of the owner has
seen a dead one; a living caller's marker exists only while it recovers),
`OrphanInv` (a dead token in the file means the lock was orphaned, and only then
does a recovery get past its second look) and `OwnerInv` (without an orphan the
file names every caller whose link succeeded). From it: `TypeCorrect`,
`Exclusion`, `LeaksOnlyThere`, `KeepsFile`, and `Refinement`
(FileOwnership implements OwnershipLock). Assumed: `ProcOf` maps callers to
processes, `NoFile` is not a caller.

**TaskThreads_proofs** (any requests, keys, threads, runs and users, any number of
crashes, stores that may fail). The properties speak of finished writes; what
makes them true is what each handler may rely on between two of its writes. `IInv` says it,
place by place, in 18 named parts beside the types:

* who is where and holds what: `PlaceInv`, `KindInv`, `AliveInv`, `ThreadLockInv`,
  `RunLockInv`;
* what a reservation has found: `FreeInv` (past the checks inside the thread's
  lock, every other turn of the thread is over and has another key and run id),
  hence `OrderInv` (only the last turn of a thread may not be over) and `ShapeInv`;
* whose a run is: `ClaimInv` (a turn and a run have their claim, until a recovery
  unlinks it from the living), `CreatorInv`, `SubmitInv`, `RecoveryInv` (the owner that a recovery
  has judged dead has no turn and no run), `RejectedInv`;
* what a user in the run lock may rely on: `TargetInv`, `EndedInv` (of a terminated turn
  no submission goes on, and its run neither runs nor waits), `BindingInv`,
  `ConsentInv`, `PendingInv`.

One lemma per action (47, and the stutter) shows that it keeps all parts. They share the lemmas about
the turns of a thread file (`Found`, `TurnAppended`, `TurnWritten`), about the calls
of the run store (`RunCreated` to `RunEnded`) and `OverStays`: if turns and
runs only advance, what is over stays over. From `IInv`: `ThreadsTyped`,
`ThreadIsExclusive`, `OneTurnForAKey`, `RunIsLinkedOnce`, `RunBelongsToTurn`,
`TerminatedIsOver`, and `PendingWaits`, which assumes `~StoreFails`: a handler that a
store makes throw leaves the run lock half-way, with its continuation.
The action properties follow from lemmas on what any step may do: to a run
(`RunsAdvance`), to a turn (`TurnsAdvance`), to the requests handled and the
unlinked claims (`ServerAdvances`). They give `ConsentComesFirst`, `OverIsFinal`
and `UnknownIsTheUsers`. For the last, `RunAppears` adds who can create a run: a
living submission that holds the claim; of an unknown turn without a run,
`ClaimInv` says that the claim is its own, so that could only be its own
submission, and that is dead or has recorded its answer. Assumed: requests are
of threads, keys, runs and kinds; requests and users are different; an outcome
is a terminal status; the values that stand for a missing file are no
records. No finiteness is assumed.

**Runs_proofs**, of `RunRecords` (any set of runs). `IInv` is the type and
`TerminalAtSound`. `Transitions` states what the table guarantees, `OneRecord`
that a call that replaces one sound record by another keeps all; each call is then one
lemma. `RecordsTyped`, `TerminalAtAgrees`, `SettledIsFinal`.
Of `ManagedTasks` (any tasks and handlers, any number of deaths): that a run makes one call
cannot be read off its record, which several handlers write from what they read earlier.
`TasksInv` ties them together: `FileInv` (what a handler has read of a record
against what it says now), `AloneInv` (one submission sets a run up, one operation calls
for it), `CallInv` (where the one call is), `DispatchInv` (the record says
that a call is made before it is) and `LeftInv` (who settles a run that a death
left unsettled has read that its call was made). `SiteTasksTypes`, `CallsAreAccounted`.

**ProviderExchange_proofs** (any versions and bounds). That recovery is never
stuck depends on how the journal on disk stands to the one in memory at every
step (`ExchangeInv`), on what must exist at each step (`ContentInv`: a committed
journal has its target, a rollback that is to restore has target or backup), and
on no exchange beginning on top of another (`StartInv`). `JournalReadable`: every
journal written satisfies the check of `readJournal`. `RecoveryHasAWay`,
`StartIsSettled`. What survives needs more: `SafeInv` says how often an operation
must have been interrupted to be where it is (`HitsInv`), and for the disk and the journal
of each phase what is where (`WorkInv`, `OpenInv`, `UndoInv`, `DiskInv`,
`CommitInv`, `NoneInv`); a second interruption is what finding 4 needs.
`ExchangeSafety`, `ProviderSurvives`, `SettledIsSound`.

**ManagedCreation_proofs** (any runs, any quota). The quota counts profiles when
Core learns of them, so it bounds what Harbor makes only because a run of unknown
outcome blocks its grant. `IInv` therefore places the handler that holds the lock
against its run's record at every await, ties requests and receipts to the
status, and says that at most one run past its authorization is pending.
`ProfilesAreCounted`, `QuotaHolds`, `SuccessHolds`.

**Profiles_proofs**, of `ProfileRecovery` (any backups, applies, materials). `RecoveryInv` says at every step
of a switch, and of its undoing, where what was found is now; and that an apply
that stopped half-way leaves an unfinished status for good, or no profile beside
its staging tree, which is what a launch looks at. `MaterialIsKept`, `LaunchesAreWhole`.
Of `IdentityMutations` (any keys and identities): `MutInv` is `RepairsPaired` with
`JobInv` (before its first write a mutation has nothing in repair, afterwards its
own key; a delete that gets on has removed what it is to remove),
`EntryInv` (a repair is of a copy or delete of its identity) and `UnusedInv`
(until a copy has a receipt there is nothing under its target).
`OwnerRefAssumption`: the identity a key makes is registered nowhere yet, is made by no
other key, and for a copy differs from its source, which the hash in `ownerRef` gives
(`identity-environment-mutations.ts:562-565`); every other mutation targets its source. `RepairsArePaired`,
`DeletedIsDeleted`.

**Sessions_proofs**, of `CacheOwnership` (any runtimes and deaths). `OneOwnerHolds`: as long as no living owner's
lease has run out, one runtime at most owns the cache. The argument is that of
mutual exclusion by two flags: a runtime publishes its claim before it reads the others'
(`ContendInv`: of two that got past their reading, one saw the other), so that a
claim is removed only if its owner is dead (`LeaseInv`, `StaleInv`, `ClaimInv`). The other half
of `OwnersFenced`, with one lapse, is model-checked.
Of `RuntimeSessions` (any sessions; finite sets of opens and calls, as
they are counted): `LockInv` (who may start a browser or write
the profile has its lock, and so does the session of a browser), `LiveInv`,
`BusyInv` (the counter of a session is the number of opens and calls at work on
it), `CloseInv`, `WorkInv`; for the control `HoldInv` and `SnapInv` (while the generation is the one
a call, or an observation, was admitted under, control is in the same hands) and
`SentInv` (what was dispatched once cannot be again: something it is checked for has
changed, or the answer will change it). Assumed as well: inputs and
file operations have different refs, as they have different receipt maps
(`runtime-session.ts:322-323`, 1062, 1143). `ProfileIsExclusive`, `InputsAreFenced`, `ResultsAreFenced`.

**CoreStores_proofs**, of `AuthorizationJournal` (any decisions, streams and clock). `IInv` adds to the
two properties what a recording has checked and still may assume
(`RecordingInv`), and that what is confirmed was recorded before its answer
(`ConfirmedFirst`) and linked before it is committed (`LinkedFirst`).
Expiries and ends only move forward, so that a decision not in force stays so.
`AnsweredOnce`, `InForceAgree`.
Of `OwnerRefChecks` (any finite or infinite set of checks, any number of slots):
`QueueInv`: a check stands in the queue once, and exactly while it waits;
with it `SlotsAreAccounted`.

Model-checked only: the half of `OwnersFenced` about lapses, whose bounds of one
lapse and three runtimes are part of the statement; `PartsTyped`, a conjunction for TLC
(the types of each part are proved where an invariant needs them); and all liveness
(`DeadFileRecovered`, `TurnsEnd`, `EveryCheckReturns`), which is beyond the prover because it
needs fairness and ENABLED. The properties of the runs that expect a violation are
false, and so have no theorem.

## 6. What is not modelled

See `components` in `PROJECT.json` for each part and reason. Within the modelled
parts: bodies, routes and wording of responses; the bound of 256 pending
continuations; listing, paging and other reads; time, except as an event that may
happen (expiry, timeout); several API server processes on one set of files;
loss of written data by a power failure; the scavenging of stale downloads; file
systems on which `link` or `rename` is not atomic. Most of the repository's lines
are page operations, classification of what pages show, pure rules over large
records, self-checks, schemas and user interface; they keep no state several
actors share, and a model of them would restate their tables.

Noted while reading, without a run that shows it:

* Profiles. Copies and deletes of a profile, and a further backup, do not look
  for an unfinished apply, as a launch does. The environment is read
  (`index.ts:1513`) before the check of the launch. `remove` deletes a record while
  its repair is pending.
* Creation. An owner's `setProfilePolicy` between a creation and
  `recordCreatedProfile` makes an import fail with a profile that is not counted
  (`NothingUncounted` excuses it). A query of a run left `admitted` throws.
* Sessions. A late failure of `openUrl` or of a probe moves a closed session to
  `disconnected`; a page error overwrites `session_cleanup_failed`.
* Managed tasks. A query (or a stop, a retry, a failing worker) that has read a run before the
  worker's call was written into it may settle the run after: it then says `failed` and
  `not_dispatched` although the call was made, where
  `docs/specs/site-skill-execution-v1.md:431` keeps `not_dispatched` for failures that were not
  dispatched. `ManagedTasks` reaches such states without a death, which is why
  `CallsAccounted` speaks of restarts. The broker's write of an old summary can
  erase a stop's key or the persisted result. A settlement by timer that fails leaves its
  ticket, and the run stays running until a restart. Runs without a script that a
  dying Core interrupts stay running.
* Desktop. The runtime supervisor can spawn a child after a stop, and lose one after
  its `error` event.

## 7. Plan

Done, in this order: `OwnershipLock`/`FileOwnership` (under everything),
`RunLifecycle`/`RunRecords`, `TaskThreads` (the core of the Core),
`ProviderExchange`, `AuthorizationJournal`, `OwnerRefChecks`, `RuntimeSessions`,
`IdentityMutations`, `ManagedCreation`, `ProfileRecovery`, `CacheOwnership`,
`ManagedTasks`, and the proofs of all of them.

Left, most important first:

1. `RuntimeSupervisor` (desktop): start, stop and restart of child processes.
2. The part of managed access that is not quota: pairing, connections, checks made outside
   the transaction a revocation writes in.
3. `ManagedFiles`: streams and quotas of downloads, the outcome of a file operation.

Theorems left: the half of `OwnersFenced` about lapses, from an invariant on which
claim of a superseded runtime can still be there; and `PendingIsWaiting` with
failing stores, which needs a weaker statement first.
