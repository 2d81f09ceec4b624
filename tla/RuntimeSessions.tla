-------------------------- MODULE RuntimeSessions --------------------------
(***************************************************************************)
(* The runtime sessions of one identity environment and its profile:       *)
(* RuntimeSessionStore of harbor's runtime-session.ts, with the callers of *)
(* index.ts.  Opens replace or reuse a session, a mutation of the profile  *)
(* excludes sessions, control passes between core tasks and the user, and  *)
(* calls to the provider overlap all of it.  Whatever runs between two     *)
(* awaits is one action.                                                   *)
(***************************************************************************)
EXTENDS Naturals, FiniteSets

CONSTANTS
  Sessions, NoSession, \* session refs
  Opens,               \* calls of openIdentityEnvironmentSession
  Calls, NoCall,       \* calls of a provider operation
  RefOf,               \* the operation_ref of a call; a client retries under the same
  KindsOf,             \* what a call may be, of Kinds
  Cores,               \* holder refs of core tasks
  MaxGen               \* bound of control_generation

User == "user"
Nobody == "none"
Kinds == {"snapshot", "observe", "input", "wait", "file", "page", "list", "probe"}

ASSUME SessionsAssumption ==
  /\ NoSession \notin Sessions /\ NoCall \notin Calls
  /\ KindsOf \in [Calls -> SUBSET Kinds]
  /\ User \notin Cores /\ Nobody \notin Cores
  /\ MaxGen \in Nat
  /\ IsFiniteSet(Opens) /\ IsFiniteSet(Calls)
  /\ Opens \cap (Calls \cup Sessions) = {}
  /\ {"free", "mutation"} \cap (Opens \cup Sessions) = {}

\* The receipts of interactions and of file operations are two maps: a ref of
\* the one is none of the other.
ASSUME RefAssumption ==
  \A c, d \in Calls : "input" \in KindsOf[c] /\ "file" \in KindsOf[d] => RefOf[c] # RefOf[d]

VARIABLES
  sess,      \* records: the facts, control and interactions of a session
  ownership, \* who holds the ownership lock of the profile's storage
  browsers,  \* sessions whose browser runs on the profile
  opening,   \* openingIdentityEnvironmentRefs and openingProfileStorageRefs
  open,      \* where a call to open is: its step and the session it is about
  mutation,  \* none, reserved (mutatingIdentityEnvironmentRefs) or writing
  call,      \* where a provider operation is and what it was admitted under
  receipts,  \* interactionReceipts: the operation refs that have one
  dispatches,\* history: how often a ref's input went to the provider
  tenure     \* history: how often control of a session changed hands

sessionVars == <<sess, ownership, browsers, opening, open, mutation,
                 call, receipts, dispatches, tenure>>
profileVars == <<ownership, browsers, opening, open, mutation>>
callVars == <<call, receipts, dispatches>>

Refs == {RefOf[c] : c \in Calls}
NoSnapshot == [by |-> NoCall, holder |-> Nobody, gen |-> 0, tenure |-> 0, released |-> FALSE]
NoPageList == [holder |-> Nobody, gen |-> 0]
NewSession == [life |-> "none", error |-> "none", control |-> Nobody, gen |-> 0,
               busy |-> 0, kind |-> "none", intent |-> FALSE, closing |-> FALSE,
               native |-> FALSE, snapshot |-> NoSnapshot, seen |-> {}, list |-> NoPageList]
IdleCall == [step |-> "new", kind |-> "none", on |-> NoSession, holder |-> Nobody,
             obs |-> NoCall, gen |-> 0, released |-> FALSE, prev |-> "none",
             tenure |-> 0, result |-> "none"]

EndedCall(result) == [IdleCall EXCEPT !.step = "done", !.result = result]
NoOpen(step) == [step |-> step, on |-> NoSession, prev |-> "none", by |-> Nobody]

SessionsInit ==
  /\ sess = [s \in Sessions |-> NewSession]
  /\ ownership = "free" /\ browsers = {} /\ opening = FALSE
  /\ open = [o \in Opens |-> NoOpen("new")]
  /\ mutation = "none"
  /\ call = [c \in Calls |-> IdleCall]
  /\ receipts = {}
  /\ dispatches = [r \in Refs |-> 0]
  /\ tenure = [s \in Sessions |-> 0]

Live == {"active", "idle", "locked"}

\* retainsRuntimeResources
Retains(r) == r.life \notin {"none", "closed"} /\ (r.life = "failed" => r.error = "cleanup")

\* profileStorageHasExternalLock: the lock file a browser keeps in its profile.
NativelyLocked == \E s \in browsers : sess[s].native

\* A record is replaced; a change of the controller is a change of hands.
Update(s, r) ==
  /\ sess' = [sess EXCEPT ![s] = r]
  /\ tenure' = IF r.control = sess[s].control THEN tenure ELSE [tenure EXCEPT ![s] = @ + 1]

-----------------------------------------------------------------------------
(* What the operations do to a record. *)

Bumped(r) == [r EXCEPT !.gen = @ + 1]

\* withProviderInteraction, before and after the provider's answer.
Entered(r, kind) == [r EXCEPT !.busy = @ + 1, !.kind = kind]
Left(r, prev) ==
  [r EXCEPT !.busy = @ - 1,
            !.kind = IF r.busy = 1 THEN "none" ELSE IF prev # "none" THEN prev ELSE @]

\* markDriverLost
DriverLost(r) ==
  [Bumped(r) EXCEPT !.life = "disconnected", !.error = "session_lost",
                    !.control = Nobody, !.snapshot = NoSnapshot, !.seen = {}]

\* applyPageFacts; the page's error is none, page or session_lost.
PageApplied(r, error) ==
  CASE r.error = "session_lost" -> r
    [] r.error # "session_lost" /\ error = "session_lost" -> DriverLost(r)
    [] OTHER -> [r EXCEPT !.error = error, !.life = IF error = "page" THEN "failed" ELSE @]

\* acquireControl.  The flags of a confirmed read only refuse more; left out.
MayAcquire(r, c) ==
  r.busy = 0 /\ ~r.intent /\ r.life \in Live /\ r.control \in {Nobody, c}

\* canPreserveReleasedSnapshotGeneration
Preserves(r, c) ==
  /\ c \in Cores /\ r.control = Nobody
  /\ \/ r.snapshot.holder = c /\ r.snapshot.gen = r.gen
     \/ r.list.holder = c /\ r.list.gen = r.gen

Acquired(r, c) ==
  [r EXCEPT !.life = "active", !.control = c, !.list = NoPageList,
            !.gen = IF Preserves(r, c) THEN @ ELSE @ + 1]

\* finishCloseSession up to the provider's close
Closing(r) ==
  [Bumped(r) EXCEPT !.life = "disconnected", !.control = Nobody, !.closing = TRUE]

-----------------------------------------------------------------------------
(* Sessions and the profile they run on. *)

\* createSession up to the launcher, in a call to open for controller c.
Create(o, c) ==
  LET mayLaunch == ownership = "free" /\ ~NativelyLocked IN
  /\ open' = [open EXCEPT ![o] =
       IF mayLaunch THEN [NoOpen("launching") EXCEPT !.by = c] ELSE NoOpen("done")]
  /\ ownership' = IF mayLaunch THEN o ELSE ownership
  /\ opening' = mayLaunch

\* findIdentitySession
Existing == {s \in Sessions : Retains(sess[s])}

\* openIdentityEnvironmentSession up to its first await.  Whether a session
\* fits the request (headless, reuse_existing) is left open.
Open(o, c) ==
  LET goesOn(step, s) ==
        /\ open' = [open EXCEPT ![o] = [step |-> step, on |-> s, prev |-> sess[s].kind, by |-> c]]
        /\ UNCHANGED <<ownership, opening>>
  IN
  /\ open[o].step = "new" /\ mutation = "none"
  /\ \/ \E s \in Existing :
          /\ sess[s].life # "disconnected" /\ sess[s].error \notin {"session_lost", "cleanup"}
          /\ \/ /\ MayAcquire(sess[s], c) /\ sess[s].gen < MaxGen
                /\ Update(s, Entered(Acquired(sess[s], c), "mutating"))
                /\ goesOn("reusing", s)
             \/ /\ sess[s].control \in {Nobody, c} /\ sess[s].gen < MaxGen
                /\ Update(s, Closing(sess[s]))
                /\ goesOn("closing", s)
     \/ /\ Existing = {} /\ ~opening
        /\ Create(o, c)
        /\ UNCHANGED <<sess, tenure>>
  /\ UNCHANGED <<browsers, mutation>> /\ UNCHANGED callVars

\* The provider opened the URL in the session that is reused, or failed to.
OpenReused(o) ==
  LET s == open[o].on
      left == Left(sess[s], open[o].prev)
  IN
  /\ open[o].step = "reusing"
  /\ \/ Update(s, DriverLost(left))
     \/ \E error \in {"none", "page", "session_lost"} : Update(s, PageApplied(left, error))
  /\ open' = [open EXCEPT ![o] = NoOpen("done")]
  /\ UNCHANGED <<ownership, browsers, opening, mutation>> /\ UNCHANGED callVars

\* The session to replace is closed: the open goes on with what it knew.
OpenReplaces(o) ==
  /\ open[o].step = "closed"
  /\ \/ /\ opening
        /\ open' = [open EXCEPT ![o] = NoOpen("done")]
        /\ UNCHANGED <<ownership, opening>>
     \/ ~opening /\ Create(o, open[o].by)
  /\ UNCHANGED <<sess, tenure, browsers, mutation>> /\ UNCHANGED callVars

\* The launcher answers.  A browser that keeps a lock file of its own is
\* seen as external, and the ownership lock given back.
Launched(o) ==
  LET fresh == {s \in Sessions : sess[s].life = "none"}
      s == CHOOSE s \in fresh : TRUE
  IN
  /\ open[o].step = "launching"
  /\ opening' = FALSE
  /\ open' = [open EXCEPT ![o] = NoOpen("done")]
  /\ \/ ownership' = "free" /\ UNCHANGED <<sess, tenure, browsers>>
     \/ \E native \in BOOLEAN :
          /\ fresh # {}
          /\ Update(s, [NewSession EXCEPT !.life = "active", !.control = open[o].by, !.native = native])
          /\ browsers' = browsers \cup {s}
          /\ ownership' = IF native THEN "free" ELSE s
  /\ UNCHANGED mutation /\ UNCHANGED callVars

\* closeSession by stopSession; a close under way is joined.
Stop(s) ==
  /\ sess[s].life \notin {"none", "closed"} /\ ~sess[s].closing
  /\ sess[s].gen < MaxGen
  /\ Update(s, Closing(sess[s]))
  /\ UNCHANGED profileVars /\ UNCHANGED callVars

\* The opens that wait for the close of s.
Resumed(s, step) ==
  [o \in Opens |-> IF open[o].step = "closing" /\ open[o].on = s
                   THEN IF step = "done" THEN NoOpen(step) ELSE [NoOpen(step) EXCEPT !.by = open[o].by]
                   ELSE open[o]]

CloseSucceeds(s) ==
  /\ sess[s].closing
  /\ Update(s, [sess[s] EXCEPT !.life = "closed", !.control = Nobody, !.closing = FALSE])
  /\ browsers' = browsers \ {s}
  /\ ownership' = IF ownership = s THEN "free" ELSE ownership
  /\ open' = Resumed(s, "closed")
  /\ UNCHANGED <<opening, mutation>> /\ UNCHANGED callVars

\* Slip: a failed close gives the ownership lock back as well.
CloseFailsAndFrees(s) ==
  /\ sess[s].closing
  /\ Update(s, [sess[s] EXCEPT !.life = "failed", !.error = "cleanup", !.closing = FALSE])
  /\ browsers' \in {browsers, browsers \ {s}}
  /\ ownership' = IF ownership = s THEN "free" ELSE ownership
  /\ open' = Resumed(s, "done")
  /\ UNCHANGED <<opening, mutation>> /\ UNCHANGED callVars

\* The browser may be gone or not; the ownership lock is kept.
CloseFails(s) ==
  /\ sess[s].closing
  /\ Update(s, [sess[s] EXCEPT !.life = "failed", !.error = "cleanup", !.closing = FALSE])
  /\ browsers' \in {browsers, browsers \ {s}}
  /\ open' = Resumed(s, "done")
  /\ UNCHANGED <<ownership, opening, mutation>> /\ UNCHANGED callVars

\* reserveIdentityEnvironmentMutation, and the mutation's own two checks.
ReserveMutation ==
  /\ mutation = "none" /\ ~opening /\ Existing = {}
  /\ mutation' = "reserved"
  /\ UNCHANGED <<sess, tenure, ownership, browsers, opening, open>> /\ UNCHANGED callVars

Mutate ==
  /\ mutation = "reserved" /\ ownership = "free"
  /\ IF NativelyLocked THEN mutation' = "none" /\ UNCHANGED ownership
                       ELSE mutation' = "writing" /\ ownership' = "mutation"
  /\ UNCHANGED <<sess, tenure, browsers, opening, open>> /\ UNCHANGED callVars

EndMutation ==
  /\ mutation \in {"reserved", "writing"}
  /\ mutation' = "none"
  /\ ownership' = IF ownership = "mutation" THEN "free" ELSE ownership
  /\ UNCHANGED <<sess, tenure, browsers, opening, open>> /\ UNCHANGED callVars

-----------------------------------------------------------------------------
(* Who controls a session. *)

\* lockSession: a new controller, or the one there is, holds it.
Lock(s, c) ==
  /\ MayAcquire(sess[s], c) /\ sess[s].gen < MaxGen
  /\ Update(s, [Acquired(sess[s], c) EXCEPT !.life = "locked"])
  /\ UNCHANGED profileVars /\ UNCHANGED callVars

\* releaseSession, by whoever has control or unscoped.
ReleaseControl(s) ==
  /\ sess[s].life \in {"active", "locked"} /\ sess[s].busy = 0
  /\ sess[s].control # Nobody /\ sess[s].gen < MaxGen
  /\ Update(s, [Bumped(sess[s]) EXCEPT !.life = "idle", !.control = Nobody])
  /\ UNCHANGED profileVars /\ UNCHANGED callVars

\* recordHandoff from a core task to the user: prepareHandoff, applyHandoff.
\* While an operation that acts is running there is only an intent.
Handoff(s) ==
  LET r == sess[s] IN
  /\ r.control \in Cores /\ r.gen < MaxGen
  /\ IF r.busy = 0 \/ r.kind = "passive_wait"
     THEN Update(s, [Bumped(r) EXCEPT !.control = User, !.intent = FALSE])
     ELSE ~r.intent /\ Update(s, [Bumped(r) EXCEPT !.intent = TRUE])
  /\ UNCHANGED profileVars /\ UNCHANGED callVars

-----------------------------------------------------------------------------
(* Operations of the provider. *)

\* isCoreLeaseHeld
LeaseHeld(r, h) == ~r.intent /\ r.control = h

\* Reads are also admitted while nobody has control, not while somebody else has.
Admits(r, kind, h, released) ==
  /\ r.life \in Live
  /\ kind \notin {"list", "probe"} => r.busy = 0
  /\ \/ kind \in {"list", "probe"}
     \/ ~released /\ LeaseHeld(r, h)
     \/ released /\ kind \in {"snapshot", "observe"} /\ r.control = Nobody

\* Slip: any observation made for the holder will do.
ObservedForHolder(r, c) ==
  /\ r.snapshot.by = call[c].obs /\ r.snapshot.by # NoCall
  /\ r.snapshot.holder = call[c].holder

\* The observation an input presents is the session's last, of this
\* generation, and was made for the same holder.
ObservedBy(r, c) ==
  /\ r.snapshot.by = call[c].obs /\ r.snapshot.by # NoCall
  /\ r.snapshot.gen = call[c].gen
  /\ r.snapshot.holder = call[c].holder

\* The observation a file operation presents: a managed one of this
\* generation, or the session's snapshot.
FileObservedBy(r, c) ==
  \/ call[c].gen \in r.seen
  \/ /\ r.snapshot.by # NoCall /\ r.snapshot.gen = call[c].gen
     /\ r.snapshot.holder = call[c].holder

\* operateManagedInteraction, operateManagedFile, operateManagedPublicPage,
\* observeManagedSession, listManagedPages, operateManagedPage and the probes
\* up to their first await; the last two call the provider at once.
Call(c, s, kind, h) ==
  LET atOnce == kind \in {"page", "probe"} IN
  /\ call[c].step = "new" /\ RefOf[c] \notin receipts
  /\ kind \in {"input", "wait"} => sess[s].snapshot.by # NoCall
  /\ \E released \in BOOLEAN :
       /\ released => sess[s].control = Nobody
       /\ Admits(sess[s], kind, h, released)
       /\ call' = [call EXCEPT ![c] =
            [step |-> IF atOnce THEN "running" ELSE "refreshing", kind |-> kind,
             on |-> s, holder |-> h,
             obs |-> IF kind \in {"input", "wait"} THEN sess[s].snapshot.by ELSE NoCall,
             gen |-> sess[s].gen, released |-> released, prev |-> sess[s].kind,
             tenure |-> tenure[s], result |-> "none"]]
  /\ IF atOnce THEN Update(s, Entered(sess[s], "mutating")) ELSE UNCHANGED <<sess, tenure>>
  /\ UNCHANGED profileVars /\ UNCHANGED <<receipts, dispatches>>

\* The page relation could not be read, or something changed meanwhile: no
\* receipt is kept and the operation may be asked for again.
CallRefused(c) ==
  /\ call[c].step = "refreshing"
  /\ call' = [call EXCEPT ![c] = IdleCall]
  /\ UNCHANGED <<sess, tenure, receipts, dispatches>> /\ UNCHANGED profileVars

\* The page relation was read: everything is checked again (by a file operation
\* only control), and the receipt kept before the provider is called.
Dispatch(c) ==
  LET s == call[c].on
      kind == call[c].kind
      acts == kind \in {"input", "wait"}
  IN
  /\ call[c].step = "refreshing" /\ kind # "list"
  /\ sess[s].gen = call[c].gen
  /\ IF kind = "file" THEN LeaseHeld(sess[s], call[c].holder)
                      ELSE Admits(sess[s], kind, call[c].holder, call[c].released)
  /\ acts => ObservedBy(sess[s], c)
  /\ kind = "file" => FileObservedBy(sess[s], c)
  /\ Update(s, Entered(sess[s], IF kind = "wait" THEN "passive_wait" ELSE "mutating"))
  /\ call' = [call EXCEPT ![c].step = "running", ![c].prev = sess[s].kind]
  /\ receipts' = IF kind = "observe" THEN receipts ELSE receipts \cup {RefOf[c]}
  /\ dispatches' = IF kind \in {"input", "file"} THEN [dispatches EXCEPT ![RefOf[c]] = @ + 1] ELSE dispatches
  /\ UNCHANGED profileVars

\* listManagedPages after its refresh.
ListPages(c) ==
  LET s == call[c].on
      still == call[c].released /\ sess[s].control = Nobody /\ sess[s].gen = call[c].gen
  IN
  /\ call[c].step = "refreshing" /\ call[c].kind = "list"
  /\ Update(s, [sess[s] EXCEPT !.list =
       IF still THEN [holder |-> call[c].holder, gen |-> call[c].gen] ELSE NoPageList])
  /\ call' = [call EXCEPT ![c] = IdleCall]
  /\ UNCHANGED <<receipts, dispatches>> /\ UNCHANGED profileVars

\* Slip: the answer is only checked against the session's life.
StillLive(c, r) == r.life \in Live

\* What was admitted still holds when the provider has answered.
Unchanged(c, r) ==
  /\ r.gen = call[c].gen
  /\ call[c].kind # "file" => r.life \in Live
  /\ IF call[c].released THEN r.control = Nobody ELSE LeaseHeld(r, call[c].holder)

\* The answer of an interaction or an observation counts only if control
\* did not change; it then consumes the observation it was based on.
Answered(c) ==
  LET s == call[c].on
      kind == call[c].kind
      left == Left(sess[s], call[c].prev)
      consumed == IF kind \in {"input", "wait"} THEN [left EXCEPT !.snapshot = NoSnapshot] ELSE left
      observed(r) == IF kind = "snapshot"
                     THEN [r EXCEPT !.snapshot =
                            [by |-> c, holder |-> call[c].holder, gen |-> call[c].gen,
                             tenure |-> tenure[s], released |-> call[c].released]]
                     ELSE IF kind = "observe" THEN [r EXCEPT !.seen = {call[c].gen}] ELSE r
      ends(result) == call' = [call EXCEPT ![c] = EndedCall(result)]
  IN
  /\ call[c].step = "running" /\ kind \notin {"page", "probe"}
  /\ IF Unchanged(c, left)
     THEN \/ /\ \E error \in {"none", "page", "session_lost"} :
                 Update(s, observed(PageApplied(consumed, error)))
             /\ ends("applied")
          \/ Update(s, consumed) /\ ends("unknown")
     ELSE /\ \E r \in {left, consumed} : Update(s, r)
          /\ ends("unknown")
  /\ UNCHANGED <<receipts, dispatches>> /\ UNCHANGED profileVars

\* The answer of a page operation: the page is the session's if the
\* generation did not change.
PageAnswered(c) ==
  LET s == call[c].on IN
  /\ call[c].step = "running" /\ call[c].kind = "page"
  /\ Update(s, Left(sess[s], call[c].prev))
  /\ \E result \in {"applied", "unknown"} :
       /\ result = "applied" => sess[s].gen = call[c].gen
       /\ call' = [call EXCEPT ![c] = EndedCall(result)]
  /\ UNCHANGED <<receipts, dispatches>> /\ UNCHANGED profileVars

\* A probe's answer: its page counts whatever happened; if it throws the
\* driver is lost.
ProbeAnswered(c) ==
  LET s == call[c].on
      left == Left(sess[s], call[c].prev)
  IN
  /\ call[c].step = "running" /\ call[c].kind = "probe"
  /\ \/ Update(s, DriverLost(left))
     \/ \E error \in {"none", "page", "session_lost"} : Update(s, PageApplied(left, error))
  /\ call' = [call EXCEPT ![c] = EndedCall("applied")]
  /\ UNCHANGED <<receipts, dispatches>> /\ UNCHANGED profileVars

-----------------------------------------------------------------------------
SessionsNext ==
  \/ \E o \in Opens :
       \/ \E c \in Cores \cup {User} : Open(o, c)
       \/ OpenReused(o) \/ OpenReplaces(o) \/ Launched(o)
  \/ ReserveMutation \/ Mutate \/ EndMutation
  \/ \E s \in Sessions :
       \/ Stop(s) \/ CloseSucceeds(s) \/ CloseFails(s)
       \/ ReleaseControl(s) \/ Handoff(s)
       \/ \E c \in Cores \cup {User} : Lock(s, c)
       \/ \E c \in Calls, h \in Cores : \E kind \in KindsOf[c] : Call(c, s, kind, h)
  \/ \E c \in Calls :
       \/ CallRefused(c) \/ Dispatch(c) \/ ListPages(c)
       \/ Answered(c) \/ PageAnswered(c) \/ ProbeAnswered(c)

SessionsSpec == SessionsInit /\ [][SessionsNext]_sessionVars

-----------------------------------------------------------------------------
SessionsTypeOK ==
  /\ \A s \in Sessions :
       /\ sess[s].life \in Live \cup {"none", "disconnected", "failed", "closed"}
       /\ sess[s].error \in {"none", "page", "session_lost", "cleanup"}
       /\ sess[s].control \in Cores \cup {User, Nobody}
       /\ sess[s].busy \in 0..Cardinality(Opens \cup Calls)
       /\ sess[s].kind \in {"none", "mutating", "passive_wait"}
  /\ ownership \in {"free", "mutation"} \cup Opens \cup Sessions
  /\ browsers \subseteq Sessions /\ receipts \subseteq Refs
  /\ mutation \in {"none", "reserved", "writing"}

\* Never two browsers on a profile, nor one while the profile is written:
\* whichever of the two locks guards it, through replacement, failed closes,
\* lost drivers and errors that make a session look unused.
ProfileExclusive ==
  /\ Cardinality(browsers) <= 1
  /\ mutation = "writing" \/ (\E o \in Opens : open[o].step = "launching") => browsers = {}

\* An input goes to the provider once under its operation_ref, and only on an
\* observation since which nobody but its holder had control.
InputsFenced ==
  [][\A c \in Calls :
       LET s == call[c].on
           seen == sess[s].snapshot
       IN
       call[c].kind = "input" /\ call[c].step = "refreshing" /\ call'[c].step = "running" =>
         /\ dispatches'[RefOf[c]] = 1
         /\ tenure[s] = IF seen.released THEN seen.tenure + 1 ELSE seen.tenure]_sessionVars

\* A result that counts was produced with control in the same hands from
\* the admission to the answer.
ResultsFenced ==
  [][\A c \in Calls :
       call[c].kind # "probe" /\ call[c].step = "running" /\ call'[c].result = "applied" =>
         tenure[call[c].on] = call[c].tenure]_sessionVars

\* "the owner retries the same handoff after the admitted operation reaches
\* its existing receipt boundary": the handoff of an intent can be retried.
IntentCanBeRetried ==
  \A s \in Sessions : sess[s].intent /\ sess[s].life \in Live => sess[s].control \in Cores
=============================================================================
