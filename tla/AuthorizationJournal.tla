------------------------ MODULE AuthorizationJournal ------------------------
(***************************************************************************)
(* Authorization decisions: packages/core/src/authorization-decision-*.ts  *)
(* and the transaction of run-record-store.ts that links a decision into   *)
(* its run.  A task's decision is written three times: prepared into the   *)
(* stream's journal, linked into the run record, committed in the journal. *)
(* One recording or invalidation at a time holds the single-action lock,   *)
(* which every caller takes first (FileOwnership is that lock); it may     *)
(* fail or its process die between any two writes.                         *)
(***************************************************************************)
EXTENDS Naturals, FiniteSets

CONSTANTS
  Decisions,    \* decisions somebody may ask to record, one per idempotency key
  NoDecision,
  StreamOf,     \* the journal a decision belongs to: its subject and action instance
  ScopeOf,      \* "task" or "environment"
  ActionOf,     \* the business action it is about, with its owner declaration
  PolicyOf,     \* the effective policy it was taken under
  ConfirmOf,    \* the confirmation a single-action decision answers, or NoDecision
  LifeOf,       \* for how long it is valid; 0: no expiry
  MaxTime       \* bound of the clock

ASSUME AuthorizationAssumption ==
  /\ NoDecision \notin Decisions
  /\ MaxTime \in Nat
  /\ ScopeOf \in [Decisions -> {"task", "environment"}]
  /\ LifeOf \in [Decisions -> Nat]
  /\ ConfirmOf \in [Decisions -> Decisions \cup {NoDecision}]

VARIABLES
  entries,      \* the journals: absent, prepared or committed
  decidedAt,    \* decided_at of a decision that has an entry
  endedAt,      \* invalidated_at of its lifecycle event, or Never
  linked,       \* authorization_decision_refs of the runs
  held,         \* decisions whose entry's evaluation is still in somebody's memory
  recording,    \* the recording that holds the single-action lock; "made" is the
                \* time of its evaluation, "at" the time it began
  clock

authVars == <<entries, decidedAt, endedAt, linked, held, recording, clock>>
stored == <<entries, decidedAt, endedAt, linked>>

Times == 0..MaxTime
Never == MaxTime + 1
NoRecording == [of |-> NoDecision, step |-> "none", made |-> 0, at |-> 0]

AuthInit ==
  /\ entries = [d \in Decisions |-> "absent"]
  /\ decidedAt = [d \in Decisions |-> 0]
  /\ endedAt = [d \in Decisions |-> Never]
  /\ linked = {}
  /\ held = {}
  /\ recording = NoRecording
  /\ clock = 0

SingleAction(d) == ConfirmOf[d] # NoDecision

\* A single-action decision expires with the confirmation it answers.
ExpiresAt(d, at) ==
  IF SingleAction(d) THEN decidedAt[ConfirmOf[d]] + LifeOf[ConfirmOf[d]] ELSE at + LifeOf[d]

HasExpiry(d) == LifeOf[IF SingleAction(d) THEN ConfirmOf[d] ELSE d] # 0

NaturallyExpired(d, t) == HasExpiry(d) /\ ExpiresAt(d, decidedAt[d]) <= t

\* authorizationDecisionLifecycle
Active(d, t) == endedAt[d] > t /\ ~NaturallyExpired(d, t)

InStream(d) == {e \in Decisions : StreamOf[e] = StreamOf[d] /\ entries[e] # "absent"}

\* visibleAuthorizationDecisionEntries
Visible(d) == entries[d] = "committed" /\ (ScopeOf[d] = "task" => d \in linked)

\* authorizationBindingChange
BindingChange(d, e) == ActionOf[d] # ActionOf[e] \/ PolicyOf[d] # PolicyOf[e]

\* latestJournalBoundary: something that happened in the journal, apart from
\* the given decisions, and is known at t, is later than "at".
LaterBoundary(in, at, t) ==
  \E e \in in :
    \/ decidedAt[e] > at
    \/ NaturallyExpired(e, t) /\ ExpiresAt(e, decidedAt[e]) > at
    \/ endedAt[e] <= t /\ endedAt[e] > at

\* bindingInvalidations: the active decisions among "in" that another, made at
\* "at", puts an end to.
Invalidated(in, d, t) == {e \in in : Active(e, t) /\ BindingChange(e, d)}

\* An entry's event may not come before its decision; writing such a journal fails.
EndedAt(ends, at) == [e \in Decisions |-> IF e \in ends THEN at ELSE endedAt[e]]
OrderValid(ends, at) == \A e \in ends : decidedAt[e] <= at

\* prepareAuthorizationDecisionJournalEntry refuses a new entry.
RefusedEntry(d, t) ==
  \/ \E e \in InStream(d) : entries[e] = "prepared"
  \/ LaterBoundary(InStream(d), recording.made, t)
  \/ SingleAction(d) /\ \E e \in InStream(d) : SingleAction(e) /\ ActionOf[e] = ActionOf[d]

\* Slip: only the decision's own stream is searched for another single-action one.
AvailableInStream(d) ==
  SingleAction(d) => \A e \in InStream(d) \ {d} :
    ~(SingleAction(e) /\ ActionOf[e] = ActionOf[d])

\* assertSingleActionGloballyAvailable: no journal has another single-action
\* decision of the action, prepared ones included.
GloballyAvailable(d) ==
  SingleAction(d) => \A e \in Decisions \ {d} :
    ~(SingleAction(e) /\ entries[e] # "absent" /\ ActionOf[e] = ActionOf[d])

\* assertSingleActionConfirmationActive, unless this is a replay
ConfirmationActive(d) ==
  SingleAction(d) /\ ~Visible(d) =>
    LET c == ConfirmOf[d] IN
    /\ Visible(c) /\ Active(c, clock)
    /\ StreamOf[c] = StreamOf[d] /\ ActionOf[c] = ActionOf[d]

-----------------------------------------------------------------------------
Tick ==
  /\ clock < MaxTime
  /\ clock' = clock + 1
  /\ UNCHANGED <<stored, held, recording>>

\* recordAuthorizationDecision up to the run's transaction: the single-action
\* lock and the checks made under it.  An evaluation is trusted by identity, so
\* the one an entry was made from is lost with the process; the idempotency hash
\* covers its time, so a later one is not a replay.
BeginRecording(d, made) ==
  /\ recording = NoRecording
  /\ made <= clock
  /\ (entries[d] # "absent" /\ made = decidedAt[d]) => (d \in held \/ made = clock)
  /\ HasExpiry(d) => ExpiresAt(d, made) > made
  /\ GloballyAvailable(d)
  /\ ConfirmationActive(d)
  /\ recording' = [of |-> d, step |-> "prepare", made |-> made, at |-> clock]
  /\ UNCHANGED <<stored, held, clock>>

\* The journal gets a prepared entry, or has the entry of an earlier attempt
\* with the same evaluation; any other attempt ends here.
PrepareEntry ==
  LET d == recording.of IN
  /\ recording.step = "prepare"
  /\ ScopeOf[d] = "task"
  /\ IF entries[d] # "absent" /\ decidedAt[d] = recording.made
     THEN /\ recording' = [recording EXCEPT !.step = "link"]
          /\ UNCHANGED <<stored, held>>
     ELSE IF entries[d] = "absent" /\ ~RefusedEntry(d, recording.at)
     THEN /\ entries' = [entries EXCEPT ![d] = "prepared"]
          /\ decidedAt' = [decidedAt EXCEPT ![d] = recording.made]
          /\ recording' = [recording EXCEPT !.step = "link"]
          /\ held' = held \cup {d}
          /\ UNCHANGED <<endedAt, linked>>
     ELSE recording' = NoRecording /\ UNCHANGED <<stored, held>>
  /\ UNCHANGED clock

LinkDecision ==
  /\ recording.step = "link"
  /\ linked' = linked \cup {recording.of}
  /\ recording' = [recording EXCEPT !.step = "commit"]
  /\ UNCHANGED <<entries, decidedAt, endedAt, held, clock>>

\* Slip: the commit leaves the decisions it replaces in force.
CommitEntryOnly ==
  /\ recording.step = "commit"
  /\ entries' = [entries EXCEPT ![recording.of] = "committed"]
  /\ recording' = NoRecording
  /\ UNCHANGED <<decidedAt, endedAt, linked, held, clock>>

\* commitTaskAuthorizationDecisionJournalEntry: the decision takes effect, those
\* of another binding end with it, and one that something later has overtaken
\* (an earlier attempt failed in between) is over at once.
CommitEntry ==
  LET d == recording.of
      t == recording.at
      ends == Invalidated({e \in InStream(d) : entries[e] = "committed"}, d, t)
      stale == /\ LaterBoundary(InStream(d) \ {d}, decidedAt[d], t)
               /\ ~NaturallyExpired(d, t)
               /\ endedAt[d] = Never
  IN
  /\ recording.step = "commit"
  /\ IF OrderValid(ends, decidedAt[d])
     THEN /\ entries' = [entries EXCEPT ![d] = "committed"]
          /\ endedAt' = [EndedAt(ends, decidedAt[d]) EXCEPT ![d] = IF stale THEN t ELSE @]
     ELSE UNCHANGED <<entries, endedAt>>
  /\ recording' = NoRecording
  /\ UNCHANGED <<decidedAt, linked, held, clock>>

\* recordEnvironmentDecision: one write.
RecordEnvironment ==
  LET d == recording.of
      ends == Invalidated({e \in InStream(d) : Visible(e)}, d, recording.at)
  IN
  /\ recording.step = "prepare"
  /\ ScopeOf[d] = "environment"
  /\ IF entries[d] = "absent" /\ ~RefusedEntry(d, recording.at)
     THEN /\ entries' = [entries EXCEPT ![d] = "committed"]
          /\ decidedAt' = [decidedAt EXCEPT ![d] = recording.made]
          /\ endedAt' = EndedAt(ends, recording.made)
     ELSE UNCHANGED <<entries, decidedAt, endedAt>>
  /\ recording' = NoRecording
  /\ UNCHANGED <<linked, held, clock>>

\* invalidateAuthorizationDecision: under the same lock, one write.
Invalidate(d) ==
  /\ recording = NoRecording
  /\ Visible(d)
  /\ Active(d, clock)
  /\ endedAt' = [endedAt EXCEPT ![d] = clock]
  /\ UNCHANGED <<entries, decidedAt, linked, held, recording, clock>>

\* A write throws: the locks are released, what was written stays.
RecordingFails ==
  /\ recording # NoRecording
  /\ recording' = NoRecording
  /\ UNCHANGED <<stored, held, clock>>

AuthCrash ==
  /\ recording # NoRecording
  /\ recording' = NoRecording
  /\ held' = {}
  /\ UNCHANGED <<stored, clock>>

AuthNext ==
  \/ Tick \/ PrepareEntry \/ LinkDecision \/ CommitEntry \/ RecordEnvironment
  \/ RecordingFails \/ AuthCrash
  \/ \E d \in Decisions : Invalidate(d) \/ \E made \in Times : BeginRecording(d, made)

AuthSpec == AuthInit /\ [][AuthNext]_authVars

-----------------------------------------------------------------------------
AuthTypeOK ==
  /\ entries \in [Decisions -> {"absent", "prepared", "committed"}]
  /\ decidedAt \in [Decisions -> Times]
  /\ endedAt \in [Decisions -> 0..Never]
  /\ linked \subseteq {d \in Decisions : ScopeOf[d] = "task" /\ entries[d] # "absent"}
  /\ held \subseteq Decisions
  /\ recording \in [of : Decisions \cup {NoDecision},
                    step : {"none", "prepare", "link", "commit"},
                    made : Times, at : Times]
  /\ clock \in Times

\* Two decisions of a stream that are both in force were taken on the same
\* action under the same policy: whatever replaces a decision ends it, also
\* when the replacing one was interrupted after its first or second write.
ActiveDecisionsAgree ==
  \A d, e \in Decisions :
    /\ StreamOf[d] = StreamOf[e]
    /\ Visible(d) /\ Active(d, clock)
    /\ Visible(e) /\ Active(e, clock)
    => ~BindingChange(d, e)

\* A user answers an action once: no two single-action decisions about it,
\* whatever streams they are in and however far their recording got.
SingleActionOnce ==
  \A d, e \in Decisions :
    /\ SingleAction(d) /\ SingleAction(e)
    /\ entries[d] # "absent" /\ entries[e] # "absent"
    /\ ActionOf[d] = ActionOf[e]
    => d = e
=============================================================================
