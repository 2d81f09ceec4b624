-------------------------- MODULE CoreStores_proofs --------------------------
(***************************************************************************)
(* Theorems about two things the task thread store relies on: the journal  *)
(* of authorization decisions, and the bounded checks of owner references. *)
(*                                                                         *)
(* For any decisions, streams, policies, expiries and length of time, an   *)
(* action is answered once, and the decisions in force in a stream agree.  *)
(* Neither is inductive alone: a recording relies on what it saw when it   *)
(* took the lock, and an expiry on the confirmation that a single-action   *)
(* decision answers.                                                       *)
(***************************************************************************)
EXTENDS AuthorizationJournal, OwnerRefChecks, FiniteSetTheorems, TLAPS

\* A recording relies on the checks made when it began, and has written what
\* its step says.
RecordingInv ==
  /\ recording.step # "none" =>
       /\ recording.of \in Decisions
       /\ recording.made <= recording.at /\ recording.at <= clock
       /\ GloballyAvailable(recording.of)
       /\ SingleAction(recording.of) => entries[ConfirmOf[recording.of]] # "absent"
  /\ recording.step \in {"link", "commit"} =>
       /\ ScopeOf[recording.of] = "task"
       /\ entries[recording.of] # "absent"
       /\ decidedAt[recording.of] = recording.made
  /\ recording.step = "commit" => recording.of \in linked

\* The confirmation a decision expires with was recorded before it.
ConfirmedFirst ==
  \A d \in Decisions :
    SingleAction(d) /\ entries[d] # "absent" => entries[ConfirmOf[d]] # "absent"

\* No entry of a task is committed before its run refers to it.
LinkedFirst ==
  \A d \in Decisions : entries[d] = "committed" /\ ScopeOf[d] = "task" => d \in linked

IInv ==
  /\ AuthTypeOK
  /\ RecordingInv
  /\ ConfirmedFirst
  /\ LinkedFirst
  /\ SingleActionOnce
  /\ ActiveDecisionsAgree

-----------------------------------------------------------------------------
\* What is in force at a time was in force before, whatever was written in
\* between, as long as ends are only brought forward and the times that its
\* expiry is computed from are kept.
LEMMA ActiveBefore ==
  ASSUME AuthTypeOK, AuthTypeOK', NEW d \in Decisions, NEW t \in Times, t <= clock',
         endedAt'[d] <= endedAt[d],
         decidedAt'[d] = decidedAt[d],
         SingleAction(d) => /\ ConfirmOf[d] \in Decisions
                            /\ decidedAt'[ConfirmOf[d]] = decidedAt[ConfirmOf[d]],
         Active(d, clock)'
  PROVE  Active(d, t)
<1> USE AuthorizationAssumption
<1>1. /\ endedAt[d] \in Nat /\ endedAt'[d] \in Nat
      /\ t \in Nat /\ clock' \in Nat
      /\ decidedAt[d] \in Nat /\ LifeOf[d] \in Nat
  BY DEF AuthTypeOK, Times, Never
<1>2. endedAt[d] > t
  BY <1>1 DEF Active
<1>3. CASE SingleAction(d)
  <2>1. decidedAt[ConfirmOf[d]] \in Nat /\ LifeOf[ConfirmOf[d]] \in Nat
    BY <1>3 DEF AuthTypeOK, Times
  <2>2. QED
    BY <1>1, <1>2, <1>3, <2>1 DEF Active, NaturallyExpired, HasExpiry, ExpiresAt, SingleAction
<1>4. CASE ~SingleAction(d)
  BY <1>1, <1>2, <1>4 DEF Active, NaturallyExpired, HasExpiry, ExpiresAt, SingleAction
<1>5. QED
  BY <1>3, <1>4

\* The times an entry's expiry is computed from are kept as long as those of
\* all entries are.
LEMMA ExpiryKept ==
  ASSUME IInv, NEW d \in Decisions, entries[d] # "absent",
         \A e \in Decisions : entries[e] # "absent" => decidedAt'[e] = decidedAt[e]
  PROVE  /\ decidedAt'[d] = decidedAt[d]
         /\ SingleAction(d) => /\ ConfirmOf[d] \in Decisions
                               /\ decidedAt'[ConfirmOf[d]] = decidedAt[ConfirmOf[d]]
BY AuthorizationAssumption DEF IInv, ConfirmedFirst, SingleAction

\* A step after which nothing is visible that was not, and that only brings
\* ends forward, keeps the decisions in force in agreement.
LEMMA AgreementKept ==
  ASSUME IInv, AuthTypeOK', clock <= clock',
         \A d \in Decisions : Visible(d)' => Visible(d),
         \A d \in Decisions : endedAt'[d] <= endedAt[d],
         \A d \in Decisions : entries[d] # "absent" => decidedAt'[d] = decidedAt[d]
  PROVE  ActiveDecisionsAgree'
<1> SUFFICES ASSUME NEW d \in Decisions, NEW e \in Decisions,
                    StreamOf[d] = StreamOf[e],
                    Visible(d)', Active(d, clock)', Visible(e)', Active(e, clock)'
             PROVE  ~BindingChange(d, e)
  BY DEF ActiveDecisionsAgree, BindingChange
<1>1. ASSUME NEW f \in Decisions, Visible(f)', Active(f, clock)'
      PROVE  Visible(f) /\ Active(f, clock)
  <2>1. Visible(f)
    BY <1>1
  <2>2. entries[f] # "absent"
    BY <2>1 DEF Visible
  <2>3. clock \in Times
    BY DEF IInv, AuthTypeOK
  <2>4. QED
    BY <1>1, <2>1, <2>2, <2>3, ExpiryKept, ActiveBefore DEF IInv
<1>2. QED
  BY <1>1 DEF IInv, ActiveDecisionsAgree

-----------------------------------------------------------------------------
LEMMA InitHolds == AuthInit => IInv
<1> SUFFICES ASSUME AuthInit PROVE IInv
  OBVIOUS
<1> USE AuthorizationAssumption DEF AuthInit, NoRecording
<1>1. AuthTypeOK
  BY DEF AuthTypeOK, Times, Never
<1>2. RecordingInv
  BY DEF RecordingInv
<1>3. ConfirmedFirst /\ LinkedFirst /\ SingleActionOnce /\ ActiveDecisionsAgree
  BY DEF ConfirmedFirst, LinkedFirst, SingleActionOnce, ActiveDecisionsAgree, Visible
<1>4. QED
  BY <1>1, <1>2, <1>3 DEF IInv

\* Time passes: decisions only expire.
LEMMA TickHolds == ASSUME IInv, Tick PROVE IInv'
<1> USE DEF Tick, stored
<1>1. AuthTypeOK' /\ clock <= clock'
  BY AuthorizationAssumption DEF IInv, AuthTypeOK, Times
<1>2. RecordingInv'
  <2>1. recording.at \in Nat /\ clock \in Nat
    BY AuthorizationAssumption DEF IInv, AuthTypeOK, Times
  <2>2. QED
    BY <2>1 DEF IInv, RecordingInv, GloballyAvailable, SingleAction
<1>3. ConfirmedFirst' /\ LinkedFirst' /\ SingleActionOnce'
  BY DEF IInv, ConfirmedFirst, LinkedFirst, SingleActionOnce, SingleAction
<1>4. ActiveDecisionsAgree'
  <2>1. \A d \in Decisions : Visible(d)' => Visible(d)
    BY DEF Visible
  <2>2. \A d \in Decisions : endedAt'[d] <= endedAt[d]
    BY AuthorizationAssumption DEF IInv, AuthTypeOK, Times, Never
  <2>3. QED
    BY <1>1, <2>1, <2>2, AgreementKept
<1>5. QED
  BY <1>1, <1>2, <1>3, <1>4 DEF IInv

\* A step that changes neither the files nor the time, and leaves a recording
\* that the invariant allows.
LEMMA NothingStored ==
  ASSUME IInv, UNCHANGED <<stored, clock>>, RecordingInv', held' \subseteq Decisions,
         recording' \in [of : Decisions \cup {NoDecision},
                         step : {"none", "prepare", "link", "commit"},
                         made : Times, at : Times]
  PROVE  IInv'
<1> USE DEF stored
<1>1. AuthTypeOK'
  BY DEF IInv, AuthTypeOK
<1>2. ConfirmedFirst' /\ LinkedFirst' /\ SingleActionOnce'
  BY DEF IInv, ConfirmedFirst, LinkedFirst, SingleActionOnce, SingleAction
<1>3. ActiveDecisionsAgree'
  BY DEF IInv, ActiveDecisionsAgree, Visible, Active, NaturallyExpired, HasExpiry,
         ExpiresAt, SingleAction, BindingChange
<1>4. QED
  BY <1>1, <1>2, <1>3 DEF IInv

LEMMA BeginHolds ==
  ASSUME IInv, NEW d \in Decisions, NEW made \in Times, BeginRecording(d, made)
  PROVE  IInv'
<1> USE DEF BeginRecording, stored
<1>1. recording' = [of |-> d, step |-> "prepare", made |-> made, at |-> clock]
  OBVIOUS
<1>2. recording' \in [of : Decisions \cup {NoDecision},
                      step : {"none", "prepare", "link", "commit"},
                      made : Times, at : Times]
  BY <1>1 DEF IInv, AuthTypeOK
<1>3. GloballyAvailable(d)'
  BY DEF GloballyAvailable, SingleAction
<1>4. SingleAction(d) => entries[ConfirmOf[d]] # "absent"
  BY DEF ConfirmationActive, Visible, IInv, ConfirmedFirst
<1>5. clock <= clock
  BY AuthorizationAssumption DEF IInv, AuthTypeOK, Times
<1>6. RecordingInv'
  BY <1>1, <1>3, <1>4, <1>5 DEF RecordingInv, SingleAction
<1>7. QED
  BY <1>2, <1>6, NothingStored DEF IInv, AuthTypeOK

\* A recording that stops, for whatever reason, leaves nothing to keep.
LEMMA StopHolds ==
  ASSUME IInv, recording' = NoRecording, UNCHANGED <<stored, clock>>,
         held' \subseteq Decisions
  PROVE  IInv'
<1>1. recording' \in [of : Decisions \cup {NoDecision},
                      step : {"none", "prepare", "link", "commit"},
                      made : Times, at : Times]
  BY AuthorizationAssumption DEF NoRecording, Times
<1>2. RecordingInv'
  BY DEF RecordingInv, NoRecording
<1>3. QED
  BY <1>1, <1>2, NothingStored

-----------------------------------------------------------------------------
\* The first entry of a decision is written with the time of its evaluation,
\* while no other single-action decision of its action has one.
LEMMA EntryWritten ==
  ASSUME IInv, NEW d \in Decisions, NEW written \in {"prepared", "committed"},
         recording.step = "prepare", d = recording.of, entries[d] = "absent",
         entries' = [entries EXCEPT ![d] = written],
         decidedAt' = [decidedAt EXCEPT ![d] = recording.made],
         linked' = linked, clock' = clock,
         written = "committed" => ScopeOf[d] = "environment"
  PROVE  /\ entries' \in [Decisions -> {"absent", "prepared", "committed"}]
         /\ decidedAt' \in [Decisions -> Times]
         /\ linked' \subseteq {e \in Decisions : ScopeOf[e] = "task" /\ entries'[e] # "absent"}
         /\ GloballyAvailable(d)'
         /\ SingleAction(d) => entries'[ConfirmOf[d]] # "absent"
         /\ ConfirmedFirst' /\ LinkedFirst' /\ SingleActionOnce'
<1>1. /\ entries' \in [Decisions -> {"absent", "prepared", "committed"}]
      /\ decidedAt' \in [Decisions -> Times]
      /\ linked' \subseteq {e \in Decisions : ScopeOf[e] = "task" /\ entries'[e] # "absent"}
  BY DEF IInv, AuthTypeOK
<1>2. GloballyAvailable(d) /\ (SingleAction(d) => entries[ConfirmOf[d]] # "absent")
  BY DEF IInv, RecordingInv
<1>3. \A e \in Decisions : entries[e] # "absent" => entries'[e] # "absent"
  BY DEF IInv, AuthTypeOK
<1>4. \A e \in Decisions : e # d => entries'[e] = entries[e]
  BY DEF IInv, AuthTypeOK
<1>5. SingleAction(d) => ConfirmOf[d] \in Decisions
  BY AuthorizationAssumption DEF SingleAction
<1>6. GloballyAvailable(d)' /\ (SingleAction(d) => entries'[ConfirmOf[d]] # "absent")
  BY <1>2, <1>3, <1>4, <1>5 DEF GloballyAvailable, SingleAction
<1>7. ConfirmedFirst'
  BY <1>3, <1>4, <1>6, AuthorizationAssumption DEF IInv, ConfirmedFirst, SingleAction
<1>8. LinkedFirst'
  BY <1>4, AuthorizationAssumption DEF IInv, LinkedFirst, AuthTypeOK
<1>9. SingleActionOnce'
  BY <1>4, <1>6 DEF IInv, SingleActionOnce, GloballyAvailable, SingleAction
<1>10. QED
  BY <1>1, <1>6, <1>7, <1>8, <1>9

LEMMA PrepareHolds == ASSUME IInv, PrepareEntry PROVE IInv'
<1> DEFINE d == recording.of
<1>1. /\ recording.step = "prepare" /\ d \in Decisions /\ ScopeOf[d] = "task"
      /\ GloballyAvailable(d) /\ recording.made <= recording.at /\ recording.at <= clock
      /\ SingleAction(d) => entries[ConfirmOf[d]] # "absent"
      /\ recording \in [of : Decisions \cup {NoDecision},
                        step : {"none", "prepare", "link", "commit"},
                        made : Times, at : Times]
  BY DEF IInv, RecordingInv, PrepareEntry, AuthTypeOK
<1>2. CASE /\ entries[d] # "absent" /\ decidedAt[d] = recording.made
           /\ recording' = [recording EXCEPT !.step = "link"]
           /\ UNCHANGED <<stored, held, clock>>
  <2>1. RecordingInv'
    BY <1>1, <1>2 DEF RecordingInv, GloballyAvailable, SingleAction, stored
  <2>2. QED
    BY <1>1, <1>2, <2>1, NothingStored DEF IInv, AuthTypeOK
<1>3. CASE /\ entries[d] = "absent"
           /\ entries' = [entries EXCEPT ![d] = "prepared"]
           /\ decidedAt' = [decidedAt EXCEPT ![d] = recording.made]
           /\ recording' = [recording EXCEPT !.step = "link"]
           /\ held' = held \cup {d}
           /\ UNCHANGED <<endedAt, linked, clock>>
  <2>1. /\ entries' \in [Decisions -> {"absent", "prepared", "committed"}]
        /\ decidedAt' \in [Decisions -> Times]
        /\ linked' \subseteq {e \in Decisions : ScopeOf[e] = "task" /\ entries'[e] # "absent"}
        /\ GloballyAvailable(d)'
        /\ SingleAction(d) => entries'[ConfirmOf[d]] # "absent"
        /\ ConfirmedFirst' /\ LinkedFirst' /\ SingleActionOnce'
    BY <1>1, <1>3, EntryWritten
  <2>2. AuthTypeOK'
    BY <1>1, <1>3, <2>1 DEF IInv, AuthTypeOK
  <2>3. RecordingInv'
    <3>1. entries'[d] = "prepared" /\ decidedAt'[d] = recording.made
      BY <1>1, <1>3 DEF IInv, AuthTypeOK
    <3>2. QED
      BY <1>1, <1>3, <2>1, <3>1 DEF RecordingInv, GloballyAvailable, SingleAction
  <2>4. ActiveDecisionsAgree'
    <3>1. \A e \in Decisions : Visible(e)' => Visible(e)
      BY <1>1, <1>3 DEF IInv, AuthTypeOK, Visible
    <3>2. \A e \in Decisions : endedAt'[e] <= endedAt[e]
      BY <1>3, AuthorizationAssumption DEF IInv, AuthTypeOK, Times, Never
    <3>3. \A e \in Decisions : entries[e] # "absent" => decidedAt'[e] = decidedAt[e]
      BY <1>1, <1>3 DEF IInv, AuthTypeOK
    <3>4. clock <= clock'
      BY <1>3, AuthorizationAssumption DEF IInv, AuthTypeOK, Times
    <3>5. QED
      BY <2>2, <3>1, <3>2, <3>3, <3>4, AgreementKept
  <2>5. QED
    BY <2>1, <2>2, <2>3, <2>4 DEF IInv
<1>4. CASE recording' = NoRecording /\ UNCHANGED <<stored, held, clock>>
  BY <1>4, StopHolds DEF IInv, AuthTypeOK
<1>5. QED
  BY <1>2, <1>3, <1>4 DEF PrepareEntry

\* The run refers to the decision: not yet committed, it is not in force, and
\* committed by an earlier attempt it was referred to already.
LEMMA LinkHolds == ASSUME IInv, LinkDecision PROVE IInv'
<1> DEFINE d == recording.of
<1> USE DEF LinkDecision
<1>1. /\ d \in Decisions /\ ScopeOf[d] = "task" /\ entries[d] # "absent"
      /\ recording.made <= recording.at /\ recording.at <= clock
  BY DEF IInv, RecordingInv
<1>2. AuthTypeOK'
  BY <1>1 DEF IInv, AuthTypeOK
<1>3. RecordingInv'
  <2>1. /\ recording'.of = d /\ recording'.made = recording.made
        /\ recording'.at = recording.at /\ recording'.step = "commit"
    BY DEF IInv, AuthTypeOK
  <2>2. QED
    BY <2>1 DEF IInv, RecordingInv, GloballyAvailable, SingleAction
<1>4. ConfirmedFirst' /\ LinkedFirst' /\ SingleActionOnce'
  BY DEF IInv, ConfirmedFirst, LinkedFirst, SingleActionOnce, SingleAction
<1>5. ActiveDecisionsAgree'
  <2>1. \A e \in Decisions : Visible(e)' => Visible(e)
    BY DEF IInv, LinkedFirst, Visible
  <2>2. \A e \in Decisions : endedAt'[e] <= endedAt[e]
    BY AuthorizationAssumption DEF IInv, AuthTypeOK, Times, Never
  <2>3. clock <= clock'
    BY AuthorizationAssumption DEF IInv, AuthTypeOK, Times
  <2>4. QED
    BY <1>2, <2>1, <2>2, <2>3, AgreementKept
<1>6. QED
  BY <1>2, <1>3, <1>4, <1>5 DEF IInv

\* A decision that takes effect ends what another binding has in force: what
\* was not in force when the recording took the lock is not in force later.
LEMMA EffectAgrees ==
  ASSUME IInv, AuthTypeOK', NEW d \in Decisions, clock' = clock,
         recording.at \in Times, recording.at <= clock,
         \A e \in Decisions \ {d} : Visible(e)' => Visible(e),
         \A e \in Decisions : endedAt'[e] <= endedAt[e],
         \A e \in Decisions : entries[e] # "absent" => decidedAt'[e] = decidedAt[e],
         \A e \in Decisions \ {d} :
           /\ StreamOf[e] = StreamOf[d] /\ Visible(e)
           /\ Active(e, recording.at) /\ BindingChange(e, d)
           => endedAt'[e] <= recording.at
  PROVE  ActiveDecisionsAgree'
<1>1. ASSUME NEW e \in Decisions \ {d}, Visible(e)', Active(e, clock)'
      PROVE  Visible(e) /\ Active(e, clock) /\ Active(e, recording.at)
  <2>1. Visible(e) /\ entries[e] # "absent"
    BY <1>1 DEF Visible
  <2>2. clock \in Times /\ clock \in Nat
    BY AuthorizationAssumption DEF IInv, AuthTypeOK, Times
  <2>3. /\ endedAt'[e] <= endedAt[e]
        /\ decidedAt'[e] = decidedAt[e]
        /\ SingleAction(e) => /\ ConfirmOf[e] \in Decisions
                              /\ decidedAt'[ConfirmOf[e]] = decidedAt[ConfirmOf[e]]
    BY <2>1, ExpiryKept
  <2>4. Active(e, clock)
    BY <1>1, <2>2, <2>3, ActiveBefore DEF IInv
  <2>5. Active(e, recording.at)
    BY <1>1, <2>2, <2>3, ActiveBefore DEF IInv
  <2>6. QED
    BY <2>1, <2>4, <2>5
<1>2. ASSUME NEW e \in Decisions \ {d}, StreamOf[e] = StreamOf[d],
             Visible(e)', Active(e, clock)'
      PROVE  ~BindingChange(e, d)
  <2>1. ~(endedAt'[e] <= recording.at)
    BY <1>2, AuthorizationAssumption DEF Active, AuthTypeOK, Times, Never
  <2>2. QED
    BY <1>1, <1>2, <2>1
<1>3. SUFFICES ASSUME NEW e \in Decisions, NEW f \in Decisions,
                      StreamOf[e] = StreamOf[f],
                      Visible(e)', Active(e, clock)', Visible(f)', Active(f, clock)'
               PROVE  ~BindingChange(e, f)
  BY DEF ActiveDecisionsAgree, BindingChange
<1>4. CASE e # d /\ f # d
  BY <1>1, <1>3, <1>4 DEF IInv, ActiveDecisionsAgree
<1>5. CASE e = d \/ f = d
  BY <1>2, <1>3, <1>5 DEF BindingChange
<1>6. QED
  BY <1>4, <1>5

LEMMA EndsForward ==
  ASSUME AuthTypeOK, NEW ends, NEW at \in Times,
         \A e \in Decisions : e \in ends => at <= endedAt[e]
  PROVE  /\ EndedAt(ends, at) \in [Decisions -> 0..Never]
         /\ \A e \in Decisions :
              /\ EndedAt(ends, at)[e] = IF e \in ends THEN at ELSE endedAt[e]
              /\ EndedAt(ends, at)[e] <= endedAt[e]
BY AuthorizationAssumption DEF AuthTypeOK, EndedAt, Times, Never

\* A decision that is ended was in force at t, later than the one that ends it.
LEMMA InvalidatedLater ==
  ASSUME AuthTypeOK, NEW in, NEW d, NEW t \in Times, NEW at \in Times, at <= t
  PROVE  \A e \in Decisions : e \in Invalidated(in, d, t) => at <= endedAt[e]
BY AuthorizationAssumption DEF AuthTypeOK, Invalidated, Active, Times, Never

LEMMA CommitHolds == ASSUME IInv, CommitEntry PROVE IInv'
<1> DEFINE d == recording.of
           t == recording.at
           ends == Invalidated({e \in InStream(d) : entries[e] = "committed"}, d, t)
           stale == /\ LaterBoundary(InStream(d) \ {d}, decidedAt[d], t)
                    /\ ~NaturallyExpired(d, t)
                    /\ endedAt[d] = Never
<1>1. /\ recording.step = "commit" /\ recording' = NoRecording
      /\ UNCHANGED <<decidedAt, linked, held, clock>>
  BY DEF CommitEntry
<1>2. /\ d \in Decisions /\ ScopeOf[d] = "task" /\ entries[d] # "absent" /\ d \in linked
      /\ decidedAt[d] <= t /\ t <= clock /\ t \in Times
  BY <1>1 DEF IInv, RecordingInv, AuthTypeOK
<1>3. CASE UNCHANGED <<entries, endedAt>>
  BY <1>1, <1>3, StopHolds DEF IInv, AuthTypeOK, stored
<1>4. CASE /\ entries' = [entries EXCEPT ![d] = "committed"]
           /\ endedAt' = [EndedAt(ends, decidedAt[d]) EXCEPT ![d] = IF stale THEN t ELSE @]
  <2>1. \A e \in Decisions : entries'[e] # "absent" <=> entries[e] # "absent"
    BY <1>2, <1>4 DEF IInv, AuthTypeOK
  <2>2. d \notin ends
    BY DEF Invalidated, BindingChange
  <2>3. /\ EndedAt(ends, decidedAt[d]) \in [Decisions -> 0..Never]
        /\ \A e \in Decisions :
             /\ EndedAt(ends, decidedAt[d])[e] =
                  IF e \in ends THEN decidedAt[d] ELSE endedAt[e]
             /\ EndedAt(ends, decidedAt[d])[e] <= endedAt[e]
    BY <1>2, InvalidatedLater, EndsForward DEF IInv, AuthTypeOK
  <2>4. /\ endedAt' \in [Decisions -> 0..Never]
        /\ \A e \in Decisions : endedAt'[e] <= endedAt[e]
        /\ \A e \in ends : e \in Decisions => endedAt'[e] = decidedAt[d]
    <3> DEFINE ended == EndedAt(ends, decidedAt[d])
    <3>1. t \in 0..Never /\ t <= Never
      BY <1>2, AuthorizationAssumption DEF Times, Never
    <3>2. endedAt' = [ended EXCEPT ![d] = IF stale THEN t ELSE @]
      BY <1>4
    <3>3. stale => endedAt[d] = Never
      OBVIOUS
    <3> HIDE DEF ended, ends, stale
    <3>4. ended \in [Decisions -> 0..Never] /\ \A e \in Decisions : ended[e] <= endedAt[e]
      BY <2>3 DEF ended
    <3>5. endedAt' \in [Decisions -> 0..Never]
      BY <3>1, <3>2, <3>4
    <3>6. \A e \in Decisions : endedAt'[e] <= endedAt[e]
      BY <1>2, <3>1, <3>2, <3>3, <3>4
    <3>7. \A e \in ends : e \in Decisions => endedAt'[e] = decidedAt[d]
      BY <2>2, <2>3, <3>2, <3>4 DEF ended
    <3>8. QED
      BY <3>5, <3>6, <3>7
  <2>5. AuthTypeOK'
    <3>1. endedAt' \in [Decisions -> 0..Never]
      BY <2>4
    <3>2. entries' \in [Decisions -> {"absent", "prepared", "committed"}]
      BY <1>2, <1>4 DEF IInv, AuthTypeOK
    <3>3. recording' \in [of : Decisions \cup {NoDecision},
                          step : {"none", "prepare", "link", "commit"},
                          made : Times, at : Times]
      BY <1>1, AuthorizationAssumption DEF NoRecording, Times
    <3>4. QED
      BY <1>1, <2>1, <3>1, <3>2, <3>3 DEF IInv, AuthTypeOK
  <2>6. RecordingInv'
    BY <1>1 DEF RecordingInv, NoRecording
  <2>7. ConfirmedFirst' /\ SingleActionOnce'
    BY <2>1, AuthorizationAssumption
       DEF IInv, ConfirmedFirst, SingleActionOnce, SingleAction
  <2>8. LinkedFirst'
    BY <1>1, <1>2, <1>4 DEF IInv, LinkedFirst, AuthTypeOK
  <2>9. ActiveDecisionsAgree'
    <3>1. \A e \in Decisions \ {d} : Visible(e)' => Visible(e)
      BY <1>1, <1>2, <1>4 DEF IInv, AuthTypeOK, Visible
    <3>2. ASSUME NEW e \in Decisions \ {d}, StreamOf[e] = StreamOf[d], Visible(e),
                 Active(e, t), BindingChange(e, d)
          PROVE  endedAt'[e] <= t
      <4>1. e \in ends
        BY <3>2 DEF Invalidated, InStream, Visible
      <4>2. QED
        BY <1>2, <2>4, <4>1
    <3>3. QED
      BY <1>1, <1>2, <2>4, <2>5, <3>1, <3>2, EffectAgrees
  <2>10. QED
    BY <2>5, <2>6, <2>7, <2>8, <2>9 DEF IInv
<1>5. QED
  BY <1>3, <1>4 DEF CommitEntry

LEMMA EnvironmentHolds == ASSUME IInv, RecordEnvironment PROVE IInv'
<1> DEFINE d == recording.of
           t == recording.at
           ends == Invalidated({e \in InStream(d) : Visible(e)}, d, t)
<1>1. /\ recording.step = "prepare" /\ recording' = NoRecording
      /\ ScopeOf[d] = "environment"
      /\ UNCHANGED <<linked, held, clock>>
  BY DEF RecordEnvironment
<1>2. /\ d \in Decisions /\ recording.made <= t /\ t <= clock
      /\ t \in Times /\ recording.made \in Times
  BY <1>1 DEF IInv, RecordingInv, AuthTypeOK
<1>3. CASE UNCHANGED <<entries, decidedAt, endedAt>>
  BY <1>1, <1>3, StopHolds DEF IInv, AuthTypeOK, stored
<1>4. CASE /\ entries[d] = "absent"
           /\ entries' = [entries EXCEPT ![d] = "committed"]
           /\ decidedAt' = [decidedAt EXCEPT ![d] = recording.made]
           /\ endedAt' = EndedAt(ends, recording.made)
  <2>1. /\ entries' \in [Decisions -> {"absent", "prepared", "committed"}]
        /\ decidedAt' \in [Decisions -> Times]
        /\ linked' \subseteq {e \in Decisions : ScopeOf[e] = "task" /\ entries'[e] # "absent"}
        /\ ConfirmedFirst' /\ LinkedFirst' /\ SingleActionOnce'
    BY <1>1, <1>2, <1>4, EntryWritten
  <2>2. /\ endedAt' \in [Decisions -> 0..Never]
        /\ \A e \in Decisions : endedAt'[e] <= endedAt[e]
        /\ \A e \in ends : e \in Decisions => endedAt'[e] = recording.made
    BY <1>2, <1>4, InvalidatedLater, EndsForward DEF IInv, AuthTypeOK
  <2>4. AuthTypeOK'
    <3>1. endedAt' \in [Decisions -> 0..Never]
      BY <2>2
    <3>2. recording' \in [of : Decisions \cup {NoDecision},
                          step : {"none", "prepare", "link", "commit"},
                          made : Times, at : Times]
      BY <1>1, AuthorizationAssumption DEF NoRecording, Times
    <3>3. QED
      BY <1>1, <2>1, <3>1, <3>2 DEF IInv, AuthTypeOK
  <2>5. RecordingInv'
    BY <1>1 DEF RecordingInv, NoRecording
  <2>6. ActiveDecisionsAgree'
    <3>1. \A e \in Decisions \ {d} : Visible(e)' => Visible(e)
      BY <1>1, <1>2, <1>4 DEF IInv, AuthTypeOK, Visible
    <3>2. \A e \in Decisions : entries[e] # "absent" => decidedAt'[e] = decidedAt[e]
      BY <1>2, <1>4 DEF IInv, AuthTypeOK
    <3>3. ASSUME NEW e \in Decisions \ {d}, StreamOf[e] = StreamOf[d], Visible(e),
                 Active(e, t), BindingChange(e, d)
          PROVE  endedAt'[e] <= t
      <4>1. e \in ends
        BY <3>3 DEF Invalidated, InStream, Visible
      <4>2. QED
        BY <1>2, <2>2, <4>1
    <3>4. QED
      BY <1>1, <1>2, <2>2, <2>4, <3>1, <3>2, <3>3, EffectAgrees
  <2>7. QED
    BY <2>1, <2>4, <2>5, <2>6 DEF IInv
<1>5. QED
  BY <1>3, <1>4 DEF RecordEnvironment

\* A decision in force is ended before anything else would end it.
LEMMA InvalidateHolds ==
  ASSUME IInv, NEW d \in Decisions, Invalidate(d) PROVE IInv'
<1> USE DEF Invalidate
<1>1. clock \in Nat /\ clock <= MaxTime /\ MaxTime \in Nat
  BY AuthorizationAssumption DEF IInv, AuthTypeOK, Times
<1>2. \A e \in Decisions : endedAt'[e] <= endedAt[e] /\ endedAt'[e] \in 0..Never
  BY <1>1 DEF IInv, AuthTypeOK, Never, Active
<1>3. AuthTypeOK'
  BY <1>1, <1>2 DEF IInv, AuthTypeOK
<1>4. RecordingInv'
  BY DEF RecordingInv, NoRecording
<1>5. ConfirmedFirst' /\ LinkedFirst' /\ SingleActionOnce'
  BY DEF IInv, ConfirmedFirst, LinkedFirst, SingleActionOnce, SingleAction
<1>6. ActiveDecisionsAgree'
  <2>1. clock <= clock' /\ \A e \in Decisions : Visible(e)' => Visible(e)
    BY <1>1 DEF Visible
  <2>2. QED
    BY <1>2, <1>3, <2>1, AgreementKept
<1>7. QED
  BY <1>3, <1>4, <1>5, <1>6 DEF IInv

LEMMA NextHolds == IInv /\ [AuthNext]_authVars => IInv'
<1> SUFFICES ASSUME IInv, [AuthNext]_authVars PROVE IInv'
  OBVIOUS
<1>1. CASE Tick
  BY <1>1, TickHolds
<1>2. CASE PrepareEntry
  BY <1>2, PrepareHolds
<1>3. CASE LinkDecision
  BY <1>3, LinkHolds
<1>4. CASE CommitEntry
  BY <1>4, CommitHolds
<1>5. CASE RecordEnvironment
  BY <1>5, EnvironmentHolds
<1>6. CASE RecordingFails \/ AuthCrash
  BY <1>6, StopHolds DEF RecordingFails, AuthCrash, IInv, AuthTypeOK
<1>7. CASE \E d \in Decisions : Invalidate(d)
  BY <1>7, InvalidateHolds
<1>8. CASE \E d \in Decisions : \E made \in Times : BeginRecording(d, made)
  BY <1>8, BeginHolds
<1>9. CASE UNCHANGED authVars
  <2>1. RecordingInv'
    BY <1>9 DEF authVars, stored, IInv, RecordingInv, GloballyAvailable, SingleAction
  <2>2. QED
    BY <1>9, <2>1, NothingStored DEF authVars, stored, IInv, AuthTypeOK
<1>10. QED
  BY <1>1, <1>2, <1>3, <1>4, <1>5, <1>6, <1>7, <1>8, <1>9 DEF AuthNext

THEOREM Invariance == AuthSpec => []IInv
<1>1. AuthInit => IInv
  BY InitHolds
<1>2. IInv /\ [AuthNext]_authVars => IInv'
  BY NextHolds
<1>3. QED
  BY <1>1, <1>2, PTL DEF AuthSpec

\* The journals, the runs' references and the recording are what the code
\* declares them to be; a run refers to nothing that has no entry.
THEOREM DecisionsTyped == AuthSpec => []AuthTypeOK
<1>1. IInv => AuthTypeOK
  BY DEF IInv
<1>2. QED
  BY <1>1, Invariance, PTL

\* An action is answered once, in whatever stream, however many recordings of
\* an answer are interrupted and tried again.
THEOREM AnsweredOnce == AuthSpec => []SingleActionOnce
<1>1. IInv => SingleActionOnce
  BY DEF IInv
<1>2. QED
  BY <1>1, Invariance, PTL

\* The decisions in force in a stream agree at all times, with expiries,
\* invalidations, failed writes and crashes between any two writes.
THEOREM InForceAgree == AuthSpec => []ActiveDecisionsAgree
<1>1. IInv => ActiveDecisionsAgree
  BY DEF IInv
<1>2. QED
  BY <1>1, Invariance, PTL

---------------------------------------------------------------------------
(***************************************************************************)
(* The slots of the owner-reference checks are accounted for, for any      *)
(* checks and any number of slots.  That a slot is handed over to one      *)
(* check only depends on the queue: each check stands in it once, and is   *)
(* waiting.                                                                *)
(***************************************************************************)
Positions(s) == 1..Len(s)

\* The queue holds waiting checks, each of them once.
QueueInv ==
  /\ \A i \in Positions(waiters) : check[waiters[i]] = "waiting"
  /\ \A i, j \in Positions(waiters) : waiters[i] = waiters[j] => i = j

ChecksInv ==
  /\ ChecksTypeOK
  /\ QueueInv
  /\ IsFiniteSet(Holders)
  /\ SlotsAccounted

\* What is left of a queue after its first n entries, or after one of them.
LEMMA QueueTail ==
  ASSUME NEW s \in Seq(Checks), NEW n \in 1..(Len(s) + 1)
  PROVE  LET q == SubSeq(s, n + 1, Len(s)) IN
         /\ q \in Seq(Checks)
         /\ Len(q) = IF n < Len(s) THEN Len(s) - n ELSE 0
         /\ \A i \in Positions(q) : q[i] = s[i + n] /\ i + n \in Positions(s)
BY DEF Positions

LEMMA QueueWithout ==
  ASSUME NEW s \in Seq(Checks), NEW n \in Positions(s)
  PROVE  LET q == RemoveAt(s, n) IN
         /\ q \in Seq(Checks)
         /\ Len(q) = Len(s) - 1
         /\ \A i \in Positions(q) : q[i] = s[IF i < n THEN i ELSE i + 1]
<1> DEFINE head == SubSeq(s, 1, n - 1)
           tail == SubSeq(s, n + 1, Len(s))
<1>1. /\ head \in Seq(Checks) /\ Len(head) = n - 1
      /\ \A i \in 1..(n - 1) : head[i] = s[i]
  BY DEF Positions
<1>2. /\ tail \in Seq(Checks) /\ Len(tail) = Len(s) - n
      /\ \A i \in 1..(Len(s) - n) : tail[i] = s[i + n]
  BY DEF Positions
<1> HIDE DEF head, tail
<1>3. /\ head \o tail \in Seq(Checks) /\ Len(head \o tail) = Len(s) - 1
      /\ \A i \in 1..(Len(s) - 1) :
           (head \o tail)[i] = IF i < n THEN head[i] ELSE tail[i - (n - 1)]
  <2>1. Len(s) \in Nat /\ n \in Nat /\ n <= Len(s) /\ n >= 1
    BY DEF Positions
  <2>2. head \o tail \in Seq(Checks) /\ Len(head \o tail) = Len(head) + Len(tail)
    BY <1>1, <1>2
  <2>3. \A i \in 1..(Len(head) + Len(tail)) :
          (head \o tail)[i] = IF i <= Len(head) THEN head[i] ELSE tail[i - Len(head)]
    BY <1>1, <1>2
  <2>4. QED
    BY <1>1, <1>2, <2>1, <2>2, <2>3
<1>4. \A i \in 1..(Len(s) - 1) : (head \o tail)[i] = s[IF i < n THEN i ELSE i + 1]
  <2> SUFFICES ASSUME NEW i \in 1..(Len(s) - 1)
               PROVE  (head \o tail)[i] = s[IF i < n THEN i ELSE i + 1]
    OBVIOUS
  <2>1. CASE i < n
    BY <1>1, <1>3, <2>1 DEF Positions
  <2>2. CASE ~(i < n)
    <3>1. i - (n - 1) \in 1..(Len(s) - n) /\ (i - (n - 1)) + n = i + 1
      BY <2>2 DEF Positions
    <3>2. QED
      BY <1>2, <1>3, <2>2, <3>1
  <2>3. QED
    BY <2>1, <2>2
<1>5. QED
  BY <1>3, <1>4 DEF RemoveAt, Positions, head, tail

LEMMA ChecksInitHold == ChecksInit => ChecksInv
BY FS_EmptySet, SlotsAssumption
   DEF ChecksInit, ChecksInv, ChecksTypeOK, QueueInv, Positions, Holders, SlotsAccounted

\* A step that changes no holder of a slot, and no position in the queue.
LEMMA HoldersKept ==
  ASSUME ChecksInv, ChecksTypeOK', QueueInv', Holders' = Holders, slotsUsed' = slotsUsed,
         waiters' # <<>> => slotsUsed = Slots
  PROVE  ChecksInv'
BY DEF ChecksInv, SlotsAccounted

LEMMA DeadlineHolds ==
  ASSUME ChecksInv, NEW c \in Checks, DeadlinePasses(c) PROVE ChecksInv'
<1> USE DEF DeadlinePasses
<1>1. ChecksTypeOK' /\ QueueInv'
  BY DEF ChecksInv, ChecksTypeOK, QueueInv
<1>2. Holders' = Holders /\ (waiters' # <<>> => slotsUsed = Slots)
  BY DEF Holders, ChecksInv, SlotsAccounted
<1>3. QED
  BY <1>1, <1>2, HoldersKept

LEMMA AcquireHolds ==
  ASSUME ChecksInv, NEW c \in Checks, Acquire(c) PROVE ChecksInv'
<1>1. /\ check \in [Checks ->
            {"new", "waiting", "granted", "asking", "detached", "timedOut", "answered"}]
      /\ waiters \in Seq(Checks) /\ slotsUsed \in Nat /\ late \subseteq Checks
      /\ check[c] = "new" /\ late' = late
      /\ Slots \in Nat /\ slotsUsed <= Slots
  BY SlotsAssumption DEF ChecksInv, ChecksTypeOK, SlotsAccounted, Acquire
<1>2. \A i \in Positions(waiters) : waiters[i] # c
  BY <1>1 DEF ChecksInv, QueueInv
<1>3. CASE /\ check' = [check EXCEPT ![c] = "timedOut"]
           /\ UNCHANGED <<waiters, slotsUsed>>
  <2>1. ChecksTypeOK' /\ QueueInv'
    BY <1>1, <1>2, <1>3 DEF ChecksInv, ChecksTypeOK, QueueInv, Positions
  <2>2. Holders' = Holders /\ (waiters' # <<>> => slotsUsed = Slots)
    BY <1>1, <1>3 DEF Holders, ChecksInv, SlotsAccounted
  <2>3. QED
    BY <1>3, <2>1, <2>2, HoldersKept
<1>4. CASE /\ slotsUsed < Slots
           /\ check' = [check EXCEPT ![c] = "granted"]
           /\ slotsUsed' = slotsUsed + 1
           /\ UNCHANGED waiters
  <2>1. ChecksTypeOK' /\ QueueInv'
    BY <1>1, <1>2, <1>4 DEF ChecksInv, ChecksTypeOK, QueueInv, Positions
  <2>2. Holders' = Holders \cup {c} /\ c \notin Holders
    BY <1>1, <1>4 DEF Holders
  <2>3. IsFiniteSet(Holders') /\ Cardinality(Holders') = Cardinality(Holders) + 1
    BY <2>2, FS_AddElement DEF ChecksInv
  <2>4. QED
    BY <1>1, <1>4, <2>1, <2>3 DEF ChecksInv, SlotsAccounted
<1>5. CASE /\ slotsUsed >= Slots
           /\ check' = [check EXCEPT ![c] = "waiting"]
           /\ waiters' = Append(waiters, c)
           /\ UNCHANGED slotsUsed
  <2>1. ChecksTypeOK'
    BY <1>1, <1>5 DEF ChecksTypeOK
  <2>2. QueueInv'
    <3>1. /\ Len(waiters') = Len(waiters) + 1
          /\ \A i \in Positions(waiters') :
               waiters'[i] = IF i \in Positions(waiters) THEN waiters[i] ELSE c
          /\ \A i \in Positions(waiters') \ Positions(waiters) : i = Len(waiters')
      BY <1>1, <1>5 DEF Positions
    <3>2. \A i \in Positions(waiters) : check'[waiters[i]] = "waiting"
      BY <1>1, <1>2, <1>5 DEF ChecksInv, QueueInv, Positions
    <3>3. check'[c] = "waiting"
      BY <1>1, <1>5
    <3>4. QED
      BY <1>2, <3>1, <3>2, <3>3 DEF ChecksInv, QueueInv
  <2>3. Holders' = Holders
    BY <1>1, <1>5 DEF Holders
  <2>4. QED
    BY <1>1, <1>5, <2>1, <2>2, <2>3, HoldersKept
<1>6. QED
  BY <1>3, <1>4, <1>5 DEF Acquire

LEMMA WaiterHolds ==
  ASSUME ChecksInv, NEW c \in Checks, WaiterTimesOut(c) PROVE ChecksInv'
<1>1. /\ check \in [Checks ->
            {"new", "waiting", "granted", "asking", "detached", "timedOut", "answered"}]
      /\ waiters \in Seq(Checks) /\ slotsUsed \in Nat /\ late \subseteq Checks
      /\ check[c] = "waiting" /\ check' = [check EXCEPT ![c] = "timedOut"]
      /\ late' = late /\ slotsUsed' = slotsUsed
  BY DEF ChecksInv, ChecksTypeOK, WaiterTimesOut
<1>2. PICK n \in Positions(waiters) : waiters[n] = c /\ waiters' = RemoveAt(waiters, n)
  BY <1>1 DEF WaiterTimesOut, Positions
<1>3. /\ waiters' \in Seq(Checks)
      /\ Len(waiters') = Len(waiters) - 1
      /\ \A i \in Positions(waiters') :
           waiters'[i] = waiters[IF i < n THEN i ELSE i + 1]
  BY <1>1, <1>2, QueueWithout
<1>4. ChecksTypeOK'
  BY <1>1, <1>3 DEF ChecksTypeOK
<1>5. QueueInv'
  <2>1. \A i \in Positions(waiters') :
          LET k == IF i < n THEN i ELSE i + 1 IN k \in Positions(waiters) /\ k # n
    BY <1>1, <1>2, <1>3 DEF Positions
  <2>2. \A i, j \in Positions(waiters') :
          (IF i < n THEN i ELSE i + 1) = (IF j < n THEN j ELSE j + 1) => i = j
    BY <1>2 DEF Positions
  <2>3. \A k \in Positions(waiters) : k # n => waiters[k] # c /\ waiters[k] \in Checks
    BY <1>1, <1>2 DEF ChecksInv, QueueInv, Positions
  <2>4. \A i \in Positions(waiters') : check'[waiters'[i]] = "waiting"
    BY <1>1, <1>3, <2>1, <2>3 DEF ChecksInv, QueueInv
  <2>5. \A i, j \in Positions(waiters') : waiters'[i] = waiters'[j] => i = j
    BY <1>3, <2>1, <2>2 DEF ChecksInv, QueueInv
  <2>6. QED
    BY <2>4, <2>5 DEF QueueInv
<1>6. Holders' = Holders
  BY <1>1 DEF Holders
<1>7. slotsUsed = Slots
  BY <1>1, <1>2 DEF ChecksInv, SlotsAccounted, Positions
<1>8. QED
  BY <1>1, <1>4, <1>5, <1>6, <1>7, HoldersKept

\* The slot of a check that ends goes to the first waiter that has time left,
\* or is free if there is none; then nobody is left waiting.
LEMMA ReleaseHolds ==
  ASSUME ChecksInv, NEW c \in Holders, NEW result \in {"timedOut", "answered"},
         Release(c, result)
  PROVE  ChecksInv'
<1>1. /\ check \in [Checks ->
            {"new", "waiting", "granted", "asking", "detached", "timedOut", "answered"}]
      /\ waiters \in Seq(Checks) /\ slotsUsed \in Nat /\ late \subseteq Checks
      /\ c \in Checks /\ check[c] \in {"granted", "asking", "detached"}
      /\ Slots \in Nat /\ slotsUsed <= Slots /\ slotsUsed = Cardinality(Holders)
      /\ IsFiniteSet(Holders)
      /\ waiters # <<>> => slotsUsed = Slots
  BY SlotsAssumption DEF ChecksInv, ChecksTypeOK, SlotsAccounted, Holders
<1> DEFINE Woken(n) == {waiters[i] : i \in {n + 1} \cap DOMAIN waiters}
<1>2. PICK n \in 0..Len(waiters) :
        /\ check' = [x \in Checks |->
             IF x = c THEN result
             ELSE IF \E i \in 1..n : waiters[i] = x THEN "timedOut"
             ELSE IF x \in Woken(n) THEN "granted"
             ELSE check[x]]
        /\ waiters' = SubSeq(waiters, n + 2, Len(waiters))
        /\ slotsUsed' = IF Woken(n) = {} THEN slotsUsed - 1 ELSE slotsUsed
        /\ late' = late
  BY DEF Release
<1>3. /\ waiters' \in Seq(Checks)
      /\ Len(waiters') = IF n + 1 < Len(waiters) THEN Len(waiters) - (n + 1) ELSE 0
      /\ \A i \in Positions(waiters') :
           waiters'[i] = waiters[i + (n + 1)] /\ i + (n + 1) \in Positions(waiters)
  <2>1. n + 1 \in 1..(Len(waiters) + 1) /\ (n + 1) + 1 = n + 2
    BY <1>1
  <2>2. QED
    BY <1>1, <1>2, <2>1, QueueTail
<1>4. \A i \in Positions(waiters) : check[waiters[i]] = "waiting" /\ waiters[i] \in Checks
  BY <1>1 DEF ChecksInv, QueueInv, Positions
<1>5. Woken(n) = IF n < Len(waiters) THEN {waiters[n + 1]} ELSE {}
  BY <1>1 DEF Positions
<1> HIDE DEF Woken
<1>6. QueueInv'
  <2>1. \A i \in Positions(waiters') : check'[waiters'[i]] = "waiting"
    <3> SUFFICES ASSUME NEW i \in Positions(waiters') PROVE check'[waiters'[i]] = "waiting"
      OBVIOUS
    <3> DEFINE k == i + (n + 1)
    <3>1. k \in Positions(waiters) /\ waiters'[i] = waiters[k]
      BY <1>3
    <3>2. waiters[k] # c /\ waiters[k] \in Checks /\ check[waiters[k]] = "waiting"
      BY <1>1, <1>4, <3>1
    <3>3. ~\E j \in 1..n : waiters[j] = waiters[k]
      BY <1>1, <3>1 DEF ChecksInv, QueueInv, Positions
    <3>4. waiters[k] \notin Woken(n)
      BY <1>1, <1>5, <3>1 DEF ChecksInv, QueueInv, Positions
    <3>5. QED
      BY <1>2, <3>1, <3>2, <3>3, <3>4
  <2>2. \A i, j \in Positions(waiters') : waiters'[i] = waiters'[j] => i = j
    BY <1>1, <1>3 DEF ChecksInv, QueueInv, Positions
  <2>3. QED
    BY <2>1, <2>2 DEF QueueInv
<1>7. Holders' = (Holders \ {c}) \cup Woken(n)
  <2>1. \A i \in 1..n : waiters[i] \notin Holders /\ waiters[i] \notin Woken(n)
    BY <1>1, <1>4, <1>5 DEF Holders, Positions, ChecksInv, QueueInv
  <2>2. Woken(n) \subseteq Checks \ Holders
    BY <1>1, <1>4, <1>5 DEF Holders, Positions
  <2>3. \A x \in Checks : x \in Holders' <=> x \in (Holders \ {c}) \cup Woken(n)
    BY <1>1, <1>2, <2>1, <2>2 DEF Holders
  <2>4. QED
    BY <2>2, <2>3 DEF Holders
<1>8. ChecksTypeOK'
  <2>1. check' \in [Checks ->
          {"new", "waiting", "granted", "asking", "detached", "timedOut", "answered"}]
    BY <1>1, <1>2
  <2>2. slotsUsed > 0
    BY <1>1, FS_EmptySet
  <2>3. QED
    BY <1>1, <1>2, <1>3, <2>1, <2>2 DEF ChecksTypeOK
<1>9. IsFiniteSet(Holders \ {c}) /\ Cardinality(Holders \ {c}) = slotsUsed - 1
  BY <1>1, FS_RemoveElement
<1>10. CASE n < Len(waiters)
  <2>1. Woken(n) = {waiters[n + 1]} /\ slotsUsed' = slotsUsed
    BY <1>2, <1>5, <1>10
  <2>2. waiters[n + 1] \notin Holders /\ waiters # <<>>
    BY <1>1, <1>4, <1>10 DEF Holders, Positions
  <2>3. IsFiniteSet(Holders') /\ Cardinality(Holders') = (slotsUsed - 1) + 1
    BY <1>7, <1>9, <2>1, <2>2, FS_AddElement
  <2>4. QED
    BY <1>1, <1>6, <1>8, <2>1, <2>2, <2>3 DEF ChecksInv, SlotsAccounted
<1>11. CASE ~(n < Len(waiters))
  <2>1. Woken(n) = {} /\ slotsUsed' = slotsUsed - 1 /\ waiters' = <<>>
    BY <1>1, <1>2, <1>3, <1>5, <1>11
  <2>2. Holders' = Holders \ {c}
    BY <1>7, <2>1
  <2>3. QED
    BY <1>1, <1>6, <1>8, <1>9, <2>1, <2>2 DEF ChecksInv, SlotsAccounted
<1>12. QED
  BY <1>10, <1>11

\* A check that goes on with its slot, or leaves it to its call.
LEMMA SlotKept ==
  ASSUME ChecksInv, NEW c \in Holders, NEW state \in {"asking", "detached"},
         check' = [check EXCEPT ![c] = state], UNCHANGED <<waiters, slotsUsed, late>>
  PROVE  ChecksInv'
<1>1. /\ check \in [Checks ->
            {"new", "waiting", "granted", "asking", "detached", "timedOut", "answered"}]
      /\ c \in Checks /\ check[c] \in {"granted", "asking", "detached"}
  BY DEF ChecksInv, ChecksTypeOK, Holders
<1>2. ChecksTypeOK'
  BY <1>1 DEF ChecksInv, ChecksTypeOK
<1>3. QueueInv'
  BY <1>1 DEF ChecksInv, ChecksTypeOK, QueueInv, Positions
<1>4. Holders' = Holders
  BY <1>1 DEF Holders
<1>5. QED
  BY <1>2, <1>3, <1>4, HoldersKept DEF ChecksInv, SlotsAccounted

LEMMA ChecksNextHold == ChecksInv /\ [ChecksNext]_checkVars => ChecksInv'
<1> SUFFICES ASSUME ChecksInv, [ChecksNext]_checkVars PROVE ChecksInv'
  OBVIOUS
<1>1. ASSUME NEW c \in Checks, DeadlinePasses(c) PROVE ChecksInv'
  BY <1>1, DeadlineHolds
<1>2. ASSUME NEW c \in Checks, Acquire(c) PROVE ChecksInv'
  BY <1>2, AcquireHolds
<1>3. ASSUME NEW c \in Checks, WaiterTimesOut(c) PROVE ChecksInv'
  BY <1>3, WaiterHolds
<1>4. ASSUME NEW c \in Checks, Granted(c) PROVE ChecksInv'
  <2>1. c \in Holders
    BY <1>4 DEF Granted, Holders
  <2>2. QED
    BY <1>4, <2>1, ReleaseHolds, SlotKept DEF Granted
<1>5. ASSUME NEW c \in Checks, CallerTimesOut(c) PROVE ChecksInv'
  BY <1>5, SlotKept DEF CallerTimesOut, Holders
<1>6. ASSUME NEW c \in Checks, OwnerAnswers(c) PROVE ChecksInv'
  <2>1. c \in Holders
    BY <1>6 DEF OwnerAnswers, Holders
  <2>2. QED
    BY <1>6, <2>1, ReleaseHolds DEF OwnerAnswers
<1>7. CASE UNCHANGED checkVars
  BY <1>7 DEF checkVars, ChecksInv, ChecksTypeOK, QueueInv, Holders, SlotsAccounted
<1>8. QED
  BY <1>1, <1>2, <1>3, <1>4, <1>5, <1>6, <1>7 DEF ChecksNext

THEOREM ChecksInvariance == ChecksSpec => []ChecksInv
<1>1. ChecksInit => ChecksInv
  BY ChecksInitHold
<1>2. ChecksInv /\ [ChecksNext]_checkVars => ChecksInv'
  BY ChecksNextHold
<1>3. QED
  BY <1>1, <1>2, PTL DEF ChecksSpec

\* The checks, the queue, the count of slots and the deadlines have their types.
THEOREM ChecksTyped == ChecksSpec => []ChecksTypeOK
<1>1. ChecksInv => ChecksTypeOK
  BY DEF ChecksInv
<1>2. QED
  BY <1>1, ChecksInvariance, PTL

\* No slot of a check is lost or given twice, and nobody waits while one is
\* free, for any number of checks and slots.
THEOREM SlotsAreAccounted == ChecksSpec => []SlotsAccounted
<1>1. ChecksInv => SlotsAccounted
  BY DEF ChecksInv
<1>2. QED
  BY <1>1, ChecksInvariance, PTL

=============================================================================
