----------------------------- MODULE Sessions_proofs -------------------------
(***************************************************************************)
(* Who may touch what in Harbor. CacheOwnership, for any number of runtimes*)
(* and of deaths: as long as no living owner's lease runs out, one runtime *)
(* at most owns the cache; of two published claims one has been, or is yet *)
(* to be, read by the other's contender check, and nobody moves a living   *)
(* owner's claim. RuntimeSessions, for any number of sessions, opens and   *)
(* provider operations: one browser at most runs on a profile, an input is *)
(* dispatched once and on an observation its holder alone has had control  *)
(* since, and a result that counts was produced in the same hands.         *)
(***************************************************************************)
EXTENDS CacheOwnership, RuntimeSessions, Integers, FiniteSetTheorems, TLAPS

Past == Fencing \cup Owning
Published == Contending \cup Past

\* No lease runs out, and only the claims of the dead are judged stale ...
LeaseInv == \A r \in Runtimes : lease[r] = "new"
StaleInv == \A r \in Runtimes :
  /\ \A o \in Runtimes : stale[r][o] # "no" => doing[o] = "dead"
  /\ doing[r] = "compare" => at[r] \in Runtimes /\ stale[r][at[r]] # "no"

\* ... so that a living runtime's claim stays where it was published.
ClaimInv == \A r \in Runtimes : doing[r] \in Published => There(r)

\* A runtime past the contenders is alone there, and will be read by whoever
\* is still looking for them; of two that are looking one will read the other.
ContendInv == \A r, o \in Runtimes : r # o =>
  /\ doing[r] \in Past => doing[o] \notin Past
  /\ doing[r] \in Past /\ doing[o] = "contend" => r \in reading[o]
  /\ doing[r] = "contend" /\ doing[o] = "contend" => r \in reading[o] \/ o \in reading[r]

IInv == lapses = 0 => LeaseInv /\ StaleInv /\ ClaimInv /\ ContendInv

---------------------------------------------------------------------------
(* Types.                                                                  *)

LEMMA InitTyped == OwnershipInit => OwnershipTypeOK
BY OwnershipBounds DEF OwnershipInit, OwnershipTypeOK, OwnerSteps, Looking

LEMMA StepTyped ==
  ASSUME OwnershipTypeOK, [OwnershipNext]_ownerVars
  PROVE  OwnershipTypeOK'
<1> USE DEF OwnershipTypeOK, OwnerSteps, Looking, Contending, Fencing, Owning
<1>1. ASSUME NEW r \in Runtimes, ListClaims(r) PROVE OwnershipTypeOK'
  BY <1>1 DEF ListClaims, Moves, There, files
<1>2. ASSUME NEW r \in Runtimes, ReadClaim(r) PROVE OwnershipTypeOK'
  BY <1>2 DEF ReadClaim, Moves, LiveClaim, There, files, Stale
<1>3. ASSUME NEW r \in Runtimes, MoveClaim(r) PROVE OwnershipTypeOK'
  BY <1>3 DEF MoveClaim, Moves, LookAt, There
<1>4. ASSUME NEW r \in Runtimes, CompareClaim(r) PROVE OwnershipTypeOK'
  BY <1>4 DEF CompareClaim, Moves, LookAt
<1>5. ASSUME NEW r \in Runtimes, GiveWay(r) PROVE OwnershipTypeOK'
  BY <1>5 DEF GiveWay, Moves, AllJudged, files
<1>6. ASSUME NEW r \in Runtimes, PublishClaim(r) PROVE OwnershipTypeOK'
  BY <1>6 DEF PublishClaim, Moves, AllJudged, judgement
<1>7. ASSUME NEW r \in Runtimes, Contend(r) PROVE OwnershipTypeOK'
  BY <1>7 DEF Contend, Moves, There, files
<1>8. ASSUME NEW r \in Runtimes, OpenClaim(r) PROVE OwnershipTypeOK'
  BY <1>8 DEF OpenClaim, Moves, There, files, judgement
<1>9. ASSUME NEW r \in Runtimes, CreateFence(r) PROVE OwnershipTypeOK'
  BY <1>9 DEF CreateFence, Moves, judgement
<1>10. ASSUME NEW r \in Runtimes, WriteFence(r) PROVE OwnershipTypeOK'
  BY <1>10 DEF WriteFence, Moves, judgement
<1>11. ASSUME NEW r \in Runtimes, FenceExists(r) PROVE OwnershipTypeOK'
  BY <1>11 DEF FenceExists, Moves, files, judgement
<1>12. ASSUME NEW r \in Runtimes, LookAtFence(r) PROVE OwnershipTypeOK'
  <2>1. at' \in [Runtimes -> Runtimes \cup {NoRuntime}] BY <1>12 DEF LookAtFence, LookAt
  <2>0. \E to \in OwnerSteps : doing' = [doing EXCEPT ![r] = to]
    BY <1>12 DEF LookAtFence, Moves
  <2>2. doing' \in [Runtimes -> OwnerSteps] BY <2>0
  <2>3. UNCHANGED <<files, reading, stale, contended, moved, superseded, last, deaths, lapses>>
    BY <1>12 DEF LookAtFence, Moves
  <2> QED BY <2>1, <2>2, <2>3 DEF files
<1>13. ASSUME NEW r \in Runtimes, LookAtClaim(r) PROVE OwnershipTypeOK'
  <2>1. at' \in [Runtimes -> Runtimes \cup {NoRuntime}] BY <1>13 DEF LookAtClaim, LookAt
  <2>0. \E to \in OwnerSteps : doing' = [doing EXCEPT ![r] = to]
    BY <1>13 DEF LookAtClaim, Moves
  <2>2. doing' \in [Runtimes -> OwnerSteps] BY <2>0
  <2>3. UNCHANGED <<files, reading, stale, contended, moved, superseded, last, deaths, lapses>>
    BY <1>13 DEF LookAtClaim, Moves
  <2> QED BY <2>1, <2>2, <2>3 DEF files
<1>14. ASSUME NEW r \in Runtimes, MoveFence(r) PROVE OwnershipTypeOK'
  BY <1>14 DEF MoveFence, Moves, LookAt
<1>15. ASSUME NEW r \in Runtimes, CompareFence(r) PROVE OwnershipTypeOK'
  BY <1>15 DEF CompareFence, Moves, LookAt
<1>16. ASSUME NEW r \in Runtimes, ValidClaim(r) PROVE OwnershipTypeOK'
  BY <1>16 DEF ValidClaim, Moves, There, files, judgement
<1>17. ASSUME NEW r \in Runtimes, ValidFence(r) PROVE OwnershipTypeOK'
  BY <1>17 DEF ValidFence, Moves, files, judgement
<1>18. ASSUME NEW r \in Runtimes, AssertLease(r) PROVE OwnershipTypeOK'
  BY <1>18 DEF AssertLease, Moves, There, files, judgement
<1>19. ASSUME NEW r \in Runtimes, Refresh(r) PROVE OwnershipTypeOK'
  BY <1>19 DEF Refresh, Moves, judgement
<1>20. ASSUME NEW r \in Runtimes, AssertAgain(r) PROVE OwnershipTypeOK'
  BY <1>20 DEF AssertAgain, Moves, There, files, judgement
<1>21. ASSUME NEW r \in Runtimes, Mutated(r) PROVE OwnershipTypeOK'
  BY <1>21 DEF Mutated, Moves, files, judgement
<1>22. ASSUME NEW r \in Runtimes, Heartbeat(r) PROVE OwnershipTypeOK'
  BY <1>22 DEF Heartbeat, Moves, There, judgement
<1>23. ASSUME NEW r \in Runtimes, ReleaseCache(r) PROVE OwnershipTypeOK'
  BY <1>23 DEF ReleaseCache, Moves, files, judgement
<1>24. ASSUME NEW r \in Runtimes, CheckOwn(r) PROVE OwnershipTypeOK'
  BY <1>24 DEF CheckOwn, Moves, There, files, judgement
<1>25. ASSUME NEW r \in Runtimes, DropFence(r) PROVE OwnershipTypeOK'
  BY <1>25 DEF DropFence, Moves, judgement
<1>26. ASSUME NEW r \in Runtimes, DropClaim(r) PROVE OwnershipTypeOK'
  BY <1>26 DEF DropClaim, Moves, judgement
<1>27. ASSUME NEW r \in Runtimes, Die(r) PROVE OwnershipTypeOK'
  BY <1>27, OwnershipBounds DEF Die, files, judgement
<1>28. ASSUME NEW r \in Runtimes, Lapse(r) PROVE OwnershipTypeOK'
  BY <1>28, OwnershipBounds DEF Lapse, judgement
<1>29. CASE UNCHANGED ownerVars
  BY <1>29 DEF ownerVars, files, judgement
<1> QED
  BY <1>1, <1>2, <1>3, <1>4, <1>5, <1>6, <1>7, <1>8, <1>9, <1>10, <1>11, <1>12, <1>13, <1>14,
    <1>15, <1>16, <1>17, <1>18, <1>19, <1>20, <1>21, <1>22, <1>23, <1>24, <1>25, <1>26, <1>27,
    <1>28, <1>29 DEF OwnershipNext

\* The claims, the fence and the runtimes keep their types.
THEOREM OwnersTyped == OwnershipSpec => []OwnershipTypeOK
<1>1. OwnershipInit => OwnershipTypeOK BY InitTyped
<1>2. OwnershipTypeOK /\ [OwnershipNext]_ownerVars => OwnershipTypeOK' BY StepTyped
<1> QED BY <1>1, <1>2, PTL DEF OwnershipSpec

---------------------------------------------------------------------------
(* One owner.                                                              *)

LEMMA StepListClaims ==
  ASSUME OwnershipTypeOK, IInv, NEW r \in Runtimes, ListClaims(r)
  PROVE  IInv'
<1> USE DEF OwnershipTypeOK, Past, Published, Looking, Contending, Fencing, Owning
<1> SUFFICES ASSUME lapses' = 0 PROVE LeaseInv' /\ StaleInv' /\ ClaimInv' /\ ContendInv'
  BY DEF IInv
<1>0. LeaseInv /\ StaleInv /\ ClaimInv /\ ContendInv
  BY DEF IInv, ListClaims, Moves, There, files
<1>1. LeaseInv' BY <1>0 DEF LeaseInv, ListClaims, Moves, There, files
<1>2. StaleInv' BY <1>0 DEF StaleInv, LeaseInv, Stale, ListClaims, Moves, There, files
<1>3. ClaimInv' BY <1>0 DEF ClaimInv, StaleInv, There, ListClaims, Moves, files
<1>4. ContendInv' BY <1>0 DEF ContendInv, ClaimInv, There, ListClaims, Moves, files
<1> QED BY <1>1, <1>2, <1>3, <1>4

LEMMA StepReadClaim ==
  ASSUME OwnershipTypeOK, IInv, NEW r \in Runtimes, ReadClaim(r)
  PROVE  IInv'
<1> USE DEF OwnershipTypeOK, Past, Published, Looking, Contending, Fencing, Owning
<1> SUFFICES ASSUME lapses' = 0 PROVE LeaseInv' /\ StaleInv' /\ ClaimInv' /\ ContendInv'
  BY DEF IInv
<1>0. LeaseInv /\ StaleInv /\ ClaimInv /\ ContendInv
  BY DEF IInv, ReadClaim, Moves, LiveClaim, There, files, Stale
<1>1. LeaseInv' BY <1>0 DEF LeaseInv, ReadClaim, Moves, LiveClaim, There, files, Stale
<1>2. StaleInv'
  BY <1>0 DEF StaleInv, LeaseInv, Stale, ReadClaim, Moves, LiveClaim, There, files
<1>3. ClaimInv'
  BY <1>0 DEF ClaimInv, StaleInv, There, ReadClaim, Moves, LiveClaim, files, Stale
<1>4. ContendInv'
  BY <1>0 DEF ContendInv, ClaimInv, There, ReadClaim, Moves, LiveClaim, files, Stale
<1> QED BY <1>1, <1>2, <1>3, <1>4

LEMMA StepMoveClaim ==
  ASSUME OwnershipTypeOK, IInv, NEW r \in Runtimes, MoveClaim(r)
  PROVE  IInv'
<1> USE DEF OwnershipTypeOK, Past, Published, Looking, Contending, Fencing, Owning
<1> SUFFICES ASSUME lapses' = 0 PROVE LeaseInv' /\ StaleInv' /\ ClaimInv' /\ ContendInv'
  BY DEF IInv
<1>0. LeaseInv /\ StaleInv /\ ClaimInv /\ ContendInv
  BY DEF IInv, MoveClaim, Moves, LookAt, There
<1>1. LeaseInv' BY <1>0 DEF LeaseInv, MoveClaim, Moves, LookAt, There
<1>2. StaleInv' BY <1>0 DEF StaleInv, LeaseInv, Stale, MoveClaim, Moves, LookAt, There
<1>3. ClaimInv' BY <1>0 DEF ClaimInv, StaleInv, There, MoveClaim, Moves, LookAt
<1>4. ContendInv' BY <1>0 DEF ContendInv, ClaimInv, There, MoveClaim, Moves, LookAt
<1> QED BY <1>1, <1>2, <1>3, <1>4

LEMMA StepCompareClaim ==
  ASSUME OwnershipTypeOK, IInv, NEW r \in Runtimes, CompareClaim(r)
  PROVE  IInv'
<1> USE DEF OwnershipTypeOK, Past, Published, Looking, Contending, Fencing, Owning
<1> SUFFICES ASSUME lapses' = 0 PROVE LeaseInv' /\ StaleInv' /\ ClaimInv' /\ ContendInv'
  BY DEF IInv
<1>0. LeaseInv /\ StaleInv /\ ClaimInv /\ ContendInv BY DEF IInv, CompareClaim, Moves, LookAt
<1>1. LeaseInv' BY <1>0 DEF LeaseInv, CompareClaim, Moves, LookAt
<1>2. StaleInv' BY <1>0 DEF StaleInv, LeaseInv, Stale, CompareClaim, Moves, LookAt
<1>3. ClaimInv' BY <1>0 DEF ClaimInv, StaleInv, There, CompareClaim, Moves, LookAt
<1>4. ContendInv' BY <1>0 DEF ContendInv, ClaimInv, There, CompareClaim, Moves, LookAt
<1> QED BY <1>1, <1>2, <1>3, <1>4

LEMMA StepGiveWay ==
  ASSUME OwnershipTypeOK, IInv, NEW r \in Runtimes, GiveWay(r)
  PROVE  IInv'
<1> USE DEF OwnershipTypeOK, Past, Published, Looking, Contending, Fencing, Owning
<1> SUFFICES ASSUME lapses' = 0 PROVE LeaseInv' /\ StaleInv' /\ ClaimInv' /\ ContendInv'
  BY DEF IInv
<1>0. LeaseInv /\ StaleInv /\ ClaimInv /\ ContendInv
  BY DEF IInv, GiveWay, Moves, AllJudged, files
<1>1. LeaseInv' BY <1>0 DEF LeaseInv, GiveWay, Moves, AllJudged, files
<1>2. StaleInv' BY <1>0 DEF StaleInv, LeaseInv, Stale, GiveWay, Moves, AllJudged, files
<1>3. ClaimInv' BY <1>0 DEF ClaimInv, StaleInv, There, GiveWay, Moves, AllJudged, files
<1>4. ContendInv' BY <1>0 DEF ContendInv, ClaimInv, There, GiveWay, Moves, AllJudged, files
<1> QED BY <1>1, <1>2, <1>3, <1>4

LEMMA StepPublishClaim ==
  ASSUME OwnershipTypeOK, IInv, NEW r \in Runtimes, PublishClaim(r)
  PROVE  IInv'
<1> USE DEF OwnershipTypeOK, Past, Published, Looking, Contending, Fencing, Owning
<1> SUFFICES ASSUME lapses' = 0 PROVE LeaseInv' /\ StaleInv' /\ ClaimInv' /\ ContendInv'
  BY DEF IInv
<1>0. LeaseInv /\ StaleInv /\ ClaimInv /\ ContendInv
  BY DEF IInv, PublishClaim, Moves, AllJudged, judgement
<1>1. LeaseInv' BY <1>0 DEF LeaseInv, PublishClaim, Moves, AllJudged, judgement
<1>2. StaleInv'
  BY <1>0 DEF StaleInv, LeaseInv, Stale, PublishClaim, Moves, AllJudged, judgement
<1>3. ClaimInv'
  BY <1>0 DEF ClaimInv, StaleInv, There, PublishClaim, Moves, AllJudged, judgement
<1>4. ContendInv'
  BY <1>0 DEF ContendInv, ClaimInv, There, PublishClaim, Moves, AllJudged, judgement
<1> QED BY <1>1, <1>2, <1>3, <1>4

LEMMA StepContend ==
  ASSUME OwnershipTypeOK, IInv, NEW r \in Runtimes, Contend(r)
  PROVE  IInv'
<1> USE DEF OwnershipTypeOK, Past, Published, Looking, Contending, Fencing, Owning
<1> SUFFICES ASSUME lapses' = 0 PROVE LeaseInv' /\ StaleInv' /\ ClaimInv' /\ ContendInv'
  BY DEF IInv
<1>0. LeaseInv /\ StaleInv /\ ClaimInv /\ ContendInv BY DEF IInv, Contend, Moves, There, files
<1>1. LeaseInv' BY <1>0 DEF LeaseInv, Contend, Moves, There, files
<1>2. StaleInv' BY <1>0 DEF StaleInv, LeaseInv, Stale, Contend, Moves, There, files
<1>3. ClaimInv' BY <1>0 DEF ClaimInv, StaleInv, There, Contend, Moves, files
<1>4. ContendInv' BY <1>0 DEF ContendInv, ClaimInv, There, Contend, Moves, files
<1> QED BY <1>1, <1>2, <1>3, <1>4

LEMMA StepOpenClaim ==
  ASSUME OwnershipTypeOK, IInv, NEW r \in Runtimes, OpenClaim(r)
  PROVE  IInv'
<1> USE DEF OwnershipTypeOK, Past, Published, Looking, Contending, Fencing, Owning
<1> SUFFICES ASSUME lapses' = 0 PROVE LeaseInv' /\ StaleInv' /\ ClaimInv' /\ ContendInv'
  BY DEF IInv
<1>0. LeaseInv /\ StaleInv /\ ClaimInv /\ ContendInv
  BY DEF IInv, OpenClaim, Moves, There, files, judgement
<1>1. LeaseInv' BY <1>0 DEF LeaseInv, OpenClaim, Moves, There, files, judgement
<1>2. StaleInv'
  BY <1>0 DEF StaleInv, LeaseInv, Stale, OpenClaim, Moves, There, files, judgement
<1>3. ClaimInv' BY <1>0 DEF ClaimInv, StaleInv, There, OpenClaim, Moves, files, judgement
<1>4. ContendInv' BY <1>0 DEF ContendInv, ClaimInv, There, OpenClaim, Moves, files, judgement
<1> QED BY <1>1, <1>2, <1>3, <1>4

LEMMA StepCreateFence ==
  ASSUME OwnershipTypeOK, IInv, NEW r \in Runtimes, CreateFence(r)
  PROVE  IInv'
<1> USE DEF OwnershipTypeOK, Past, Published, Looking, Contending, Fencing, Owning
<1> SUFFICES ASSUME lapses' = 0 PROVE LeaseInv' /\ StaleInv' /\ ClaimInv' /\ ContendInv'
  BY DEF IInv
<1>0. LeaseInv /\ StaleInv /\ ClaimInv /\ ContendInv BY DEF IInv, CreateFence, Moves, judgement
<1>1. LeaseInv' BY <1>0 DEF LeaseInv, CreateFence, Moves, judgement
<1>2. StaleInv' BY <1>0 DEF StaleInv, LeaseInv, Stale, CreateFence, Moves, judgement
<1>3. ClaimInv' BY <1>0 DEF ClaimInv, StaleInv, There, CreateFence, Moves, judgement
<1>4. ContendInv' BY <1>0 DEF ContendInv, ClaimInv, There, CreateFence, Moves, judgement
<1> QED BY <1>1, <1>2, <1>3, <1>4

LEMMA StepWriteFence ==
  ASSUME OwnershipTypeOK, IInv, NEW r \in Runtimes, WriteFence(r)
  PROVE  IInv'
<1> USE DEF OwnershipTypeOK, Past, Published, Looking, Contending, Fencing, Owning
<1> SUFFICES ASSUME lapses' = 0 PROVE LeaseInv' /\ StaleInv' /\ ClaimInv' /\ ContendInv'
  BY DEF IInv
<1>0. LeaseInv /\ StaleInv /\ ClaimInv /\ ContendInv BY DEF IInv, WriteFence, Moves, judgement
<1>1. LeaseInv' BY <1>0 DEF LeaseInv, WriteFence, Moves, judgement
<1>2. StaleInv' BY <1>0 DEF StaleInv, LeaseInv, Stale, WriteFence, Moves, judgement
<1>3. ClaimInv' BY <1>0 DEF ClaimInv, StaleInv, There, WriteFence, Moves, judgement
<1>4. ContendInv' BY <1>0 DEF ContendInv, ClaimInv, There, WriteFence, Moves, judgement
<1> QED BY <1>1, <1>2, <1>3, <1>4

LEMMA StepFenceExists ==
  ASSUME OwnershipTypeOK, IInv, NEW r \in Runtimes, FenceExists(r)
  PROVE  IInv'
<1> USE DEF OwnershipTypeOK, Past, Published, Looking, Contending, Fencing, Owning
<1> SUFFICES ASSUME lapses' = 0 PROVE LeaseInv' /\ StaleInv' /\ ClaimInv' /\ ContendInv'
  BY DEF IInv
<1>0. LeaseInv /\ StaleInv /\ ClaimInv /\ ContendInv
  BY DEF IInv, FenceExists, Moves, files, judgement
<1>1. LeaseInv' BY <1>0 DEF LeaseInv, FenceExists, Moves, files, judgement
<1>2. StaleInv' BY <1>0 DEF StaleInv, LeaseInv, Stale, FenceExists, Moves, files, judgement
<1>3. ClaimInv' BY <1>0 DEF ClaimInv, StaleInv, There, FenceExists, Moves, files, judgement
<1>4. ContendInv' BY <1>0 DEF ContendInv, ClaimInv, There, FenceExists, Moves, files, judgement
<1> QED BY <1>1, <1>2, <1>3, <1>4

LEMMA StepLookAtFence ==
  ASSUME OwnershipTypeOK, IInv, NEW r \in Runtimes, LookAtFence(r)
  PROVE  IInv'
<1> USE DEF OwnershipTypeOK, Past, Published, Looking, Contending, Fencing, Owning
<1> SUFFICES ASSUME lapses' = 0 PROVE LeaseInv' /\ StaleInv' /\ ClaimInv' /\ ContendInv'
  BY DEF IInv
<1>0. LeaseInv /\ StaleInv /\ ClaimInv /\ ContendInv
  BY DEF IInv, LookAtFence, Moves, LookAt, files
<1>1. LeaseInv' BY <1>0 DEF LeaseInv, LookAtFence, Moves, LookAt, files
<1>2. StaleInv' BY <1>0 DEF StaleInv, LeaseInv, Stale, LookAtFence, Moves, LookAt, files
<1>3. ClaimInv' BY <1>0 DEF ClaimInv, StaleInv, There, LookAtFence, Moves, LookAt, files
<1>4. ContendInv' BY <1>0 DEF ContendInv, ClaimInv, There, LookAtFence, Moves, LookAt, files
<1> QED BY <1>1, <1>2, <1>3, <1>4

LEMMA StepLookAtClaim ==
  ASSUME OwnershipTypeOK, IInv, NEW r \in Runtimes, LookAtClaim(r)
  PROVE  IInv'
<1> USE DEF OwnershipTypeOK, Past, Published, Looking, Contending, Fencing, Owning
<1> SUFFICES ASSUME lapses' = 0 PROVE LeaseInv' /\ StaleInv' /\ ClaimInv' /\ ContendInv'
  BY DEF IInv
<1>0. LeaseInv /\ StaleInv /\ ClaimInv /\ ContendInv
  BY DEF IInv, LookAtClaim, Moves, LookAt, LiveClaim, files, Stale, There
<1>1. LeaseInv'
  BY <1>0 DEF LeaseInv, LookAtClaim, Moves, LookAt, LiveClaim, files, Stale, There
<1>2. StaleInv'
  BY <1>0 DEF StaleInv, LeaseInv, Stale, LookAtClaim, Moves, LookAt, LiveClaim, files, There
<1>3. ClaimInv'
  BY <1>0 DEF ClaimInv, StaleInv, There, LookAtClaim, Moves, LookAt, LiveClaim, files, Stale
<1>4. ContendInv'
  BY <1>0 DEF ContendInv, ClaimInv, There, LookAtClaim, Moves, LookAt, LiveClaim, files, Stale
<1> QED BY <1>1, <1>2, <1>3, <1>4

LEMMA StepMoveFence ==
  ASSUME OwnershipTypeOK, IInv, NEW r \in Runtimes, MoveFence(r)
  PROVE  IInv'
<1> USE DEF OwnershipTypeOK, Past, Published, Looking, Contending, Fencing, Owning
<1> SUFFICES ASSUME lapses' = 0 PROVE LeaseInv' /\ StaleInv' /\ ClaimInv' /\ ContendInv'
  BY DEF IInv
<1>0. LeaseInv /\ StaleInv /\ ClaimInv /\ ContendInv BY DEF IInv, MoveFence, Moves, LookAt
<1>1. LeaseInv' BY <1>0 DEF LeaseInv, MoveFence, Moves, LookAt
<1>2. StaleInv' BY <1>0 DEF StaleInv, LeaseInv, Stale, MoveFence, Moves, LookAt
<1>3. ClaimInv' BY <1>0 DEF ClaimInv, StaleInv, There, MoveFence, Moves, LookAt
<1>4. ContendInv' BY <1>0 DEF ContendInv, ClaimInv, There, MoveFence, Moves, LookAt
<1> QED BY <1>1, <1>2, <1>3, <1>4

LEMMA StepCompareFence ==
  ASSUME OwnershipTypeOK, IInv, NEW r \in Runtimes, CompareFence(r)
  PROVE  IInv'
<1> USE DEF OwnershipTypeOK, Past, Published, Looking, Contending, Fencing, Owning
<1> SUFFICES ASSUME lapses' = 0 PROVE LeaseInv' /\ StaleInv' /\ ClaimInv' /\ ContendInv'
  BY DEF IInv
<1>0. LeaseInv /\ StaleInv /\ ClaimInv /\ ContendInv BY DEF IInv, CompareFence, Moves, LookAt
<1>1. LeaseInv' BY <1>0 DEF LeaseInv, CompareFence, Moves, LookAt
<1>2. StaleInv' BY <1>0 DEF StaleInv, LeaseInv, Stale, CompareFence, Moves, LookAt
<1>3. ClaimInv' BY <1>0 DEF ClaimInv, StaleInv, There, CompareFence, Moves, LookAt
<1>4. ContendInv' BY <1>0 DEF ContendInv, ClaimInv, There, CompareFence, Moves, LookAt
<1> QED BY <1>1, <1>2, <1>3, <1>4

LEMMA StepValidClaim ==
  ASSUME OwnershipTypeOK, IInv, NEW r \in Runtimes, ValidClaim(r)
  PROVE  IInv'
<1> USE DEF OwnershipTypeOK, Past, Published, Looking, Contending, Fencing, Owning
<1> SUFFICES ASSUME lapses' = 0 PROVE LeaseInv' /\ StaleInv' /\ ClaimInv' /\ ContendInv'
  BY DEF IInv
<1>0. LeaseInv /\ StaleInv /\ ClaimInv /\ ContendInv
  BY DEF IInv, ValidClaim, Moves, There, files, judgement
<1>1. LeaseInv' BY <1>0 DEF LeaseInv, ValidClaim, Moves, There, files, judgement
<1>2. StaleInv'
  BY <1>0 DEF StaleInv, LeaseInv, Stale, ValidClaim, Moves, There, files, judgement
<1>3. ClaimInv' BY <1>0 DEF ClaimInv, StaleInv, There, ValidClaim, Moves, files, judgement
<1>4. ContendInv' BY <1>0 DEF ContendInv, ClaimInv, There, ValidClaim, Moves, files, judgement
<1> QED BY <1>1, <1>2, <1>3, <1>4

LEMMA StepValidFence ==
  ASSUME OwnershipTypeOK, IInv, NEW r \in Runtimes, ValidFence(r)
  PROVE  IInv'
<1> USE DEF OwnershipTypeOK, Past, Published, Looking, Contending, Fencing, Owning
<1> SUFFICES ASSUME lapses' = 0 PROVE LeaseInv' /\ StaleInv' /\ ClaimInv' /\ ContendInv'
  BY DEF IInv
<1>0. LeaseInv /\ StaleInv /\ ClaimInv /\ ContendInv
  BY DEF IInv, ValidFence, Moves, files, judgement
<1>1. LeaseInv' BY <1>0 DEF LeaseInv, ValidFence, Moves, files, judgement
<1>2. StaleInv' BY <1>0 DEF StaleInv, LeaseInv, Stale, ValidFence, Moves, files, judgement
<1>3. ClaimInv' BY <1>0 DEF ClaimInv, StaleInv, There, ValidFence, Moves, files, judgement
<1>4. ContendInv' BY <1>0 DEF ContendInv, ClaimInv, There, ValidFence, Moves, files, judgement
<1> QED BY <1>1, <1>2, <1>3, <1>4

LEMMA StepAssertLease ==
  ASSUME OwnershipTypeOK, IInv, NEW r \in Runtimes, AssertLease(r)
  PROVE  IInv'
<1> USE DEF OwnershipTypeOK, Past, Published, Looking, Contending, Fencing, Owning
<1> SUFFICES ASSUME lapses' = 0 PROVE LeaseInv' /\ StaleInv' /\ ClaimInv' /\ ContendInv'
  BY DEF IInv
<1>0. LeaseInv /\ StaleInv /\ ClaimInv /\ ContendInv
  BY DEF IInv, AssertLease, Moves, There, files, judgement
<1>1. LeaseInv' BY <1>0 DEF LeaseInv, AssertLease, Moves, There, files, judgement
<1>2. StaleInv'
  BY <1>0 DEF StaleInv, LeaseInv, Stale, AssertLease, Moves, There, files, judgement
<1>3. ClaimInv' BY <1>0 DEF ClaimInv, StaleInv, There, AssertLease, Moves, files, judgement
<1>4. ContendInv' BY <1>0 DEF ContendInv, ClaimInv, There, AssertLease, Moves, files, judgement
<1> QED BY <1>1, <1>2, <1>3, <1>4

LEMMA StepRefresh ==
  ASSUME OwnershipTypeOK, IInv, NEW r \in Runtimes, Refresh(r)
  PROVE  IInv'
<1> USE DEF OwnershipTypeOK, Past, Published, Looking, Contending, Fencing, Owning
<1> SUFFICES ASSUME lapses' = 0 PROVE LeaseInv' /\ StaleInv' /\ ClaimInv' /\ ContendInv'
  BY DEF IInv
<1>0. LeaseInv /\ StaleInv /\ ClaimInv /\ ContendInv BY DEF IInv, Refresh, Moves, judgement
<1>1. LeaseInv' BY <1>0 DEF LeaseInv, Refresh, Moves, judgement
<1>2. StaleInv' BY <1>0 DEF StaleInv, LeaseInv, Stale, Refresh, Moves, judgement
<1>3. ClaimInv' BY <1>0 DEF ClaimInv, StaleInv, There, Refresh, Moves, judgement
<1>4. ContendInv' BY <1>0 DEF ContendInv, ClaimInv, There, Refresh, Moves, judgement
<1> QED BY <1>1, <1>2, <1>3, <1>4

LEMMA StepAssertAgain ==
  ASSUME OwnershipTypeOK, IInv, NEW r \in Runtimes, AssertAgain(r)
  PROVE  IInv'
<1> USE DEF OwnershipTypeOK, Past, Published, Looking, Contending, Fencing, Owning
<1> SUFFICES ASSUME lapses' = 0 PROVE LeaseInv' /\ StaleInv' /\ ClaimInv' /\ ContendInv'
  BY DEF IInv
<1>0. LeaseInv /\ StaleInv /\ ClaimInv /\ ContendInv
  BY DEF IInv, AssertAgain, Moves, There, files, judgement
<1>1. LeaseInv' BY <1>0 DEF LeaseInv, AssertAgain, Moves, There, files, judgement
<1>2. StaleInv'
  BY <1>0 DEF StaleInv, LeaseInv, Stale, AssertAgain, Moves, There, files, judgement
<1>3. ClaimInv' BY <1>0 DEF ClaimInv, StaleInv, There, AssertAgain, Moves, files, judgement
<1>4. ContendInv' BY <1>0 DEF ContendInv, ClaimInv, There, AssertAgain, Moves, files, judgement
<1> QED BY <1>1, <1>2, <1>3, <1>4

LEMMA StepMutated ==
  ASSUME OwnershipTypeOK, IInv, NEW r \in Runtimes, Mutated(r)
  PROVE  IInv'
<1> USE DEF OwnershipTypeOK, Past, Published, Looking, Contending, Fencing, Owning
<1> SUFFICES ASSUME lapses' = 0 PROVE LeaseInv' /\ StaleInv' /\ ClaimInv' /\ ContendInv'
  BY DEF IInv
<1>0. LeaseInv /\ StaleInv /\ ClaimInv /\ ContendInv
  BY DEF IInv, Mutated, Moves, files, judgement
<1>1. LeaseInv' BY <1>0 DEF LeaseInv, Mutated, Moves, files, judgement
<1>2. StaleInv' BY <1>0 DEF StaleInv, LeaseInv, Stale, Mutated, Moves, files, judgement
<1>3. ClaimInv' BY <1>0 DEF ClaimInv, StaleInv, There, Mutated, Moves, files, judgement
<1>4. ContendInv' BY <1>0 DEF ContendInv, ClaimInv, There, Mutated, Moves, files, judgement
<1> QED BY <1>1, <1>2, <1>3, <1>4

LEMMA StepHeartbeat ==
  ASSUME OwnershipTypeOK, IInv, NEW r \in Runtimes, Heartbeat(r)
  PROVE  IInv'
<1> USE DEF OwnershipTypeOK, Past, Published, Looking, Contending, Fencing, Owning
<1> SUFFICES ASSUME lapses' = 0 PROVE LeaseInv' /\ StaleInv' /\ ClaimInv' /\ ContendInv'
  BY DEF IInv
<1>0. LeaseInv /\ StaleInv /\ ClaimInv /\ ContendInv
  BY DEF IInv, Heartbeat, Moves, There, judgement
<1>1. LeaseInv' BY <1>0 DEF LeaseInv, Heartbeat, Moves, There, judgement
<1>2. StaleInv' BY <1>0 DEF StaleInv, LeaseInv, Stale, Heartbeat, Moves, There, judgement
<1>3. ClaimInv' BY <1>0 DEF ClaimInv, StaleInv, There, Heartbeat, Moves, judgement
<1>4. ContendInv' BY <1>0 DEF ContendInv, ClaimInv, There, Heartbeat, Moves, judgement
<1> QED BY <1>1, <1>2, <1>3, <1>4

LEMMA StepReleaseCache ==
  ASSUME OwnershipTypeOK, IInv, NEW r \in Runtimes, ReleaseCache(r)
  PROVE  IInv'
<1> USE DEF OwnershipTypeOK, Past, Published, Looking, Contending, Fencing, Owning
<1> SUFFICES ASSUME lapses' = 0 PROVE LeaseInv' /\ StaleInv' /\ ClaimInv' /\ ContendInv'
  BY DEF IInv
<1>0. LeaseInv /\ StaleInv /\ ClaimInv /\ ContendInv
  BY DEF IInv, ReleaseCache, Moves, files, judgement
<1>1. LeaseInv' BY <1>0 DEF LeaseInv, ReleaseCache, Moves, files, judgement
<1>2. StaleInv' BY <1>0 DEF StaleInv, LeaseInv, Stale, ReleaseCache, Moves, files, judgement
<1>3. ClaimInv' BY <1>0 DEF ClaimInv, StaleInv, There, ReleaseCache, Moves, files, judgement
<1>4. ContendInv'
  BY <1>0 DEF ContendInv, ClaimInv, There, ReleaseCache, Moves, files, judgement
<1> QED BY <1>1, <1>2, <1>3, <1>4

LEMMA StepCheckOwn ==
  ASSUME OwnershipTypeOK, IInv, NEW r \in Runtimes, CheckOwn(r)
  PROVE  IInv'
<1> USE DEF OwnershipTypeOK, Past, Published, Looking, Contending, Fencing, Owning
<1> SUFFICES ASSUME lapses' = 0 PROVE LeaseInv' /\ StaleInv' /\ ClaimInv' /\ ContendInv'
  BY DEF IInv
<1>0. LeaseInv /\ StaleInv /\ ClaimInv /\ ContendInv
  BY DEF IInv, CheckOwn, Moves, There, files, judgement
<1>1. LeaseInv' BY <1>0 DEF LeaseInv, CheckOwn, Moves, There, files, judgement
<1>2. StaleInv' BY <1>0 DEF StaleInv, LeaseInv, Stale, CheckOwn, Moves, There, files, judgement
<1>3. ClaimInv' BY <1>0 DEF ClaimInv, StaleInv, There, CheckOwn, Moves, files, judgement
<1>4. ContendInv' BY <1>0 DEF ContendInv, ClaimInv, There, CheckOwn, Moves, files, judgement
<1> QED BY <1>1, <1>2, <1>3, <1>4

LEMMA StepDropFence ==
  ASSUME OwnershipTypeOK, IInv, NEW r \in Runtimes, DropFence(r)
  PROVE  IInv'
<1> USE DEF OwnershipTypeOK, Past, Published, Looking, Contending, Fencing, Owning
<1> SUFFICES ASSUME lapses' = 0 PROVE LeaseInv' /\ StaleInv' /\ ClaimInv' /\ ContendInv'
  BY DEF IInv
<1>0. LeaseInv /\ StaleInv /\ ClaimInv /\ ContendInv BY DEF IInv, DropFence, Moves, judgement
<1>1. LeaseInv' BY <1>0 DEF LeaseInv, DropFence, Moves, judgement
<1>2. StaleInv' BY <1>0 DEF StaleInv, LeaseInv, Stale, DropFence, Moves, judgement
<1>3. ClaimInv' BY <1>0 DEF ClaimInv, StaleInv, There, DropFence, Moves, judgement
<1>4. ContendInv' BY <1>0 DEF ContendInv, ClaimInv, There, DropFence, Moves, judgement
<1> QED BY <1>1, <1>2, <1>3, <1>4

LEMMA StepDropClaim ==
  ASSUME OwnershipTypeOK, IInv, NEW r \in Runtimes, DropClaim(r)
  PROVE  IInv'
<1> USE DEF OwnershipTypeOK, Past, Published, Looking, Contending, Fencing, Owning
<1> SUFFICES ASSUME lapses' = 0 PROVE LeaseInv' /\ StaleInv' /\ ClaimInv' /\ ContendInv'
  BY DEF IInv
<1>0. LeaseInv /\ StaleInv /\ ClaimInv /\ ContendInv BY DEF IInv, DropClaim, Moves, judgement
<1>1. LeaseInv' BY <1>0 DEF LeaseInv, DropClaim, Moves, judgement
<1>2. StaleInv' BY <1>0 DEF StaleInv, LeaseInv, Stale, DropClaim, Moves, judgement
<1>3. ClaimInv' BY <1>0 DEF ClaimInv, StaleInv, There, DropClaim, Moves, judgement
<1>4. ContendInv' BY <1>0 DEF ContendInv, ClaimInv, There, DropClaim, Moves, judgement
<1> QED BY <1>1, <1>2, <1>3, <1>4

LEMMA StepDie ==
  ASSUME OwnershipTypeOK, IInv, NEW r \in Runtimes, Die(r)
  PROVE  IInv'
<1> USE DEF OwnershipTypeOK, Past, Published, Looking, Contending, Fencing, Owning
<1> SUFFICES ASSUME lapses' = 0 PROVE LeaseInv' /\ StaleInv' /\ ClaimInv' /\ ContendInv'
  BY DEF IInv
<1>0. LeaseInv /\ StaleInv /\ ClaimInv /\ ContendInv BY DEF IInv, Die, files, judgement
<1>1. LeaseInv' BY <1>0 DEF LeaseInv, Die, files, judgement
<1>2. StaleInv' BY <1>0 DEF StaleInv, LeaseInv, Stale, Die, files, judgement
<1>3. ClaimInv' BY <1>0 DEF ClaimInv, StaleInv, There, Die, files, judgement
<1>4. ContendInv' BY <1>0 DEF ContendInv, ClaimInv, There, Die, files, judgement
<1> QED BY <1>1, <1>2, <1>3, <1>4

LEMMA StepLapse ==
  ASSUME OwnershipTypeOK, IInv, NEW r \in Runtimes, Lapse(r)
  PROVE  IInv'
<1> USE DEF OwnershipTypeOK, Past, Published, Looking, Contending, Fencing, Owning
<1> SUFFICES ASSUME lapses' = 0 PROVE LeaseInv' /\ StaleInv' /\ ClaimInv' /\ ContendInv'
  BY DEF IInv
<1>0. LeaseInv /\ StaleInv /\ ClaimInv /\ ContendInv BY DEF IInv, Lapse, judgement
<1>1. LeaseInv' BY <1>0 DEF LeaseInv, Lapse, judgement
<1>2. StaleInv' BY <1>0 DEF StaleInv, LeaseInv, Stale, Lapse, judgement
<1>3. ClaimInv' BY <1>0 DEF ClaimInv, StaleInv, There, Lapse, judgement
<1>4. ContendInv' BY <1>0 DEF ContendInv, ClaimInv, There, Lapse, judgement
<1> QED BY <1>1, <1>2, <1>3, <1>4

LEMMA StepInv ==
  ASSUME OwnershipTypeOK, IInv, [OwnershipNext]_ownerVars
  PROVE  IInv'
<1>1. CASE UNCHANGED ownerVars
  BY <1>1 DEF ownerVars, files, judgement, IInv, LeaseInv, StaleInv, ClaimInv, ContendInv,
    There
<1>2. ASSUME NEW r \in Runtimes,
             \/ ListClaims(r) \/ ReadClaim(r) \/ MoveClaim(r) \/ CompareClaim(r) \/ GiveWay(r)
               \/ PublishClaim(r) \/ Contend(r) \/ OpenClaim(r) \/ CreateFence(r) \/
               WriteFence(r) \/ FenceExists(r) \/ LookAtFence(r) \/ LookAtClaim(r) \/
               MoveFence(r) \/ CompareFence(r) \/ ValidClaim(r) \/ ValidFence(r) \/
               AssertLease(r) \/ Refresh(r) \/ AssertAgain(r) \/ Mutated(r) \/ Heartbeat(r) \/
               ReleaseCache(r) \/ CheckOwn(r) \/ DropFence(r) \/ DropClaim(r) \/ Die(r) \/
               Lapse(r)
      PROVE IInv'
  BY <1>2, StepListClaims, StepReadClaim, StepMoveClaim, StepCompareClaim, StepGiveWay,
    StepPublishClaim, StepContend, StepOpenClaim, StepCreateFence, StepWriteFence,
    StepFenceExists, StepLookAtFence, StepLookAtClaim, StepMoveFence, StepCompareFence,
    StepValidClaim, StepValidFence, StepAssertLease, StepRefresh, StepAssertAgain, StepMutated,
    StepHeartbeat, StepReleaseCache, StepCheckOwn, StepDropFence, StepDropClaim, StepDie,
    StepLapse
<1> QED BY <1>1, <1>2 DEF OwnershipNext

\* ManagedProviderLifecycle changes the cache only as its one owner: as long
\* as no living owner's lease has run out, for any number of runtimes that
\* compete for it and die anywhere.
THEOREM OneOwnerHolds == OwnershipSpec => [](lapses = 0 => OneOwner)
<1>1. OwnershipInit => IInv
  BY RuntimesAssumption DEF OwnershipInit, IInv, LeaseInv, StaleInv, ClaimInv, ContendInv,
    Past, Published,
    Contending, Fencing, Owning
<1>2. OwnershipTypeOK /\ IInv /\ [OwnershipNext]_ownerVars => IInv' BY StepInv
<1>3. IInv => (lapses = 0 => OneOwner) BY DEF IInv, ContendInv, OneOwner, Past
<1> QED BY <1>1, <1>2, <1>3, OwnersTyped, PTL DEF OwnershipSpec

-----------------------------------------------------------------------------
(* RuntimeSessions.                                                        *)

\* The types of the records: what SessionsTypeOK says of them and the rest.
Lives == Live \cup {"none", "disconnected", "failed", "closed"}
Controls == Cores \cup {User, Nobody}
Errors == {"none", "page", "session_lost", "cleanup"}
Gens == SUBSET Nat
Kept == {"none", "mutating", "passive_wait"}
Snapshots == [by : Calls \cup {NoCall}, holder : Cores \cup {Nobody}, gen : Nat,
              tenure : Nat, released : BOOLEAN]
PageLists == [holder : Cores \cup {Nobody}, gen : Nat]
SessionRecords ==
  [life : Lives, error : Errors, control : Controls,
   gen : Nat, busy : Int, kind : Kept, intent : BOOLEAN, closing : BOOLEAN,
   native : BOOLEAN, snapshot : Snapshots, seen : Gens, list : PageLists]
CallRecords ==
  [step : {"new", "refreshing", "running", "done"}, kind : Kinds \cup {"none"},
   on : Sessions \cup {NoSession}, holder : Cores \cup {Nobody}, obs : Calls \cup {NoCall},
   gen : Nat, released : BOOLEAN, prev : Kept, tenure : Nat,
   result : {"none", "applied", "unknown"}]
OpenRecords ==
  [step : {"new", "launching", "reusing", "closing", "closed", "done"},
   on : Sessions \cup {NoSession}, prev : Kept, by : Controls]

Typed ==
  /\ sess \in [Sessions -> SessionRecords]
  /\ ownership \in {"free", "mutation"} \cup Opens \cup Sessions
  /\ browsers \subseteq Sessions
  /\ opening \in BOOLEAN
  /\ open \in [Opens -> OpenRecords]
  /\ mutation \in {"none", "reserved", "writing"}
  /\ call \in [Calls -> CallRecords]
  /\ receipts \subseteq Refs
  /\ dispatches \in [Refs -> Nat]
  /\ tenure \in [Sessions -> Nat]

\* Who may start a browser on the profile, or write it, has its ownership lock,
\* and a browser's session has it too or is seen by the browser's own lock file.
LockInv ==
  /\ \A o \in Opens : open[o].step = "launching" => ownership = o
  /\ mutation = "writing" => ownership = "mutation"
  /\ ownership \in Opens \cup {"mutation"} => browsers = {}
  /\ \A b \in browsers : sess[b].native \/ ownership = b
  /\ \A a, b \in browsers : a = b
LiveInv == \A s \in Sessions : sess[s].life \in Live => s \in browsers

\* What works on a session: the provider operations and the opens that reuse it.
Working(s) ==
  {c \in Calls : call[c].step = "running" /\ call[c].on = s}
    \cup {o \in Opens : open[o].step = "reusing" /\ open[o].on = s}
BusyInv == \A s \in Sessions : sess[s].busy = Cardinality(Working(s))

\* A session that is being closed is nobody's.
ClosingIsNobodys(r) == r.closing => r.control = Nobody /\ r.life \notin Live
CloseInv == \A s \in Sessions : ClosingIsNobodys(sess[s])

\* Calls and opens work on sessions that were started.
Begun(c) == call[c].step \in {"refreshing", "running"}
WorkInv ==
  /\ \A o \in Opens : open[o].step \in {"reusing", "closing"} =>
       open[o].on \in Sessions /\ sess[open[o].on].life # "none"
  /\ \A c \in Calls : Begun(c) =>
       /\ call[c].on \in Sessions /\ sess[call[c].on].life # "none"
       /\ call[c].kind \in KindsOf[c] /\ call[c].kind \in Kinds
       /\ call[c].holder \in Cores
       /\ call[c].gen <= sess[call[c].on].gen
       /\ call[c].released => call[c].kind \in {"snapshot", "observe", "list", "probe"}
       /\ call[c].kind \in {"input", "wait"} => call[c].obs # NoCall
       /\ call[c].obs # NoCall => call[call[c].obs].step = "done"
  /\ \A c \in Calls :
       /\ call[c].result # "none" => call[c].step = "done"
       /\ call[c].step = "running" => call[c].kind # "list"
  /\ \A s \in Sessions :
       /\ sess[s].life = "none" => sess[s] = NewSession
       /\ sess[s].snapshot.by # NoCall =>
            call[sess[s].snapshot.by].step = "done" /\ sess[s].snapshot.holder \in Cores
       /\ sess[s].snapshot.gen <= sess[s].gen

\* While the generation is the one a call was admitted under, control is in the
\* same hands.
HoldInv == \A c \in Calls :
  LET r == sess[call[c].on] IN
  Begun(c) /\ call[c].kind \notin {"list", "probe"} /\ r.gen = call[c].gen =>
    IF call[c].released
    THEN r.control = Nobody => tenure[call[c].on] = call[c].tenure
    ELSE r.control = call[c].holder /\ ~r.intent /\ tenure[call[c].on] = call[c].tenure

\* The same of a snapshot, whose holder may have taken control meanwhile.
SnapInv == \A s \in Sessions :
  LET r == sess[s] IN
  r.snapshot.by # NoCall /\ r.snapshot.gen = r.gen =>
    IF r.snapshot.released
    THEN /\ r.control = Nobody => tenure[s] = r.snapshot.tenure
         /\ r.control # Nobody => tenure[s] = r.snapshot.tenure + 1
    ELSE r.control = r.snapshot.holder /\ tenure[s] = r.snapshot.tenure

\* Once an input went to the provider, another under its ref cannot: something
\* it will be checked for has changed, or the answer to the first will change it.
Spoiled(c) ==
  LET r == sess[call[c].on] IN
  \/ r.gen # call[c].gen
  \/ r.life \notin Live
  \/ r.snapshot.by # call[c].obs
  \/ \E d \in Calls :
       /\ call[d].step = "running" /\ call[d].kind \in {"input", "wait"}
       /\ call[d].on = call[c].on /\ call[c].gen <= call[d].gen
SentInv ==
  /\ \A r \in Refs : dispatches[r] # 0 => r \in receipts
  /\ \A c \in Calls :
       call[c].step = "refreshing" /\ call[c].kind = "input" /\ dispatches[RefOf[c]] # 0 => Spoiled(c)

SessionsInv ==
  /\ Typed /\ LockInv /\ LiveInv /\ BusyInv /\ CloseInv /\ WorkInv
  /\ HoldInv /\ SnapInv /\ SentInv

---------------------------------------------------------------------------
(* What a step may make of the record of a session that was started.        *)

LEMMA MemberTypes ==
  /\ "none" \in Kept /\ Nobody \in Controls /\ "disconnected" \in Lives /\ "active" \in Lives
  /\ "session_lost" \in Errors /\ {} \in Gens
  /\ "disconnected" \notin Live /\ "failed" \notin Live /\ "closed" \notin Live
  /\ Live \subseteq Lives /\ "none" \notin Live /\ "active" \in Live /\ "locked" \in Live
  /\ Cores \cup {User, Nobody} \subseteq Controls /\ {"none", "mutating", "passive_wait"} \subseteq Kept
BY DEF Lives, Live, Controls, Kept, Errors, Gens
LEMMA NoneTyped == NoSnapshot \in Snapshots /\ NoPageList \in PageLists /\ NewSession \in SessionRecords
BY SessionsAssumption DEF NoSnapshot, NoPageList, NewSession, Snapshots, PageLists, SessionRecords,
   Lives, Live, Controls, Kept, Nobody, User, Errors, Gens

LEMMA FieldTypes ==
  ASSUME NEW r \in SessionRecords
  PROVE  /\ r.life \in Lives /\ r.control \in Controls /\ r.gen \in Nat /\ r.busy \in Int
         /\ r.intent \in BOOLEAN /\ r.closing \in BOOLEAN /\ r.native \in BOOLEAN
         /\ r.snapshot \in Snapshots /\ r.kind \in Kept
BY DEF SessionRecords

LEMMA BusyTyped ==
  ASSUME NEW r \in SessionRecords, NEW busy \in Int, NEW kind \in Kept
  PROVE  [r EXCEPT !.busy = busy, !.kind = kind] \in SessionRecords
BY DEF SessionRecords
LEMMA GenTyped == ASSUME NEW r \in SessionRecords, NEW gen \in Nat PROVE [r EXCEPT !.gen = gen] \in SessionRecords
BY DEF SessionRecords

LEMMA EnteredTyped ==
  ASSUME NEW r \in SessionRecords, NEW kind \in Kept PROVE Entered(r, kind) \in SessionRecords
<1> DEFINE b == r.busy + 1
<1>1. b \in Int BY FieldTypes
<1>2. Entered(r, kind) = [r EXCEPT !.busy = b, !.kind = kind] BY DEF Entered
<1> HIDE DEF b
<1> QED BY <1>1, <1>2, BusyTyped

LEMMA LeftTyped ==
  ASSUME NEW r \in SessionRecords, NEW prev \in Kept PROVE Left(r, prev) \in SessionRecords
<1>1. r.busy \in Int /\ r.kind \in Kept /\ "none" \in Kept BY FieldTypes, MemberTypes
<1> DEFINE b == r.busy - 1
<1> DEFINE k == IF r.busy = 1 THEN "none" ELSE IF prev # "none" THEN prev ELSE r.kind
<1>2. k \in Kept /\ b \in Int BY <1>1
<1>3. Left(r, prev) = [r EXCEPT !.busy = b, !.kind = k] BY DEF Left
<1> HIDE DEF b, k
<1> QED BY <1>1, <1>2, <1>3, BusyTyped

LEMMA BumpedTyped == ASSUME NEW r \in SessionRecords PROVE Bumped(r) \in SessionRecords
<1>1. r.gen + 1 \in Nat BY FieldTypes
<1> QED BY <1>1, GenTyped DEF Bumped

LEMMA DriverLostTyped ==
  ASSUME NEW r \in SessionRecords PROVE DriverLost(r) \in SessionRecords
<1> DEFINE b == Bumped(r)
<1>1. b \in SessionRecords BY BumpedTyped
<1>2. DriverLost(r) = [b EXCEPT !.life = "disconnected", !.error = "session_lost",
                    !.control = Nobody, !.snapshot = NoSnapshot, !.seen = {}]
  BY DEF DriverLost
<1> HIDE DEF b
<1>3. QED BY <1>1, <1>2, NoneTyped, MemberTypes DEF SessionRecords

LEMMA AcquiredTyped ==
  ASSUME NEW r \in SessionRecords, NEW c \in Controls PROVE Acquired(r, c) \in SessionRecords
<1> DEFINE g == IF Preserves(r, c) THEN r.gen ELSE r.gen + 1
<1>1. g \in Nat BY FieldTypes
<1>2. Acquired(r, c) = [r EXCEPT !.life = "active", !.control = c, !.list = NoPageList, !.gen = g]
  BY DEF Acquired
<1> HIDE DEF g
<1>3. QED BY <1>1, <1>2, NoneTyped, MemberTypes DEF SessionRecords

LEMMA ClosingTyped ==
  ASSUME NEW r \in SessionRecords PROVE Closing(r) \in SessionRecords
<1> DEFINE b == Bumped(r)
<1>1. b \in SessionRecords BY BumpedTyped
<1>2. Closing(r) = [b EXCEPT !.life = "disconnected", !.control = Nobody, !.closing = TRUE]
  BY DEF Closing
<1> HIDE DEF b
<1>3. QED BY <1>1, <1>2, MemberTypes DEF SessionRecords

Sound(r) == r \in SessionRecords /\ r.life # "none" /\ ClosingIsNobodys(r)

Follows(r, q) ==
  /\ Sound(q)
  /\ q.native = r.native
  /\ q.life \in Live => r.life \in Live
  /\ q.gen >= r.gen
  /\ q.gen = r.gen => q.intent = r.intent /\ (q.control = r.control \/ r.control = Nobody)

LEMMA FollowsSelf == ASSUME NEW r, Sound(r) PROVE Follows(r, r)
BY FieldTypes DEF Follows, Sound

LEMMA FollowsTrans ==
  ASSUME NEW r, NEW q, NEW p, Sound(r), Follows(r, q), Follows(q, p) PROVE Follows(r, p)
<1>1. r.gen \in Nat /\ q.gen \in Nat /\ p.gen \in Nat
  BY FieldTypes DEF Follows, Sound
<1> QED BY <1>1 DEF Follows, Sound

LEMMA EnteredFollows ==
  ASSUME NEW r, Sound(r), NEW kind \in Kept
  PROVE  Follows(r, Entered(r, kind)) /\ Entered(r, kind).busy = r.busy + 1 /\ Entered(r, kind).snapshot = r.snapshot
         /\ Entered(r, kind).gen = r.gen /\ Entered(r, kind).control = r.control
         /\ Entered(r, kind).intent = r.intent /\ Entered(r, kind).life = r.life
<1> DEFINE t == Entered(r, kind)
<1>0. r \in SessionRecords
  BY DEF Sound
<1>a. t = Entered(r, kind)
  OBVIOUS
<1>1. t \in SessionRecords
  BY <1>0, EnteredTyped, MemberTypes
<1>2. /\ t.life = r.life /\ t.control = r.control /\ t.gen = r.gen
      /\ t.busy = r.busy + 1 /\ t.intent = r.intent /\ t.closing = r.closing
      /\ t.native = r.native /\ t.snapshot = r.snapshot
  BY <1>0 DEF Entered, SessionRecords
<1>3. r.gen \in Nat /\ r.closing \in BOOLEAN
  BY FieldTypes DEF Sound
<1> HIDE DEF t
<1> QED BY <1>a, <1>1, <1>2, <1>3, MemberTypes DEF Follows, Sound, ClosingIsNobodys

LEMMA LeftFollows ==
  ASSUME NEW r, Sound(r), NEW prev \in Kept
  PROVE  /\ Follows(r, Left(r, prev)) /\ Left(r, prev).busy = r.busy - 1
         /\ Left(r, prev).snapshot = r.snapshot /\ Left(r, prev).gen = r.gen
         /\ Left(r, prev).life = r.life /\ Left(r, prev).control = r.control
         /\ Left(r, prev).intent = r.intent
<1> DEFINE t == Left(r, prev)
<1>0. r \in SessionRecords
  BY DEF Sound
<1>a. t = Left(r, prev)
  OBVIOUS
<1>1. t \in SessionRecords
  BY <1>0, LeftTyped, MemberTypes
<1>2. /\ t.life = r.life /\ t.control = r.control /\ t.gen = r.gen
      /\ t.busy = r.busy - 1 /\ t.intent = r.intent /\ t.closing = r.closing
      /\ t.native = r.native /\ t.snapshot = r.snapshot
  BY <1>0 DEF Left, SessionRecords
<1>3. r.gen \in Nat /\ r.closing \in BOOLEAN
  BY FieldTypes DEF Sound
<1> HIDE DEF t
<1> QED BY <1>a, <1>1, <1>2, <1>3, MemberTypes DEF Follows, Sound, ClosingIsNobodys

LEMMA DriverLostFollows ==
  ASSUME NEW r, Sound(r)
  PROVE  Follows(r, DriverLost(r)) /\ DriverLost(r).busy = r.busy /\ DriverLost(r).snapshot = NoSnapshot /\ DriverLost(r).life \notin Live
<1> DEFINE t == DriverLost(r)
<1>0. r \in SessionRecords
  BY DEF Sound
<1>a. t = DriverLost(r)
  OBVIOUS
<1>1. t \in SessionRecords
  BY <1>0, DriverLostTyped, MemberTypes
<1>2. /\ t.life = "disconnected" /\ t.control = Nobody /\ t.gen = r.gen + 1
      /\ t.busy = r.busy /\ t.intent = r.intent /\ t.closing = r.closing
      /\ t.native = r.native /\ t.snapshot = NoSnapshot
  BY <1>0 DEF DriverLost, Bumped, SessionRecords
<1>3. r.gen \in Nat /\ r.closing \in BOOLEAN
  BY FieldTypes DEF Sound
<1> HIDE DEF t
<1> QED BY <1>a, <1>1, <1>2, <1>3, MemberTypes DEF Follows, Sound, ClosingIsNobodys

LEMMA PageAppliedFollows ==
  ASSUME NEW r, Sound(r), NEW error \in {"none", "page", "session_lost"}
  PROVE  /\ Follows(r, PageApplied(r, error)) /\ PageApplied(r, error).busy = r.busy
         /\ PageApplied(r, error).snapshot \in {r.snapshot, NoSnapshot}
<1>1. CASE r.error = "session_lost"
  BY <1>1, FollowsSelf DEF PageApplied
<1>2. CASE r.error # "session_lost" /\ error = "session_lost"
  BY <1>2, DriverLostFollows DEF PageApplied
<1>3. CASE r.error # "session_lost" /\ error # "session_lost"
  <2> DEFINE l == IF error = "page" THEN "failed" ELSE r.life
             t == [r EXCEPT !.error = error, !.life = l]
  <2>1. PageApplied(r, error) = t
    BY <1>3 DEF PageApplied
  <2>2. r \in SessionRecords /\ error \in Errors
    BY DEF Sound, Errors
  <2>3. l \in Lives /\ l \in {r.life, "failed"}
    BY <2>2, FieldTypes DEF Lives
  <2> HIDE DEF l
  <2>4. t \in SessionRecords
    BY <2>2, <2>3 DEF SessionRecords
  <2>5. /\ t.life = l /\ t.control = r.control /\ t.gen = r.gen
        /\ t.busy = r.busy /\ t.intent = r.intent /\ t.closing = r.closing
        /\ t.native = r.native /\ t.snapshot = r.snapshot
    BY <2>2 DEF SessionRecords
  <2> HIDE DEF t
  <2> QED BY <2>1, <2>2, <2>3, <2>4, <2>5, FieldTypes, MemberTypes DEF Follows, Sound,
             ClosingIsNobodys
<1> QED BY <1>1, <1>2, <1>3

LEMMA AcquiredFollows ==
  ASSUME NEW r, Sound(r), NEW c \in Cores \cup {User}, MayAcquire(r, c)
  PROVE  /\ Follows(r, Acquired(r, c)) /\ Acquired(r, c).busy = r.busy /\ Acquired(r, c).snapshot = r.snapshot
         /\ Acquired(r, c).life \in Live /\ ~Acquired(r, c).closing
<1> DEFINE t == Acquired(r, c)
<1>0. r \in SessionRecords
  BY DEF Sound
<1>a. t = Acquired(r, c)
  OBVIOUS
<1>1. Preserves(r, c) => r.control = Nobody
  BY DEF Preserves
<1>2. t \in SessionRecords
  BY <1>0, AcquiredTyped, MemberTypes
<1>3. /\ t.life = "active" /\ t.control = c /\ t.gen \in {r.gen, r.gen + 1}
      /\ t.gen = r.gen + 1 \/ Preserves(r, c)
      /\ t.busy = r.busy /\ t.intent = r.intent /\ t.closing = r.closing
      /\ t.native = r.native /\ t.snapshot = r.snapshot
  BY <1>0 DEF Acquired, SessionRecords
<1>4. r.gen \in Nat /\ r.closing \in BOOLEAN
  BY FieldTypes DEF Sound
<1> HIDE DEF t
<1> QED BY <1>a, <1>1, <1>2, <1>3, <1>4, MemberTypes DEF MayAcquire, Follows, Sound,
           ClosingIsNobodys

LEMMA ClosingFollows ==
  ASSUME NEW r, Sound(r)
  PROVE  Follows(r, Closing(r)) /\ Closing(r).busy = r.busy /\ Closing(r).snapshot = r.snapshot
<1> DEFINE t == Closing(r)
<1>0. r \in SessionRecords
  BY DEF Sound
<1>a. t = Closing(r)
  OBVIOUS
<1>1. t \in SessionRecords
  BY <1>0, ClosingTyped, MemberTypes
<1>2. /\ t.life = "disconnected" /\ t.control = Nobody /\ t.gen = r.gen + 1
      /\ t.busy = r.busy /\ t.intent = r.intent /\ t.closing = TRUE
      /\ t.native = r.native /\ t.snapshot = r.snapshot
  BY <1>0, MemberTypes DEF Closing, Bumped, SessionRecords
<1>3. r.gen \in Nat /\ r.closing \in BOOLEAN
  BY FieldTypes DEF Sound
<1> HIDE DEF t
<1> QED BY <1>a, <1>1, <1>2, <1>3, MemberTypes DEF Follows, Sound, ClosingIsNobodys

---------------------------------------------------------------------------
(* What a step does to the sessions that were started and to the calls.     *)

SnapshotTaken(c, s) ==
  /\ call[c].step = "running" /\ call'[c].step = "done" /\ call[c].kind = "snapshot" /\ call[c].on = s
  /\ sess[s].gen = call[c].gen
  /\ sess[s].control = IF call[c].released THEN Nobody ELSE call[c].holder
  /\ sess'[s].snapshot = [by |-> c, holder |-> call[c].holder, gen |-> call[c].gen,
                          tenure |-> tenure[s], released |-> call[c].released]

SessionStep(s) ==
  /\ Follows(sess[s], sess'[s])
  /\ tenure'[s] = IF sess'[s].control = sess[s].control THEN tenure[s] ELSE tenure[s] + 1
  /\ sess'[s].snapshot \in {sess[s].snapshot, NoSnapshot} \/ \E c \in Calls : SnapshotTaken(c, s)

SessionsStep == \A s \in Sessions :
  /\ sess[s].life # "none" => SessionStep(s)
  /\ sess[s].life = "none" =>
       \/ sess'[s] = sess[s]
       \/ sess'[s].life = "active" /\ sess'[s].busy = 0 /\ sess'[s].snapshot = NoSnapshot /\ ~sess'[s].closing

Continues(c) ==
  /\ Begun(c) /\ Begun(c)'
  /\ call'[c].on = call[c].on /\ call'[c].kind = call[c].kind /\ call'[c].holder = call[c].holder
  /\ call'[c].obs = call[c].obs /\ call'[c].gen = call[c].gen /\ call'[c].released = call[c].released
  /\ call'[c].tenure = call[c].tenure

Admitted(c) ==
  LET q == call'[c]
      r == sess[q.on]
  IN
  /\ call[c].step = "new"
  /\ q.on \in Sessions /\ r.life \in Live
  /\ q.kind \in KindsOf[c] /\ q.kind \in Kinds /\ q.holder \in Cores
  /\ q.gen = r.gen /\ sess'[q.on].gen = r.gen /\ sess'[q.on].control = r.control
  /\ sess'[q.on].intent = r.intent
  /\ q.tenure = tenure[q.on]
  /\ q.released => q.kind \in {"snapshot", "observe", "list", "probe"}
  /\ ~q.released /\ q.kind \notin {"list", "probe"} => LeaseHeld(r, q.holder)
  /\ q.kind \in {"input", "wait"} => q.obs # NoCall
  /\ q.obs \in {NoCall, r.snapshot.by}
  /\ RefOf[c] \notin receipts

\* What is checked before an input is dispatched, and before an answer counts.
Dispatched(c) ==
  LET r == sess[call[c].on] IN
  /\ r.gen = call[c].gen /\ r.life \in Live /\ r.busy = 0 /\ r.control = call[c].holder
  /\ r.snapshot.by = call[c].obs /\ r.snapshot.by # NoCall /\ r.snapshot.gen = call[c].gen
  /\ r.snapshot.holder = call[c].holder
  /\ dispatches'[RefOf[c]] = dispatches[RefOf[c]] + 1
Counted(c) ==
  LET r == sess[call[c].on] IN
  r.gen = call[c].gen /\ (call[c].released => r.control = Nobody)

CallStep(c) ==
  /\ call[c].step = "done" => call'[c] = call[c]
  /\ Begun(c)' => Continues(c) \/ Admitted(c)
  /\ call[c].step = "running" => call'[c].step \in {"running", "done"}
  /\ call'[c].result # "none" => call'[c].step = "done"
  /\ call'[c].step = "running" => call'[c].kind # "list"
  /\ call[c].step = "running" /\ call'[c].step # "running" /\ call[c].kind \in {"input", "wait"} =>
       \/ sess'[call[c].on].snapshot = NoSnapshot
       \/ sess[call[c].on].gen # call[c].gen
       \/ sess[call[c].on].life \notin Live
  /\ call[c].step = "refreshing" /\ call'[c].step = "running" /\ call[c].kind = "input" => Dispatched(c)
  /\ call[c].step = "running" /\ call'[c].result = "applied" /\ call[c].kind # "probe" => Counted(c)
CallsStep == \A c \in Calls : CallStep(c)

\* What is dispatched in a step.
Sent(c) ==
  LET r == sess[call[c].on] IN
  /\ call[c].step = "refreshing" /\ call'[c].step = "running" /\ call[c].kind \in {"input", "file"}
  /\ Continues(c)
  /\ call[c].kind = "input" =>
       /\ r.gen = call[c].gen /\ r.life \in Live
SendStep ==
  /\ receipts \subseteq receipts'
  /\ \A x \in Refs : dispatches'[x] # dispatches[x] =>
       x \in receipts' /\ \E c \in Calls : RefOf[c] = x /\ Sent(c)

\* Sessions keep their lock file and do not come to life.
CalmSessions == \A t \in Sessions :
  sess'[t].native = sess[t].native /\ (sess'[t].life \in Live => sess[t].life \in Live)

LEMMA UpdateStep ==
  ASSUME Typed, CloseInv, NEW s \in Sessions, sess[s].life # "none", NEW q, Follows(sess[s], q),
         q.snapshot \in {sess[s].snapshot, NoSnapshot} \/ (\E c \in Calls : SnapshotTaken(c, s)),
         Update(s, q)
  PROVE  /\ SessionsStep
         /\ sess' = [sess EXCEPT ![s] = q] /\ CalmSessions
         /\ sess' \in [Sessions -> SessionRecords] /\ tenure' \in [Sessions -> Nat]
<1>1. /\ sess \in [Sessions -> SessionRecords] /\ tenure \in [Sessions -> Nat]
      /\ q \in SessionRecords
  BY DEF Typed, Follows, Sound
<1>2. sess' = [sess EXCEPT ![s] = q]
  BY DEF Update
<1>3. tenure' = IF q.control = sess[s].control THEN tenure ELSE [tenure EXCEPT ![s] = tenure[s] + 1]
  BY DEF Update
<1>4. sess' \in [Sessions -> SessionRecords] /\ tenure' \in [Sessions -> Nat]
  BY <1>1, <1>2, <1>3
<1>5. SessionStep(s)
  BY <1>1, <1>2, <1>3 DEF SessionStep
<1>6. ASSUME NEW t \in Sessions, t # s, sess[t].life # "none" PROVE SessionStep(t)
  <2>1. Sound(sess[t])
    BY <1>1, <1>6 DEF Sound, CloseInv
  <2>2. sess'[t] = sess[t] /\ tenure'[t] = tenure[t]
    BY <1>1, <1>2, <1>3, <1>6
  <2> QED BY <2>1, <2>2, FollowsSelf DEF SessionStep
<1>7. ASSUME NEW t \in Sessions, sess[t].life = "none" PROVE sess'[t] = sess[t]
  BY <1>1, <1>2, <1>7
<1>8. CalmSessions
  BY <1>1, <1>2 DEF CalmSessions, Follows
<1> QED BY <1>2, <1>4, <1>5, <1>6, <1>7, <1>8 DEF SessionsStep

LEMMA QuietSessions ==
  ASSUME Typed, CloseInv, UNCHANGED <<sess, tenure>>
  PROVE  /\ SessionsStep /\ CalmSessions
         /\ sess' \in [Sessions -> SessionRecords] /\ tenure' \in [Sessions -> Nat]
<1>1. /\ sess \in [Sessions -> SessionRecords] /\ tenure \in [Sessions -> Nat]
  BY DEF Typed
<1>2. ASSUME NEW t \in Sessions, sess[t].life # "none" PROVE SessionStep(t)
  <2>1. Sound(sess[t])
    BY <1>1, <1>2 DEF Sound, CloseInv
  <2> QED BY <2>1, FollowsSelf DEF SessionStep
<1> QED BY <1>1, <1>2 DEF SessionsStep, CalmSessions

LEMMA QuietCalls ==
  ASSUME Typed, WorkInv, UNCHANGED callVars
  PROVE  CallsStep /\ SendStep /\ call' \in [Calls -> CallRecords] /\ receipts' \subseteq Refs
         /\ dispatches' \in [Refs -> Nat]
BY DEF Typed, WorkInv, callVars, CallsStep, CallStep, SendStep, Continues, Begun

LEMMA WorkingFinite == \A s \in Sessions : IsFiniteSet(Working(s)) /\ Cardinality(Working(s)) \in Nat
<1>1. ASSUME NEW s \in Sessions PROVE IsFiniteSet(Working(s))
  <2>1. Working(s) \subseteq Calls \cup Opens BY DEF Working
  <2>2. IsFiniteSet(Calls \cup Opens) BY SessionsAssumption, FS_Union
  <2> QED BY <2>1, <2>2, FS_Subset
<1> QED BY <1>1, FS_CardinalityType

LEMMA WorkingFinite2 == \A s \in Sessions : IsFiniteSet(Working(s)')
<1>1. ASSUME NEW s \in Sessions PROVE IsFiniteSet(Working(s)')
  <2>1. Working(s)' \subseteq Calls \cup Opens BY DEF Working
  <2>2. IsFiniteSet(Calls \cup Opens) BY SessionsAssumption, FS_Union
  <2> QED BY <2>1, <2>2, FS_Subset
<1> QED BY <1>1

LEMMA BusySame ==
  ASSUME BusyInv, \A s \in Sessions : sess'[s].busy = sess[s].busy /\ Working(s)' = Working(s)
  PROVE  BusyInv'
BY DEF BusyInv

LEMMA BusyIn ==
  ASSUME BusyInv, NEW s \in Sessions, NEW x, x \notin Working(s), Working(s)' = Working(s) \cup {x},
         sess'[s].busy = sess[s].busy + 1,
         \A t \in Sessions \ {s} : sess'[t].busy = sess[t].busy /\ Working(t)' = Working(t)
  PROVE  BusyInv'
<1>1. Cardinality(Working(s)') = Cardinality(Working(s)) + 1
  BY WorkingFinite, FS_AddElement
<1> QED BY <1>1 DEF BusyInv

LEMMA BusyOut ==
  ASSUME BusyInv, NEW s \in Sessions, NEW x, x \in Working(s), Working(s)' = Working(s) \ {x},
         sess'[s].busy = sess[s].busy - 1,
         \A t \in Sessions \ {s} : sess'[t].busy = sess[t].busy /\ Working(t)' = Working(t)
  PROVE  BusyInv'
<1>1. Cardinality(Working(s)') = Cardinality(Working(s)) - 1
  BY WorkingFinite, FS_RemoveElement
<1> QED BY <1>1 DEF BusyInv

OpensStep == \A o \in Opens : open'[o].step \in {"reusing", "closing"} =>
  /\ open'[o].on \in Sessions /\ sess[open'[o].on].life # "none"

Steps ==
  /\ Typed /\ Typed' /\ SessionsStep /\ CallsStep /\ SendStep /\ OpensStep
  /\ LockInv /\ LiveInv /\ CloseInv /\ WorkInv /\ HoldInv /\ SnapInv /\ SentInv

---------------------------------------------------------------------------
(* What follows for the invariants that speak of sessions and calls.        *)

LEMMA CallFields ==
  ASSUME Typed, NEW c \in Calls
  PROVE  /\ call[c].on \in Sessions \cup {NoSession} /\ call[c].kind \in Kinds \cup {"none"}
         /\ call[c].obs \in Calls \cup {NoCall} /\ call[c].gen \in Nat /\ call[c].tenure \in Nat
         /\ call[c].released \in BOOLEAN /\ call[c].holder \in Cores \cup {Nobody}
         /\ call[c].step \in {"new", "refreshing", "running", "done"}
         /\ call[c].prev \in Kept
BY DEF Typed, CallRecords

LEMMA SnapFields ==
  ASSUME Typed, NEW s \in Sessions
  PROVE  /\ sess[s].snapshot.by \in Calls \cup {NoCall} /\ sess[s].snapshot.gen \in Nat
         /\ sess[s].snapshot.tenure \in Nat /\ sess[s].snapshot.released \in BOOLEAN
         /\ sess[s].snapshot.holder \in Cores \cup {Nobody}
         /\ sess[s].gen \in Nat /\ tenure[s] \in Nat /\ sess[s].life \in Lives
         /\ sess[s].control \in Controls
BY DEF Typed, SessionRecords, Snapshots

LEMMA NoSnapshotFields ==
  NoSnapshot.by = NoCall /\ NoSnapshot.gen = 0 /\ NoSnapshot \in Snapshots
BY NoneTyped DEF NoSnapshot

LEMMA CloseHolds == ASSUME Steps PROVE CloseInv'
<1>1. ASSUME NEW s \in Sessions PROVE ClosingIsNobodys(sess'[s])
  <2>1. CASE sess[s].life # "none"
    BY <2>1 DEF Steps, SessionsStep, SessionStep, Follows, Sound
  <2>2. CASE sess[s].life = "none"
    BY <2>2 DEF Steps, SessionsStep, CloseInv, ClosingIsNobodys
  <2> QED BY <2>1, <2>2
<1> QED BY <1>1 DEF CloseInv

\* A session that was started stays so, and its generation only grows.
LEMMA Grows ==
  ASSUME Steps, NEW s \in Sessions, sess[s].life # "none"
  PROVE  sess'[s].life # "none" /\ sess'[s].gen >= sess[s].gen /\ sess[s].gen \in Nat /\ sess'[s].gen \in Nat
         /\ (sess'[s].life \in Live => sess[s].life \in Live)
<1>1. sess'[s].gen \in Nat /\ sess[s].gen \in Nat
  BY DEF Steps, Typed, SessionRecords
<1> QED BY <1>1 DEF Steps, SessionsStep, SessionStep, Follows, Sound

LEMMA CallsWork ==
  ASSUME Steps, NEW c \in Calls, Begun(c)'
  PROVE  /\ call'[c].on \in Sessions /\ sess'[call'[c].on].life # "none"
         /\ sess[call'[c].on].life # "none"
         /\ call'[c].kind \in KindsOf[c] /\ call'[c].kind \in Kinds
         /\ call'[c].holder \in Cores
         /\ call'[c].gen <= sess'[call'[c].on].gen
         /\ call'[c].released => call'[c].kind \in {"snapshot", "observe", "list", "probe"}
         /\ call'[c].kind \in {"input", "wait"} => call'[c].obs # NoCall
         /\ call'[c].obs # NoCall => call'[call'[c].obs].step = "done"
<1> DEFINE s == call'[c].on
<1>1. Continues(c) \/ Admitted(c)
  BY DEF Steps, CallsStep, CallStep
<1>2. \A d \in Calls : call[d].step = "done" => call'[d].step = "done"
  BY DEF Steps, CallsStep, CallStep
<1>3. CASE Continues(c)
  <2>1. /\ s \in Sessions /\ sess[s].life # "none" /\ call[c].gen <= sess[s].gen
        /\ call[c].obs # NoCall => call[call[c].obs].step = "done"
        /\ call[c].kind \in KindsOf[c] /\ call[c].kind \in Kinds
        /\ call[c].holder \in Cores
        /\ call[c].released => call[c].kind \in {"snapshot", "observe", "list", "probe"}
        /\ call[c].kind \in {"input", "wait"} => call[c].obs # NoCall
    BY <1>3 DEF Continues, Steps, WorkInv
  <2>2. sess'[s].life # "none" /\ call[c].gen <= sess'[s].gen
    BY <2>1, Grows, CallFields DEF Steps
  <2>3. call[c].obs \in Calls \cup {NoCall}
    BY CallFields DEF Steps
  <2> QED BY <1>2, <1>3, <2>1, <2>2, <2>3 DEF Continues
<1>4. CASE Admitted(c)
  <2>1. s \in Sessions /\ sess[s].life # "none" /\ call'[c].gen = sess'[s].gen
    BY <1>4, MemberTypes DEF Admitted
  <2>2. sess'[s].life # "none" /\ sess'[s].gen \in Nat
    BY <2>1, Grows
  <2>3. call'[c].obs # NoCall => call'[call'[c].obs].step = "done"
    <3>1. call'[c].obs # NoCall => call'[c].obs = sess[s].snapshot.by
      BY <1>4 DEF Admitted
    <3>2. sess[s].snapshot.by \in Calls \cup {NoCall}
      BY <2>1, SnapFields DEF Steps
    <3>3. sess[s].snapshot.by # NoCall => call[sess[s].snapshot.by].step = "done"
      BY <2>1 DEF Steps, WorkInv
    <3> QED BY <1>2, <3>1, <3>2, <3>3
  <2> QED BY <1>4, <2>1, <2>2, <2>3 DEF Admitted
<1> QED BY <1>1, <1>3, <1>4

LEMMA SessionsWork ==
  ASSUME Steps, NEW s \in Sessions
  PROVE  /\ sess'[s].life = "none" => sess'[s] = NewSession
         /\ sess'[s].snapshot.by # NoCall =>
              call'[sess'[s].snapshot.by].step = "done" /\ sess'[s].snapshot.holder \in Cores
         /\ sess'[s].snapshot.gen <= sess'[s].gen
<1>1. \A d \in Calls : call[d].step = "done" => call'[d].step = "done"
  BY DEF Steps, CallsStep, CallStep
<1>2. /\ sess[s].life = "none" => sess[s] = NewSession
      /\ sess[s].snapshot.by # NoCall =>
              call[sess[s].snapshot.by].step = "done" /\ sess[s].snapshot.holder \in Cores
      /\ sess[s].snapshot.gen <= sess[s].gen
  BY DEF Steps, WorkInv
<1>3. /\ sess[s].snapshot.by \in Calls \cup {NoCall} /\ sess[s].snapshot.gen \in Nat
      /\ sess[s].gen \in Nat /\ sess'[s].gen \in Nat
  BY SnapFields DEF Steps, Typed, SessionRecords
<1>4. CASE sess[s].life = "none"
  <2>1. CASE sess'[s] = sess[s]
    BY <1>1, <1>2, <1>3, <1>4, <2>1
  <2>2. CASE sess'[s].life = "active" /\ sess'[s].snapshot = NoSnapshot
    BY <2>2, <1>3, NoSnapshotFields
  <2> QED BY <1>4, <2>1, <2>2 DEF Steps, SessionsStep
<1>5. CASE sess[s].life # "none"
  <2>1. SessionStep(s) /\ sess'[s].life # "none" /\ sess'[s].gen >= sess[s].gen
    BY <1>5, Grows DEF Steps, SessionsStep
  <2>2. CASE sess'[s].snapshot = sess[s].snapshot
    BY <1>1, <1>2, <1>3, <2>1, <2>2
  <2>3. CASE sess'[s].snapshot = NoSnapshot
    BY <1>3, <2>1, <2>3, NoSnapshotFields
  <2>4. ASSUME NEW c \in Calls, SnapshotTaken(c, s)
        PROVE  /\ sess'[s].snapshot.by # NoCall =>
                    call'[sess'[s].snapshot.by].step = "done" /\ sess'[s].snapshot.holder \in Cores
               /\ sess'[s].snapshot.gen <= sess'[s].gen
    <3>1. sess'[s].snapshot.by = c /\ sess'[s].snapshot.holder = call[c].holder
          /\ sess'[s].snapshot.gen = call[c].gen /\ call[c].gen = sess[s].gen
          /\ call'[c].step = "done" /\ call[c].step = "running"
      BY <2>4 DEF SnapshotTaken
    <3>2. call[c].holder \in Cores
      BY <3>1 DEF Steps, WorkInv, Begun
    <3> QED BY <1>3, <2>1, <3>1, <3>2
  <2> QED BY <2>1, <2>2, <2>3, <2>4 DEF SessionStep
<1> QED BY <1>4, <1>5

LEMMA WorkHolds == ASSUME Steps PROVE WorkInv'
<1>1. \A o \in Opens : open'[o].step \in {"reusing", "closing"} =>
        open'[o].on \in Sessions /\ sess'[open'[o].on].life # "none"
  BY Grows DEF Steps, OpensStep
<1>2. \A c \in Calls : /\ call'[c].result # "none" => call'[c].step = "done"
                       /\ call'[c].step = "running" => call'[c].kind # "list"
  BY DEF Steps, CallsStep, CallStep
<1> QED BY <1>1, <1>2, CallsWork, SessionsWork DEF WorkInv

LEMMA HoldHolds == ASSUME Steps PROVE HoldInv'
<1> SUFFICES ASSUME NEW c \in Calls, Begun(c)', call'[c].kind \notin {"list", "probe"},
                    sess'[call'[c].on].gen = call'[c].gen
             PROVE  LET s == call'[c].on
                        r == sess'[s] IN
                    IF call'[c].released
                    THEN r.control = Nobody => tenure'[s] = call'[c].tenure
                    ELSE r.control = call'[c].holder /\ ~r.intent /\ tenure'[s] = call'[c].tenure
  BY DEF HoldInv
<1> DEFINE s == call'[c].on
<1>1. Continues(c) \/ Admitted(c)
  BY DEF Steps, CallsStep, CallStep
<1>2. s \in Sessions /\ sess[s].life # "none" /\ call'[c].holder \in Cores
  BY CallsWork
<1>3. /\ SessionStep(s) /\ sess[s].gen \in Nat /\ sess'[s].gen \in Nat /\ sess'[s].gen >= sess[s].gen
      /\ sess'[s].gen = sess[s].gen =>
           sess'[s].intent = sess[s].intent /\ (sess'[s].control = sess[s].control \/ sess[s].control = Nobody)
      /\ tenure'[s] = IF sess'[s].control = sess[s].control THEN tenure[s] ELSE tenure[s] + 1
  BY <1>2, Grows DEF Steps, SessionsStep, SessionStep, Follows
<1>4. CASE Continues(c)
  <2>1. call[c].gen <= sess[s].gen /\ call[c].gen \in Nat /\ Begun(c)
    BY <1>4, CallFields DEF Continues, Steps, WorkInv
  <2>2. sess[s].gen = call[c].gen /\ sess'[s].gen = sess[s].gen
    BY <1>3, <1>4, <2>1 DEF Continues
  <2>3. IF call[c].released
        THEN sess[s].control = Nobody => tenure[s] = call[c].tenure
        ELSE sess[s].control = call[c].holder /\ ~sess[s].intent /\ tenure[s] = call[c].tenure
    BY <1>4, <2>1, <2>2 DEF Continues, Steps, HoldInv
  <2> QED BY <1>2, <1>3, <1>4, <2>2, <2>3, SessionsAssumption DEF Continues
<1>5. CASE Admitted(c)
  BY <1>2, <1>3, <1>5 DEF Admitted, LeaseHeld
<1> QED BY <1>1, <1>4, <1>5

LEMMA SnapHolds == ASSUME Steps PROVE SnapInv'
<1> SUFFICES ASSUME NEW s \in Sessions, sess'[s].snapshot.by # NoCall,
                    sess'[s].snapshot.gen = sess'[s].gen
             PROVE  LET r == sess'[s] IN
                    IF r.snapshot.released
                    THEN /\ r.control = Nobody => tenure'[s] = r.snapshot.tenure
                         /\ r.control # Nobody => tenure'[s] = r.snapshot.tenure + 1
                    ELSE r.control = r.snapshot.holder /\ tenure'[s] = r.snapshot.tenure
  BY DEF SnapInv
<1>1. sess[s].life # "none"
  <2> SUFFICES ASSUME sess[s].life = "none" PROVE FALSE OBVIOUS
  <2>1. sess[s] = NewSession /\ NewSession.snapshot = NoSnapshot
    BY DEF Steps, WorkInv, NewSession
  <2>2. sess'[s].snapshot = NoSnapshot
    BY <2>1 DEF Steps, SessionsStep
  <2> QED BY <2>2, NoSnapshotFields
<1>2. /\ SessionStep(s) /\ sess[s].gen \in Nat /\ sess'[s].gen \in Nat /\ sess'[s].gen >= sess[s].gen
      /\ sess'[s].gen = sess[s].gen =>
           sess'[s].intent = sess[s].intent /\ (sess'[s].control = sess[s].control \/ sess[s].control = Nobody)
      /\ tenure'[s] = IF sess'[s].control = sess[s].control THEN tenure[s] ELSE tenure[s] + 1
  BY <1>1, Grows DEF Steps, SessionsStep, SessionStep, Follows
<1>3. /\ sess[s].snapshot.gen <= sess[s].gen /\ sess[s].snapshot.gen \in Nat
      /\ sess[s].snapshot.by # NoCall => sess[s].snapshot.holder \in Cores
  BY SnapFields DEF Steps, WorkInv
<1>4. CASE sess'[s].snapshot = sess[s].snapshot
  <2>0. sess[s].snapshot.gen = sess'[s].gen
    BY <1>4
  <2>1. sess[s].snapshot.gen = sess[s].gen /\ sess'[s].gen = sess[s].gen
    <3> HIDE DEF SessionStep
    <3>1. sess[s].snapshot.gen \in Nat /\ sess[s].gen \in Nat /\ sess'[s].gen \in Nat
      BY <1>2, <1>3
    <3>2. sess[s].snapshot.gen <= sess[s].gen /\ sess'[s].gen >= sess[s].gen
      BY <1>2, <1>3
    <3> QED BY <2>0, <3>1, <3>2
  <2>2. IF sess[s].snapshot.released
        THEN /\ sess[s].control = Nobody => tenure[s] = sess[s].snapshot.tenure
             /\ sess[s].control # Nobody => tenure[s] = sess[s].snapshot.tenure + 1
        ELSE sess[s].control = sess[s].snapshot.holder /\ tenure[s] = sess[s].snapshot.tenure
    BY <1>4, <2>1 DEF Steps, SnapInv
  <2> QED BY <1>2, <1>3, <1>4, <2>1, <2>2, SessionsAssumption
<1>5. CASE sess'[s].snapshot = NoSnapshot
  BY <1>5, NoSnapshotFields
<1>6. ASSUME NEW c \in Calls, SnapshotTaken(c, s)
      PROVE  LET r == sess'[s] IN
             IF r.snapshot.released
             THEN /\ r.control = Nobody => tenure'[s] = r.snapshot.tenure
                  /\ r.control # Nobody => tenure'[s] = r.snapshot.tenure + 1
             ELSE r.control = r.snapshot.holder /\ tenure'[s] = r.snapshot.tenure
  <2>1. /\ sess'[s].snapshot.holder = call[c].holder /\ sess'[s].snapshot.gen = call[c].gen
        /\ sess'[s].snapshot.tenure = tenure[s] /\ sess'[s].snapshot.released = call[c].released
        /\ call[c].gen = sess[s].gen /\ call[c].step = "running"
        /\ sess[s].control = IF call[c].released THEN Nobody ELSE call[c].holder
    BY <1>6 DEF SnapshotTaken
  <2>2. call[c].holder \in Cores
    BY <2>1 DEF Steps, WorkInv, Begun
  <2> QED BY <1>2, <2>1, <2>2, SessionsAssumption
<1> QED BY <1>2, <1>4, <1>5, <1>6 DEF SessionStep

\* No two sessions are live.
LEMMA OneLive ==
  ASSUME LiveInv, LockInv, NEW s \in Sessions, NEW t \in Sessions,
         sess[s].life \in Live, sess[t].life \in Live
  PROVE  s = t
BY DEF LiveInv, LockInv

\* The answer to what would spoil a call spoils it.
LEMMA SpoiledHolds ==
  ASSUME Steps, NEW c \in Calls, Continues(c), Spoiled(c), call[c].kind = "input"
  PROVE  Spoiled(c)'
<1> DEFINE s == call[c].on
<1>1. /\ s \in Sessions /\ sess[s].life # "none" /\ call[c].gen <= sess[s].gen /\ call[c].gen \in Nat
      /\ call[c].obs # NoCall /\ call[c].obs \in Calls /\ call[call[c].obs].step = "done"
  BY CallFields DEF Continues, Steps, WorkInv
<1>2. /\ SessionStep(s) /\ sess'[s].gen >= sess[s].gen /\ sess[s].gen \in Nat /\ sess'[s].gen \in Nat
      /\ sess'[s].life \in Live => sess[s].life \in Live
  BY <1>1, Grows DEF Steps, SessionsStep
<1>3. call'[c].on = s /\ call'[c].gen = call[c].gen /\ call'[c].obs = call[c].obs
  BY DEF Continues
<1>4. CASE sess[s].gen # call[c].gen \/ sess[s].life \notin Live
  BY <1>1, <1>2, <1>3, <1>4 DEF Spoiled
<1>5. CASE sess[s].snapshot.by # call[c].obs
  <2>1. sess'[s].snapshot.by # call[c].obs
    <3>1. ASSUME NEW d \in Calls, SnapshotTaken(d, s) PROVE sess'[s].snapshot.by # call[c].obs
      BY <1>1, <3>1 DEF SnapshotTaken
    <3>2. sess'[s].snapshot = NoSnapshot => sess'[s].snapshot.by # call[c].obs
      BY <1>1, NoSnapshotFields
    <3>3. \/ sess'[s].snapshot \in {sess[s].snapshot, NoSnapshot}
          \/ \E d \in Calls : SnapshotTaken(d, s)
      BY <1>2 DEF SessionStep
    <3> QED BY <1>5, <3>1, <3>2, <3>3
  <2> QED BY <1>3, <2>1 DEF Spoiled
<1>6. ASSUME NEW d \in Calls, call[d].step = "running", call[d].kind \in {"input", "wait"},
             call[d].on = s, call[c].gen <= call[d].gen
      PROVE  Spoiled(c)'
  <2>1. call'[d].step \in {"running", "done"}
    BY <1>6 DEF Steps, CallsStep, CallStep
  <2>2. CASE call'[d].step = "running"
    <3>1. Continues(d)
      <4>1. Continues(d) \/ Admitted(d)
        BY <2>2 DEF Steps, CallsStep, CallStep, Begun
      <4> QED BY <4>1, <1>6 DEF Admitted
    <3> QED BY <1>3, <1>6, <2>2, <3>1 DEF Spoiled, Continues
  <2>3. CASE call'[d].step = "done"
    <3>1. sess'[s].snapshot = NoSnapshot \/ sess[s].gen # call[d].gen \/ sess[s].life \notin Live
      BY <1>6, <2>3 DEF Steps, CallsStep, CallStep
    <3>2. call[d].gen <= sess[s].gen /\ call[d].gen \in Nat
      BY <1>6, CallFields DEF Steps, WorkInv, Begun
    <3>3. CASE sess'[s].snapshot = NoSnapshot
      BY <1>1, <1>3, <3>3, NoSnapshotFields DEF Spoiled
    <3>4. CASE sess[s].gen # call[d].gen
      <4>1. sess'[s].gen # call[c].gen
        BY <1>1, <1>2, <1>6, <3>2, <3>4
      <4> QED BY <1>3, <4>1 DEF Spoiled
    <3>5. CASE sess[s].life \notin Live
      BY <1>2, <1>3, <3>5 DEF Spoiled
    <3> QED BY <3>1, <3>3, <3>4, <3>5
  <2> QED BY <2>1, <2>2, <2>3
<1> QED BY <1>4, <1>5, <1>6 DEF Spoiled

LEMMA SentHolds == ASSUME Steps PROVE SentInv'
<1>1. \A x \in Refs : dispatches'[x] # 0 => x \in receipts'
  BY DEF Steps, SendStep, SentInv
<1> SUFFICES ASSUME NEW c \in Calls, call'[c].step = "refreshing", call'[c].kind = "input",
                    dispatches'[RefOf[c]] # 0
             PROVE  Spoiled(c)'
  BY <1>1 DEF SentInv
<1> DEFINE s == call'[c].on
           x == RefOf[c]
<1>2. Begun(c)' /\ (Continues(c) \/ Admitted(c)) /\ x \in Refs
  BY DEF Begun, Steps, CallsStep, CallStep, Refs
<1>3. s \in Sessions /\ sess[s].life # "none" /\ "input" \in KindsOf[c] /\ call'[c].gen <= sess'[s].gen
  BY <1>2, CallsWork
<1>4. call[c].step # "running" /\ call[c].step \in {"new", "refreshing", "running", "done"}
  BY CallFields DEF Steps, CallsStep, CallStep
<1>5. CASE dispatches'[x] = dispatches[x]
  <2>1. x \in receipts
    BY <1>2, <1>5 DEF Steps, SentInv
  <2>2. Continues(c)
    BY <1>2, <2>1 DEF Admitted
  <2>3. call[c].step = "refreshing" /\ call[c].kind = "input"
    BY <1>4, <2>2 DEF Continues, Begun
  <2>4. Spoiled(c)
    BY <1>5, <2>3 DEF Steps, SentInv
  <2> QED BY <2>2, <2>3, <2>4, SpoiledHolds
<1>6. CASE dispatches'[x] # dispatches[x]
  <2>1. PICK d \in Calls : RefOf[d] = x /\ Sent(d)
    BY <1>2, <1>6 DEF Steps, SendStep
  <2>2. call[d].kind = "input"
    <3>1. call[d].kind \in {"input", "file"} /\ call[d].kind \in KindsOf[d]
      BY <2>1 DEF Sent, Steps, WorkInv, Begun
    <3> QED BY <1>3, <2>1, <3>1, RefAssumption
  <2>3. /\ call'[d].step = "running" /\ call'[d].kind = "input" /\ call'[d].on = call[d].on
        /\ call'[d].gen = call[d].gen /\ call[d].on \in Sessions /\ call[d].gen \in Nat
        /\ sess[call[d].on].gen = call[d].gen /\ sess[call[d].on].life \in Live
    BY <2>1, <2>2, CallFields DEF Sent, Continues, Steps, WorkInv, Begun
  <2>4. CASE call[d].on = s
    <3>1. call'[c].gen <= call[d].gen \/ sess'[s].gen # call'[c].gen
      <4>1. sess'[s].gen >= sess[s].gen /\ sess[s].gen \in Nat /\ sess'[s].gen \in Nat
        BY <1>3, Grows
      <4>2. CASE Continues(c)
        <5>1. call[c].gen <= sess[s].gen
          BY <4>2 DEF Continues, Steps, WorkInv
        <5> QED BY <2>3, <2>4, <4>2, <5>1 DEF Continues
      <4>3. CASE Admitted(c)
        BY <2>3, <2>4, <4>1, <4>3 DEF Admitted
      <4> QED BY <1>2, <4>2, <4>3
    <3> QED BY <2>3, <2>4, <3>1 DEF Spoiled
  <2>5. CASE call[d].on # s
    <3>1. sess[s].life \notin Live
      BY <1>3, <2>3, <2>5, OneLive DEF Steps
    <3>2. sess'[s].life \notin Live
      BY <1>3, <3>1, Grows
    <3> QED BY <3>2 DEF Spoiled
  <2> QED BY <2>4, <2>5
<1> QED BY <1>5, <1>6

---------------------------------------------------------------------------
(* Every action makes such a step, and keeps the locks and the counts.      *)

StepOK ==
  Typed' /\ SessionsStep /\ CallsStep /\ SendStep /\ OpensStep /\ BusyInv' /\ LockInv' /\ LiveInv'

LEMMA ProfileHolds ==
  ASSUME Typed, LockInv, LiveInv, CalmSessions, UNCHANGED <<ownership, browsers, mutation>>,
         \A o \in Opens : open'[o].step = "launching" => open[o].step = "launching"
  PROVE  LockInv' /\ LiveInv'
<1>1. LockInv'
  BY DEF Typed, LockInv, CalmSessions
<1>2. LiveInv'
  BY DEF LiveInv, CalmSessions
<1> QED BY <1>1, <1>2

LEMMA ProfileQuiet ==
  ASSUME Typed, WorkInv, LockInv, LiveInv, CalmSessions, UNCHANGED profileVars
  PROVE  LockInv' /\ LiveInv' /\ OpensStep
<1>1. LockInv' /\ LiveInv'
  BY ProfileHolds DEF profileVars
<1>2. OpensStep
  BY DEF OpensStep, WorkInv, profileVars
<1> QED BY <1>1, <1>2

LEMMA WorkingQuiet ==
  ASSUME UNCHANGED <<open, call>> PROVE \A s \in Sessions : Working(s)' = Working(s)
BY DEF Working

\* An action on one session that calls no provider.
LEMMA SessionAction ==
  ASSUME SessionsInv, NEW s \in Sessions, sess[s].life # "none", NEW q, Follows(sess[s], q),
         q.snapshot = sess[s].snapshot, q.busy = sess[s].busy, Update(s, q),
         UNCHANGED profileVars, UNCHANGED callVars
  PROVE  StepOK
<1> USE DEF SessionsInv
<1>1. /\ SessionsStep /\ CalmSessions /\ sess' = [sess EXCEPT ![s] = q]
      /\ sess' \in [Sessions -> SessionRecords] /\ tenure' \in [Sessions -> Nat]
  BY UpdateStep
<1>2. /\ CallsStep /\ SendStep /\ call' \in [Calls -> CallRecords] /\ receipts' \subseteq Refs
      /\ dispatches' \in [Refs -> Nat]
  BY QuietCalls
<1>3. LockInv' /\ LiveInv' /\ OpensStep
  BY <1>1, ProfileQuiet
<1>4. Typed'
  BY <1>1, <1>2 DEF Typed, profileVars
<1>5. BusyInv'
  <2>1. \A t \in Sessions : sess'[t].busy = sess[t].busy
    BY <1>1 DEF Typed
  <2> QED BY <2>1, WorkingQuiet, BusySame DEF profileVars, callVars
<1> QED BY <1>1, <1>2, <1>3, <1>4, <1>5 DEF StepOK

\* The session that a step is about is Sound when it was started.
LEMMA Started ==
  ASSUME SessionsInv, NEW s \in Sessions
  PROVE  sess[s] \in SessionRecords /\ (sess[s].life # "none" => Sound(sess[s]))
         /\ (sess[s].life = "none" => sess[s].control = Nobody /\ ~sess[s].closing /\ sess[s].busy = 0)
BY DEF SessionsInv, Typed, Sound, CloseInv, WorkInv, NewSession

LEMMA StopStep == ASSUME SessionsInv, NEW s \in Sessions, Stop(s) PROVE StepOK
<1>1. Sound(sess[s]) /\ sess[s].life # "none"
  BY Started DEF Stop
<1> QED BY <1>1, ClosingFollows, SessionAction DEF Stop

LEMMA LockStep ==
  ASSUME SessionsInv, NEW s \in Sessions, NEW c \in Cores \cup {User}, Lock(s, c) PROVE StepOK
<1> DEFINE a == Acquired(sess[s], c)
           q == [a EXCEPT !.life = "locked"]
<1>1. Sound(sess[s]) /\ sess[s].life # "none" /\ MayAcquire(sess[s], c)
  BY Started, MemberTypes DEF Lock, MayAcquire
<1>2. Follows(sess[s], a) /\ a.busy = sess[s].busy /\ a.snapshot = sess[s].snapshot /\ a.life \in Live /\ ~a.closing
  BY <1>1, AcquiredFollows
<1>3. a \in SessionRecords
  BY <1>2 DEF Follows, Sound
<1> HIDE DEF a
<1>4. q \in SessionRecords
  BY <1>3, MemberTypes DEF SessionRecords
<1>5. /\ q.life = "locked" /\ q.control = a.control /\ q.gen = a.gen
      /\ q.busy = a.busy /\ q.intent = a.intent /\ q.closing = a.closing
      /\ q.native = a.native /\ q.snapshot = a.snapshot
  BY <1>3 DEF SessionRecords
<1> HIDE DEF q
<1>6. Follows(sess[s], q)
  BY <1>2, <1>4, <1>5, MemberTypes DEF Follows, Sound, ClosingIsNobodys
<1>7. Update(s, q) /\ UNCHANGED profileVars /\ UNCHANGED callVars
  BY DEF Lock, q, a
<1> QED BY <1>1, <1>2, <1>5, <1>6, <1>7, SessionAction

LEMMA ReleaseStep == ASSUME SessionsInv, NEW s \in Sessions, ReleaseControl(s) PROVE StepOK
<1> DEFINE b == Bumped(sess[s])
           q == [b EXCEPT !.life = "idle", !.control = Nobody]
<1>1. Sound(sess[s]) /\ sess[s].life # "none" /\ sess[s].life \in Live /\ sess[s] \in SessionRecords
  BY Started DEF ReleaseControl, Live
<1>2. b \in SessionRecords
  BY <1>1, BumpedTyped
<1>3. /\ b.busy = sess[s].busy /\ b.snapshot = sess[s].snapshot /\ b.closing = sess[s].closing
      /\ b.native = sess[s].native /\ b.gen = sess[s].gen + 1
  BY <1>1 DEF Bumped, SessionRecords
<1> HIDE DEF b
<1>4. q \in SessionRecords
  BY <1>2, MemberTypes DEF SessionRecords, Lives, Live
<1>5. /\ q.life = "idle" /\ q.control = Nobody /\ q.gen = b.gen /\ q.busy = b.busy
      /\ q.closing = b.closing /\ q.native = b.native /\ q.snapshot = b.snapshot
  BY <1>2 DEF SessionRecords
<1>6. sess[s].gen \in Nat /\ ~sess[s].closing
  BY <1>1, FieldTypes DEF Sound, ClosingIsNobodys
<1> HIDE DEF q
<1>7. Follows(sess[s], q)
  BY <1>1, <1>3, <1>4, <1>5, <1>6, MemberTypes DEF Follows, Sound, ClosingIsNobodys
<1>8. Update(s, q) /\ UNCHANGED profileVars /\ UNCHANGED callVars
  BY DEF ReleaseControl, q, b
<1> QED BY <1>1, <1>3, <1>5, <1>7, <1>8, SessionAction

LEMMA HandoffStep == ASSUME SessionsInv, NEW s \in Sessions, Handoff(s) PROVE StepOK
<1> DEFINE b == Bumped(sess[s])
           q == [b EXCEPT !.control = User, !.intent = FALSE]
           p == [b EXCEPT !.intent = TRUE]
<1>1. /\ Sound(sess[s]) /\ sess[s].life # "none" /\ sess[s] \in SessionRecords
      /\ sess[s].control # Nobody
  BY Started, SessionsAssumption DEF Handoff
<1>2. b \in SessionRecords
  BY <1>1, BumpedTyped
<1>3. /\ b.busy = sess[s].busy /\ b.snapshot = sess[s].snapshot /\ b.closing = sess[s].closing
      /\ b.native = sess[s].native /\ b.gen = sess[s].gen + 1 /\ b.life = sess[s].life
  BY <1>1 DEF Bumped, SessionRecords
<1>4. (Update(s, q) \/ Update(s, p)) /\ UNCHANGED profileVars /\ UNCHANGED callVars
  BY DEF Handoff
<1>5. sess[s].gen \in Nat /\ ~sess[s].closing
  BY <1>1, FieldTypes DEF Sound, ClosingIsNobodys
<1> HIDE DEF b
<1>6. q \in SessionRecords /\ p \in SessionRecords
  BY <1>2, MemberTypes DEF SessionRecords
<1>7. /\ q.life = b.life /\ q.gen = b.gen /\ q.busy = b.busy
      /\ q.closing = b.closing /\ q.native = b.native /\ q.snapshot = b.snapshot
      /\ p.life = b.life /\ p.gen = b.gen /\ p.busy = b.busy
      /\ p.closing = b.closing /\ p.native = b.native /\ p.snapshot = b.snapshot
  BY <1>2 DEF SessionRecords
<1> HIDE DEF q, p
<1>8. Follows(sess[s], q) /\ Follows(sess[s], p)
  BY <1>1, <1>3, <1>5, <1>6, <1>7, MemberTypes DEF Follows, Sound, ClosingIsNobodys
<1>9. CASE Update(s, q)
  BY <1>1, <1>3, <1>4, <1>7, <1>8, <1>9, SessionAction
<1>10. CASE Update(s, p)
  BY <1>1, <1>3, <1>4, <1>7, <1>8, <1>10, SessionAction
<1> QED BY <1>4, <1>9, <1>10

LEMMA NoOpenTyped ==
  ASSUME NEW step \in {"new", "launching", "reusing", "closing", "closed", "done"}, NEW by \in Controls
  PROVE  /\ NoOpen(step) \in OpenRecords /\ NoOpen(step).step = step
         /\ [NoOpen(step) EXCEPT !.by = by] \in OpenRecords /\ [NoOpen(step) EXCEPT !.by = by].step = step
BY MemberTypes DEF NoOpen, OpenRecords, Kept

LEMMA OpenFields ==
  ASSUME Typed, NEW o \in Opens
  PROVE  /\ open[o] \in OpenRecords /\ open[o].prev \in Kept /\ open[o].by \in Controls
         /\ open[o].step \in {"new", "launching", "reusing", "closing", "closed", "done"}
BY DEF Typed, OpenRecords

LEMMA ResumedTyped ==
  ASSUME Typed, NEW s, NEW step \in {"closed", "done"}, open' = Resumed(s, step)
  PROVE  /\ open' \in [Opens -> OpenRecords]
         /\ \A o \in Opens : open'[o] = open[o] \/ (open'[o].step = step /\ open[o].step = "closing")
<1>1. ASSUME NEW o \in Opens
      PROVE open'[o] \in OpenRecords
            /\ (open'[o] = open[o] \/ (open'[o].step = step /\ open[o].step = "closing"))
  <2>1. open[o] \in OpenRecords /\ open[o].by \in Controls
    BY OpenFields
  <2>2. CASE open[o].step = "closing" /\ open[o].on = s /\ step = "done"
    <3>1. open'[o] = NoOpen(step) BY <2>2 DEF Resumed
    <3> QED BY <2>1, <2>2, <3>1, NoOpenTyped
  <2>3. CASE open[o].step = "closing" /\ open[o].on = s /\ step # "done"
    <3>1. open'[o] = [NoOpen(step) EXCEPT !.by = open[o].by] BY <2>3 DEF Resumed
    <3> QED BY <2>1, <2>3, <3>1, NoOpenTyped
  <2>4. CASE ~(open[o].step = "closing" /\ open[o].on = s)
    <3>1. open'[o] = open[o] BY <2>4 DEF Resumed
    <3> QED BY <2>1, <3>1
  <2> QED BY <2>2, <2>3, <2>4
<1>2. open' = [o \in Opens |-> open'[o]]
  BY DEF Resumed
<1> QED BY <1>1, <1>2

LEMMA ResumedWorking ==
  ASSUME Typed, UNCHANGED call,
         \A o \in Opens : open'[o] = open[o] \/ (open'[o].step \in {"closed", "done"} /\ open[o].step = "closing")
  PROVE  \A s \in Sessions : Working(s)' = Working(s)
<1>1. \A o \in Opens, s \in Sessions :
        (open'[o].step = "reusing" /\ open'[o].on = s) <=> (open[o].step = "reusing" /\ open[o].on = s)
  OBVIOUS
<1> QED BY <1>1 DEF Working

\* The end of a close, however it comes out.
LEMMA CloseEnds ==
  ASSUME SessionsInv, NEW s \in Sessions, sess[s].closing, NEW q, q \in SessionRecords,
         q.life \in {"closed", "failed"}, q.control = Nobody, ~q.closing, q.native = sess[s].native,
         q.gen = sess[s].gen, q.intent = sess[s].intent, q.snapshot = sess[s].snapshot, q.busy = sess[s].busy,
         Update(s, q), browsers' \in {browsers, browsers \ {s}},
         ownership' = ownership \/ (ownership = s /\ ownership' = "free" /\ browsers' = browsers \ {s}),
         NEW step \in {"closed", "done"}, open' = Resumed(s, step),
         UNCHANGED <<opening, mutation>>, UNCHANGED callVars
  PROVE  StepOK
<1> USE DEF SessionsInv
<1>1. Sound(sess[s]) /\ sess[s].life # "none" /\ sess[s] \in SessionRecords /\ sess[s].control = Nobody
  BY Started DEF Sound, ClosingIsNobodys
<1>2. Follows(sess[s], q)
  BY <1>1, FieldTypes, MemberTypes DEF Follows, Sound, ClosingIsNobodys
<1>3. /\ SessionsStep /\ CalmSessions /\ sess' = [sess EXCEPT ![s] = q]
      /\ sess' \in [Sessions -> SessionRecords] /\ tenure' \in [Sessions -> Nat]
  BY <1>1, <1>2, UpdateStep
<1>4. /\ CallsStep /\ SendStep /\ call' \in [Calls -> CallRecords] /\ receipts' \subseteq Refs
      /\ dispatches' \in [Refs -> Nat]
  BY QuietCalls
<1>5. /\ open' \in [Opens -> OpenRecords]
      /\ \A o \in Opens : open'[o] = open[o] \/ (open'[o].step = step /\ open[o].step = "closing")
  BY ResumedTyped
<1>6. OpensStep
  BY <1>5 DEF OpensStep, WorkInv
<1>7. Typed'
  BY <1>3, <1>4, <1>5 DEF Typed
<1>8. BusyInv'
  <2>1. \A t \in Sessions : sess'[t].busy = sess[t].busy
    BY <1>3 DEF Typed
  <2> QED BY <1>5, <2>1, ResumedWorking, BusySame DEF callVars
<1>9. LockInv'
  <2>1. s \notin Opens \cup {"free", "mutation"}
    BY SessionsAssumption
  <2>2. \A o \in Opens : open'[o].step = "launching" => ownership' = o
    <3>1. \A o \in Opens : open'[o].step = "launching" => open[o].step = "launching"
      BY <1>5
    <3> QED BY <2>1, <3>1 DEF LockInv
  <2>3. \A b \in browsers' : sess'[b].native \/ ownership' = b
    BY <1>3 DEF LockInv, Typed, CalmSessions
  <2>4. ownership' \in Opens \cup {"mutation"} => browsers' = {}
    BY <2>1, SessionsAssumption DEF LockInv
  <2>5. mutation' = "writing" => ownership' = "mutation"
    BY <2>1 DEF LockInv
  <2> QED BY <2>2, <2>3, <2>4, <2>5 DEF LockInv
<1>10. LiveInv'
  BY <1>3, MemberTypes DEF LiveInv, CalmSessions, Typed
<1> QED BY <1>3, <1>4, <1>6, <1>7, <1>8, <1>9, <1>10 DEF StepOK

LEMMA CloseSucceedsStep == ASSUME SessionsInv, NEW s \in Sessions, CloseSucceeds(s) PROVE StepOK
<1> DEFINE q == [sess[s] EXCEPT !.life = "closed", !.control = Nobody, !.closing = FALSE]
<1>1. sess[s] \in SessionRecords /\ sess[s].closing
  BY Started DEF CloseSucceeds
<1>2. "closed" \in Lives
  BY DEF Lives
<1>3. q \in SessionRecords
  BY <1>1, <1>2, MemberTypes DEF SessionRecords
<1>4. /\ q.life = "closed" /\ q.control = Nobody /\ ~q.closing /\ q.native = sess[s].native
      /\ q.gen = sess[s].gen /\ q.intent = sess[s].intent /\ q.snapshot = sess[s].snapshot
      /\ q.busy = sess[s].busy
  BY <1>1 DEF SessionRecords
<1>5. /\ Update(s, q) /\ browsers' = browsers \ {s} /\ open' = Resumed(s, "closed")
      /\ ownership' = IF ownership = s THEN "free" ELSE ownership
      /\ UNCHANGED <<opening, mutation>> /\ UNCHANGED callVars
  BY DEF CloseSucceeds
<1> HIDE DEF q
<1> QED BY <1>1, <1>3, <1>4, <1>5, CloseEnds

LEMMA CloseFailsStep == ASSUME SessionsInv, NEW s \in Sessions, CloseFails(s) PROVE StepOK
<1> DEFINE q == [sess[s] EXCEPT !.life = "failed", !.error = "cleanup", !.closing = FALSE]
<1>1. sess[s] \in SessionRecords /\ sess[s].closing /\ sess[s].control = Nobody
  BY Started DEF CloseFails, SessionsInv, CloseInv, ClosingIsNobodys
<1>2. "failed" \in Lives /\ "cleanup" \in Errors
  BY DEF Lives, Errors
<1>3. q \in SessionRecords
  BY <1>1, <1>2, MemberTypes DEF SessionRecords
<1>4. /\ q.life = "failed" /\ q.control = Nobody /\ ~q.closing /\ q.native = sess[s].native
      /\ q.gen = sess[s].gen /\ q.intent = sess[s].intent /\ q.snapshot = sess[s].snapshot
      /\ q.busy = sess[s].busy
  BY <1>1 DEF SessionRecords
<1>5. /\ Update(s, q) /\ browsers' \in {browsers, browsers \ {s}} /\ open' = Resumed(s, "done")
      /\ ownership' = ownership
      /\ UNCHANGED <<opening, mutation>> /\ UNCHANGED callVars
  BY DEF CloseFails
<1> HIDE DEF q
<1> QED BY <1>1, <1>3, <1>4, <1>5, CloseEnds

\* An action that moves no session and calls no provider.
LEMMA QuietAction ==
  ASSUME SessionsInv, UNCHANGED <<sess, tenure>>, UNCHANGED callVars, LockInv', LiveInv',
         open' \in [Opens -> OpenRecords], opening' \in BOOLEAN, mutation' \in {"none", "reserved", "writing"},
         ownership' \in {"free", "mutation"} \cup Opens \cup Sessions, browsers' = browsers,
         \A o \in Opens : open'[o] = open[o] \/
           (open'[o].step \in {"launching", "done"} /\ open[o].step \in {"new", "closed", "launching"})
  PROVE  StepOK
<1> USE DEF SessionsInv
<1>1. /\ SessionsStep /\ CalmSessions
      /\ sess' \in [Sessions -> SessionRecords] /\ tenure' \in [Sessions -> Nat]
  BY QuietSessions
<1>2. /\ CallsStep /\ SendStep /\ call' \in [Calls -> CallRecords] /\ receipts' \subseteq Refs
      /\ dispatches' \in [Refs -> Nat]
  BY QuietCalls
<1>3. Typed'
  BY <1>1, <1>2 DEF Typed
<1>4. OpensStep
  BY DEF OpensStep, WorkInv
<1>5. \A s \in Sessions : Working(s)' = Working(s)
  <2>1. \A o \in Opens, s \in Sessions :
          (open'[o].step = "reusing" /\ open'[o].on = s) <=> (open[o].step = "reusing" /\ open[o].on = s)
    OBVIOUS
  <2> QED BY <2>1 DEF Working, callVars
<1>6. BusyInv'
  BY <1>5, BusySame
<1> QED BY <1>1, <1>2, <1>3, <1>4, <1>6 DEF StepOK

LEMMA ReserveStep == ASSUME SessionsInv, ReserveMutation PROVE StepOK
<1>1. /\ mutation' = "reserved" /\ UNCHANGED <<sess, tenure, ownership, browsers, opening, open>>
      /\ UNCHANGED callVars
  BY DEF ReserveMutation
<1>2. LockInv' /\ LiveInv'
  BY <1>1 DEF SessionsInv, LockInv, LiveInv
<1> QED BY <1>1, <1>2, QuietAction DEF SessionsInv, Typed

LEMMA FreeProfile ==
  ASSUME Typed, LockInv, ownership = "free", ~NativelyLocked
  PROVE  browsers = {} /\ mutation # "writing" /\ \A o \in Opens : open[o].step # "launching"
BY SessionsAssumption DEF LockInv, NativelyLocked, Typed

LEMMA MutateStep == ASSUME SessionsInv, Mutate PROVE StepOK
<1>1. /\ UNCHANGED <<sess, tenure, browsers, opening, open>> /\ UNCHANGED callVars
      /\ ownership = "free"
  BY DEF Mutate
<1>2. LiveInv'
  BY <1>1 DEF SessionsInv, LiveInv
<1>3. CASE NativelyLocked
  <2>1. mutation' = "none" /\ UNCHANGED ownership
    BY <1>3 DEF Mutate
  <2>2. LockInv'
    BY <1>1, <2>1 DEF SessionsInv, LockInv
  <2> QED BY <1>1, <1>2, <2>1, <2>2, QuietAction DEF SessionsInv, Typed
<1>4. CASE ~NativelyLocked
  <2>1. mutation' = "writing" /\ ownership' = "mutation"
    BY <1>4 DEF Mutate
  <2>2. browsers = {} /\ \A o \in Opens : open[o].step # "launching"
    BY <1>1, <1>4, FreeProfile DEF SessionsInv
  <2>3. LockInv'
    BY <1>1, <2>1, <2>2 DEF LockInv
  <2> QED BY <1>1, <1>2, <2>1, <2>3, QuietAction DEF SessionsInv, Typed
<1> QED BY <1>3, <1>4

LEMMA EndMutationStep == ASSUME SessionsInv, EndMutation PROVE StepOK
<1>1. /\ UNCHANGED <<sess, tenure, browsers, opening, open>> /\ UNCHANGED callVars
      /\ mutation' = "none" /\ ownership' = IF ownership = "mutation" THEN "free" ELSE ownership
  BY DEF EndMutation
<1>2. LiveInv'
  BY <1>1 DEF SessionsInv, LiveInv
<1>3. LockInv'
  BY <1>1, SessionsAssumption DEF SessionsInv, LockInv
<1> QED BY <1>1, <1>2, <1>3, QuietAction DEF SessionsInv, Typed

LEMMA CreateStep ==
  ASSUME SessionsInv, NEW o \in Opens, open[o].step \in {"new", "closed"}, NEW c \in Controls, Create(o, c),
         UNCHANGED <<sess, tenure, browsers, mutation>>, UNCHANGED callVars
  PROVE  StepOK
<1> DEFINE l == [NoOpen("launching") EXCEPT !.by = c]
<1>1. /\ open \in [Opens -> OpenRecords] /\ l \in OpenRecords /\ l.step = "launching"
      /\ NoOpen("done") \in OpenRecords /\ NoOpen("done").step = "done"
  BY NoOpenTyped, MemberTypes DEF SessionsInv, Typed
<1> HIDE DEF l
<1>2. CASE ownership = "free" /\ ~NativelyLocked
  <2>1. open' = [open EXCEPT ![o] = l] /\ ownership' = o /\ opening' = TRUE
    BY <1>2 DEF Create, l
  <2>2. browsers = {} /\ mutation # "writing" /\ \A p \in Opens : open[p].step # "launching"
    BY <1>2, FreeProfile DEF SessionsInv
  <2>3. LockInv'
    BY <1>1, <2>1, <2>2 DEF LockInv
  <2>4. LiveInv'
    BY DEF SessionsInv, LiveInv
  <2> QED BY <1>1, <2>1, <2>3, <2>4, QuietAction DEF SessionsInv, Typed
<1>3. CASE ~(ownership = "free" /\ ~NativelyLocked)
  <2>1. open' = [open EXCEPT ![o] = NoOpen("done")] /\ ownership' = ownership /\ opening' = FALSE
    BY <1>3 DEF Create
  <2>2. LockInv'
    BY <1>1, <2>1 DEF LockInv, SessionsInv
  <2>3. LiveInv'
    BY DEF SessionsInv, LiveInv
  <2> QED BY <1>1, <2>1, <2>2, <2>3, QuietAction DEF SessionsInv, Typed
<1> QED BY <1>2, <1>3

LEMMA OpenReplacesStep == ASSUME SessionsInv, NEW o \in Opens, OpenReplaces(o) PROVE StepOK
<1>1. /\ open[o].step = "closed" /\ UNCHANGED <<sess, tenure, browsers, mutation>> /\ UNCHANGED callVars
      /\ open[o].by \in Controls
  BY OpenFields DEF OpenReplaces, SessionsInv
<1>2. CASE Create(o, open[o].by)
  BY <1>1, <1>2, CreateStep
<1>3. CASE open' = [open EXCEPT ![o] = NoOpen("done")] /\ UNCHANGED <<ownership, opening>>
  <2>1. NoOpen("done") \in OpenRecords /\ NoOpen("done").step = "done" /\ open \in [Opens -> OpenRecords]
    BY NoOpenTyped, MemberTypes DEF SessionsInv, Typed
  <2>2. LockInv' /\ LiveInv'
    BY <1>1, <1>3, <2>1 DEF LockInv, LiveInv, SessionsInv
  <2> QED BY <1>1, <1>3, <2>1, <2>2, QuietAction DEF SessionsInv, Typed
<1> QED BY <1>2, <1>3 DEF OpenReplaces

LEMMA LaunchedStep == ASSUME SessionsInv, NEW o \in Opens, Launched(o) PROVE StepOK
<1> DEFINE fresh == {s \in Sessions : sess[s].life = "none"}
           s == CHOOSE s \in fresh : TRUE
<1> USE DEF SessionsInv
<1>1. /\ open[o].step = "launching" /\ opening' = FALSE /\ open' = [open EXCEPT ![o] = NoOpen("done")]
      /\ UNCHANGED mutation /\ UNCHANGED callVars
  BY DEF Launched
<1>2. /\ NoOpen("done") \in OpenRecords /\ NoOpen("done").step = "done" /\ open \in [Opens -> OpenRecords]
      /\ open[o].by \in Controls
  BY NoOpenTyped, MemberTypes, OpenFields DEF Typed
<1>3. ownership = o /\ browsers = {} /\ mutation # "writing"
  BY <1>1, SessionsAssumption DEF LockInv
<1>4. \A p \in Opens : open'[p] = open[p] \/ (open'[p].step = "done" /\ open[p].step = "launching")
  BY <1>1, <1>2
<1>5. \A p \in Opens : open'[p].step # "launching"
  BY <1>1, <1>2, <1>3 DEF LockInv
<1>6. CASE ownership' = "free" /\ UNCHANGED <<sess, tenure, browsers>>
  <2>1. LockInv' /\ LiveInv'
    BY <1>1, <1>3, <1>5, <1>6, SessionsAssumption DEF LockInv, LiveInv
  <2> QED BY <1>1, <1>2, <1>4, <1>6, <2>1, QuietAction DEF Typed
<1>7. ASSUME NEW native \in BOOLEAN, fresh # {},
             Update(s, [NewSession EXCEPT !.life = "active", !.control = open[o].by, !.native = native]),
             browsers' = browsers \cup {s}, ownership' = IF native THEN "free" ELSE s
      PROVE  StepOK
  <2> DEFINE q == [NewSession EXCEPT !.life = "active", !.control = open[o].by, !.native = native]
  <2>1. s \in Sessions /\ sess[s].life = "none"
    BY <1>7
  <2> HIDE DEF s
  <2>2. sess[s].control = Nobody /\ sess[s] = NewSession
    BY <2>1, Started DEF WorkInv
  <2>3. /\ q \in SessionRecords /\ q.life = "active" /\ q.busy = 0 /\ q.snapshot = NoSnapshot
        /\ ~q.closing /\ q.native = native
    <3>1. NewSession \in SessionRecords
      BY NoneTyped
    <3>2. q \in SessionRecords
      BY <1>2, <3>1, MemberTypes DEF SessionRecords
    <3> QED BY <3>2 DEF NewSession
  <2>4. /\ sess' = [sess EXCEPT ![s] = q]
        /\ tenure' = IF q.control = sess[s].control THEN tenure ELSE [tenure EXCEPT ![s] = tenure[s] + 1]
    BY <1>7 DEF Update
  <2> HIDE DEF q
  <2>5. sess' \in [Sessions -> SessionRecords] /\ tenure' \in [Sessions -> Nat] /\ sess'[s] = q
    BY <2>1, <2>3, <2>4 DEF Typed
  <2>6. \A t \in Sessions : t # s => sess'[t] = sess[t] /\ tenure'[t] = tenure[t]
    BY <2>4 DEF Typed
  <2>7. SessionsStep
    <3>1. ASSUME NEW t \in Sessions, sess[t].life # "none" PROVE SessionStep(t)
      <4>1. Sound(sess[t]) /\ sess'[t] = sess[t] /\ tenure'[t] = tenure[t]
        BY <2>1, <2>6, <3>1, Started
      <4> QED BY <4>1, FollowsSelf DEF SessionStep
    <3> QED BY <2>3, <2>5, <2>6, <3>1 DEF SessionsStep
  <2>8. /\ CallsStep /\ SendStep /\ call' \in [Calls -> CallRecords] /\ receipts' \subseteq Refs
        /\ dispatches' \in [Refs -> Nat]
    BY <1>1, QuietCalls
  <2>9. Typed'
    BY <1>1, <1>2, <1>7, <2>1, <2>5, <2>8 DEF Typed
  <2>10. OpensStep
    BY <1>4 DEF OpensStep, WorkInv
  <2>11. BusyInv'
    <3>1. \A t \in Sessions : Working(t)' = Working(t)
      <4>1. \A p \in Opens, t \in Sessions :
              (open'[p].step = "reusing" /\ open'[p].on = t) <=> (open[p].step = "reusing" /\ open[p].on = t)
        BY <1>4
      <4> QED BY <1>1, <4>1 DEF Working, callVars
    <3>2. \A t \in Sessions : sess'[t].busy = sess[t].busy
      BY <2>2, <2>3, <2>5, <2>6 DEF NewSession
    <3> QED BY <3>1, <3>2, BusySame
  <2>12. LockInv'
    BY <1>1, <1>3, <1>5, <1>7, <2>1, <2>3, <2>5, SessionsAssumption DEF LockInv
  <2>13. LiveInv'
    <3>1. \A t \in Sessions : sess[t].life \notin Live
      BY <1>3 DEF LiveInv
    <3> QED BY <1>7, <2>6, <3>1 DEF LiveInv
  <2> QED BY <2>7, <2>8, <2>9, <2>10, <2>11, <2>12, <2>13 DEF StepOK
<1> QED BY <1>6, <1>7 DEF Launched

LEMMA OpenReusedStep == ASSUME SessionsInv, NEW o \in Opens, OpenReused(o) PROVE StepOK
<1> USE DEF SessionsInv
<1>0. PICK s \in Sessions : s = open[o].on
  BY DEF OpenReused, WorkInv
<1> DEFINE left == Left(sess[s], open[o].prev)
<1>1. /\ open[o].step = "reusing" /\ open' = [open EXCEPT ![o] = NoOpen("done")]
      /\ UNCHANGED <<ownership, browsers, opening, mutation>> /\ UNCHANGED callVars
  BY DEF OpenReused
<1>2. PICK q : Update(s, q) /\ q \in {DriverLost(left)} \cup
                 {PageApplied(left, error) : error \in {"none", "page", "session_lost"}}
  BY <1>0 DEF OpenReused
<1>3. s \in Sessions /\ sess[s].life # "none" /\ Sound(sess[s]) /\ open[o].prev \in Kept
  BY <1>0, <1>1, OpenFields, Started DEF WorkInv
<1>4. Follows(sess[s], left) /\ left.busy = sess[s].busy - 1 /\ left.snapshot = sess[s].snapshot
  BY <1>3, LeftFollows
<1> HIDE DEF left
<1>5. /\ Follows(left, q) /\ q.busy = left.busy /\ q.snapshot \in {left.snapshot, NoSnapshot}
  <2>1. Sound(left) BY <1>4 DEF Follows
  <2>2. CASE q = DriverLost(left)
    BY <2>1, <2>2, DriverLostFollows
  <2>3. ASSUME NEW error \in {"none", "page", "session_lost"}, q = PageApplied(left, error)
        PROVE  Follows(left, q) /\ q.busy = left.busy /\ q.snapshot \in {left.snapshot, NoSnapshot}
    BY <2>1, <2>3, PageAppliedFollows
  <2> QED BY <1>2, <2>2, <2>3
<1>6. Follows(sess[s], q)
  BY <1>3, <1>4, <1>5, FollowsTrans
<1>7. /\ SessionsStep /\ CalmSessions /\ sess' = [sess EXCEPT ![s] = q]
      /\ sess' \in [Sessions -> SessionRecords] /\ tenure' \in [Sessions -> Nat]
  BY <1>2, <1>3, <1>4, <1>5, <1>6, UpdateStep
<1>8. /\ CallsStep /\ SendStep /\ call' \in [Calls -> CallRecords] /\ receipts' \subseteq Refs
      /\ dispatches' \in [Refs -> Nat]
  BY <1>1, QuietCalls
<1>9. /\ NoOpen("done") \in OpenRecords /\ NoOpen("done").step = "done" /\ open \in [Opens -> OpenRecords]
  BY NoOpenTyped, MemberTypes DEF Typed
<1>10. Typed'
  BY <1>1, <1>7, <1>8, <1>9 DEF Typed
<1>11. OpensStep
  BY <1>1, <1>9 DEF OpensStep, WorkInv
<1>12. LockInv' /\ LiveInv'
  BY <1>1, <1>7, <1>9, ProfileHolds
<1>13. BusyInv'
  <2>1. sess'[s].busy = sess[s].busy - 1 /\ \A t \in Sessions \ {s} : sess'[t].busy = sess[t].busy
    BY <1>3, <1>4, <1>5, <1>7 DEF Typed
  <2>2. o \in Working(s) /\ o \notin Calls
    BY <1>1, <1>3, <1>0, SessionsAssumption DEF Working
  <2>3. Working(s)' = Working(s) \ {o}
    BY <1>0, <1>1, <1>9, <2>2 DEF Working, callVars
  <2>4. \A t \in Sessions \ {s} : Working(t)' = Working(t)
    BY <1>0, <1>1, <1>9 DEF Working, callVars
  <2> QED BY <1>3, <2>1, <2>2, <2>3, <2>4, BusyOut
<1> QED BY <1>7, <1>8, <1>10, <1>11, <1>12, <1>13 DEF StepOK

LEMMA OpenStep ==
  ASSUME SessionsInv, NEW o \in Opens, NEW c \in Cores \cup {User}, Open(o, c) PROVE StepOK
<1> DEFINE g(step, s) == [step |-> step, on |-> s, prev |-> sess[s].kind, by |-> c]
<1> USE DEF SessionsInv
<1>1. open[o].step = "new" /\ UNCHANGED <<browsers, mutation>> /\ UNCHANGED callVars
  BY DEF Open
<1>2. CASE Existing = {} /\ ~opening /\ Create(o, c) /\ UNCHANGED <<sess, tenure>>
  BY <1>1, <1>2, CreateStep, MemberTypes
<1>3. ASSUME NEW s \in Sessions, sess[s].life # "none",
             UNCHANGED <<ownership, opening>>,
             \/ /\ MayAcquire(sess[s], c) /\ Update(s, Entered(Acquired(sess[s], c), "mutating"))
                /\ open' = [open EXCEPT ![o] = g("reusing", s)]
             \/ /\ Update(s, Closing(sess[s])) /\ open' = [open EXCEPT ![o] = g("closing", s)]
      PROVE  StepOK
  <2>1. Sound(sess[s]) /\ sess[s].kind \in Kept
    BY <1>3, Started, FieldTypes
  <2>2. ASSUME NEW step \in {"reusing", "closing"}
        PROVE  g(step, s) \in OpenRecords /\ g(step, s).step = step /\ g(step, s).on = s
    BY <2>1, <2>2, MemberTypes DEF OpenRecords
  <2> HIDE DEF g
  <2>3. open \in [Opens -> OpenRecords]
    BY DEF Typed
  <2>4. ASSUME NEW q, Follows(sess[s], q), q.snapshot = sess[s].snapshot, Update(s, q),
               NEW step \in {"reusing", "closing"}, open' = [open EXCEPT ![o] = g(step, s)],
               q.busy = IF step = "reusing" THEN sess[s].busy + 1 ELSE sess[s].busy
        PROVE  StepOK
    <3>1. /\ SessionsStep /\ CalmSessions /\ sess' = [sess EXCEPT ![s] = q]
          /\ sess' \in [Sessions -> SessionRecords] /\ tenure' \in [Sessions -> Nat]
      BY <1>3, <2>4, UpdateStep
    <3>2. /\ CallsStep /\ SendStep /\ call' \in [Calls -> CallRecords] /\ receipts' \subseteq Refs
          /\ dispatches' \in [Refs -> Nat]
      BY <1>1, QuietCalls
    <3>3. Typed'
      BY <1>1, <1>3, <2>2, <2>3, <2>4, <3>1, <3>2 DEF Typed
    <3>4. OpensStep
      BY <1>3, <2>2, <2>3, <2>4 DEF OpensStep, WorkInv
    <3>5. LockInv' /\ LiveInv'
      BY <1>1, <1>3, <2>2, <2>3, <2>4, <3>1, ProfileHolds
    <3>6. sess'[s].busy = q.busy /\ \A t \in Sessions \ {s} : sess'[t].busy = sess[t].busy
      BY <3>1 DEF Typed
    <3>7. o \notin Working(s) /\ o \notin Calls
      BY <1>1, SessionsAssumption DEF Working
    <3>8. \A t \in Sessions \ {s} : Working(t)' = Working(t)
      BY <1>1, <2>2, <2>3, <2>4 DEF Working, callVars
    <3>9. CASE step = "reusing"
      <4>1. Working(s)' = Working(s) \cup {o}
        BY <1>1, <2>2, <2>3, <2>4, <3>7, <3>9 DEF Working, callVars
      <4>2. BusyInv'
        BY <2>4, <3>6, <3>7, <3>8, <3>9, <4>1, BusyIn
      <4> QED BY <3>1, <3>2, <3>3, <3>4, <3>5, <4>2 DEF StepOK
    <3>10. CASE step = "closing"
      <4>1. Working(s)' = Working(s)
        BY <1>1, <2>2, <2>3, <2>4, <3>7, <3>10 DEF Working, callVars
      <4>2. BusyInv'
        BY <2>4, <3>6, <3>8, <3>10, <4>1, BusySame
      <4> QED BY <3>1, <3>2, <3>3, <3>4, <3>5, <4>2 DEF StepOK
    <3> QED BY <3>9, <3>10
  <2>5. CASE /\ MayAcquire(sess[s], c) /\ Update(s, Entered(Acquired(sess[s], c), "mutating"))
             /\ open' = [open EXCEPT ![o] = g("reusing", s)]
    <3> DEFINE a == Acquired(sess[s], c)
               q == Entered(a, "mutating")
    <3>1. Follows(sess[s], a) /\ a.busy = sess[s].busy /\ a.snapshot = sess[s].snapshot
      BY <2>1, <2>5, AcquiredFollows
    <3> HIDE DEF a
    <3>2. Follows(a, q) /\ q.busy = a.busy + 1 /\ q.snapshot = a.snapshot
      BY <3>1, EnteredFollows, MemberTypes DEF Follows
    <3> HIDE DEF q
    <3>3. Follows(sess[s], q)
      BY <2>1, <3>1, <3>2, FollowsTrans
    <3>4. Update(s, q)
      BY <2>5 DEF q, a
    <3> QED BY <2>4, <2>5, <3>1, <3>2, <3>3, <3>4
  <2>6. CASE Update(s, Closing(sess[s])) /\ open' = [open EXCEPT ![o] = g("closing", s)]
    <3> DEFINE q == Closing(sess[s])
    <3>1. Follows(sess[s], q) /\ q.busy = sess[s].busy /\ q.snapshot = sess[s].snapshot
      BY <2>1, ClosingFollows
    <3>2. Update(s, q) BY <2>6
    <3> HIDE DEF q
    <3> QED BY <2>4, <2>6, <3>1, <3>2
  <2> QED BY <1>3, <2>5, <2>6
<1> QED BY <1>2, <1>3 DEF Open, Existing, Retains

LEMMA CallTyped ==
  /\ IdleCall \in CallRecords /\ IdleCall.step = "new" /\ IdleCall.result = "none"
  /\ \A result \in {"applied", "unknown"} :
       EndedCall(result) \in CallRecords /\ EndedCall(result).step = "done" /\ EndedCall(result).result = result
BY MemberTypes DEF IdleCall, EndedCall, CallRecords, Kept

\* An action of one call, which leaves the profile alone.
LEMMA CallAction ==
  ASSUME SessionsInv, NEW c \in Calls, NEW d \in CallRecords, call' = [call EXCEPT ![c] = d],
         UNCHANGED profileVars, SessionsStep, CalmSessions,
         sess' \in [Sessions -> SessionRecords], tenure' \in [Sessions -> Nat],
         receipts' \subseteq Refs, dispatches' \in [Refs -> Nat], SendStep, CallStep(c), BusyInv'
  PROVE  StepOK
<1> USE DEF SessionsInv
<1>1. call \in [Calls -> CallRecords] /\ call' \in [Calls -> CallRecords]
  BY DEF Typed
<1>2. CallsStep
  <2>1. ASSUME NEW e \in Calls, e # c PROVE CallStep(e)
    <3>1. call'[e] = call[e]
      BY <1>1, <2>1
    <3> QED BY <3>1 DEF CallStep, Continues, Begun, WorkInv
  <2> QED BY <2>1 DEF CallsStep
<1>3. LockInv' /\ LiveInv' /\ OpensStep
  BY ProfileQuiet
<1>4. Typed'
  BY <1>1 DEF Typed, profileVars
<1> QED BY <1>2, <1>3, <1>4 DEF StepOK

LEMMA CallRefusedStep == ASSUME SessionsInv, NEW c \in Calls, CallRefused(c) PROVE StepOK
<1> USE DEF SessionsInv
<1>1. /\ call[c].step = "refreshing" /\ call' = [call EXCEPT ![c] = IdleCall]
      /\ UNCHANGED <<sess, tenure, receipts, dispatches>> /\ UNCHANGED profileVars
  BY DEF CallRefused
<1>2. call \in [Calls -> CallRecords] /\ receipts' \subseteq Refs /\ dispatches' \in [Refs -> Nat]
  BY <1>1 DEF Typed
<1>3. call'[c] = IdleCall
  BY <1>1, <1>2
<1>4. CallStep(c)
  BY <1>1, <1>3, CallTyped DEF CallStep, Begun
<1>5. BusyInv'
  <2>1. \A t \in Sessions : Working(t)' = Working(t)
    BY <1>1, <1>2, CallTyped DEF Working, profileVars
  <2> QED BY <1>1, <2>1, BusySame
<1>6. SendStep
  BY <1>1 DEF SendStep
<1> QED BY <1>1, <1>2, <1>4, <1>5, <1>6, QuietSessions, CallTyped, CallAction

LEMMA ListPagesStep == ASSUME SessionsInv, NEW c \in Calls, ListPages(c) PROVE StepOK
<1> USE DEF SessionsInv
<1>0. PICK s \in Sessions : s = call[c].on /\ call[c].step = "refreshing"
  BY DEF ListPages, WorkInv, Begun
<1>1. /\ call[c].step = "refreshing" /\ call' = [call EXCEPT ![c] = IdleCall]
      /\ UNCHANGED <<receipts, dispatches>> /\ UNCHANGED profileVars
  BY DEF ListPages
<1> DEFINE l == IF call[c].released /\ sess[s].control = Nobody /\ sess[s].gen = call[c].gen
                THEN [holder |-> call[c].holder, gen |-> call[c].gen] ELSE NoPageList
           q == [sess[s] EXCEPT !.list = l]
<1>2. Update(s, q)
  BY <1>0 DEF ListPages
<1>3. l \in PageLists
  BY NoneTyped, CallFields DEF PageLists
<1> HIDE DEF l
<1>4. Sound(sess[s]) /\ sess[s] \in SessionRecords /\ sess[s].life # "none"
  BY <1>0, Started DEF WorkInv, Begun
<1>5. q \in SessionRecords
  BY <1>3, <1>4 DEF SessionRecords
<1>6. /\ q.life = sess[s].life /\ q.gen = sess[s].gen /\ q.busy = sess[s].busy /\ q.control = sess[s].control
      /\ q.closing = sess[s].closing /\ q.native = sess[s].native /\ q.snapshot = sess[s].snapshot
      /\ q.intent = sess[s].intent
  BY <1>4 DEF SessionRecords
<1> HIDE DEF q
<1>7. Follows(sess[s], q)
  BY <1>4, <1>5, <1>6, FieldTypes DEF Follows, Sound, ClosingIsNobodys
<1>8. /\ SessionsStep /\ CalmSessions /\ sess' = [sess EXCEPT ![s] = q]
      /\ sess' \in [Sessions -> SessionRecords] /\ tenure' \in [Sessions -> Nat]
  BY <1>2, <1>4, <1>6, <1>7, UpdateStep
<1>9. call \in [Calls -> CallRecords] /\ receipts' \subseteq Refs /\ dispatches' \in [Refs -> Nat]
  BY <1>1 DEF Typed
<1>10. CallStep(c)
  <2>1. call'[c] = IdleCall
    BY <1>1, <1>9
  <2> QED BY <1>1, <2>1, CallTyped DEF CallStep, Begun
<1>11. BusyInv'
  <2>1. \A t \in Sessions : Working(t)' = Working(t)
    BY <1>1, <1>9, CallTyped DEF Working, profileVars
  <2>2. \A t \in Sessions : sess'[t].busy = sess[t].busy
    BY <1>6, <1>8 DEF Typed
  <2> QED BY <2>1, <2>2, BusySame
<1>12. SendStep
  BY <1>1 DEF SendStep
<1> QED BY <1>1, <1>8, <1>9, <1>10, <1>11, <1>12, CallTyped, CallAction

\* The provider's answer, whatever becomes of the session.
LEMMA AnswerAction ==
  ASSUME SessionsInv, NEW c \in Calls, call[c].step = "running",
         NEW s \in Sessions, s = call[c].on,
         NEW q, Follows(sess[s], q), q.busy = sess[s].busy - 1, Update(s, q),
         q.snapshot \in {sess[s].snapshot, NoSnapshot} \/ SnapshotTaken(c, s),
         NEW result \in {"applied", "unknown"}, call' = [call EXCEPT ![c] = EndedCall(result)],
         call[c].kind \in {"input", "wait"} =>
           q.snapshot = NoSnapshot \/ sess[s].gen # call[c].gen \/ sess[s].life \notin Live,
         result = "applied" /\ call[c].kind # "probe" => Counted(c),
         UNCHANGED <<receipts, dispatches>>, UNCHANGED profileVars
  PROVE  StepOK
<1> USE DEF SessionsInv
<1>1. sess[s].life # "none"
  BY DEF WorkInv, Begun
<1>2. /\ SessionsStep /\ CalmSessions /\ sess' = [sess EXCEPT ![s] = q]
      /\ sess' \in [Sessions -> SessionRecords] /\ tenure' \in [Sessions -> Nat]
  BY <1>1, UpdateStep
<1>3. /\ call \in [Calls -> CallRecords] /\ receipts' \subseteq Refs /\ dispatches' \in [Refs -> Nat]
      /\ sess'[s] = q
  BY <1>2 DEF Typed
<1>4. call'[c].step = "done" /\ call'[c].result = result
  BY <1>3, CallTyped
<1>5. CallStep(c)
  BY <1>3, <1>4 DEF CallStep, Begun
<1>6. BusyInv'
  <2>1. sess'[s].busy = sess[s].busy - 1 /\ \A t \in Sessions \ {s} : sess'[t].busy = sess[t].busy
    BY <1>2 DEF Typed
  <2>2. c \in Working(s) /\ c \notin Opens
    BY SessionsAssumption DEF Working
  <2>3. Working(s)' = Working(s) \ {c}
    BY <1>3, <1>4, <2>2 DEF Working, profileVars
  <2>4. \A t \in Sessions \ {s} : Working(t)' = Working(t)
    BY <1>3, <1>4 DEF Working, profileVars
  <2> QED BY <2>1, <2>2, <2>3, <2>4, BusyOut
<1>7. SendStep
  BY DEF SendStep
<1> QED BY <1>2, <1>3, <1>5, <1>6, <1>7, CallTyped, CallAction

LEMMA PageAnsweredStep == ASSUME SessionsInv, NEW c \in Calls, PageAnswered(c) PROVE StepOK
<1> USE DEF SessionsInv
<1>1. PICK s \in Sessions : s = call[c].on /\ call[c].step = "running" /\ call[c].kind = "page"
  BY DEF PageAnswered, WorkInv, Begun
<1>2. sess[s].life # "none" /\ Sound(sess[s]) /\ call[c].prev \in Kept
  BY <1>1, Started, CallFields DEF WorkInv, Begun
<1> DEFINE q == Left(sess[s], call[c].prev)
<1>3. Follows(sess[s], q) /\ q.busy = sess[s].busy - 1 /\ q.snapshot = sess[s].snapshot
  BY <1>2, LeftFollows
<1>4. Update(s, q) /\ UNCHANGED <<receipts, dispatches>> /\ UNCHANGED profileVars
  BY <1>1 DEF PageAnswered
<1>5. PICK result \in {"applied", "unknown"} :
        /\ call' = [call EXCEPT ![c] = EndedCall(result)]
        /\ result = "applied" => sess[s].gen = call[c].gen
  BY <1>1 DEF PageAnswered
<1>6. ~call[c].released
  BY <1>1 DEF WorkInv, Begun
<1> HIDE DEF q
<1> QED BY <1>1, <1>3, <1>4, <1>5, <1>6, AnswerAction DEF Counted

LEMMA ProbeAnsweredStep == ASSUME SessionsInv, NEW c \in Calls, ProbeAnswered(c) PROVE StepOK
<1> USE DEF SessionsInv
<1>1. PICK s \in Sessions : s = call[c].on /\ call[c].step = "running" /\ call[c].kind = "probe"
  BY DEF ProbeAnswered, WorkInv, Begun
<1>2. sess[s].life # "none" /\ Sound(sess[s]) /\ call[c].prev \in Kept
  BY <1>1, Started, CallFields DEF WorkInv, Begun
<1> DEFINE left == Left(sess[s], call[c].prev)
<1>3. Follows(sess[s], left) /\ left.busy = sess[s].busy - 1 /\ left.snapshot = sess[s].snapshot
  BY <1>2, LeftFollows
<1>4. PICK q : Update(s, q) /\ q \in {DriverLost(left)} \cup
                 {PageApplied(left, error) : error \in {"none", "page", "session_lost"}}
  BY <1>1 DEF ProbeAnswered
<1> HIDE DEF left
<1>5. /\ Follows(left, q) /\ q.busy = left.busy /\ q.snapshot \in {left.snapshot, NoSnapshot}
  <2>1. Sound(left) BY <1>3 DEF Follows
  <2>2. CASE q = DriverLost(left)
    BY <2>1, <2>2, DriverLostFollows
  <2>3. ASSUME NEW error \in {"none", "page", "session_lost"}, q = PageApplied(left, error)
        PROVE  Follows(left, q) /\ q.busy = left.busy /\ q.snapshot \in {left.snapshot, NoSnapshot}
    BY <2>1, <2>3, PageAppliedFollows
  <2> QED BY <1>4, <2>2, <2>3
<1>6. Follows(sess[s], q)
  BY <1>2, <1>3, <1>5, FollowsTrans
<1>7. /\ call' = [call EXCEPT ![c] = EndedCall("applied")]
      /\ UNCHANGED <<receipts, dispatches>> /\ UNCHANGED profileVars
  BY DEF ProbeAnswered
<1> QED BY <1>1, <1>3, <1>4, <1>5, <1>6, <1>7, AnswerAction

LEMMA AnsweredStep == ASSUME SessionsInv, NEW c \in Calls, Answered(c) PROVE StepOK
<1> USE DEF SessionsInv
<1>1. PICK s \in Sessions : s = call[c].on /\ call[c].step = "running" /\ call[c].kind \notin {"page", "probe"}
  BY DEF Answered, WorkInv, Begun
<1>2. sess[s].life # "none" /\ Sound(sess[s]) /\ call[c].prev \in Kept
  BY <1>1, Started, CallFields DEF WorkInv, Begun
<1> DEFINE left == Left(sess[s], call[c].prev)
           kind == call[c].kind
           none == [left EXCEPT !.snapshot = NoSnapshot]
           consumed == IF kind \in {"input", "wait"} THEN none ELSE left
           taken == [by |-> c, holder |-> call[c].holder, gen |-> call[c].gen,
                     tenure |-> tenure[s], released |-> call[c].released]
           observed(r) == IF kind = "snapshot" THEN [r EXCEPT !.snapshot = taken]
                          ELSE IF kind = "observe" THEN [r EXCEPT !.seen = {call[c].gen}] ELSE r
<1>3. /\ Follows(sess[s], left) /\ left.busy = sess[s].busy - 1 /\ left.snapshot = sess[s].snapshot
      /\ left.gen = sess[s].gen /\ left.life = sess[s].life /\ left.control = sess[s].control
      /\ left.intent = sess[s].intent
  BY <1>2, LeftFollows
<1>4. UNCHANGED <<receipts, dispatches>> /\ UNCHANGED profileVars
  BY DEF Answered
<1>5. IF Unchanged(c, left)
      THEN \/ /\ \E error \in {"none", "page", "session_lost"} :
                   Update(s, observed(PageApplied(consumed, error)))
              /\ call' = [call EXCEPT ![c] = EndedCall("applied")]
           \/ Update(s, consumed) /\ call' = [call EXCEPT ![c] = EndedCall("unknown")]
      ELSE /\ \E r \in {left, consumed} : Update(s, r)
           /\ call' = [call EXCEPT ![c] = EndedCall("unknown")]
  BY <1>1 DEF Answered
<1> HIDE DEF left
<1>6. left \in SessionRecords /\ sess[s].gen \in Nat
  BY <1>2, <1>3, FieldTypes DEF Follows, Sound
<1>7. /\ none \in SessionRecords /\ none.busy = left.busy /\ none.snapshot = NoSnapshot
      /\ none.life = left.life /\ none.gen = left.gen /\ none.control = left.control
      /\ none.closing = left.closing /\ none.native = left.native /\ none.intent = left.intent
  BY <1>6, NoneTyped DEF SessionRecords
<1> HIDE DEF none
<1>8. Follows(sess[s], none)
  BY <1>3, <1>7 DEF Follows, Sound, ClosingIsNobodys
<1>9. /\ Follows(sess[s], consumed) /\ consumed.busy = sess[s].busy - 1
      /\ consumed.snapshot \in {sess[s].snapshot, NoSnapshot}
      /\ kind \in {"input", "wait"} => consumed.snapshot = NoSnapshot
      /\ consumed.gen = sess[s].gen /\ consumed.control = sess[s].control
  BY <1>3, <1>7, <1>8
<1> HIDE DEF consumed
<1>10. CASE ~Unchanged(c, left)
  <2>1. PICK r \in {left, consumed} : Update(s, r)
    BY <1>5, <1>10
  <2>2. kind \in {"input", "wait"} => sess[s].gen # call[c].gen \/ sess[s].life \notin Live
    <3>1. ASSUME kind \in {"input", "wait"}, sess[s].gen = call[c].gen, sess[s].life \in Live PROVE FALSE
      <4>1. ~call[c].released /\ Begun(c)
        BY <1>1, <3>1 DEF WorkInv, Begun
      <4>2. sess[s].control = call[c].holder /\ ~sess[s].intent
        BY <1>1, <3>1, <4>1 DEF HoldInv
      <4> QED BY <1>3, <1>10, <3>1, <4>1, <4>2 DEF Unchanged, LeaseHeld
    <3> QED BY <3>1
  <2>3. CASE r = left
    BY <1>1, <1>3, <1>4, <1>5, <1>10, <2>1, <2>2, <2>3, AnswerAction
  <2>4. CASE r = consumed
    BY <1>1, <1>9, <1>4, <1>5, <1>10, <2>1, <2>2, <2>4, AnswerAction
  <2> QED BY <2>1, <2>3, <2>4
<1>11. CASE Unchanged(c, left) /\ Update(s, consumed) /\ call' = [call EXCEPT ![c] = EndedCall("unknown")]
  BY <1>1, <1>4, <1>9, <1>11, AnswerAction
<1>12. ASSUME Unchanged(c, left), NEW error \in {"none", "page", "session_lost"},
              Update(s, observed(PageApplied(consumed, error))),
              call' = [call EXCEPT ![c] = EndedCall("applied")]
       PROVE  StepOK
  <2> DEFINE p == PageApplied(consumed, error)
             q == observed(p)
  <2>1. Sound(consumed)
    BY <1>9 DEF Follows
  <2>c. Counted(c)
    BY <1>1, <1>3, <1>12 DEF Unchanged, Counted
  <2>2. Follows(consumed, p) /\ p.busy = consumed.busy /\ p.snapshot \in {consumed.snapshot, NoSnapshot}
    BY <2>1, PageAppliedFollows
  <2> HIDE DEF p
  <2>3. Follows(sess[s], p) /\ p.busy = sess[s].busy - 1 /\ p.snapshot \in {sess[s].snapshot, NoSnapshot}
        /\ p \in SessionRecords
    BY <1>2, <1>9, <2>2, FollowsTrans DEF Follows, Sound
  <2>4. CASE kind \notin {"snapshot", "observe"}
    <3>1. q = p /\ Update(s, p)
      BY <1>12, <2>4 DEF p
    <3>2. kind \in {"input", "wait"} => p.snapshot = NoSnapshot
      BY <1>9, <2>2
    <3> QED BY <1>1, <1>4, <1>12, <2>c, <2>3, <3>1, <3>2, AnswerAction
  <2>5. CASE kind = "observe"
    <3> DEFINE o == [p EXCEPT !.seen = {call[c].gen}]
    <3>1. q = o /\ Update(s, o)
      BY <1>12, <2>5 DEF p
    <3>2. {call[c].gen} \in Gens
      BY CallFields DEF Gens
    <3>3. /\ o \in SessionRecords /\ o.busy = p.busy /\ o.snapshot = p.snapshot
          /\ o.life = p.life /\ o.gen = p.gen /\ o.control = p.control
          /\ o.closing = p.closing /\ o.native = p.native /\ o.intent = p.intent
      BY <2>3, <3>2 DEF SessionRecords
    <3> HIDE DEF o
    <3>4. Follows(sess[s], o)
      BY <2>3, <3>3 DEF Follows, Sound, ClosingIsNobodys
    <3> QED BY <1>1, <1>4, <1>12, <2>c, <2>3, <2>5, <3>1, <3>3, <3>4, AnswerAction
  <2>6. CASE kind = "snapshot"
    <3> DEFINE o == [p EXCEPT !.snapshot = taken]
    <3>1. q = o /\ Update(s, o)
      BY <1>12, <2>6 DEF p
    <3>2. taken \in Snapshots
      BY CallFields, SnapFields DEF Snapshots
    <3>3. /\ taken.by = c /\ taken.holder = call[c].holder /\ taken.gen = call[c].gen
          /\ taken.tenure = tenure[s] /\ taken.released = call[c].released
      OBVIOUS
    <3> HIDE DEF taken
    <3>4. /\ o \in SessionRecords /\ o.busy = p.busy /\ o.snapshot = taken
          /\ o.life = p.life /\ o.gen = p.gen /\ o.control = p.control
          /\ o.closing = p.closing /\ o.native = p.native /\ o.intent = p.intent
      BY <2>3, <3>2 DEF SessionRecords
    <3> HIDE DEF o
    <3>5. Follows(sess[s], o)
      BY <2>3, <3>4 DEF Follows, Sound, ClosingIsNobodys
    <3>6. sess'[s] = o
      BY <3>1 DEF Update, Typed
    <3>7. call'[c].step = "done"
      BY <1>12, CallTyped DEF Typed
    <3>8. /\ sess[s].gen = call[c].gen
          /\ sess[s].control = IF call[c].released THEN Nobody ELSE call[c].holder
      BY <1>3, <1>12 DEF Unchanged, LeaseHeld
    <3>9. SnapshotTaken(c, s)
      BY <1>1, <2>6, <3>4, <3>6, <3>7, <3>8 DEF SnapshotTaken, taken
    <3> QED BY <1>1, <1>4, <1>12, <2>c, <2>3, <2>6, <3>1, <3>4, <3>5, <3>9, AnswerAction
  <2> QED BY <2>4, <2>5, <2>6
<1> QED BY <1>5, <1>10, <1>11, <1>12

LEMMA DispatchStep == ASSUME SessionsInv, NEW c \in Calls, Dispatch(c) PROVE StepOK
<1> USE DEF SessionsInv
<1>1. PICK s \in Sessions : s = call[c].on /\ call[c].step = "refreshing"
  BY DEF Dispatch, WorkInv, Begun
<1>2. sess[s].life # "none" /\ Sound(sess[s]) /\ sess[s].kind \in Kept
  BY <1>1, Started, FieldTypes DEF WorkInv, Begun, Sound
<1> DEFINE kind == IF call[c].kind = "wait" THEN "passive_wait" ELSE "mutating"
           q == Entered(sess[s], kind)
           d == [call[c] EXCEPT !.step = "running", !.prev = sess[s].kind]
           x == RefOf[c]
<1>3. /\ Update(s, q) /\ UNCHANGED profileVars
      /\ sess[s].gen = call[c].gen
      /\ call[c].kind = "input" => sess[s].life \in Live
      /\ receipts' = IF call[c].kind = "observe" THEN receipts ELSE receipts \cup {x}
      /\ dispatches' = IF call[c].kind \in {"input", "file"} THEN [dispatches EXCEPT ![x] = dispatches[x] + 1]
                       ELSE dispatches
  BY <1>1 DEF Dispatch, Admits
<1>4. call' = [call EXCEPT ![c] = d] /\ call \in [Calls -> CallRecords]
  BY <1>1 DEF Dispatch, Typed
<1>5. /\ d \in CallRecords /\ d.step = "running" /\ d.on = s /\ d.kind = call[c].kind
      /\ d.holder = call[c].holder /\ d.obs = call[c].obs /\ d.gen = call[c].gen
      /\ d.released = call[c].released /\ d.tenure = call[c].tenure /\ d.result = call[c].result
  BY <1>1, <1>2, <1>4 DEF CallRecords
<1> HIDE DEF d
<1>6. kind \in Kept
  BY MemberTypes
<1> HIDE DEF kind
<1>7. Follows(sess[s], q) /\ q.busy = sess[s].busy + 1 /\ q.snapshot = sess[s].snapshot
  BY <1>2, <1>6, EnteredFollows
<1> HIDE DEF q
<1>8. /\ SessionsStep /\ CalmSessions /\ sess' = [sess EXCEPT ![s] = q]
      /\ sess' \in [Sessions -> SessionRecords] /\ tenure' \in [Sessions -> Nat]
  BY <1>2, <1>3, <1>7, UpdateStep
<1>9. x \in Refs /\ receipts' \subseteq Refs /\ dispatches' \in [Refs -> Nat]
  BY <1>3 DEF Refs, Typed
<1>10. call'[c] = d /\ Continues(c)
  BY <1>1, <1>4, <1>5 DEF Continues, Begun
<1>11. CallStep(c)
  <2>1. call[c].kind = "input" => Dispatched(c)
    <3>1. ASSUME call[c].kind = "input" PROVE Dispatched(c)
      <4>1. call[c].released => call[c].kind \in {"snapshot", "observe", "list", "probe"}
        BY <1>1 DEF WorkInv, Begun
      <4>2. Admits(sess[s], "input", call[c].holder, call[c].released) /\ ObservedBy(sess[s], c)
        BY <1>1, <3>1 DEF Dispatch
      <4>3. dispatches'[x] = dispatches[x] + 1
        BY <1>3, <1>9, <3>1 DEF Typed
      <4> QED BY <1>1, <1>3, <3>1, <4>1, <4>2, <4>3 DEF Dispatched, Admits, ObservedBy, LeaseHeld
    <3> QED BY <3>1
  <2>2. call[c].result = "none" /\ call[c].kind # "list"
    BY <1>1, CallFields DEF WorkInv, Dispatch
  <2> QED BY <1>1, <1>5, <1>10, <2>1, <2>2 DEF CallStep, WorkInv
<1>12. SendStep
  <2>1. receipts \subseteq receipts'
    BY <1>3
  <2>2. ASSUME NEW y \in Refs, dispatches'[y] # dispatches[y]
        PROVE  y \in receipts' /\ RefOf[c] = y /\ Sent(c)
    <3>1. y = x /\ call[c].kind \in {"input", "file"}
      BY <1>3, <1>9, <2>2 DEF Typed
    <3> QED BY <1>1, <1>3, <1>5, <1>10, <3>1 DEF Sent
  <2> QED BY <2>1, <2>2 DEF SendStep
<1>13. BusyInv'
  <2>1. sess'[s].busy = sess[s].busy + 1 /\ \A t \in Sessions \ {s} : sess'[t].busy = sess[t].busy
    BY <1>7, <1>8 DEF Typed
  <2>2. c \notin Working(s) /\ c \notin Opens
    BY <1>1, SessionsAssumption DEF Working
  <2>3. Working(s)' = Working(s) \cup {c}
    BY <1>3, <1>4, <1>5, <2>2 DEF Working, profileVars
  <2>4. \A t \in Sessions \ {s} : Working(t)' = Working(t)
    BY <1>1, <1>3, <1>4, <1>5 DEF Working, profileVars
  <2> QED BY <2>1, <2>2, <2>3, <2>4, BusyIn
<1> QED BY <1>3, <1>4, <1>5, <1>8, <1>9, <1>11, <1>12, <1>13, CallAction

LEMMA CallStepOK ==
  ASSUME SessionsInv, NEW c \in Calls, NEW s \in Sessions, NEW h \in Cores, NEW kind \in KindsOf[c],
         Call(c, s, kind, h)
  PROVE  StepOK
<1> USE DEF SessionsInv
<1> DEFINE atOnce == kind \in {"page", "probe"}
           d(released) == [step |-> IF atOnce THEN "running" ELSE "refreshing", kind |-> kind,
             on |-> s, holder |-> h,
             obs |-> IF kind \in {"input", "wait"} THEN sess[s].snapshot.by ELSE NoCall,
             gen |-> sess[s].gen, released |-> released, prev |-> sess[s].kind,
             tenure |-> tenure[s], result |-> "none"]
<1>1. /\ call[c].step = "new" /\ RefOf[c] \notin receipts
      /\ kind \in {"input", "wait"} => sess[s].snapshot.by # NoCall
      /\ IF atOnce THEN Update(s, Entered(sess[s], "mutating")) ELSE UNCHANGED <<sess, tenure>>
      /\ UNCHANGED profileVars /\ UNCHANGED <<receipts, dispatches>>
  BY DEF Call
<1>2. PICK released \in BOOLEAN :
        /\ released => sess[s].control = Nobody
        /\ Admits(sess[s], kind, h, released)
        /\ call' = [call EXCEPT ![c] = d(released)]
  BY DEF Call
<1>3. sess[s].life \in Live /\ sess[s].life # "none" /\ Sound(sess[s]) /\ sess[s].kind \in Kept
  BY <1>2, MemberTypes, Started, FieldTypes DEF Admits
<1>4. kind \in Kinds
  BY SessionsAssumption
<1> DEFINE e == d(released)
<1>5. /\ e \in CallRecords /\ e.step = (IF atOnce THEN "running" ELSE "refreshing") /\ e.kind = kind
      /\ e.on = s /\ e.holder = h /\ e.gen = sess[s].gen /\ e.released = released /\ e.tenure = tenure[s]
      /\ e.obs = (IF kind \in {"input", "wait"} THEN sess[s].snapshot.by ELSE NoCall) /\ e.result = "none"
  BY <1>3, <1>4, SnapFields DEF CallRecords
<1>6. call' = [call EXCEPT ![c] = e] /\ call \in [Calls -> CallRecords]
  BY <1>2 DEF Typed
<1> HIDE DEF e, d
<1>7. /\ released => kind \in {"snapshot", "observe", "list", "probe"}
      /\ ~released /\ kind \notin {"list", "probe"} => LeaseHeld(sess[s], h)
  BY <1>2 DEF Admits
<1>8. call'[c] = e /\ receipts' \subseteq Refs /\ dispatches' \in [Refs -> Nat] /\ SendStep
  BY <1>1, <1>6 DEF Typed, SendStep
<1>9. ASSUME sess'[s].gen = sess[s].gen, sess'[s].control = sess[s].control, sess'[s].intent = sess[s].intent
      PROVE  CallStep(c)
  <2>1. Admitted(c)
    BY <1>1, <1>3, <1>4, <1>5, <1>7, <1>8, <1>9 DEF Admitted
  <2> QED BY <1>1, <1>5, <1>8, <2>1 DEF CallStep
<1>10. CASE atOnce
  <2> DEFINE q == Entered(sess[s], "mutating")
  <2>1. /\ Follows(sess[s], q) /\ q.busy = sess[s].busy + 1 /\ q.snapshot = sess[s].snapshot
        /\ q.gen = sess[s].gen /\ q.control = sess[s].control /\ q.intent = sess[s].intent
    BY <1>3, MemberTypes, EnteredFollows
  <2>2. Update(s, q)
    BY <1>1, <1>10
  <2> HIDE DEF q
  <2>3. /\ SessionsStep /\ CalmSessions /\ sess' = [sess EXCEPT ![s] = q]
        /\ sess' \in [Sessions -> SessionRecords] /\ tenure' \in [Sessions -> Nat]
    BY <1>3, <2>1, <2>2, UpdateStep
  <2>4. sess'[s] = q /\ \A t \in Sessions \ {s} : sess'[t].busy = sess[t].busy
    BY <2>3 DEF Typed
  <2>5. CallStep(c)
    BY <1>9, <2>1, <2>4
  <2>6. BusyInv'
    <3>1. c \notin Working(s) /\ c \notin Opens
      BY <1>1, SessionsAssumption DEF Working
    <3>2. Working(s)' = Working(s) \cup {c}
      BY <1>1, <1>5, <1>6, <1>10, <3>1 DEF Working, profileVars
    <3>3. \A t \in Sessions \ {s} : Working(t)' = Working(t)
      BY <1>1, <1>5, <1>6 DEF Working, profileVars
    <3> QED BY <2>1, <2>4, <3>1, <3>2, <3>3, BusyIn
  <2> QED BY <1>1, <1>5, <1>6, <1>8, <2>3, <2>5, <2>6, CallAction
<1>11. CASE ~atOnce
  <2>1. UNCHANGED <<sess, tenure>>
    BY <1>1, <1>11
  <2>2. CallStep(c)
    BY <1>9, <2>1
  <2>3. BusyInv'
    <3>1. \A t \in Sessions : Working(t)' = Working(t)
      BY <1>1, <1>5, <1>6, <1>11 DEF Working, profileVars
    <3> QED BY <2>1, <3>1, BusySame
  <2> QED BY <1>1, <1>5, <1>6, <1>8, <2>1, <2>2, <2>3, QuietSessions, CallAction
<1> QED BY <1>10, <1>11

---------------------------------------------------------------------------
(* Induction.                                                               *)

LEMMA SessionsInitInv == SessionsInit => SessionsInv
<1> SUFFICES ASSUME SessionsInit PROVE SessionsInv OBVIOUS
<1> USE DEF SessionsInit
<1>1. NewSession \in SessionRecords /\ NewSession.life = "none" /\ NewSession.snapshot = NoSnapshot
      /\ NewSession.gen = 0 /\ ~NewSession.closing /\ NewSession.busy = 0
  BY NoneTyped DEF NewSession
<1>2. NoOpen("new") \in OpenRecords /\ NoOpen("new").step = "new"
  BY NoOpenTyped, MemberTypes
<1>3. Typed
  BY <1>1, <1>2, CallTyped DEF Typed
<1>4. LockInv /\ LiveInv /\ CloseInv
  BY <1>1, <1>2, MemberTypes DEF LockInv, LiveInv, CloseInv, ClosingIsNobodys
<1>5. BusyInv
  <2>1. \A s \in Sessions : Working(s) = {}
    BY <1>2, CallTyped DEF Working
  <2> QED BY <1>1, <2>1, FS_EmptySet DEF BusyInv
<1>6. WorkInv
  BY <1>1, <1>2, CallTyped, NoSnapshotFields DEF WorkInv, Begun
<1>7. HoldInv /\ SnapInv /\ SentInv
  BY <1>1, CallTyped, NoSnapshotFields DEF HoldInv, SnapInv, SentInv, Begun
<1> QED BY <1>3, <1>4, <1>5, <1>6, <1>7 DEF SessionsInv

LEMMA NextOK == ASSUME SessionsInv, SessionsNext PROVE StepOK
<1>1. ASSUME NEW o \in Opens, NEW c \in Cores \cup {User}, Open(o, c) PROVE StepOK
  BY <1>1, OpenStep
<1>2. ASSUME NEW o \in Opens, OpenReused(o) \/ OpenReplaces(o) \/ Launched(o) PROVE StepOK
  BY <1>2, OpenReusedStep, OpenReplacesStep, LaunchedStep
<1>3. ASSUME ReserveMutation \/ Mutate \/ EndMutation PROVE StepOK
  BY <1>3, ReserveStep, MutateStep, EndMutationStep
<1>4. ASSUME NEW s \in Sessions, Stop(s) \/ CloseSucceeds(s) \/ CloseFails(s) PROVE StepOK
  BY <1>4, StopStep, CloseSucceedsStep, CloseFailsStep
<1>5. ASSUME NEW s \in Sessions, ReleaseControl(s) \/ Handoff(s) PROVE StepOK
  BY <1>5, ReleaseStep, HandoffStep
<1>6. ASSUME NEW s \in Sessions, NEW c \in Cores \cup {User}, Lock(s, c) PROVE StepOK
  BY <1>6, LockStep
<1>7. ASSUME NEW s \in Sessions, NEW c \in Calls, NEW h \in Cores, NEW kind \in KindsOf[c], Call(c, s, kind, h)
      PROVE  StepOK
  BY <1>7, CallStepOK
<1>8. ASSUME NEW c \in Calls, CallRefused(c) \/ Dispatch(c) \/ ListPages(c) PROVE StepOK
  BY <1>8, CallRefusedStep, DispatchStep, ListPagesStep
<1>9. ASSUME NEW c \in Calls, Answered(c) \/ PageAnswered(c) \/ ProbeAnswered(c) PROVE StepOK
  BY <1>9, AnsweredStep, PageAnsweredStep, ProbeAnsweredStep
<1> QED BY <1>1, <1>2, <1>3, <1>4, <1>5, <1>6, <1>7, <1>8, <1>9 DEF SessionsNext

LEMMA StutterOK == ASSUME SessionsInv, UNCHANGED sessionVars PROVE StepOK
<1>1. /\ UNCHANGED <<sess, tenure>> /\ UNCHANGED callVars /\ UNCHANGED <<ownership, browsers, mutation, open, opening>>
  BY DEF sessionVars, callVars
<1>2. LockInv' /\ LiveInv'
  BY <1>1 DEF SessionsInv, LockInv, LiveInv
<1> QED BY <1>1, <1>2, QuietAction DEF SessionsInv, Typed

LEMMA SessionStepInv == ASSUME SessionsInv, [SessionsNext]_sessionVars PROVE SessionsInv'
<1>1. StepOK
  BY NextOK, StutterOK
<1>2. Steps
  BY <1>1 DEF Steps, StepOK, SessionsInv
<1> QED BY <1>1, <1>2, CloseHolds, WorkHolds, HoldHolds, SnapHolds, SentHolds DEF SessionsInv,
           StepOK

\* In every behaviour of the sessions the records keep their types, and the
\* locks, the counts and what calls were admitted under agree.
THEOREM SessionsInvariance == SessionsSpec => []SessionsInv
<1>1. SessionsInit => SessionsInv
  BY SessionsInitInv
<1>2. SessionsInv /\ [SessionsNext]_sessionVars => SessionsInv'
  BY SessionStepInv
<1> QED BY <1>1, <1>2, PTL DEF SessionsSpec

LEMMA SessionsTyped == SessionsInv => SessionsTypeOK
<1> SUFFICES ASSUME SessionsInv PROVE SessionsTypeOK OBVIOUS
<1>1. ASSUME NEW s \in Sessions PROVE sess[s].busy \in 0..Cardinality(Opens \cup Calls)
  <2>1. Working(s) \subseteq Opens \cup Calls /\ IsFiniteSet(Opens \cup Calls)
    BY SessionsAssumption, FS_Union DEF Working
  <2>2. Cardinality(Working(s)) \in Nat /\ Cardinality(Opens \cup Calls) \in Nat
        /\ Cardinality(Working(s)) <= Cardinality(Opens \cup Calls)
    BY <2>1, FS_Subset, FS_CardinalityType
  <2> QED BY <2>2 DEF SessionsInv, BusyInv
<1>2. ASSUME NEW s \in Sessions
      PROVE  /\ sess[s].life \in Live \cup {"none", "disconnected", "failed", "closed"}
             /\ sess[s].error \in {"none", "page", "session_lost", "cleanup"}
             /\ sess[s].control \in Cores \cup {User, Nobody}
             /\ sess[s].kind \in {"none", "mutating", "passive_wait"}
  BY DEF SessionsInv, Typed, SessionRecords, Lives, Errors, Controls, Kept
<1> QED BY <1>1, <1>2 DEF SessionsTypeOK, SessionsInv, Typed

\* SessionsTypeOK in every reachable state: a session counts no more running
\* interactions than there are opens and calls.
THEOREM SessionsTypes == SessionsSpec => []SessionsTypeOK
BY SessionsInvariance, SessionsTyped, PTL

\* At most one browser runs on the profile, and none while it is written or a
\* browser is being launched, for any number of sessions, opens and calls.
THEOREM ProfileIsExclusive == SessionsSpec => []ProfileExclusive
<1>1. SessionsInv => ProfileExclusive
  <2> SUFFICES ASSUME SessionsInv PROVE ProfileExclusive OBVIOUS
  <2>1. Cardinality(browsers) <= 1
    <3>1. CASE browsers = {}
      BY <3>1, FS_EmptySet
    <3>2. ASSUME NEW b \in browsers PROVE Cardinality(browsers) <= 1
      <4>1. browsers = {b}
        BY <3>2 DEF SessionsInv, LockInv
      <4> QED BY <4>1, FS_Singleton
    <3> QED BY <3>1, <3>2
  <2>2. mutation = "writing" \/ (\E o \in Opens : open[o].step = "launching") => browsers = {}
    BY DEF SessionsInv, LockInv
  <2> QED BY <2>1, <2>2 DEF ProfileExclusive
<1> QED BY <1>1, SessionsInvariance, PTL

\* An input is dispatched once under its operation_ref, and on an observation
\* since which its holder alone had control.
THEOREM InputsAreFenced == SessionsSpec => InputsFenced
<1>1. ASSUME SessionsInv, [SessionsNext]_sessionVars, NEW c \in Calls,
             call[c].kind = "input", call[c].step = "refreshing", call'[c].step = "running"
      PROVE  LET s == call[c].on
                 seen == sess[s].snapshot
             IN  /\ dispatches'[RefOf[c]] = 1
                 /\ tenure[s] = IF seen.released THEN seen.tenure + 1 ELSE seen.tenure
  <2> DEFINE s == call[c].on
  <2>1. StepOK
    BY <1>1, NextOK, StutterOK
  <2>2. Dispatched(c)
    BY <1>1, <2>1 DEF StepOK, CallsStep, CallStep
  <2>3. s \in Sessions /\ call[c].holder \in Cores /\ RefOf[c] \in Refs
    BY <1>1 DEF SessionsInv, WorkInv, Begun, Refs
  <2>a. /\ sess[s].gen = call[c].gen /\ sess[s].life \in Live /\ sess[s].busy = 0
        /\ sess[s].control = call[c].holder /\ sess[s].snapshot.by = call[c].obs
        /\ sess[s].snapshot.by # NoCall /\ sess[s].snapshot.gen = sess[s].gen
        /\ sess[s].snapshot.holder = call[c].holder
        /\ dispatches'[RefOf[c]] = dispatches[RefOf[c]] + 1
    BY <2>2 DEF Dispatched
  <2>4. dispatches[RefOf[c]] = 0
    <3> SUFFICES ASSUME dispatches[RefOf[c]] # 0 PROVE FALSE OBVIOUS
    <3>1. Spoiled(c)
      BY <1>1 DEF SessionsInv, SentInv
    <3>2. PICK d \in Calls : call[d].step = "running" /\ call[d].on = s
      BY <2>a, <3>1 DEF Spoiled
    <3>3. d \in Working(s)
      BY <3>2 DEF Working
    <3>4. Cardinality(Working(s)) = 0
      BY <1>1, <2>3, <2>a DEF SessionsInv, BusyInv
    <3> QED BY <2>3, <3>3, <3>4, WorkingFinite, FS_EmptySet
  <2>5. tenure[s] = IF sess[s].snapshot.released THEN sess[s].snapshot.tenure + 1 ELSE sess[s].snapshot.tenure
    BY <1>1, <2>3, <2>a, SessionsAssumption DEF SessionsInv, SnapInv
  <2> QED BY <2>a, <2>4, <2>5
<1>2. SessionsInv /\ [SessionsNext]_sessionVars => [\A c \in Calls :
       LET s == call[c].on
           seen == sess[s].snapshot
       IN
       call[c].kind = "input" /\ call[c].step = "refreshing" /\ call'[c].step = "running" =>
         /\ dispatches'[RefOf[c]] = 1
         /\ tenure[s] = IF seen.released THEN seen.tenure + 1 ELSE seen.tenure]_sessionVars
  BY <1>1
<1> QED BY <1>2, SessionsInvariance, PTL DEF SessionsSpec, InputsFenced

\* A result that counts was produced with control in the same hands from the
\* admission of the call to its answer.
THEOREM ResultsAreFenced == SessionsSpec => ResultsFenced
<1>1. ASSUME SessionsInv, [SessionsNext]_sessionVars, NEW c \in Calls,
             call[c].kind # "probe", call[c].step = "running", call'[c].result = "applied"
      PROVE  tenure[call[c].on] = call[c].tenure
  <2>1. StepOK
    BY <1>1, NextOK, StutterOK
  <2>2. Counted(c)
    BY <1>1, <2>1 DEF StepOK, CallsStep, CallStep
  <2>3. call[c].kind # "list"
    BY <1>1 DEF SessionsInv, WorkInv
  <2> QED BY <1>1, <2>2, <2>3 DEF Counted, SessionsInv, HoldInv, Begun
<1>2. SessionsInv /\ [SessionsNext]_sessionVars => [\A c \in Calls :
       call[c].kind # "probe" /\ call[c].step = "running" /\ call'[c].result = "applied" =>
         tenure[call[c].on] = call[c].tenure]_sessionVars
  BY <1>1
<1> QED BY <1>2, SessionsInvariance, PTL DEF SessionsSpec, ResultsFenced
=============================================================================
