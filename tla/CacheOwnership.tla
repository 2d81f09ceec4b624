--------------------------- MODULE CacheOwnership ---------------------------
(***************************************************************************)
(* services/harbor/packages/runtime-api/src/managed-provider-cache-        *)
(* ownership.ts: which of the Harbor runtimes of a host may change the     *)
(* provider cache.  A runtime publishes a claim, gives way to every other  *)
(* claim it finds, and then creates the fence, one file with a fixed name; *)
(* it asserts both before every change.  A claim whose owner is dead, or   *)
(* whose lease has run out, is moved aside, compared and removed, and so   *)
(* is a fence without a claim.                                             *)
(*                                                                         *)
(* A step is one look at or one change of a file.  A runtime acquires the  *)
(* cache once: its next acquisition has a new token, and is another's.     *)
(***************************************************************************)
EXTENDS Naturals

CONSTANTS
  Runtimes,
  NoRuntime,
  MaxDeaths,    \* bound: runtimes that die
  MaxLapses     \* bound: leases that run out while their owner lives

ASSUME RuntimesAssumption == NoRuntime \notin Runtimes
ASSUME OwnershipBounds == MaxDeaths \in Nat /\ MaxLapses \in Nat

VARIABLES
  \* the directory
  claim,    \* claim[r]: r's claim file: nowhere, at its path, or moved aside
  lease,    \* lease[r]: its modification time: new, or older than the lease
  fence,    \* whose file is at the fence's path
  written,  \* runtimes that have written their fence file
  \* the runtimes
  doing,
  reading,  \* reading[r]: claims listed and not yet read
  stale,    \* stale[r][o]: the lease of a claim that r judged stale
  contended, \* runtimes that found a live claim
  at,       \* at[r]: whose claim or fence r is looking at
  moved,    \* moved[r]: whose fence file r has moved aside
  \* history and bounds
  superseded,  \* owners after whose last assertion another's has passed
  last,        \* the last whose assertion passed
  deaths, lapses

files == <<claim, lease, fence, written>>
judgement == <<reading, stale, contended, at, moved>>
ownerVars == <<files, doing, judgement, superseded, last, deaths, lapses>>

\* Looking for claims; publishing one's own and looking again; past that, on
\* the way to the fence or back from it; with the ownership, which has a
\* heartbeat; and giving up the claim.
Looking == {"start", "read", "compare"}
Contending == {"list", "contend"}
Fencing ==
  {"fence", "fence_again", "write", "look", "look_claim", "move", "compare_fence",
   "valid_claim", "valid_fence", "check_fence", "drop_fence"}
Owning == {"held", "refresh", "again_claim", "again_fence", "mutate"}
OwnerSteps ==
  Looking \cup Contending \cup Fencing \cup Owning \cup {"check_claim", "drop_claim", "out", "dead"}

There(r) == claim[r] = "there"
\* claimIsStale: its process is gone, or it has not been refreshed for long.
Stale(r) == doing[r] = "dead" \/ lease[r] = "old"
LiveClaim(r) == There(r) /\ ~Stale(r)

OwnershipInit ==
  /\ claim = [r \in Runtimes |-> "none"] /\ lease = [r \in Runtimes |-> "new"]
  /\ fence = NoRuntime /\ written = {}
  /\ doing = [r \in Runtimes |-> "start"]
  /\ reading = [r \in Runtimes |-> {}]
  /\ stale = [r \in Runtimes |-> [o \in Runtimes |-> "no"]]
  /\ contended = {}
  /\ at = [r \in Runtimes |-> NoRuntime] /\ moved = [r \in Runtimes |-> NoRuntime]
  /\ superseded = {} /\ last = NoRuntime
  /\ deaths = 0 /\ lapses = 0

\* r goes from step to step, and the bounds stay.
Moves(r, from, to) ==
  /\ doing[r] = from
  /\ doing' = [doing EXCEPT ![r] = to]
  /\ last' = IF to = "mutate" THEN r ELSE last
  /\ superseded' = IF to = "mutate" THEN superseded \cup ({last} \ {r}) ELSE superseded
  /\ UNCHANGED <<deaths, lapses>>
LookAt(r, o) == at' = [at EXCEPT ![r] = o]

---------------------------------------------------------------------------
(* acquireProviderCacheOwnership.                                          *)

\* readdir, in removeStaleClaims and again for the contenders.
ListClaims(r) ==
  /\ Moves(r, "start", "read") \/ Moves(r, "list", "contend")
  /\ reading' = [reading EXCEPT ![r] = {o \in Runtimes \ {r} : There(o)}]
  /\ UNCHANGED <<files, stale, contended, at, moved>>

\* One claim of the list; one that has gone is skipped.
ReadClaim(r) ==
  /\ Moves(r, "read", "read")
  /\ \E o \in reading[r] :
       /\ reading' = [reading EXCEPT ![r] = @ \ {o}]
       /\ stale' = IF There(o) /\ Stale(o) THEN [stale EXCEPT ![r][o] = lease[o]] ELSE stale
       /\ contended' = IF LiveClaim(o) THEN contended \cup {r} ELSE contended
  /\ UNCHANGED <<files, at, moved>>

\* removeStaleClaim moves a stale claim aside, unless it has gone ...
MoveClaim(r) ==
  \E o \in Runtimes :
    /\ reading[r] = {} /\ stale[r][o] # "no"
    /\ Moves(r, "read", IF There(o) THEN "compare" ELSE "read")
    /\ claim' = IF There(o) THEN [claim EXCEPT ![o] = "moved"] ELSE claim
    /\ stale' = IF There(o) THEN stale ELSE [stale EXCEPT ![r][o] = "no"]
    /\ LookAt(r, IF There(o) THEN o ELSE NoRuntime)
    /\ UNCHANGED <<lease, fence, written, reading, contended, moved>>

\* ... and moves it back if it has been refreshed since it was read.
CompareClaim(r) ==
  LET o == at[r] IN
  /\ Moves(r, "compare", "read")
  /\ claim' = [claim EXCEPT ![o] = IF lease[o] = stale[r][o] THEN "none" ELSE "there"]
  /\ stale' = [stale EXCEPT ![r][o] = "no"]
  /\ LookAt(r, NoRuntime)
  /\ UNCHANGED <<lease, fence, written, reading, contended, moved>>

AllJudged(r) == reading[r] = {} /\ \A o \in Runtimes : stale[r][o] = "no"

GiveWay(r) ==
  /\ AllJudged(r) /\ r \in contended /\ Moves(r, "read", "out")
  /\ contended' = contended \ {r}
  /\ UNCHANGED <<files, reading, stale, at, moved>>

PublishClaim(r) ==
  /\ AllJudged(r) /\ r \notin contended /\ Moves(r, "read", "list")
  /\ claim' = [claim EXCEPT ![r] = "there"]
  /\ UNCHANGED <<lease, fence, written, judgement>>

\* Any claim that can be read is a contender, a stale one too.
Contend(r) ==
  /\ \E o \in reading[r] :
       /\ Moves(r, "contend", IF There(o) THEN "check_claim" ELSE "contend")
       /\ reading' = [reading EXCEPT ![r] = IF There(o) THEN {} ELSE @ \ {o}]
  /\ UNCHANGED <<files, stale, contended, at, moved>>

\* Without a contender its claim is opened, if it is still there.
OpenClaim(r) ==
  /\ reading[r] = {} /\ Moves(r, "contend", IF There(r) THEN "fence" ELSE "check_claim")
  /\ UNCHANGED <<files, judgement>>

---------------------------------------------------------------------------
(* acquireLegacyFence and removeReclaimableFence.                          *)

\* open "wx+": the fence is there before its owner is written.
CreateFence(r) ==
  /\ fence = NoRuntime
  /\ Moves(r, "fence", "write") \/ Moves(r, "fence_again", "write")
  /\ fence' = r
  /\ UNCHANGED <<claim, lease, written, judgement>>

\* It may fail before or after the owner can be read in the file.  A blank
\* fence stays for good: nobody reads a token in it.
WriteFence(r) ==
  /\ \/ Moves(r, "write", "valid_claim") /\ written' = written \cup {r}
     \/ Moves(r, "write", "check_fence") /\ written' \in {written, written \cup {r}}
  /\ UNCHANGED <<claim, lease, fence, judgement>>

\* The fence is there: it is looked at once, the second time the cache is busy.
\* (A runtime without a fence of its own gives up its claim only.)
FenceExists(r) ==
  /\ fence # NoRuntime
  /\ Moves(r, "fence", "look") \/ Moves(r, "fence_again", "check_claim")
  /\ UNCHANGED <<files, judgement>>

\* readFenceSnapshot: gone, blank (nobody may remove it), or some owner's.
LookAtFence(r) ==
  /\ \/ fence = NoRuntime /\ Moves(r, "look", "fence_again") /\ UNCHANGED at
     \/ fence \in Runtimes \ written /\ Moves(r, "look", "check_claim") /\ UNCHANGED at
     \/ fence \in written /\ Moves(r, "look", "look_claim") /\ LookAt(r, fence)
  /\ UNCHANGED <<files, reading, stale, contended, moved>>

\* Is its owner's claim there and not stale?
LookAtClaim(r) ==
  /\ \/ Moves(r, "look_claim", "check_claim") /\ LiveClaim(at[r]) /\ LookAt(r, NoRuntime)
     \/ Moves(r, "look_claim", "move") /\ ~LiveClaim(at[r]) /\ UNCHANGED at
  /\ UNCHANGED <<files, reading, stale, contended, moved>>

\* quarantineFence moves what is at the path by now, compares it ...
MoveFence(r) ==
  /\ Moves(r, "move", IF fence = NoRuntime THEN "fence_again" ELSE "compare_fence")
  /\ moved' = [moved EXCEPT ![r] = fence]
  /\ fence' = NoRuntime
  /\ LookAt(r, IF fence = NoRuntime THEN NoRuntime ELSE at[r])
  /\ UNCHANGED <<claim, lease, written, reading, stale, contended>>

\* ... and removes it, or moves it back over whatever is there.
CompareFence(r) ==
  /\ \/ Moves(r, "compare_fence", "fence_again") /\ moved[r] = at[r] /\ UNCHANGED fence
     \/ Moves(r, "compare_fence", "check_claim") /\ moved[r] # at[r] /\ fence' = moved[r]
  /\ moved' = [moved EXCEPT ![r] = NoRuntime]
  /\ LookAt(r, NoRuntime)
  /\ UNCHANGED <<claim, lease, written, reading, stale, contended>>

---------------------------------------------------------------------------
(* The ownership: validated, asserted before every change, released.       *)

ValidClaim(r) ==
  /\ Moves(r, "valid_claim", IF There(r) THEN "valid_fence" ELSE "check_fence")
  /\ UNCHANGED <<files, judgement>>
ValidFence(r) ==
  /\ Moves(r, "valid_fence", IF fence = r THEN "held" ELSE "check_fence")
  /\ UNCHANGED <<files, judgement>>

\* refreshLeaseOnce before a change: the claim, the fence and the new time, the
\* claim and the fence again.  An ownership that is lost is only released.
AssertLease(r) ==
  /\ Moves(r, "held", IF There(r) THEN "refresh" ELSE "check_fence")
  /\ UNCHANGED <<files, judgement>>
Refresh(r) ==
  /\ Moves(r, "refresh", IF fence = r THEN "again_claim" ELSE "check_fence")
  /\ lease' = IF fence = r THEN [lease EXCEPT ![r] = "new"] ELSE lease
  /\ UNCHANGED <<claim, fence, written, judgement>>
\* Slip: the claim is looked at again, the fence is not.
AssertClaimAgain(r) ==
  /\ \/ Moves(r, "again_claim", IF There(r) THEN "again_fence" ELSE "check_fence")
     \/ Moves(r, "again_fence", "mutate")
  /\ UNCHANGED <<files, judgement>>

AssertAgain(r) ==
  /\ \/ Moves(r, "again_claim", IF There(r) THEN "again_fence" ELSE "check_fence")
     \/ Moves(r, "again_fence", IF fence = r THEN "mutate" ELSE "check_fence")
  /\ UNCHANGED <<files, judgement>>
Mutated(r) ==
  /\ Moves(r, "mutate", "held")
  /\ UNCHANGED <<files, judgement>>

\* The heartbeat does the same at any time; one that finds the ownership lost
\* leaves only Release.
Heartbeat(r) ==
  /\ \/ Moves(r, "held", "held")
     \/ doing[r] = "mutate" /\ UNCHANGED <<doing, last, superseded, deaths, lapses>>
  /\ There(r) /\ fence = r /\ lease[r] = "old"
  /\ lease' = [lease EXCEPT ![r] = "new"]
  /\ UNCHANGED <<claim, fence, written, judgement>>

\* release, and what follows a failed acquisition: each file is compared and
\* then unlinked by its path.
ReleaseCache(r) ==
  /\ Moves(r, "held", "check_fence")
  /\ UNCHANGED <<files, judgement>>
CheckOwn(r) ==
  /\ \/ Moves(r, "check_fence", IF fence = r /\ r \in written THEN "drop_fence" ELSE "check_claim")
     \/ Moves(r, "check_claim", IF There(r) THEN "drop_claim" ELSE "out")
  /\ UNCHANGED <<files, judgement>>
DropFence(r) ==
  /\ Moves(r, "drop_fence", "check_claim")
  /\ fence' = NoRuntime
  /\ UNCHANGED <<claim, lease, written, judgement>>
DropClaim(r) ==
  /\ Moves(r, "drop_claim", "out")
  /\ claim' = [claim EXCEPT ![r] = IF @ = "there" THEN "none" ELSE @]
  /\ UNCHANGED <<lease, fence, written, judgement>>

Die(r) ==
  /\ deaths < MaxDeaths
  /\ doing[r] \notin {"start", "out", "dead"}
  /\ doing' = [doing EXCEPT ![r] = "dead"]
  /\ deaths' = deaths + 1
  /\ UNCHANGED <<files, judgement, lapses, superseded, last>>

\* A lease runs out although its owner lives: no heartbeat refreshes it while
\* the owner acquires or releases, nor while its host sleeps.
Lapse(r) ==
  /\ lapses < MaxLapses
  /\ claim[r] # "none" /\ lease[r] = "new" /\ doing[r] # "dead"
  /\ lease' = [lease EXCEPT ![r] = "old"]
  /\ lapses' = lapses + 1
  /\ UNCHANGED <<claim, fence, written, doing, judgement, deaths, superseded, last>>

OwnershipNext ==
  \E r \in Runtimes :
    \/ ListClaims(r) \/ ReadClaim(r) \/ MoveClaim(r) \/ CompareClaim(r) \/ GiveWay(r)
    \/ PublishClaim(r) \/ Contend(r) \/ OpenClaim(r)
    \/ CreateFence(r) \/ WriteFence(r) \/ FenceExists(r) \/ LookAtFence(r) \/ LookAtClaim(r)
    \/ MoveFence(r) \/ CompareFence(r) \/ ValidClaim(r) \/ ValidFence(r)
    \/ AssertLease(r) \/ Refresh(r) \/ AssertAgain(r) \/ Mutated(r) \/ Heartbeat(r)
    \/ ReleaseCache(r) \/ CheckOwn(r) \/ DropFence(r) \/ DropClaim(r)
    \/ Die(r) \/ Lapse(r)
OwnershipSpec == OwnershipInit /\ [][OwnershipNext]_ownerVars

---------------------------------------------------------------------------
\* Every variable keeps its type.
OwnershipTypeOK ==
  LET None == Runtimes \cup {NoRuntime} IN
  /\ claim \in [Runtimes -> {"none", "there", "moved"}] /\ lease \in [Runtimes -> {"new", "old"}]
  /\ fence \in None /\ written \subseteq Runtimes
  /\ doing \in [Runtimes -> OwnerSteps]
  /\ reading \in [Runtimes -> SUBSET Runtimes]
  /\ stale \in [Runtimes -> [Runtimes -> {"no", "new", "old"}]]
  /\ contended \subseteq Runtimes
  /\ at \in [Runtimes -> None] /\ moved \in [Runtimes -> None]
  /\ superseded \subseteq None /\ last \in None
  /\ deaths \in 0..MaxDeaths /\ lapses \in 0..MaxLapses

\* One runtime owns the cache.
OneOwner == \A r, o \in Runtimes : doing[r] \in Owning /\ doing[o] \in Owning => r = o

\* Changes of the cache are fenced (mutate, refreshLeaseOnce): as long as no
\* living owner's lease runs out nobody begins one while another owns the
\* cache, whoever dies where; and if one lease does, changes may overlap once,
\* but nobody begins one after another has begun one since this runtime's last.
OwnersFenced ==
  [][\A r \in Runtimes : doing[r] # "mutate" /\ doing'[r] = "mutate" =>
       /\ lapses <= 1 => r \notin superseded
       /\ lapses = 0 => OneOwner']_ownerVars
=============================================================================
