------------------------- MODULE IdentityMutations -------------------------
(***************************************************************************)
(* The records of identity environments and their profile directories:     *)
(* identity-environment-mutations.ts with its commit protocol, over        *)
(* LocalIdentityEnvironmentManager.  The store's file lock makes mutations *)
(* one at a time, and each starts from the file; but any write can fail    *)
(* and the process can die between two of them.  What a copy or a delete   *)
(* leaves behind is repaired by a retry under its idempotency key.         *)
(***************************************************************************)
EXTENDS Naturals, FiniteSets

CONSTANTS
  Ids, NoId,   \* identity environments
  Keys, NoKey, \* idempotency keys, each of one request
  OpOf,        \* the operation of a key's request
  SourceOf,    \* the identity it is about
  TargetOf,    \* the identity a copy, create or import makes (ownerRef); else SourceOf
  StorageOf,   \* the profile storage of an identity, once it has a record
  Manual,      \* full copies of local material, which are not repaired automatically
  Registered   \* identities that have a record and a profile to begin with

Copies == {"copy_full", "copy_environment"}
Makers == Copies \cup {"create", "import"}
MutationOps == Makers \cup {"edit", "archive", "remove", "delete"}

ASSUME MutationsAssumption ==
  /\ NoId \notin Ids /\ NoKey \notin Keys
  /\ OpOf \in [Keys -> MutationOps]
  /\ SourceOf \in [Keys -> Ids] /\ TargetOf \in [Keys -> Ids]
  /\ Manual \subseteq Keys /\ Registered \subseteq Ids

\* ownerRef is a hash of the operation, its key and its source: what a key makes
\* nobody else makes, and nobody has it before.
ASSUME OwnerRefAssumption ==
  \A k \in Keys :
    IF OpOf[k] \in Makers
    THEN /\ TargetOf[k] \notin Registered
         /\ \A l \in Keys : OpOf[l] \in Makers /\ TargetOf[l] = TargetOf[k] => l = k
         /\ OpOf[k] \in Copies => TargetOf[k] # SourceOf[k]
    ELSE TargetOf[k] = SourceOf[k]

VARIABLES
  record,   \* records: the lifecycle of an identity and its repair_state
  receipt,  \* mutation_receipts: the status kept under a key
  repair,   \* repairs: the key whose mutation of the identity is incomplete
  profile,  \* what is in a profile directory
  residual, \* staged copies (.copy-) and quarantines (.delete-) of a storage
  job       \* the mutation that runs: its key and what it does next

mutationVars == <<record, receipt, repair, profile, residual, job>>
storeVars == <<record, receipt, repair>>
diskVars == <<profile, residual>>

Storages == {StorageOf[i] : i \in Ids}
NoRecord == [life |-> "none", repair |-> FALSE]
Clean(life) == [life |-> life, repair |-> FALSE]
NoJob == [key |-> NoKey, next |-> "none"]
Job(k, next) == [key |-> k, next |-> next]

MutationsInit ==
  /\ record = [i \in Ids |-> IF i \in Registered THEN Clean("active") ELSE NoRecord]
  /\ receipt = [k \in Keys |-> "none"]
  /\ repair = [i \in Ids |-> NoKey]
  /\ profile = [s \in Storages |->
       IF \E i \in Registered : StorageOf[i] = s THEN "data" ELSE "none"]
  /\ residual = [s \in Storages |-> {}]
  /\ job = NoJob

Recorded(i) == record[i].life # "none"
InRepair(i) == record[i].repair \/ repair[i] # NoKey
Source(k) == StorageOf[SourceOf[k]]
Target(k) == StorageOf[TargetOf[k]]

\* hasIdentityReferenceConflict
Conflicts(i) == \E j \in Ids : Recorded(j) /\ (i = j \/ StorageOf[i] = StorageOf[j])

-----------------------------------------------------------------------------
(* Operations that only touch the store, in one write (commitSimple). *)

\* The guard of an operation, after the receipt of its key was looked up.
MaySimple(k) ==
  LET i == TargetOf[k] IN
  CASE OpOf[k] = "create"  -> ~Conflicts(i) /\ profile[Target(k)] = "none"
    [] OpOf[k] = "import"  -> ~Conflicts(i) /\ profile[Target(k)] # "none"
    [] OpOf[k] \in {"edit", "remove"} -> Recorded(i)
    [] OpOf[k] = "archive" -> Recorded(i) /\ ~InRepair(i)
    [] OTHER -> FALSE

Simple(k) ==
  /\ job = NoJob /\ receipt[k] = "none" /\ MaySimple(k)
  /\ record' = [record EXCEPT ![TargetOf[k]] =
       CASE OpOf[k] = "archive" -> Clean("archived")
         [] OpOf[k] = "remove" -> NoRecord
         [] OpOf[k] = "edit" -> @
         [] OTHER -> Clean("active")]
  /\ receipt' = [receipt EXCEPT ![k] = "completed"]
  /\ UNCHANGED <<repair, job>> /\ UNCHANGED diskVars

\* create and importIdentityEnvironment of the manager: upsert, under a ref
\* that is not the hash of some key.
Upsert(i) ==
  /\ job = NoJob
  /\ Recorded(i) \/ \A k \in Keys : TargetOf[k] = i => SourceOf[k] = i
  /\ record' = [record EXCEPT ![i] = Clean("active")]
  /\ UNCHANGED <<receipt, repair, job>> /\ UNCHANGED diskVars

\* delete of the manager.
DeleteRecord(i) ==
  /\ job = NoJob /\ Recorded(i)
  /\ record' = [record EXCEPT ![i] = NoRecord]
  /\ UNCHANGED <<receipt, repair, job>> /\ UNCHANGED diskVars

\* A session is opened on an identity that is not archived: the profile
\* directory is there from then on.  No session is open during a mutation.
Launch(i) ==
  /\ job = NoJob /\ record[i].life = "active"
  /\ profile' = [profile EXCEPT ![StorageOf[i]] = IF @ = "none" THEN "fresh" ELSE @]
  /\ UNCHANGED <<residual, job>> /\ UNCHANGED storeVars

-----------------------------------------------------------------------------
(* Copies and deletes.  The process may die after every step. *)

HarborCrash ==
  /\ job # NoJob /\ job' = NoJob
  /\ UNCHANGED storeVars /\ UNCHANGED diskVars

\* The mutation ends without another write that succeeds.
GivesUp == job' = NoJob /\ UNCHANGED storeVars

\* copy and stageProfileStorageCopy: a copy of the source beside the target.
StageCopy(k) ==
  /\ job = NoJob /\ receipt[k] = "none" /\ OpOf[k] \in Copies
  /\ record[SourceOf[k]].life = "active" /\ ~InRepair(SourceOf[k])
  /\ ~Conflicts(TargetOf[k]) /\ profile[Target(k)] = "none"
  /\ OpOf[k] = "copy_full" => profile[Source(k)] # "none"
  /\ residual' = [residual EXCEPT ![Source(k)] = {}, ![Target(k)] = {"copy"}]
  /\ job' = Job(k, "intend")
  /\ UNCHANGED profile /\ UNCHANGED storeVars

\* deleteIdentity and commitProfileDelete up to the first write.
StartDelete(k) ==
  /\ job = NoJob /\ receipt[k] = "none" /\ OpOf[k] = "delete"
  /\ Recorded(SourceOf[k]) /\ ~InRepair(SourceOf[k])
  /\ job' = Job(k, "intend")
  /\ UNCHANGED storeVars /\ UNCHANGED diskVars

\* commitProfileCopy and commitProfileDelete: what is going to happen is
\* written before it does; if that fails, a staged copy is removed again.
Intend ==
  LET k == job.key
      i == TargetOf[k]
  IN
  /\ job.next = "intend"
  /\ \/ /\ record' = [record EXCEPT ![i] =
             [life |-> IF OpOf[k] \in Copies THEN "active" ELSE @.life, repair |-> TRUE]]
        /\ repair' = [repair EXCEPT ![i] = k]
        /\ receipt' = [receipt EXCEPT ![k] = "repair"]
        /\ job' = Job(k, IF OpOf[k] \in Copies THEN "rename" ELSE "quarantine")
        /\ UNCHANGED residual
     \/ /\ GivesUp
        /\ residual' \in {residual, IF OpOf[k] \in Copies
                                    THEN [residual EXCEPT ![Target(k)] = {}] ELSE residual}
  /\ UNCHANGED profile

\* persistRolledBackFailure and clearRolledBackRepair: the copy never was.
RolledBack(k) ==
  /\ job' = NoJob
  /\ record' = [record EXCEPT ![TargetOf[k]] = NoRecord]
  /\ repair' = [repair EXCEPT ![TargetOf[k]] = NoKey]
  /\ receipt' = [receipt EXCEPT ![k] = "failed"]

\* The staged copy becomes the profile.  If that fails, or the copy of other
\* material does, it is removed, which can fail too.
CommitCopy ==
  LET k == job.key
      copied == IF OpOf[k] = "copy_full" THEN profile[Source(k)] ELSE "fresh"
      removed == [residual EXCEPT ![Target(k)] = {}]
  IN
  /\ job.next = "rename"
  /\ \/ /\ profile' = [profile EXCEPT ![Target(k)] = copied]
        /\ residual' = removed
        /\ \/ job' = Job(k, "finish") /\ UNCHANGED storeVars
           \/ k \in Manual /\ GivesUp
     \/ GivesUp /\ UNCHANGED diskVars
     \/ /\ residual' = removed /\ UNCHANGED profile
        /\ GivesUp \/ RolledBack(k)

\* stageProfileStorageDelete: what is left of earlier attempts goes first,
\* then the profile is moved aside, if it is there.
Quarantine ==
  LET s == Source(job.key) IN
  /\ job.next = "quarantine"
  /\ \/ GivesUp /\ residual' \in {residual, [residual EXCEPT ![s] = {}]} /\ UNCHANGED profile
     \/ /\ job' = Job(job.key, "purge") /\ UNCHANGED storeVars
        /\ residual' = [residual EXCEPT ![s] = IF profile[s] = "none" THEN {} ELSE {"delete"}]
        /\ profile' = [profile EXCEPT ![s] = "none"]

\* Slip: nobody looks whether the quarantine could be removed.
PurgeUnchecked ==
  LET s == Source(job.key) IN
  /\ job.next = "purge"
  /\ residual' \in {residual, [residual EXCEPT ![s] = @ \ {"delete"}]}
  /\ GivesUp \/ (job' = Job(job.key, "finish") /\ UNCHANGED storeVars)
  /\ UNCHANGED profile

\* The quarantine is removed, then the local material of the identity.
Purge ==
  LET s == Source(job.key) IN
  /\ job.next = "purge"
  /\ \/ GivesUp /\ UNCHANGED residual
     \/ /\ residual' = [residual EXCEPT ![s] = @ \ {"delete"}]
        /\ GivesUp \/ (job' = Job(job.key, "finish") /\ UNCHANGED storeVars)
  /\ UNCHANGED profile

\* Slip: a completed delete leaves its repair entry.
FinishMutationWithoutRepair ==
  LET k == job.key
      i == TargetOf[k]
  IN
  /\ job.next = "finish"
  /\ job' = NoJob
  /\ record' = [record EXCEPT ![i] =
       IF OpOf[k] = "delete" \/ @ = NoRecord THEN NoRecord ELSE Clean(@.life)]
  /\ repair' = [repair EXCEPT ![i] = IF OpOf[k] = "delete" THEN @ ELSE NoKey]
  /\ receipt' = [receipt EXCEPT ![k] = "completed"]
  /\ UNCHANGED diskVars

\* finishProfileMutation
FinishMutation ==
  LET k == job.key
      i == TargetOf[k]
  IN
  /\ job.next = "finish"
  /\ job' = NoJob
  /\ \/ /\ record' = [record EXCEPT ![i] =
             IF OpOf[k] = "delete" \/ @ = NoRecord THEN NoRecord ELSE Clean(@.life)]
        /\ repair' = [repair EXCEPT ![i] = NoKey]
        /\ receipt' = [receipt EXCEPT ![k] = "completed"]
     \/ UNCHANGED storeVars
  /\ UNCHANGED diskVars

\* reconcileRepair, when the request of an incomplete mutation comes again.
\* A delete goes through its steps again; for a copy the residuals are
\* removed, and it counts as completed if the target is there.
ReconcileRepair(k) ==
  LET s == Target(k) IN
  /\ job = NoJob /\ receipt[k] = "repair"
  /\ repair[TargetOf[k]] # NoKey /\ repair[TargetOf[k]] \notin Manual
  /\ IF OpOf[k] = "delete"
     THEN /\ job' = Job(k, "quarantine")
          /\ UNCHANGED storeVars /\ UNCHANGED residual
     ELSE \/ GivesUp /\ UNCHANGED residual
          \/ /\ residual' = [residual EXCEPT ![s] = {}]
             /\ IF profile[s] # "none"
                THEN job' = Job(k, "finish") /\ UNCHANGED storeVars
                ELSE GivesUp \/ RolledBack(k)
  /\ UNCHANGED profile

-----------------------------------------------------------------------------
MutationsNext ==
  \/ \E k \in Keys : Simple(k) \/ StageCopy(k) \/ StartDelete(k) \/ ReconcileRepair(k)
  \/ \E i \in Ids : Upsert(i) \/ DeleteRecord(i) \/ Launch(i)
  \/ Intend \/ CommitCopy \/ Quarantine \/ Purge \/ FinishMutation \/ HarborCrash

MutationsSpec == MutationsInit /\ [][MutationsNext]_mutationVars

-----------------------------------------------------------------------------
MutationsTypeOK ==
  /\ record \in [Ids -> [life : {"none", "active", "archived"}, repair : BOOLEAN]]
  /\ receipt \in [Keys -> {"none", "completed", "failed", "repair"}]
  /\ repair \in [Ids -> Keys \cup {NoKey}]
  /\ profile \in [Storages -> {"none", "data", "fresh"}]
  /\ residual \in [Storages -> SUBSET {"copy", "delete"}]
  /\ job.key \in Keys \cup {NoKey}

\* What was left incomplete can be repaired: a receipt says so exactly while
\* there is a repair entry that leads back to its key, whatever removes, re-
\* creates or archives the record meanwhile, and wherever a write failed.
RepairsPaired ==
  \A k \in Keys : receipt[k] = "repair" <=> repair[TargetOf[k]] = k

\* A delete is only reported completed when the profile, every copy and
\* quarantine of it and the record are gone.
DeletedIsGone ==
  [][\A k \in Keys :
       OpOf[k] = "delete" /\ receipt'[k] = "completed" /\ receipt[k] # "completed" =>
         /\ profile'[Source(k)] = "none" /\ residual'[Source(k)] = {}
         /\ ~Recorded(SourceOf[k])']_mutationVars
=============================================================================
