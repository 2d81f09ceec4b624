--------------------------- MODULE MCTaskThreads ---------------------------
(* Instances of TaskThreads: who asks for which thread, key and run id.     *)
EXTENDS TaskThreads, TLC
CONSTANTS q1, q2, q3, t1, t2, k1, k2, r1, r2, u1, u2

\* q1 and q2 carry one idempotency key: a request and a retry of it that names
\* another run id, which the run-id claim alone would let through. q3 asks for
\* that run id too, under a key of its own.
RetryThread == [q \in Requests |-> t1]
RetryKey == [q \in Requests |-> IF q = q3 THEN k2 ELSE k1]
RetryRun == [q \in Requests |-> IF q = q1 THEN r1 ELSE r2]
RetryKind == [q \in Requests |-> IF q = q3 THEN "plain" ELSE "guarded"]

\* q1 (guarded) and q2 ask for one run id in two threads; with q3, a direct
\* submission asks for it too.
SharedThread == [q \in Requests |-> IF q = q2 THEN t2 ELSE t1]
SharedKey == [q \in Requests |-> k1]
SharedRun == [q \in Requests |-> r1]
SharedKind == [q \in Requests |->
  IF q = q1 THEN "guarded" ELSE IF q = q2 THEN "plain" ELSE "direct"]

\* A guarded request, and a plain one that would follow it in the thread; with
\* q3, a direct submission asks for the run id of the first.
FollowThread == [q \in Requests |-> t1]
FollowKey == [q \in Requests |-> IF q = q2 THEN k2 ELSE k1]
FollowRun == [q \in Requests |-> IF q = q2 THEN r2 ELSE r1]
FollowKind == [q \in Requests |->
  IF q = q1 THEN "guarded" ELSE IF q = q2 THEN "plain" ELSE "direct"]
=============================================================================
