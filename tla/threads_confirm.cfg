SPECIFICATION Spec
CONSTANTS
  q1 = q1
  q2 = q2
  q3 = q3
  t1 = t1
  t2 = t2
  k1 = k1
  k2 = k2
  r1 = r1
  r2 = r2
  u1 = u1
  u2 = u2
  Threads = {t1}
  Runs = {r1, r2}
  Keys = {k1, k2}
  Requests = {q1, q2}
  Users = {u1, u2}
  NoThread = NoThread
  NoRun = NoRun
  NoRequest = NoRequest
  ThreadOf <- FollowThread
  KeyOf <- FollowKey
  RunOf <- FollowRun
  KindOf <- FollowKind
  Outcomes = {"succeeded", "unknown_outcome"}
  MaxCrashes = 0
  StoreFails = FALSE
CHECK_DEADLOCK FALSE
INVARIANTS TerminatedNotExecuting PendingIsWaiting
PROPERTY ResumedByConsent
