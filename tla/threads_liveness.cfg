SPECIFICATION LiveSpec
CONSTANTS
  q1 = q1
  q2 = q2
  q3 = q3
  t1 = t1
  t2 = t2
  k1 = k1
  k2 = k2
  r1 = r1
  r2 = r2
  u1 = u1
  u2 = u2
  c1 = c1
  c2 = c2
  c3 = c3
  Checks = {c1, c2, c3}
  Slots = 1
  Threads = {t1}
  Runs = {r1, r2}
  Keys = {k1, k2}
  Requests = {q1, q2, q3}
  Users = {u1}
  NoThread = NoThread
  NoRun = NoRun
  NoRequest = NoRequest
  ThreadOf <- FollowThread
  KeyOf <- FollowKey
  RunOf <- FollowRun
  KindOf <- FollowKind
  Outcomes = {"succeeded"}
  MaxCrashes = 0
  StoreFails = FALSE
CHECK_DEADLOCK FALSE
INVARIANT SlotsAccounted
PROPERTIES TurnsEnd EveryCheckReturns
