SPECIFICATION Spec
CONSTANTS
  q1 = q1
  q2 = q2
  q3 = q3
  t1 = t1
  t2 = t2
  k1 = k1
  k2 = k2
  r1 = r1
  r2 = r2
  u1 = u1
  u2 = u2
  Threads = {t1, t2}
  Runs = {r1}
  Keys = {k1, k2}
  Requests = {q1, q2, q3}
  Users = {u1}
  NoThread = NoThread
  NoRun = NoRun
  NoRequest = NoRequest
  ThreadOf <- SharedThread
  KeyOf <- SharedKey
  RunOf <- SharedRun
  KindOf <- SharedKind
  Outcomes = {"succeeded", "requires_user_action"}
  MaxCrashes = 1
  StoreFails = TRUE
CHECK_DEADLOCK FALSE
INVARIANTS RunLinkedOnce RunIsTurns
PROPERTIES TurnOverStays UnknownStaysUntilTerminated
