SPECIFICATION FairSpec
CONSTANTS
  a = a
  b = b
  c = c
  d = d
  p = p
  q = q
  r = r
  Callers = {a, b, c, d}
  Procs = {p, q, r}
  ProcOf <- SharedProcOf
  NoFile = NoFile
  MaxCrashes = 2
  CanTimeout = TRUE
CHECK_DEADLOCK FALSE
INVARIANTS TypeOK ExclusionUntilOrphaned
PROPERTIES LeakNeedsTornMarker HolderKeepsFile ImplementsOwnershipLock DeadFileRecovered
