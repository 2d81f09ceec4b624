SPECIFICATION Spec
CONSTANTS
  a = a
  b = b
  c = c
  d = d
  p = p
  q = q
  r = r
  Callers = {a, b, c}
  Procs = {p, q, r}
  ProcOf <- SeparateProcOf
  NoFile = NoFile
  MaxCrashes = 1
  CanTimeout = FALSE
CHECK_DEADLOCK FALSE
INVARIANT MutualExclusion
