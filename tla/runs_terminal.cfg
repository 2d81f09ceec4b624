SPECIFICATION Spec
CONSTANTS
  r1 = r1
  r2 = r2
  Runs = {r1, r2}
  NoRun = NoRun
CHECK_DEADLOCK FALSE
PROPERTY TerminalIsFinal
