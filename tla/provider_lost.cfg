SPECIFICATION ExchangeSpec
CONSTANTS
  v1 = v1
  v2 = v2
  Versions = {v1, v2}
  DefaultVersion = v1
  NoVersion = NoVersion
  NoJournal = NoJournal
  Absent = Absent
  Partial = Partial
  MaxOperations = 2
  MaxInterruptions = 3
CHECK_DEADLOCK FALSE
INVARIANT InstallNeverLost
