SPECIFICATION Spec
CONSTANTS
  r1 = r1  r2 = r2  e1 = e1  e2 = e2  o1 = o1  o2 = o2  b1 = b1
  none = none
  None = none
  Replica = {r1, r2}
  Entry = {e1}
  Blob = {}
  Record <- OneNote
  Aged <- Nothing
  CommitTime = {1}
  LateRemote = {}
  MaxAttempts = 2
  MaxEpoch = 1
  MaxBumps = 3
  MaxFaults = 1
  UserFetch = FALSE
  InitBeside = FALSE
SYMMETRY Alike
INVARIANTS StatsNeverLost StatsExact
