SPECIFICATION Spec
CONSTANTS
  r1 = r1  r2 = r2  e1 = e1  e2 = e2  o1 = o1  o2 = o2  b1 = b1
  none = none
  None = none
  Replica = {r1, r2}
  Entry = {e1, e2}
  Blob = {b1}
  Record <- Contents
  Aged <- Nothing
  CommitTime = {1}
  LateRemote = {}
  MaxAttempts = 1
  MaxEpoch = 1
  MaxBumps = 0
  MaxFaults = 1
  UserFetch = FALSE
  InitBeside = FALSE
SYMMETRY Alike
INVARIANTS StagedBlobLands ReadYourWrites
PROPERTIES KeepsPromise DeletedStaysDeleted
