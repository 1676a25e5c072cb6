SPECIFICATION Spec
CONSTANTS
  e1 = e1  e2 = e2  o1 = o1  o2 = o2  o3 = o3  none = none
  None = none
  Replica = {}
  Blob = {}
  Entry = {e1, e2}
  Commit = {o1, o2, o3}
  Record <- Noted
  MaxChainDepth = 16
  SweepTime = {1, 3}
INVARIANTS DeletionIsForever ReadsAsIfUnswept HasBodyInTime VerdictsOutlive
PROPERTY SweepIsDone
