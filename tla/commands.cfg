SPECIFICATION Spec
CONSTANTS
  e1 = e1  e2 = e2  e3 = e3  e4 = e4
  o1 = o1  o2 = o2  o3 = o3
  b1 = b1  b2 = b2  b3 = b3  b4 = b4
  none = none
  None = none
  Replica = {}
  Blob = {b1, b2, b3, b4}
  Entry = {e1, e2, e3, e4}
  Commit = {o1, o2, o3}
  Record <- Theirs
  MaxChainDepth = 2
  Start <- Clones
  Here = o3
  Trees <- TreeOf
  Similarity <- Alikeness
  Twins <- ShortForms
  Places <- SomePlaces
  MaxCommands = 2
INVARIANTS OriginsCurrent ReadingsCurrent
INVARIANTS NoNoteIsOutOfReach RepairsHeal MovesResume
CHECK_DEADLOCK FALSE
