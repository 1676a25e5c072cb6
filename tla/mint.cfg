SPECIFICATION Spec
CONSTANTS
  None = none
  Replica = {}
  Entry = {}
  Blob = {}
  Record = {}
  MaxChainDepth = 4
  Change = {"a", "b", "c"}
  Lines <- Sizes
  MinDiffFloor = 3
  Branch <- Order
  Start <- Histories
  MaxWork = 3
  MaxNotes = 2
  Edit = {"a", "c"}
  MaxJudged = 1
INVARIANTS OneVerdictRepairsGroup OnlyRewritesBind MemosHideNothing FirstRewriteKeepsNotes
PROPERTY VoidStands
CHECK_DEADLOCK FALSE
