SPECIFICATION Spec
CONSTANTS
  v1 = v1  v2 = v2  v3 = v3
  File <- Files
  Blob = {v1, v2, v3}
  Similarity <- Alikeness
  Start <- OneFolder
  MaxEdits = 2
  MaxRepairs = 2
INVARIANTS ContentIsFollowed FolderIsFollowed PinnedIsSeen SeenCanBeBlessed
PROPERTY RepairSettles
CHECK_DEADLOCK FALSE
