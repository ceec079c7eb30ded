SPECIFICATION Spec
CONSTANTS
  MaxKey = 2
  MaxSeq = 4
  MaxSnapshots = 1
  Deletes = TRUE
  Ranges <- NoRange
  NumLevels = 3
  MaxMemCompactLevel = 0
  L0Trigger = 2
  LevelLimit = 4
  MaxFileSize = 2
  MaxOverlap = 2
  ExpandLimit = 4
  None = None
INVARIANTS
  DeleteRemoves
CHECK_DEADLOCK FALSE
