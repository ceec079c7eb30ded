SPECIFICATION CompactionSpec
CONSTANTS
  Clients = {"deletes", "snapshots", "by hand"}
  MaxKey = 2
  MaxSeq = 4
  MaxSnapshots = 0
  Deletes = TRUE
  Ranges <- NoRange
  NumLevels = 4
  MaxMemCompactLevel = 1
  L0Trigger = 2
  LevelLimit = 2
  MaxFileSize = 2
  MaxOverlap = 2
  ExpandLimit = 4
  None = None
INVARIANTS
  LevelsExact
  NewerFirst
  ReadsSnapshot
PROPERTIES
  Descends
\* Every entry may have been written and every compaction done.
CHECK_DEADLOCK FALSE
