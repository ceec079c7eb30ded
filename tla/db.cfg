SPECIFICATION BoundedSpec
CONSTANTS
  MaxWrites = 4
  Budget = 4
  Variety = 3
  BufferSize = 0
  CompactionTrigger = 1
  StopTrigger = 2
  MaxErrors = 1
  MaxCrashes = 2
  None = None
INVARIANTS
  DBExact
  ReadsSnapshot
PROPERTIES
  StoreSpec
  CallsReturn
\* Every call may have returned.
CHECK_DEADLOCK FALSE
