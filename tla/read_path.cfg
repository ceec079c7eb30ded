SPECIFICATION ReadPathSpec
CONSTANTS
  Parts = {"skip list", "few keys", "more keys", "table", "cache", "no cache", "hash"}
  Keys = {1, 2, 3}
  Top = 4
  MaxHeight = 3
  Readers = {r1}
  UserKeys = {1, 2, 3}
  End = 4
  Tables = {"table"}
  Written = 2
  MaxSeq = 3
  MaxByte = 3
  MaxTag = 3
  MaxEntries = 4
  Interval = 2
  FilterBase = 2
  Files = {1, 2, 3}
  Charge <- Size
  Slots = {1, 2, 3, 4, 5, 6}
  Threads = {t1, t2, t3}
  Capacity = 2
  None = None
  HashKeys = {1, 2, 3, 4, 5, 6}
  Ids = {a, b}
  MinLength = 1
INVARIANTS
  WellLinked
  IteratorExact
  TableExact
  CacheExact
PROPERTIES
  HashExact
  SetSpec
CHECK_DEADLOCK FALSE
