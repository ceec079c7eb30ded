SPECIFICATION EnvironmentSpec
CONSTANTS
  Parts = {"log", "bad log", "locks", "limits", "queue"}
  BlockSize = 6
  HeaderSize = 3
  p1 = p1
  p2 = p2
  p3 = p3
  t1 = t1
  t2 = t2
  t3 = t3
  t4 = t4
  Processes = {p1, p2, p3}
  ProcessOf <- TwoInOne
  Destroyers = {t2, t4}
  MaxInodes = 3
  None = None
  Handles = {h1, h2, h3, h4}
  MaxMmaps = 1
  MaxFiles = 1
  Works = {w1, w2, w3, w4}
  NoWork = NoWork
INVARIANTS
  LogExact
  OneProcess
  OneHolderInProcess
  CountersExact
  AwakeForWork
\* Every file may have been made, every record written and every work done.
CHECK_DEADLOCK FALSE
