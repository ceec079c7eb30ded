SPECIFICATION Spec
CONSTANTS
  Children = {c, d}
  Root = Root
  None = None
  Unwritten = Unwritten
  MaxWrites = 0
  Forms = {"setChild"}
  Hidden = FALSE
  InOrder = TRUE
  Denied = {}
  Races = FALSE
  Late = TRUE
  MaxListens = 3
  MaxRemote = 1
  MaxDrops = 0
INVARIANTS Converged
CHECK_DEADLOCK FALSE
