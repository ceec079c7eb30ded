SPECIFICATION SyncSpec
CONSTANTS
  Children = {c, d}
  Root = Root
  None = None
  Unwritten = Unwritten
  Forms = {"set", "setChild", "remove", "merge"}
  Hidden = FALSE
  InOrder = TRUE
  Uses = {"racing", "quiet", "refused", "writing", "writes alone", "hidden writes"}
  \* Of the whole; every use names its own bounds.
  Denied = {}
  Late = TRUE
  Races = TRUE
  MaxWrites = 4
  MaxListens = 3
  MaxRemote = 1
  MaxDrops = 1
INVARIANTS ViewsExact ListensCover ValueTold RowsCoverUsers QuietConverges
\* Every bound may be reached, with nothing left to do.
CHECK_DEADLOCK FALSE
