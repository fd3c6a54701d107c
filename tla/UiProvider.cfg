SPECIFICATION FairSpec
CONSTANTS
  MaxPanels = 2
  MaxProcs = 3
  MaxChanges = 2
  MayFail = TRUE
  MayHide = TRUE
INVARIANTS OneBackend
PROPERTIES LoaderEnds
CHECK_DEADLOCK FALSE
