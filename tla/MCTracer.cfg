SPECIFICATION MCSpec
CONSTANTS
  Addr = {1, 2}
  SwitchTo = 2
  StartingFrom = 1
  Pid = {0, 1}
  Tgid <- MCTgid
  Ts = {0, 1}
  MinInsns = 1
  TsMod = 16
  MaxQueue = 5
  MaxDepth = 2
  MaxSaved = 3
INVARIANTS QueueReadsAsBacktrace BackIsDefined TracksAreAnnounced
PROPERTIES TakesBackOwnBegin NamesAreInterned
CHECK_DEADLOCK FALSE
