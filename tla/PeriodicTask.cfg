SPECIFICATION FairSpec
CONSTANTS
  MaxGeneration = 6
  MaxPolls = 2
  MaxCalls = 2
  Immediate = TRUE
INVARIANTS OneTrigger
PROPERTIES TicksAreDue ImplementsTicker
CHECK_DEADLOCK FALSE
