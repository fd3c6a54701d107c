SPECIFICATION Spec
CONSTANTS
  MaxIcount = 2
  ReceiveMax = 8
  MaxBacklog = 8
  Target = {0, 1}
  DebugWhileOpen = TRUE
  PortsMayFail = TRUE
  MaxRequests = 2
  MaxWire = 1
INVARIANTS CursorIsCurrent
PROPERTIES StartsAtTarget
CHECK_DEADLOCK FALSE
