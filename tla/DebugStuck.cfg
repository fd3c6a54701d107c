SPECIFICATION Spec
CONSTANTS
  MaxIcount = 3
  ReceiveMax = 8
  MaxBacklog = 8
  Target = {1, 2}
  DebugWhileOpen = TRUE
  PortsMayFail = FALSE
  MaxRequests = 2
  MaxWire = 1
INVARIANTS NeverStuck
CHECK_DEADLOCK FALSE
