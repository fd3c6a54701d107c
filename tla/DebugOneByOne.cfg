SPECIFICATION FairSpec
CONSTANTS
  MaxIcount = 3
  ReceiveMax = 8
  MaxBacklog = 8
  Target = {1, 2}
  DebugWhileOpen = FALSE
  PortsMayFail = FALSE
  MaxRequests = 2
  MaxWire = 2
INVARIANTS StaysUp
PROPERTIES ReplayArrives
CHECK_DEADLOCK FALSE
