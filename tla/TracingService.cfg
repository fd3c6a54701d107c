SPECIFICATION Spec
CONSTANTS
  MaxDataSourceInstances = 1
  MaxPendingFlushes = 1
  Producer = {p1, p2}
  Notifies = {p1}
  Consumer = {c1}
  NoConsumer = NoConsumer
  Config <- SomeConfigs
  MaxSessions = 1
  MaxCalls = 1
INVARIANTS
  DchecksHold
  NoOrphanInstance
  ConsumersAgree
  WaitsForSomeone
  EndIsDue
  StartIsAnnounced
  SuccessIsAcknowledged
CHECK_DEADLOCK FALSE
