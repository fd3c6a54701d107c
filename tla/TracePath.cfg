SPECIFICATION Spec
CONSTANTS
  NumPages = 2
  MaxPackets = 2
  LastChunkID = 7
  MaxChunkID = 7
  Size = 4
  RecordSize <- MCRecordSize
  Writers = {2}
  Thresholds = {100}
  Modes <- AllModes
INVARIANTS PacketsAreWhole LossIsFlaggedInPass FlushCommits NoAbiViolation RingIsConsistent NothingIsForgotten
PROPERTIES InOrder
CHECK_DEADLOCK FALSE
