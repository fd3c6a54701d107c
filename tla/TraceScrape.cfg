SPECIFICATION Spec
CONSTANTS
  NumPages = 2
  MaxPackets = 2
  LastChunkID = 7
  MaxChunkID = 7
  Size = 4
  RecordSize <- MCRecordSize
  Writers = {2}
  Thresholds = {100}
  Modes <- ScrapingMode
INVARIANTS DchecksHold
CHECK_DEADLOCK FALSE
