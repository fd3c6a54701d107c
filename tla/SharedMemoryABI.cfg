SPECIFICATION FairSpec
CONSTANTS
  Writers = {1, 2}
  NumPages = 1
  NumChunks = 2
  MaxChunkID = 1
  MaxCount = 2
  RetryAttempts = 3
INVARIANTS TypeOK ChecksHold RightfullyAttributed OneHolder NoChunkIsLost
PROPERTIES NobodyHangs
