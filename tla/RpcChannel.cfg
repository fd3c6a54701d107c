SPECIFICATION FairSpec
CONSTANTS
  Page = {"p1"}
  Methods = {"QUERY_STREAMING", "APPEND_TRACE_DATA", "DEBUG", "DISABLE_AND_READ_METATRACE"}
  MaxConn = 2
  MaxSeq = 3
  MaxTx = 4
  RestLength = 2
  Fragments = TRUE
  BreakFrom = 1
  PagesClose = TRUE
INVARIANTS ResponsesMatch IdleMeansQuiescent
PROPERTIES RequestsAnswered
CHECK_DEADLOCK FALSE
