\* Scans by sequence number, time, text and filter over a changing stream.
SPECIFICATION Spec
CONSTANTS
  Token <- Tokens
  MaxSeq = 3
  MaxTime = 2
  UINT64_MAX = 99
  StreamSubjects <- Configured
  Subjects <- Published
  NoFilter = NoFilter
  Requests <- SomeRequests
  BatchSize = 2
  LossyLink = TRUE
INVARIANTS
  TypeOK
  RowsAreRequested
  CompleteWhenDone
  RangeStatsAgree
CHECK_DEADLOCK FALSE
