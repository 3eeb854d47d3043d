\* A break of the connection may swallow deliveries: the documented no-loss promise.
SPECIFICATION Spec
CONSTANTS
  MaxSeq = 3
  Matching <- AllButTwo
  StartSeq = 1
  BatchSize = 2
  TransportBatch = 3
  LossyLink = TRUE
  EarlyTakeover = FALSE
INVARIANTS
  AckedIsStored
CHECK_DEADLOCK FALSE
