\* Lost deliveries, lost acks and early takeovers: still never twice.
SPECIFICATION Spec
CONSTANTS
  MaxSeq = 3
  Matching <- AllButTwo
  StartSeq = 1
  BatchSize = 2
  TransportBatch = 3
  LossyLink = TRUE
  EarlyTakeover = TRUE
INVARIANTS
  AtMostOnce
  CheckpointCoversRows
  RegistryNotAhead
