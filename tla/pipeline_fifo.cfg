\* Deliveries in order and a clean handover: exactly once.
SPECIFICATION FairSpec
CONSTANTS
  MaxSeq = 4
  Matching <- AllButTwo
  StartSeq = 1
  BatchSize = 2
  TransportBatch = 3
  LossyLink = FALSE
  EarlyTakeover = FALSE
INVARIANTS
  AckedIsStored
PROPERTIES
  ImplementsExactlyOnce
  EventuallyStored
