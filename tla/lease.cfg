\* Three jobs on one durable, two of them on one lock file, crashes and takeovers.
SPECIFICATION LeaseSpec
CONSTANTS
  a = a
  b = b
  c = c
  Claimants = {a, b, c}
  NoJob = NoJob
  LockOf <- TwoOfThree
  LeaseTicks = 3
  MaxMark = 2
INVARIANTS
  FencedIsCurrent
  OneWorkerPerLock
PROPERTIES
  LeaseKeptAfterFirstBatch
SYMMETRY SameJobs
