\* One connection, two job instances, two keys, entries that are written and never deleted.
\* The bounds stop the model in the end.
SPECIFICATION Spec
CONSTANTS
  Callers = {c1}
  Keys = {k1, k2}
  Operations = {"put"}
  MaxJobs = 2
  MaxRevisions = 3
  History = 1
  BatchSize = 2
  MaxLosses = 1
  MaxEvents = 5
  Requests <- MCRequests
  c1 = c1
  k1 = k1
  k2 = k2
INVARIANTS
  TypeOK
  FollowsBucket
  CountersAgree
  PausedAddsOneBatch
PROPERTIES
  StopEndsWorker
CHECK_DEADLOCK FALSE
