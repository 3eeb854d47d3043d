\* One connection, two job instances, and up to three messages and a connection loss
\* among them.  The bounds stop the model in the end.
SPECIFICATION Spec
CONSTANTS
  Callers = {c1}
  MaxJobs = 2
  MaxMessages = 3
  MaxLosses = 1
  MaxEvents = 5
  BatchSize = 2
  PendingLimit = 1
  c1 = c1
INVARIANTS
  PausedIsFlushed
  CountersAgree
  GapsAreReported
  StatusSettles
PROPERTIES
  ImplementsLiveJob
  StopEndsWorker
  ReceivedIsInserted
CHECK_DEADLOCK FALSE
