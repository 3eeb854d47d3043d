\* Two connections, two job instances (one can replace the other), one restart.
\* The bound on instances stops the model in the end.
SPECIFICATION Spec
CONSTANTS
  c1 = c1
  c2 = c2
  Callers = {c1, c2}
  MaxJobs = 2
  MaxCrashes = 1
INVARIANTS
  TypeOK
  WorkerIsMapped
  StoppedStaysStopped
PROPERTIES
  StopEndsWorker
CHECK_DEADLOCK FALSE
