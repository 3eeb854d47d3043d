\* Two connections: one starts a job and waits for its first row, the other stops it at once.
SPECIFICATION Spec
CONSTANTS
  c1 = c1
  c2 = c2
  Callers = {c1, c2}
  MaxJobs = 1
  MaxCrashes = 0
PROPERTIES
  StopIsHonoured
CHECK_DEADLOCK FALSE
