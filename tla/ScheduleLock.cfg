SPECIFICATION FairSpec
CONSTANTS
  Procs = {p1, p2, p3}
  Attempts = 3
  MaxFailures = 1
  None = None
CHECK_DEADLOCK FALSE
PROPERTIES
  LiveLockKept
  EveryAttemptEnds
