SPECIFICATION FairSpec
CONSTANTS
  Agents = {a1, a2}
  Schedules = {s1, s2}
  MaxJobs = 2
  MaxRepeat = 1
  MaxFaults = 1
  MaxExpiries = 0
  Nobody = Nobody
  Other = Other
CHECK_DEADLOCK FALSE
PROPERTY EveryWorkerLeaves
