SPECIFICATION Spec
CONSTANTS
  Agents = {a1, a2, a3}
  Schedules = {s1, s2}
  MaxJobs = 3
  MaxRepeat = 1
  MaxFaults = 1
  MaxExpiries = 1
  Nobody = Nobody
  Other = Other
SYMMETRY Symmetry
CHECK_DEADLOCK FALSE
INVARIANTS
  OneWorker
  JobRecoverable
  
PROPERTIES
  ScheduleServed
