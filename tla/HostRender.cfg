SPECIFICATION FairSpec
CONSTANTS
  MaxTasks = 1
  Schedules = {s1}
  Targets = {"host", "schedule"}
  Aging = {1}
  Claimable = {1}
  Strict = TRUE
  MaxRestarts = 1
  MaxKills = 1
  MaxCleans = 1
  NoTask = NoTask
  NoSchedule = NoSchedule
  NoImage = NoImage
  Broken = Broken
CHECK_DEADLOCK FALSE
INVARIANTS
  StoredHasPicture
PROPERTIES
  EveryRenderSettles
