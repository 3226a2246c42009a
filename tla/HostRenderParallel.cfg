SPECIFICATION Spec
CONSTANTS
  MaxTasks = 2
  Schedules = {s1, s2}
  Targets = {"host"}
  Aging = {1}
  Claimable = {}
  Strict = TRUE
  MaxRestarts = 0
  MaxKills = 0
  MaxCleans = 0
  NoTask = NoTask
  NoSchedule = NoSchedule
  NoImage = NoImage
  Broken = Broken
CHECK_DEADLOCK FALSE
SYMMETRY Symmetry
INVARIANTS
  OwnPicture
