SPECIFICATION FairSpec
CONSTANTS
  MaxTasks = 2
  Workers = {w1}
  Limit = 1
  MaxRestarts = 1
  MaxLost = 1
  MaxCancels = 0
  NoTask = NoTask
CHECK_DEADLOCK FALSE
PROPERTIES
  EveryTaskSettles
