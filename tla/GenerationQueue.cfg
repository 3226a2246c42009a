SPECIFICATION Spec
CONSTANTS
  MaxTasks = 2
  Workers = {w1, w2}
  Limit = 2
  MaxRestarts = 1
  MaxLost = 1
  MaxCancels = 1
  NoTask = NoTask
SYMMETRY Symmetry
CHECK_DEADLOCK FALSE
INVARIANTS
  OneWorkerPerTask
  
PROPERTIES
  CancelledStays
  
