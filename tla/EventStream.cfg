SPECIFICATION FairSpec
CONSTANTS
  Rows = {r1, r2}
  Writers = {w1, w2}
  MaxRows = 1
  BatchSize = 2
  MaxWrites = 3
  MaxPrunes = 2
  MaxFaults = 1
  MaxRefetches = 1
CHECK_DEADLOCK FALSE
 
PROPERTIES ClientCatchesUp
