SPECIFICATION FairSpec
CONSTANTS
  Tasks = {t1}
  Requests = {r1}
  Cron = Cron
  MaxAttempts = 2
  MaxBusy = 3
  MaxRestarts = 1
  NoTask = NoTask
CHECK_DEADLOCK FALSE
PROPERTY OrphansGo
