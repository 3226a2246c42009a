SPECIFICATION Spec
CONSTANTS
  Tasks = {t1}
  Requests = {r1, r2}
  Cron = Cron
  MaxAttempts = 1
  MaxBusy = 1
  MaxRestarts = 1
  NoTask = NoTask
SYMMETRY Symmetry
CHECK_DEADLOCK FALSE
INVARIANTS
  AcceptedIsUploaded
  UploadedIsInImmich
  ReviewHasFile
