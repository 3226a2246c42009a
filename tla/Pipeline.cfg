SPECIFICATION FairSpec
CONSTANTS
  Tasks = {t1, t2}
  p1 = p1  p2 = p2
  Photos = {p1, p2}
  Plans <- MixedPlans
  Limit <- LimitOne
  Earlier <- MixedBefore
  MaxKills = 1
  NoTask = NoTask
CHECK_DEADLOCK FALSE
INVARIANTS MarkedPhotosKept SourcesAreMarked FailureFreesPhotos
PROPERTIES ImplementsBudget EveryWorkerEnds
