SPECIFICATION FairSpec
CONSTANTS
  t1 = t1  t2 = t2  t3 = t3  w1 = w1  w2 = w2
  NoTask = NoTask  NoWorker = NoWorker
  Tasks = {t1, t2}
  Workers = {w1, w2}
  MaxFaults = 1
  MaxCrashes = 2
  MaxPanics = 1
CHECK_DEADLOCK FALSE
INVARIANTS StartedAtMostOnce QueueHoldsTheQueued RunningTasksAreOwned DiskNeverAhead AckedIsDurable CancelSticks
PROPERTIES AckedSettles ImplementsLifecycle
