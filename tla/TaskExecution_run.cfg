SPECIFICATION FairSpec
CONSTANTS
  t1 = t1  t2 = t2
  Tasks = {t1}
  Workers = 1
  MaxNotes = 2
  MaxFaults = 2
  MaxCrashes = 1
CHECK_DEADLOCK FALSE
INVARIANTS TaskFollowsTurn NoneUnattended
PROPERTIES TasksSettle
