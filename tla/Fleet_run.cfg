SPECIFICATION FairSpec
CONSTANTS
  t1 = t1  t2 = t2  w1 = w1  w2 = w2  c1 = c1  c2 = c2
  None = None
  Tasks = {t1, t2}
  Scored = {t1}
  Workers = {w1, w2}
  Commands = {c1, c2}
  Ops = {"interrupt", "restart", "stop", "resume"}
  MaxAttempts <- MCAttempts
  Polite = TRUE
  MaxFaults = 1
CHECK_DEADLOCK FALSE
INVARIANTS CompletedIsReceipted StartedOnce WithinBudget EscalatedOnce
PROPERTIES TasksStay LoopEnds
