SPECIFICATION Spec
CONSTANTS
  t1 = t1  t2 = t2  w1 = w1  w2 = w2  c1 = c1  c2 = c2
  None = None
  Tasks = {t1, t2}
  Scored = {t1}
  Workers = {w1}
  Commands = {c1}
  Ops = {"interrupt"}
  MaxAttempts <- MCAttempts
  Polite = TRUE
  MaxFaults = 0
CHECK_DEADLOCK FALSE
INVARIANTS OwnExit
