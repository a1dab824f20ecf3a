SPECIFICATION FairSpec
CONSTANTS
  a = a  b = b  n = n
  Agents = {a, b}
  Nested = {}
  MaxAdmitted = 1
  Launch = 1
  Outcomes = {"Completed"}
  MaxExits = 1
  MaxPanics = 1
CHECK_DEADLOCK FALSE
INVARIANTS RunningHasTask  DrainedOnce
PROPERTIES ChildrenReport
