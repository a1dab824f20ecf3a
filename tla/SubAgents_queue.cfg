SPECIFICATION Spec
CONSTANTS
  a = a  b = b  n = n
  Agents = {a, b}
  Nested = {}
  MaxAdmitted = 2
  Launch = 1
  Outcomes = {"Completed"}
  MaxExits = 0
  MaxPanics = 0
CHECK_DEADLOCK FALSE
PROPERTIES QueuedWaits
