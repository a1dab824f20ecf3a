SPECIFICATION FairSpec
CONSTANTS
  h1 = h1  h2 = h2   c1 = c1  c2 = c2  c3 = c3  s1 = s1
  None = None  Extra = Extra
  Threads = {h1}
  Calls = {c1, c2}
  Steers = {}
  Kinds = {"send", "peek", "move"}
  OneAtATime = FALSE
  MaxActive = 1
  EventCapacity = 1
  MaxExtras = 0
  MaxFaults = 1
  MaxCrashes = 1
CHECK_DEADLOCK FALSE
PROPERTIES ImplementsRecords StartedEnds
