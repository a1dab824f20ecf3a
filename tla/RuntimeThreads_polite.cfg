SPECIFICATION Spec
CONSTANTS
  h1 = h1  h2 = h2   c1 = c1  c2 = c2  c3 = c3  s1 = s1
  None = None  Extra = Extra
  Threads = {h1, h2}
  Calls = {c1, c2}
  Steers = {s1}
  Kinds = {"send", "compact", "peek", "move"}
  OneAtATime = TRUE
  MaxActive = 1
  EventCapacity = 1
  MaxExtras = 1
  MaxFaults = 0
  MaxCrashes = 0
SYMMETRY CallThreadSymmetry
CHECK_DEADLOCK FALSE
INVARIANTS AnnouncedIsRecorded StartedIsActive InterruptSticks BlockedIsDriven OwnOutcome
PROPERTIES GrowsOnlyWhenBusy
