SPECIFICATION FairSpec
CONSTANTS
  a1 = a1  a2 = a2  p1 = p1  p2 = p2
  None = None
  Autos = {a1}
  Procs = {p1}
  Limit = 1
  RecLimit = 2
  MaxNow = 2
  MaxByHand = 1
  MaxFaults = 1
  Outcomes = {"canceled"}
CHECK_DEADLOCK FALSE
INVARIANTS SlotHasOneRun
PROPERTIES NoSlotSkipped PauseAndDeleteStick RunsSettle
