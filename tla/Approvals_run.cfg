SPECIFICATION FairSpec
CONSTANTS
  t1 = t1  t2 = t2  a = a  b = b  m = m  x = x  y = y
  None = None
  Elsewhere = Elsewhere
  Turns = {t1, t2}
  Items = {a, b, m}
  Tools = {a, b}
  Ids = {x, y}
  Shared = {x}
  TurnOf <- InTurn
  IdOf <- TwoIds
  Polite = TRUE
  EventCapacity = 1
  MaxFaults = 1
  MaxCrashes = 1
CHECK_DEADLOCK FALSE
INVARIANTS RanIfAllowed ItemsEndWithTheirTurn RememberedIsNotAsked
PROPERTIES TurnsSettle
