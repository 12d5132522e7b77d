SPECIFICATION Spec
CONSTANTS
  b1 = b1  b2 = b2  b3 = b3  x = x  y = y
  Builds = {b1, b2, b3}
  Securities = {x, y}
  Limit = 1
  Freshness = 2
  DayLength = 2
  MaxTime = 3
INVARIANT BatchesReachTheManager
CHECK_DEADLOCK FALSE
