SPECIFICATION Spec
CONSTANTS
  Base = 6
  LastTime = 26
  Interval = 3
  Cached = TRUE
INVARIANTS
  ReadIsSafe
CHECK_DEADLOCK FALSE
