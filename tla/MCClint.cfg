SPECIFICATION Spec
CONSTANTS
  Base = 6
  LastTime = 26
  Interval = 3
  Cached = FALSE
INVARIANTS
  ReadIsSafe
  NoSpuriousInterrupt
  ArmedAsAsked
CHECK_DEADLOCK FALSE
