SPECIFICATION Spec
CONSTANTS
  Keys = {1, 2, 3, 4}
  Capacity = 3
  MaxFreq = 8
  Traces <- Inputs
INVARIANTS
  ContainersAgree
  NextUseIsTrue
  NobodyBeatsIdeal
  LfuNeverAhead
PROPERTIES
  TieGoesToOldest
CHECK_DEADLOCK FALSE
