SPECIFICATION Spec
CONSTANTS
  Bytes = {0, 1}
  Size = 3
INVARIANTS
  CountInRange
  PositionsAgree
PROPERTIES
  ImplementsFifo
