SPECIFICATION Spec
CONSTANTS
  Pcs = {0, 4}
  Vectors = {0, 1, 4}
INVARIANTS
  TrapIntact
PROPERTIES
  MretUndoesTrap
  PrivilegeRisesInHandler
  MachineCsrsAreMachines
CHECK_DEADLOCK FALSE
