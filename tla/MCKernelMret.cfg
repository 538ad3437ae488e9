SPECIFICATION Spec
CONSTANTS
  MaxProcs = 3
  KallocPages = 2
  Programs <- PrintingTasks
INVARIANTS
  MretReturnsHome
CHECK_DEADLOCK FALSE
