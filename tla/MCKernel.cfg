SPECIFICATION FairSpec
CONSTANTS
  MaxProcs = 4
  KallocPages = 2
  Programs <- AllHandOvers
INVARIANTS
  OneTrapFrame
  MretReturnsHome
  SavedIsExact
  LockExcludes
  PagesDistinct
PROPERTIES
  ImplementsScheduler ReadyRuns SpinEnds
CHECK_DEADLOCK FALSE
