SPECIFICATION FairSpec
CONSTANT MaxProcs = 4
INVARIANTS
  RunningIsCurrent
  ReadyIsResumable
  OverflowIsCaught
PROPERTIES
  NobodyOvertaken
  ZombieForever
  ReadyRuns
CHECK_DEADLOCK FALSE
