SPECIFICATION VmemSpec
CONSTANTS
  Entries = 4
  Pages = {0, 1, 2, 3, 5}
  TablePage = 1
  Own = {0, 1}
  FlagSets <- SomeFlags
INVARIANTS
  KernelReachable
  WalkFindsMap
