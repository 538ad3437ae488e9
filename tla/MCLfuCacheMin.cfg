SPECIFICATION Spec
CONSTANTS
  Keys = {"a", "b", "c", "d"}
  Capacity = 2
  MaxFreq = 4
PROPERTIES
  EvictsLeastFrequent
