SPECIFICATION CacheSpec
CONSTANTS
  Addrs = {0, 4, 8}
  LaneCount = 2
  Bytes = {0, 1}
  Threads = {A, B}
  Capacity = 2
SYMMETRY Interchangeable
CONSTRAINT OneReservedWord
INVARIANTS
  LinesAgree
  Coherent
  ReservationIsMine
PROPERTIES
  ScIsAtomic
  ImplementsMemory
