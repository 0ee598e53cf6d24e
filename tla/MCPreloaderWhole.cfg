SPECIFICATION CopySpec
CONSTANTS
  Capacity = 4
  WipeHead = 1
  WipeTail = 0
  Faults = {}
  Chunk = 2
  MaxFile = 5
INVARIANTS WholePreloader
CHECK_DEADLOCK FALSE
