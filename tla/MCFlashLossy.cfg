SPECIFICATION Spec
CONSTANTS
  Capacity = 5
  WipeHead = 3
  WipeTail = 1
  DeferHead = 2
  Chunk = 2
  MaxImage = 5
  Faults = {"corrupt", "drop"}
INVARIANT SuccessIsOnMedia
CHECK_DEADLOCK FALSE
