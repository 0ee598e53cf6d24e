SPECIFICATION CopySpec
CONSTANTS
  Capacity = 4
  WipeHead = 1
  WipeTail = 0
  Faults = {"corrupt", "drop"}
  Chunk = 2
  MaxFile = 5
INVARIANTS CopiedIsOnMedia OversizeIsHarmless
CHECK_DEADLOCK FALSE
