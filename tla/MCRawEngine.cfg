SPECIFICATION Spec
CONSTANTS
  Size = 6
  BlockSize = 2
  Stage = 4
  WipeHead = 2
  WipeTail = 2
  Data = {"a"}
  MaxCall = 5
INVARIANTS DirectIoLegal
PROPERTIES KeepsBytePromise
CHECK_DEADLOCK FALSE
