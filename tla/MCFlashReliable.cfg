SPECIFICATION FairSpec
CONSTANTS
  Capacity = 6
  WipeHead = 3
  WipeTail = 1
  DeferHead = 2
  Chunk = 3
  MaxImage = 7
  Faults = {}
INVARIANT EarlyStopIsClean
INVARIANT SuccessIsOnMedia
INVARIANT OldTableGoneFirst
PROPERTY TableLast
CHECK_DEADLOCK FALSE
PROPERTY KeepsCardPromise
PROPERTY CancelStops
