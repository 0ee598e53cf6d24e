SPECIFICATION FairSpec
CONSTANTS
  MaxRuns = 2
  PipeSize = 2
  Attempts = 2
INVARIANTS NoLineLost CancelStaysInRun
PROPERTIES KeepsRunPromise EveryRunAnswered CancelReachesHelper
CHECK_DEADLOCK FALSE
