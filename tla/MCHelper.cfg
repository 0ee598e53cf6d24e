SPECIFICATION FairSpec
CONSTANTS
  MaxRuns = 2
  PipeSize = 4
INVARIANTS TerminalLineWins
PROPERTIES KeepsRunPromise EveryRunAnswered CancelAnswered OrphanStops
CHECK_DEADLOCK FALSE
