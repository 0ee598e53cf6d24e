SPECIFICATION FairSpec
CONSTANTS
  Fetcher = {one}
  Artifact = {full, basic}
  Size = 2
  None = None
  MaxFetches = 3
INVARIANTS OutIsWhole NoDroppings
PROPERTIES DeliversWhatWasAsked EveryFetchEnds
CHECK_DEADLOCK FALSE
