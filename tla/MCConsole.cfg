SPECIFICATION FairSpec
CONSTANTS
  Node = {a, b}
  NoNode = NoNode
  Tries = 2
  MaxOverlaps = 1
INVARIANTS ContextIsSelected EveryMountHeldOnce WriteIsPrepared ControlsComeBack
PROPERTIES CloseHappens CancelledPreparation
CHECK_DEADLOCK FALSE
