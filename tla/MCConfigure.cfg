SPECIFICATION FairSpec
CONSTANTS
  x = x
  i = i
  j = j
  kernel = kernel
  conf = conf
  pre = pre
  Root = Root
  Extlinux = Extlinux
  NoFile = NoFile
  NoPart = NoPart
  Dir = {x, i, j}
  Conf = conf
  Base <- MCBase
  Entry <- MCEntry
  Shipped <- MCShipped
  Table <- MCTable
  MaxRuns = 3
INVARIANTS AppliedIsExact RefusedLeavesCard
PROPERTIES ConfigureAnswered
CHECK_DEADLOCK FALSE
