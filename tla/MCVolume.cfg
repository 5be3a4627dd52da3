SPECIFICATION Spec
CONSTANTS
  w1 = w1
  w2 = w2
  Zero = Zero
  Worker = {w1, w2}
  ClusterSize = 2
  Disk <- TheDisk
  DiskLen = 12
  Base = 2
  WindowLen = 8
  RunLists <- TwoLists
  MaxValue = 5
  MaxWalks = 1
INVARIANTS ReadsOwnStream NeverEscapes FailsForCause
PROPERTY EveryWalkEnds
