SPECIFICATION VolumeSpec
CONSTANTS
  Unreadable = Unreadable
  None = None
  Garbled = Garbled
  Sectors = 2
  Usn = {0, 1, 2}
  Files = {"f1", "f2"}
  Names = {"a", "longer name"}
  LinkNames = {"A"}
  LongNames = {"longer name"}
  Alias <- MCAlias
  Fold <- MCFold
  MarkSets <- MCMarkSets
  BufOrder <- MCBufOrder
  Block <- MCBlock
  Content <- MCContent
  ForgedTimes = {2}
  NodeCap = 2
  MaxOps = 4
  Backlog = 0
  InFlight = 2
INVARIANTS ListingExact NamesAgree 
PROPERTY AtomicBlocks
CHECK_DEADLOCK FALSE
