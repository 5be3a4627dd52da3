SPECIFICATION Spec
CONSTANTS
  Clusters = 7
  FirstRecords = 3
  Units = 2
  RunsPerAttr = 1
  AttrsPerExt = 2
  MaxOps = 6
INVARIANTS MftAssembledFromFirst ReadsContents HandlesHonoured SpaceAccounted DeletedFound
