SPECIFICATION Spec
CONSTANTS
  a = a
  b = b
  n1 = n1
  n2 = n2
  Entry = {a, b}
  RootEntry = RootEntry
  Name = {n1, n2}
  NoName = NoName
  MaxSeq = 2
  MaxEvents = 5
  MaxDepth = 3
  Version = 3
  MaxCarved = 0
SYMMETRY Symm
INVARIANTS CompleteResolution
