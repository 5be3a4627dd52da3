SPECIFICATION Spec
CONSTANTS
  a = a
  b = b
  n1 = n1
  n2 = n2
  Entry = {a, b}
  RootEntry = RootEntry
  Name = {n1, n2}
  NoName = NoName
  MaxSeq = 1
  MaxEvents = 6
  MaxDepth = 3
  Version = 2
  MaxCarved = 1
SYMMETRY Symm
INVARIANTS CarvedNeverOutrank
