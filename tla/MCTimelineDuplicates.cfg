SPECIFICATION Spec
CONSTANTS
  Entries = {e1, e2}
  MaxTime = 2
  MaxRecords = 2
  LogPages = 1
  PageUnits = 3
  Tolerance = 1
  None = None
  Window = 1
  MinGroup = 2
  TempWindow = 0
  TempGroup = 2
  GapLimit = 1
  HighUsn = 2
SYMMETRY EntrySymmetry
CHECK_DEADLOCK FALSE
INVARIANTS Deduplicated
