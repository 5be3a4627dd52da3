SPECIFICATION Spec
CONSTANTS
  s1 = s1
  s2 = s2
  Slot <- TwoSlots
  PageCount = 3
  PageUnits = 2
  Sizes = {1, 2}
  TailCopies = TRUE
  MaxTorn = 1
  MaxLsn = 5
SYMMETRY Interchangeable
INVARIANTS EveryRecordOnce TransactionsKept StateTold ClearingTold
