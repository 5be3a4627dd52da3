SPECIFICATION Spec
CONSTANTS
  Journals <- SmallJournals
  MinLength <- MinLengths
  MaxRecord = 6
  ShortReads = TRUE
  MaxErrors = 0
INVARIANTS StreamComplete
