SPECIFICATION Spec
CONSTANTS
  Journals <- HealthyAndDamaged
  MinLength <- MinLengths
  MaxRecord = 6
  ShortReads = FALSE
  MaxErrors = 1
INVARIANTS StreamComplete BulkComplete BufferTransparent CarvesWhatParses
PROPERTY Terminates
