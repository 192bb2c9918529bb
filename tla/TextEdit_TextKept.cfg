SPECIFICATION Spec
CONSTANTS
  Texts <- PlainTexts
  Inserts <- PlainInserts
  MaxEdits = 2
  MaxLength = 4
INVARIANTS
  TextKept
CHECK_DEADLOCK FALSE
