SPECIFICATION Spec
CONSTANTS
  Texts <- MCTexts
  Inserts <- MCInserts
  MaxEdits = 2
  MaxLength = 4
INVARIANTS
  RoundTrip
PROPERTIES
  ChangesLand
  TableKeptAtEnds
CHECK_DEADLOCK FALSE
