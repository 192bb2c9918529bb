SPECIFICATION Spec
CONSTANTS
  Scripts <- MCScripts
  BufferSize = 26
  MaxPieces = 3
INVARIANTS
  FramesExact
  RequestsKeepTheirId
PROPERTIES
  AllDelivered
  DropReturns
CHECK_DEADLOCK FALSE
