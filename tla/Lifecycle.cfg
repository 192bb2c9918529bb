CONSTANTS
  MaxMsgs = 4
SPECIFICATION FairSpec
INVARIANTS
  HandledInOrder
PROPERTIES
  EveryRequestServed
  ExitEnds
