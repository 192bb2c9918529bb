CONSTANTS
  Uri = {1, 2, 3, 4}
  Text <- MCText
  Workspace = {1, 2, 3}
  Worlds <- MCWorlds
  EditTo <- MCEditTo
  Renames <- MCRenames
  MaxMsgs = 2
SPECIFICATION FairSpec
INVARIANTS
  AnswersExact
  CountersExact
PROPERTIES
  EveryRequestAnsweredOnce
