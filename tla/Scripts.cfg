SPECIFICATION Spec
CONSTANTS
  Located <- MCLocated
  Breaker = 3
  MaxFrames = 4
  Scripts <- MCScripts
INVARIANTS
  ActiveDefinitionFound
  ActiveUseListed
  DefinitionsRegistered
  TargetsAnswered
  CallersSearched
CHECK_DEADLOCK FALSE
