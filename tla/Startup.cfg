CONSTANTS
  MaxFiles = 2
  Supported = TRUE
  Refuses = TRUE
  Cancels = TRUE
  Tracing = FALSE
SPECIFICATION FairSpec
INVARIANTS
  ResultsExpected
  ProgressInOrder
PROPERTIES
  DiscoveryEnds
