CONSTANTS
  a = a
  b = b
  c = c
  Uri = {a, b, c}
  Workspace = {a, b}
  Unreadable = {b}
  InitOpen = {}
  Renames <- RenameAC
  MaxMsgs = 4
SPECIFICATION FairSpec
INVARIANTS
  RenameAlone
  DiscoveryCounts
  OneUpdateAtATime
  TrackingExact
  EditorInSync
PROPERTIES
  EveryRequestAnsweredOnce
  ComesToRest
