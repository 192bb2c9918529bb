CONSTANTS
  m = m
  do = do
  Uri = {1, 2, 3}
  Macro = {m}
  Command = {do}
  Text <- Texts
  TextOf <- MCTextOf
  Workspace = {1, 2}
  Renames <- MCRenames
  MaxRenames = 1
SPECIFICATION Spec
INVARIANTS
  SlotsExact
  CallersKnown
  MacrosFound
  ReferencesExact
PROPERTIES
  SyncCompletes
  ImplementsTextStore
