CONSTANTS
  a = a
  b = b
  c = c
  Uri = {a, b}
  Workspace = {a}
  Unreadable = {}
  InitOpen = {a}
  Renames <- RenameAB
  MaxMsgs = 5
SPECIFICATION Spec
INVARIANTS
  UpdatesInOrder
