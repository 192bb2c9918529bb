SPECIFICATION Spec
CONSTANTS
  ClientTypes <- MCClientTypes
  ClientModifiers <- MCClientModifiers
  CaptureIndex <- MCCaptureIndex
  TokenDocs <- MCTokenDocs
  FoldDocs <- MCFoldDocs
  Encodings <- MCEncodings
INVARIANTS
  HighestCaptureShown
  InnermostShown
  CommentsFoldOnce
CHECK_DEADLOCK FALSE
