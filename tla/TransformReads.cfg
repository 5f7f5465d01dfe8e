SPECIFICATION Spec
CONSTANTS
  Present <- TwoSteps
  Transformed = {0, 2}
  NBlocks = 2
  NSubs = 2
  NPieces = 2
  Subfiles = TRUE
  Corruptions <- SomeCorruptions
  Views <- OnlyGroup
  MaxReads = 2
INVARIANTS OwnDataDecoded ReadsDelivered InfoOfVariable
CHECK_DEADLOCK FALSE
