SPECIFICATION Spec
CONSTANTS
  NW = 2
  NR = 1
  MaxQueueSize = 1
  NSteps = 1
  GlobalVars = TRUE
  UseRelease = TRUE
  Needs <- AllWriters
PROPERTY PerformReadsReturns
CHECK_DEADLOCK FALSE
