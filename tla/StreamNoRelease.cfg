SPECIFICATION Spec
CONSTANTS
  NW = 2
  NR = 1
  MaxQueueSize = 1
  NSteps = 2
  GlobalVars = TRUE
  UseRelease = FALSE
  Needs <- OwnCoordinator
PROPERTY AdvanceReturns
CHECK_DEADLOCK FALSE
