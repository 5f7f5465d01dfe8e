SPECIFICATION Spec
CONSTANTS
  NW = 2
  NR = 1
  MaxQueueSize = 1
  NSteps = 3
  GlobalVars = TRUE
  UseRelease = TRUE
  Needs <- AnySet
INVARIANTS TypeOK QueueIsWindow EndOfStreamAtLastStep StepConsistency ReadsComplete
PROPERTIES StreamEnds
CHECK_DEADLOCK FALSE
