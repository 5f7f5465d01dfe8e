SPECIFICATION Spec
CONSTANTS
  NW = 2
  NR = 2
  MaxQueueSize = 1
  NSteps = 2
  GlobalVars = FALSE
  UseRelease = FALSE
  Needs <- OtherWriter
INVARIANTS StepConsistency OpenStepRetained OpenCountExact
PROPERTIES BufferDroppedAfterUse StreamEnds
