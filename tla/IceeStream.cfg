SPECIFICATION Spec
CONSTANTS
  NW = 2
  NSteps = 2
  Loads <- SomeLoads
INVARIANTS WaitMeansSubmitted StepsNotSplit ReadsWhole
PROPERTIES StepsArrive
CHECK_DEADLOCK FALSE
