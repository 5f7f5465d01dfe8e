SPECIFICATION Spec
CONSTANTS
  NW = 2
  NR = 2
  NSteps = 4
  MaxVersions = 2
  Calls <- AllCalls
INVARIANTS OpenStepComplete NoUnexpectedState EndMeansAllSeen RanksAgree
PROPERTIES SkipsOnlyGoneSteps ProgramsFinish
CHECK_DEADLOCK FALSE
