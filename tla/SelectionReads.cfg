SPECIFICATION Spec
CONSTANTS
  NDims = 2
  GlobalDims <- FourByTwo
  NumBridges = 2
  Layouts <- AnyFirstBlock
  Requests <- EveryRequest
  Fortran = FALSE
  MaxReads = 2
  ElementSize = 2
  Word = 1024
  IntWord = 32
INVARIANTS LastReadFilled NoHolderMissed DisplacementsExact
