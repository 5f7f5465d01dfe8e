SPECIFICATION Spec
CONSTANTS
  Groups = {g1, g2}
  Modes <- AnyMode
  NVars = 2
  Payloads = {3}
  DataSizes = {2}
  PoolSizes = {8, 20}
  Available = 16
  MaxWrite = 100
  MaxSessions = 3
SYMMETRY Symmetry
INVARIANTS NothingLeaked IndexedIntact TimesIncrease
PROPERTIES ReadReturnsLast AppendKeepsOld
CHECK_DEADLOCK FALSE
