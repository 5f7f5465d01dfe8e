SPECIFICATION StreamSpec
CONSTANTS
  Groups = {g}
  Modes <- AppendMode
  NVars = 2
  Payloads = {1, 3}
  DataSizes = {2}
  PoolSizes = {20, 30}
  Available = 100
  MaxWrite = 100
  MaxSessions = 3
  Stream = g
  Lasts = {FALSE}
  Timeouts = {TRUE, FALSE}
  Retries = {TRUE, FALSE}
PROPERTIES AdvanceIsNext
CHECK_DEADLOCK FALSE
