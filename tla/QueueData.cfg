SPECIFICATION Spec
CONSTANTS
  Producers = {app}
  Consumer = ctl
  MaxSize = 1
  SignalDequeue = TRUE
  Finalizes = TRUE
  SpuriousWakeups = TRUE
  NItems = 4
  MaxPeeks = 2
INVARIANTS TypeOK QueueBound NoLostWakeup InOrderOnce FinalizeDrains
PROPERTY ImplementsFifo
CHECK_DEADLOCK FALSE
