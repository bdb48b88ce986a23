\* The start may fail at the termination of Aegis.
CONSTANTS
  Faulty <- EarlyStarts
  MaxFaults = 2
  MaxDrops = 0
  Interrupts = FALSE
  MayKeep = FALSE
  None = None
  MaxRuns = 1
  MaxManual = 1
SPECIFICATION FairSpec
CHECK_DEADLOCK FALSE
PROPERTY AegisComesBack
