\* Failures, dropped sessions and signals; a second run may be begun at any time.
CONSTANTS
  Faulty <- AnyStep
  MaxFaults = 1
  MaxDrops = 2
  Interrupts = TRUE
  MayKeep = TRUE
  None = None
  MaxRuns = 2
  MaxManual = 1
SPECIFICATION Spec
CHECK_DEADLOCK FALSE
INVARIANT TypeOK
PROPERTIES RestoreIsReal OnlySeenTerminated HeldIsRegistered
