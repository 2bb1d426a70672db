SPECIFICATION Spec
CONSTANTS
  IoctlRetry = 4
  NbBuffer = 2
  MaxFrame = 2
  MaxSignals = 6
  Faults <- NoFaults
INVARIANTS ReloadKeepsRunning
