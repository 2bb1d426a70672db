SPECIFICATION Spec
CONSTANTS
  IoctlRetry = 4
  NbBuffer = 2
  MaxFrame = 2
  MaxSignals = 0
  Faults <- OnlyDequeueErrors
INVARIANTS NoRepeat
