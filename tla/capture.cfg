SPECIFICATION FairSpec
CONSTANTS
  IoctlRetry = 2
  NbBuffer = 2
  MaxFrame = 3
  MaxSignals = 3
  Faults <- AllFaults
INVARIANTS TypeOK Ownership NoLeak PanicNeedsSignals
PROPERTIES NeverOlder EveryFrameOnce Stops KeepsRunning
CHECK_DEADLOCK FALSE
