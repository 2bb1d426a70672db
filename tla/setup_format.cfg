SPECIFICATION Spec
CONSTANTS
  IoctlRetry = 4
  NbBuffer = 4
  Devices <- MCDevices
  Requests <- DepthImages
  Faults <- NoFaults
INVARIANTS FormatAgreed
