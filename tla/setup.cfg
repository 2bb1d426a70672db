SPECIFICATION StartSpec
CONSTANTS
  IoctlRetry = 4
  NbBuffer = 4
  Devices <- MCDevices
  Requests <- NoRequests
  Faults <- AllFaults
  CommandLines <- MCCommandLines
  Starts <- MCStarts
  Directories <- MCDirectories
  Files <- MCFiles
  Camera <- MCCamera
  DefaultWidth = 2
  DefaultHeight = 1
INVARIANTS StartTypeOK RingReady FramebufferFits ListsInBounds SettingsAsMeant FramesGoWhereMeant
PROPERTIES Settles
