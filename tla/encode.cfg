SPECIFICATION Spec
CONSTANTS
  Width = 5
  Height = 3
  Frames <- MCFrames
  Beyond <- MCBeyond
  Scales <- MCScales
  Annotations <- MCAnnotations
  OutputBufSize = 3
  MaxStream = 7
INVARIANTS
  TypeOK
  ColorsOfTheFrame
  DepthsOrdered
  StreamDelivered
  DebugImageReadable
