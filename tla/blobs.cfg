SPECIFICATION Spec
CONSTANTS
  Width = 8
  Height = 5
  PixelRows <- MCRows
  DetectColors <- MCColors
  Tolerance = 20
  NumBlobsMax = 3
  MinLine = 2
  MinPixels = 5
  MinArea = 3
  RowMiss = 1
  ColumnMiss = 1
INVARIANTS
  TypeOK
  PixelsInBox
  BlobsCounted
  PaintsInsideImage
  RunsJoinBlobs
PROPERTIES
  CombineKeepsCoverage
  LargeBlobsReported
