SPECIFICATION Spec
CONSTANTS
  Width = 20
  Height = 5
  Lines <- MCLines
  MaxGradients = 18
  MaxClusters = 12
  MaxFeatures = 4
  GradThreshold = 35
  PercentX = 20
  PercentY = 50
  MinCount = 2
  MinStripe = 2
  MaxStripe = 6
  DeltaY = 2
  TextSize = 31
INVARIANT
  TextFitsArray
