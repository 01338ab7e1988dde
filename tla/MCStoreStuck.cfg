CONSTANTS
  CellIdx <- MCCellIdx
  Probe <- MCProbe
  Shapes <- MCShapes
  Retention = 0
  MaxSamples = 2
  MaxNow = 4
  MaxStepsBack = 1
SPECIFICATION FairSpec
PROPERTY EverySampleIsPersisted
CHECK_DEADLOCK FALSE
