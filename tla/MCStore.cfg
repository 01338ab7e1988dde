CONSTANTS
  CellIdx <- MCCellIdx
  Probe <- MCProbe
  Shapes <- MCShapes
  Retention = 2
  MaxSamples = 3
  MaxNow = 4
  MaxStepsBack = 1
SPECIFICATION Spec
INVARIANTS
  TypeOK
  PollsAreWhole
  NeverTwice
PROPERTIES
  RetentionHonoured
  ImplementsSampleLog
