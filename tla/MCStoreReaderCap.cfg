CONSTANTS
  NumCells = 2
  Probe <- MCProbe
  Shapes <- MCShapes
  RangeRawThreshold = 1
  RangeRawCap = 2
  RangeBuckets = 2
  Windows <- MCWindows
  Found <- MCFound
  MaxPolls = 3
  MaxNow = 4
  MaxStepsBack = 1
SPECIFICATION Spec
INVARIANT RawWithinCap
