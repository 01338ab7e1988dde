CONSTANTS
  Ranges <- MCRanges
  RangeMS <- MCRangeMS
  FirstRange = "24h"
  Windows <- MCWindows
  Slack = 5
  RangeRawThreshold = 1
  RangeBuckets = 1
  Ticks = {1, 2}
  MaxLoads = 2
  MaxNow = 3
SPECIFICATION FairSpec
INVARIANTS
  TypeOK
  AxisAscends
  ShownIsSelected
PROPERTIES
  ChartsCatchUp
