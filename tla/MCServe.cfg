CONSTANTS
  CellIdx <- MCCellIdx
  Probe <- MCProbe
  Shapes <- MCShapes
  Retention = 1
  MaxSamples = 2
  MaxNow = 2
  MaxStepsBack = 1
  Interval = 1
  EscalateAfter = 1
  BackoffSchedule <- MCBackoffSchedule
  MaxConsecutive = 1
  MaxReaders = 1
  MaxTxErrors = 1
SPECIFICATION FairSpec
INVARIANTS
  TypeOK
  PhasesAgree
  GracefulStopKeepsEverything
  NoReadAfterClose
PROPERTIES
  NothingIsLostSilently
  SignalStops
  SamplesArePersisted
