CONSTANTS
  Interval = 15
  EscalateAfter = 5
  BackoffSchedule <- MCBackoffSchedule
  MaxConsecutive = 9
SPECIFICATION FairSpec
INVARIANTS
  TypeOK
  NoHandleLeak
  StaleHandleFailsOnce
PROPERTIES
  BackoffClimbs
  CableBackMeansPolling
