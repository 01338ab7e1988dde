CONSTANTS
  Interval = 15
  FlushInterval = 4
  Waits <- MCWaits
  MaxPoll = 6
  Settled = 2
  MaxAge = 47
SPECIFICATION Spec
INVARIANTS
  TypeOK
  FlushIsTimely
  ReadersAreCurrent
  OkWhilePolling
