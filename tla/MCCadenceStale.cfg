CONSTANTS
  Interval = 5
  FlushInterval = 10
  Waits <- MCWaits
  MaxPoll = 1
  Settled = 5
  MaxAge = 23
SPECIFICATION Spec
INVARIANT OkWhilePolling
