CONSTANTS
  WakeTimeout = 1
  WakeSettle = 1
  ReadTimeout = 3
  FlushDelay = 1
  ReadTick = 1
  MinIdle = 5
  MaxDelay = 4
  MaxInput = 4
SPECIFICATION Spec
INVARIANTS
  TypeOK
  SampleAnswersThisPoll
  PollIsBounded
  InTimeIsHeard
