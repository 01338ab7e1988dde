CONSTANTS
  Invocations <- MCInvocations
  Files <- MCFiles
  Readings <- MCReadings
  Rtns = {0, 1}
  Attempts = 2
  Int64Max = 32767
  Second = 1000
  MsPerDay = 100
  Now = 5000
SPECIFICATION Spec
INVARIANTS
  TypeOK
  EndsClosedOrOverflowed
  CutoffIsPastOrOverflowed
  FlagBeatsFileBeatsDefault
  SampleIsMeasuredOrWarned
  ExitCodeTells
CHECK_DEADLOCK FALSE
