SPECIFICATION MCSpec
CONSTANTS
  WriteMayFail = TRUE
  CrashAllowed = TRUE
  MaxVersion = 4
  MaxWait = 3
  IdleGrace = 1
  NoGrowthStall = 1
  ColdStall = 2
  Deadline = 2
  StallRetryMin = 2
  MaxTransient = 1
  MaxSteps = 1
  MaxText = 1
  MaxTime = 3
INVARIANTS NothingStranded
PROPERTIES RegisterSafety Flushed EndsInTime
CHECK_DEADLOCK FALSE
