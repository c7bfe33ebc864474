SPECIFICATION FairSpec
CONSTANTS
  ClockMod = 8
  StepMod = 4
  MaxAdvance = 1
  Timeouts <- ReloadedTimeouts
  Intervals <- ReloadedIntervals
  StepLimits <- ReloadedLimits
  MinTimeout = 2
  MinInterval = 2
INVARIANTS TypeOK SchedulerFollowsState TimersExact StepsCounted
PROPERTIES PowerOffIsEarned RampIsEarned ImplementsSequence IdleTvIsPoweredOff
