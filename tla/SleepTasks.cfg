\* The clock wraps within an idle period and within a ramp.
SPECIFICATION FairSpec
CONSTANTS
  ClockMod = 4
  StepMod = 3
  MaxAdvance = 1
  Timeouts = {2}
  Intervals = {1}
  StepLimits = {1, 2}
INVARIANTS TypeOK NoStuckRamp StepsAreThisRamps
PROPERTIES StrayRampEnds IdleTvIsPoweredOff
