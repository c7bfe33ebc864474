SPECIFICATION Spec
CONSTANTS
  ClockMod = 6
  StepMod = 4
  MaxAdvance = 1
  Timeouts = {2}
  Intervals = {1}
  StepLimits = {2}
INVARIANT CancelledRampStops
