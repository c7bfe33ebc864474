SPECIFICATION FairSpec
CONSTANTS
  Sensors <- TwoSensors
  AtBoot = {1, 2}
  Presence = {}
  Weight <- Weights
  HysteresisCount = 2
INVARIANTS TypeOK BeliefsAreLastReadings ListenerIsUpToDate
PROPERTIES OneReadingNeverFlips StateFollowsReadings
