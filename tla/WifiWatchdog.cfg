SPECIFICATION FairSpec
CONSTANTS
  OurAPs = {"hall", "attic", "shed"}
  ForeignAPs = {"neighbour"}
  Rssi <- Strengths
  RejoinAfter = 4
  RestartAfterRejoins = 3
  Whichever = "any"
  None = "none"
INVARIANTS TypeOK CountersAddUp
PROPERTIES RestartsOnTime Recovers
