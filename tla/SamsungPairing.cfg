SPECIFICATION FairSpec
CONSTANTS
  TVs = {den, attic}
  PairTasks = {pair1, pair2}
  KeyTask = off
  None = none
INVARIANTS TokenFitsHost PairedIsKept FailureKeepsTheOldTv
PROPERTY PairingEnds
