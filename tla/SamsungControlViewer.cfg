\* The viewer interferes with the volume, the settings and the power.
SPECIFICATION FairSpec
CONSTANTS
  t1 = t1
  t2 = t2
  t3 = t3
  Tasks <- TwoTasks
  MaxVolume = 3
  Totals = {0, 1, 2}
  Typicals = {2}
  ExtraPresses = 1
  Disturbances = {"volume", "settings", "on"}
  Flaky = FALSE
INVARIANT TypeOK
PROPERTIES PowerOffSwitchesOff EveryOperationEnds
