\* Safety on a bad network, three tasks at once.
SPECIFICATION Spec
CONSTANTS
  t1 = t1
  t2 = t2
  t3 = t3
  Tasks <- ThreeTasks
  MaxVolume = 4
  Totals = {1, 2, 4}
  Typicals = {3}
  ExtraPresses = 1
  Disturbances = {"on"}
  Flaky = TRUE
SYMMETRY Symmetric
INVARIANT RampSilences
PROPERTIES VolumeOnlyFalls NeverTurnsOn
