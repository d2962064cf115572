SPECIFICATION Spec
CONSTANTS
  w1 = w1
  w2 = w2
  i1 = i1
  i2 = i2
  Worker = {w1, w2}
  Intent = {i1, i2}
  MaxDay = 2
  Cap = 1
  Retries = 1
  Faults = {"crash", "stall"}
  NoIntent = NoIntent
SYMMETRY Symmetry
INVARIANTS
  TypeOK
  StoppedMeansFenced
  DailyCap
PROPERTIES
  NotifiesAtMostOnce
