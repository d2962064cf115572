SPECIFICATION FairSpec
CONSTANTS
  w1 = w1
  w2 = w2
  w3 = w3
  t1 = t1
  t2 = t2
  Worker = {w1, w2}
  Turn = {t1}
  MaxAttempts = 2
  Faults = {"crash", "stall", "redis", "expire", "agent", "late", "revoke"}
  NoWorker = NoWorker
  NoTurn = NoTurn
INVARIANT
  CompletedMeansSettled
PROPERTY
  EventuallyClosed
