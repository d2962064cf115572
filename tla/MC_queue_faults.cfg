SPECIFICATION Spec
CONSTANTS
  w1 = w1
  w2 = w2
  w3 = w3
  c1 = c1
  c2 = c2
  c3 = c3
  m1 = m1
  m2 = m2
  Worker = {w1, w2}
  Claim = {c1}
  Provider = {m1}
  ProviderOf <- SameMessage
  Payload <- AllMessages
  MaxAttempts = 3
  Faults = {"crash", "stall", "redis", "lua", "db", "commit", "agent", "ttl", "skew"}
  NoWorker = NoWorker
  NoRaw = NoRaw
  Absent = Absent
  Done = Done
SYMMETRY WorkerSymmetry
INVARIANTS
  TypeOK
  NothingLost
  FenceExclusive
  SettledStaysSettled
PROPERTY
  RetryAdvances
CHECK_DEADLOCK FALSE
