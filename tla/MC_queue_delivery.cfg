SPECIFICATION Spec
CONSTANTS
  w1 = w1
  w2 = w2
  w3 = w3
  c1 = c1
  c2 = c2
  c3 = c3
  m1 = m1
  m2 = m2
  Worker = {w1, w2, w3}
  Claim = {c1, c2}
  Provider = {m1}
  ProviderOf <- SameMessage
  Payload <- AllMessages
  MaxAttempts = 2
  Faults = {"crash", "agent", "redis"}
  NoWorker = NoWorker
  NoRaw = NoRaw
  Absent = Absent
  Done = Done
SYMMETRY BothSymmetry
INVARIANTS
  OneTurnPerMessage
  DoneMeansAnswered
  OrphansDiscoverable
  CanonicalPresent
CHECK_DEADLOCK FALSE
