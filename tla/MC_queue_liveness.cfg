SPECIFICATION FairSpec
CONSTANTS
  w1 = w1
  w2 = w2
  w3 = w3
  c1 = c1
  c2 = c2
  c3 = c3
  m1 = m1
  m2 = m2
  Worker = {w1, w2}
  Claim = {c1, c2}
  Provider = {m1, m2}
  ProviderOf <- OwnMessages
  Payload <- MessageAndJunk
  MaxAttempts = 2
  Faults = {"crash", "agent", "lua", "db", "commit"}
  NoWorker = NoWorker
  NoRaw = NoRaw
  Absent = Absent
  Done = Done
PROPERTY
  EventuallySettled
CHECK_DEADLOCK FALSE
