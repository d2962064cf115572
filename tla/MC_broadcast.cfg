SPECIFICATION Spec
CONSTANTS
  w1 = w1
  w2 = w2
  b1 = b1
  p1 = p1
  p2 = p2
  Worker = {w1, w2}
  Broadcast = {b1}
  Person = {p1, p2}
  MaxSeq = 1
  MaxCrash = 1
  Faults = {"crash", "stall", "db", "stop"}
  NoDelivery = NoDelivery
SYMMETRY WorkerSymmetry
INVARIANTS
  OneTransport
  ClosedMeansSettled
PROPERTIES
  DeliversAtMostOnce
