SPECIFICATION Spec
CONSTANTS
  r1 = r1
  r2 = r2
  Request = {r1}
  MaxCycle = 2
  MaxTrouble = 2
  Faults = {"deletes", "late"}
SYMMETRY Symmetry
INVARIANT MonthBilledOnce
