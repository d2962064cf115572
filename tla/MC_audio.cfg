CONSTANTS
    a1 = a1
    a2 = a2
    w1 = w1
    None = None
    Input = {a1, a2}
    Legacy = {}
    Worker = {w1}
    MaxCommands = 2
    MaxCrashes = 1
    MaxAudios = 2
    DailyLimit = 3
SPECIFICATION Spec
INVARIANTS PaidOnce LedgerCoversEstimates ErasedForGood NoStrandedObject RevokedMeansSilent
PROPERTIES EndedStays
