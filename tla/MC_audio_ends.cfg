CONSTANTS
    a1 = a1
    a2 = a2
    w1 = w1
    None = None
    Input = {a1, a2}
    Legacy = {a2}
    Worker = {w1}
    MaxCommands = 1
    MaxCrashes = 1
    MaxAudios = 2
    DailyLimit = 3
SPECIFICATION FairSpec
PROPERTIES ClaimSettles ErasureEnds
