SPECIFICATION FairSpec
CONSTANTS
    N = 2
    LongReordering = FALSE
    MaxTerm = 2
    MaxPending = 1
    MaxKills = 1
    MaxBeatCalls = 1
    Timers = {0, 1}
PROPERTY DeposedLeaderGoesSilent
