SPECIFICATION Spec
CONSTANTS
    N = 3
    LongReordering = TRUE
    MaxTerm = 2
    MaxPending = 1
    MaxKills = 0
    MaxBeatCalls = 0
    Timers = {0, 1}
INVARIANT OneLeaderPerTerm
