SPECIFICATION Spec
CONSTANTS
    N = 3
    LongReordering = FALSE
    MaxTerm = 2
    MaxPending = 1
    MaxKills = 0
    MaxBeatCalls = 1
    Timers = {0, 1}
PROPERTY LeaderDeposedByNewerTermOnly
