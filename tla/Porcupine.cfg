SPECIFICATION FairSpec
CONSTANTS
    Key = {1, 2}
    Outcome <- MCOutcome
    MaxTime = 3
    MaxOps = 3
    ChunkBits = 2
INVARIANTS TypeOK ResultIsRight ListIsRemainder PartialsAreLongest
PROPERTY CheckReturns
CHECK_DEADLOCK FALSE
