SPECIFICATION FairSpec
CONSTANTS
    M = 2
    R = 2
    Worker = {w1, w2}
    MaxCrashes = 1
    MaxLate = 2
    Word = {1, 2, 3}
    MaxWords = 2
INVARIANTS TypeOK ReduceInputExists OneCurrentAttempt FinishedMeansDone OutputOfSingleAttempt OutputAsSequential
PROPERTIES DoneIsFinal JobCompletes
CHECK_DEADLOCK FALSE
