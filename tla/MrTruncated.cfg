SPECIFICATION Spec
CONSTANTS
    M = 1
    R = 1
    Worker = {w1, w2}
    MaxCrashes = 1
    MaxLate = 1
INVARIANT FinalOutputComplete
CHECK_DEADLOCK FALSE
