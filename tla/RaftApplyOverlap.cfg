SPECIFICATION Spec
CONSTANTS
    N = 2
    Cmd = {a, b}
    MaxIndex = 2
    MaxStarts = 2
    Restarting = {0}
    Expected = {2}
    SnapShotInterval = 2
    absent = absent
    null = null
INVARIANT NoFalseAlarm
CHECK_DEADLOCK FALSE
SYMMETRY CmdSymmetry
