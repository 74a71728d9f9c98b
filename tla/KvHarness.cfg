SPECIFICATION HarnessSpec
CONSTANTS
    Server = {s1, s2}
    ServerName = {s1, s2}
    Clerk = {k1}
    Call = {c1}
    MaxStarts = 2
    Instance <- MCInstance
    EndName <- MCEndName
    nil = nil
INVARIANTS HarnessTypeOK AckedIsPersisted DeadServersAreSilent LinksAsIntended
SYMMETRY ServerSymmetry
CHECK_DEADLOCK FALSE
