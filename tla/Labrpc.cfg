SPECIFICATION FairSpec
CONSTANTS
    Call = {c1}
    EndName = {e1}
    ServerName = {s1}
    Instance = {i1, i2}
    nil = nil
INVARIANT TypeOK
PROPERTIES ImplementsAtMostOnce CallsReturn DeletedServerFreesCallers
