SPECIFICATION FairSpec
CONSTANTS
    Clerk = {c1, c2}
    Key = {x}
    Piece = {a, b}
    MaxOps = 2
INVARIANTS TypeOK ExactlyOnce IDMapIsFreed
PROPERTIES ImplementsAtomic OperationsReturn
CHECK_DEADLOCK FALSE
