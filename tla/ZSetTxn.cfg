CONSTANTS
    c1 = c1
    c2 = c2
    Node <- MCNode
    Weight <- MCWeight
    Client <- MCClient
    Initial <- MCInitial
    MaxOps = 3
SPECIFICATION FairSpec
INVARIANTS TypeOK
PROPERTIES CallsAreAtomic CallsReturn
CHECK_DEADLOCK FALSE
