CONSTANTS
    Node <- FourNodes
    PageSize = 2
    Permits = 2
    Login <- Logins
    Initial <- MCInitial
    Timestampdiff = TRUE
    MaxEvents = 2
SPECIFICATION FairSpec
INVARIANTS TypeOK EveryoneIsChecked NobodyIsAskedTwice
PROPERTIES RunsEnd
