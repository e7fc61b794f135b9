CONSTANTS
    Node <- FourNodes
    PageSize = 2
    Permits = 2
    Login <- Logins
    Initial <- MCInitial
    Timestampdiff = FALSE
    MaxEvents = 2
SPECIFICATION Spec
INVARIANTS EveryoneIsChecked
