CONSTANTS
    dev1 = dev1
    dev2 = dev2
    s1 = s1
    s2 = s2
    Node <- TwoNodes
    Device <- TwoDevices
    Domain <- OneDomain
    Weight <- MCWeight
    Frps <- MCFrps
    NoDomain <- MCNoDomain
    NoFrps <- MCNoFrps
    Slot <- TwoSlots
    Requests <- LastRequests
    Initial <- LastInitial
    Overlap = TRUE
    Jobs <- Compare
    MaxRequests = 3
    MaxFaults = 1
SPECIFICATION FairSpec
PROPERTIES Recovers
CHECK_DEADLOCK FALSE
