CONSTANTS
    dev1 = dev1
    dev2 = dev2
    s1 = s1
    s2 = s2
    Node <- TwoNodes
    Device <- OneDevice
    Domain <- OneDomain
    Weight <- MCWeight
    Frps <- MCFrps
    NoDomain <- MCNoDomain
    NoFrps <- MCNoFrps
    Slot <- TwoSlots
    Requests <- FirstRequests
    Initial <- RecoversInitial
    Overlap = FALSE
    Jobs <- BothJobs
    MaxRequests = 1
    MaxFaults = 1
SPECIFICATION FairSpec
PROPERTIES Recovers
