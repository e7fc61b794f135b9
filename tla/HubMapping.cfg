CONSTANTS
    dev1 = dev1
    dev2 = dev2
    s1 = s1
    s2 = s2
    Node <- OneNode
    Device <- OneDevice
    Domain <- OneDomain
    Weight <- MCWeight
    Frps <- TwoFrps
    NoDomain <- MCNoDomain
    NoFrps <- MCNoFrps
    Slot <- TwoSlots
    Requests <- MappingRequests
    Initial <- ClaimsInitial
    Overlap = FALSE
    Jobs <- BothJobs
    MaxRequests = 3
    MaxFaults = 0
SPECIFICATION Spec
PROPERTIES OwnMappingRemoved
