CONSTANTS
    dev1 = dev1
    dev2 = dev2
    s1 = s1
    s2 = s2
    Node <- TwoNodes
    Device <- OneDevice
    Domain <- TwoDomains
    Weight <- MCWeight
    Frps <- MCFrps
    NoDomain <- MCNoDomain
    NoFrps <- MCNoFrps
    Slot <- TwoSlots
    Requests <- QuietRequests
    Initial <- QuietInitial
    Overlap = FALSE
    Jobs <- BothJobs
    MaxRequests = 3
    MaxFaults = 0
SPECIFICATION FairSpec
INVARIANTS RedisAgrees OpenNodesAreRouted PassSynchronises
PROPERTIES DomainsImplementWeights Converges SilentNodesLeave
