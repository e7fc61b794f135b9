CONSTANTS
    i1 = i1
    i2 = i2
    i3 = i3
    Instance <- MCInstance
    Schedule <- MCSchedule
    MaxFaults = 4
    MaxAge = 36
SPECIFICATION Spec
INVARIANTS TypeOK NoDuplicateWork RunsInTime
PROPERTIES StartsAreSpaced
