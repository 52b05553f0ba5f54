SPECIFICATION MCSpec
CONSTANTS
    None = None
    Services = {s1, s2}
    Clients = {c1}
    Records = {r1, r2}
    Absent = Absent
    Damaged = Damaged
    MaxInstances = 3
    MaxDamages = 1
    Nothing = Nothing
    Ids = {1, 2}
    MaxRequests = 3
    MaxInFlight = 2
CHECK_DEADLOCK FALSE
INVARIANTS
    ServingIsReachable
    AnsweredOnce
PROPERTIES
    SavesAreAtomic
    ClientArrives
    HelperEnds
