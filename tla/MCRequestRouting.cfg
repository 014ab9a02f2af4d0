SPECIFICATION FairSpec
CONSTANTS
    a = a
    b = b
    c = c
    r1 = r1
    r2 = r2
    x = x
    y = y
    Requests = {r1, r2}
    Streams = {r2}
    Guarded = {r1}
    Deployments = {a, b, c}
    Priority <- Prio
    Matching <- Allowed
    Provider <- Of
    Unguarded = {y}
    LocalLimit <- Local
    LeaseLimit <- Leases
INVARIANTS
    NothingLeaks
    
PROPERTIES
    HealthyFirst
    EveryRequestEnds
CHECK_DEADLOCK FALSE
