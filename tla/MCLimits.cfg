SPECIFICATION LimitsSpec
CONSTANTS
    Scenes = {"mixed", "long", "redis", "memory", "customers", "entry", "forward", "throttle", "alerts"}
    Callers = {p1, p2, p3}
    Entering = {p1, p2, p3}
    a = a
    b = b
    c = c
    e = e
    model = model
    customer = customer
    teamRpm = teamRpm
    keyTpm = keyTpm
    unset = unset
    off = off
SYMMETRY Alike
INVARIANTS
    CapHeld
    SlotsAreOwned
    
    RequestsUnwind
PROPERTIES
    CustomersHold
    RatesHold
CHECK_DEADLOCK FALSE
