SPECIFICATION LimitsSpec
CONSTANTS
    Scenes = {"long"}
    Callers = {p1, p2, p3, p4}
    Entering = {}
    a = a
    b = b
    c = c
    e = e
    model = model
    customer = customer
    teamRpm = teamRpm
    keyTpm = keyTpm
    unset = unset
    off = off
SYMMETRY Alike
INVARIANT CapHeld
CHECK_DEADLOCK FALSE
