SPECIFICATION RegistrySpec
CONSTANTS
    x0 = x0
    x1 = x1
    x2 = x2
    h1 = h1
    h2 = h2
    gpt = gpt
    r1 = r1
    r2 = r2
    w = w
    e1 = e1
    e2 = e2
    watcher = watcher
    unset = unset
    off = off
SYMMETRY Alike
INVARIANTS
    BreakerFollowsFailures
    
PROPERTIES
    WorkIsCounted
    
    KeysHold
    UsersHold
CHECK_DEADLOCK FALSE
