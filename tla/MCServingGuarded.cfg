SPECIFICATION ServingSpec
CONSTANTS
    Callers = {c1, c2, c3}
    MaxInFlight = 1
    MaxQueued = 1
    CanWait = TRUE
    Modes <- GuardedKeepalive
    Emitted = {e1, e2, e3, e4}
    Requests = {r1, r2, r3}
    Background = {w, usage}
    Usage = usage
INVARIANT IdleEnforced
CHECK_DEADLOCK FALSE
