SPECIFICATION Spec
CONSTANTS
    r1 = r1
    r2 = r2
    n1 = n1
    n2 = n2
    Requests <- TwoRequests
    Replicas <- OneReplica
    Home <- HomeOf
    Reads = {r1, r2}
    Costs <- OnePrice
    Estimate = 2
    BatchLimit = 1
    MaxFaults = 2
    MaxCrashes = 0
SYMMETRY Swaps
INVARIANTS
    PausedUntilRecorded
