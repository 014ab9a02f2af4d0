SPECIFICATION Spec
CONSTANTS
    r1 = r1
    r2 = r2
    n1 = n1
    n2 = n2
    Requests <- OneRequest
    Replicas <- OneReplica
    Home <- HomeOf
    Reads = {}
    Costs <- OnePrice
    Estimate = 2
    BatchLimit = 1
    MaxFaults = 1
    MaxCrashes = 0
INVARIANTS
    CompletionSettles
