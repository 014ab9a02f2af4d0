SPECIFICATION FairSpec
CONSTANTS
    r1 = r1
    r2 = r2
    n1 = n1
    n2 = n2
    Requests <- OneRequest
    Replicas <- TwoReplicas
    Home <- HomeOf
    Reads = {}
    Costs <- TwoPrices
    Estimate = 2
    BatchLimit = 1
    MaxFaults = 1
    MaxCrashes = 1
INVARIANTS
    OneReceipt
    TotalsMatchLedger
    StartedWorkIsCharged
PROPERTIES
    CallsAreJournaled
    ReceiptsAreFinal
    RecoveryCompletes
