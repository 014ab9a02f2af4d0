SPECIFICATION BudgetSpec
CONSTANTS
    a = a
    b = b
    c = c
    e = e
    Requests = {a, b, c, e}
    Scopes <- MCScopes
    TeamOf <- MCTeamOf
    OtherScopes <- MCOtherScopes
    Customers <- MCCustomers
    Limit <- MCLimit
    Period <- MCPeriod
    LockKey <- MCLockKey
    Estimate <- MCEstimate
    Costs <- MCCosts
    MonthLength = 2
    LastDay = 2
INVARIANTS
    WithinLimitAtMidnight
CHECK_DEADLOCK FALSE
