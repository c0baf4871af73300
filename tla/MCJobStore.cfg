CONSTANTS
    j1 = j1
    j2 = j2
    w1 = w1
    w2 = w2
    t1 = t1
    Jobs = {j1, j2}
    Workers = {w1, w2}
    Nobody = Nobody
    Tenants = {t1}
    TenantOf <- OneTenant
    LeaseDuration = 3
    RenewEvery = 1
    MaxConcurrent = 1
    Finals = {"succeeded", "cancelled"}
    Delays = {0, 1}
    MaxTime = 6
    MaxAttempts = 3
SPECIFICATION Spec
SYMMETRY Symmetry
INVARIANTS OutcomeFromNewestClaim  
PROPERTIES TerminalIsFinal ImplementsTokenQueue
CHECK_DEADLOCK FALSE
