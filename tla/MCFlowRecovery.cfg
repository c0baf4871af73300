CONSTANTS
    w1 = w1
    w2 = w2
    a1 = a1
    a2 = a2
    c1 = c1
    r1 = r1
    N <- RecoveryN
    Edges <- RecoveryEdges
    Behaviours <- DeferringBehaviours
    ContinueOnError = {}
    BackoffRetry = {2}
    Idempotent = {}
    MaxRetries = 2
    SkipNodes = {1}
    Workers = {w1, w2}
    Approvers = {}
    Cancellers = {c1}
    Reapers = {r1}
    Nobody = Nobody
    MaxCrashes = 1
    MaxLapses = 0
    MaxStoreErrors = 1
SPECIFICATION FairSpec
PROPERTIES RunEnds LeftoversClosed
CHECK_DEADLOCK FALSE
