CONSTANTS
    w1 = w1
    w2 = w2
    a1 = a1
    a2 = a2
    c1 = c1
    r1 = r1
    N <- JoinN
    Edges <- JoinEdges
    Behaviours <- JoinBehaviours
    ContinueOnError = {}
    BackoffRetry = {2}
    Idempotent = {2}
    MaxRetries = 2
    SkipNodes = {}
    Workers = {w1, w2}
    Approvers = {}
    Cancellers = {c1}
    Reapers = {}
    Nobody = Nobody
    MaxCrashes = 0
    MaxLapses = 1
    MaxStoreErrors = 0
SPECIFICATION Spec
SYMMETRY Symmetry
INVARIANTS RoutingFollowsEdges NoLeakedBranch SuccessIsEarned  NoStrandedRun
CHECK_DEADLOCK FALSE
