CONSTANTS
    w1 = w1
    w2 = w2
    a1 = a1
    a2 = a2
    c1 = c1
    r1 = r1
    N <- ApprovalN
    Edges <- ApprovalEdges
    Behaviours <- ApprovalBehaviours
    ContinueOnError = {2}
    BackoffRetry = {}
    Idempotent = {}
    MaxRetries = 2
    SkipNodes = {}
    Workers = {w1, w2}
    Approvers = {a1, a2}
    Cancellers = {c1}
    Reapers = {}
    Nobody = Nobody
    MaxCrashes = 0
    MaxLapses = 0
    MaxStoreErrors = 0
SPECIFICATION Spec
SYMMETRY Symmetry
PROPERTY ImplementsRunLife
CHECK_DEADLOCK FALSE
