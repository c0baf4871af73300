CONSTANTS
    Tops = {1, 2}
    Kids = {5}
    Calls = {1}
    ChildOf <- FamilyChildOf
    Level <- FamilyLevel
    Seeded = {2}
    Limit = 1
    Quota = 2
    MaxDepth = 8
    Submitters = {s1, s2}
    Promoters = {p1}
    Workers = {w1}
    Cancellers = {}
    Reapers = {}
    MaxCrashes = 0
    MaxStoreErrors = 0
SPECIFICATION Spec
INVARIANT SeedIsNotRun
CHECK_DEADLOCK FALSE
