CONSTANTS
    Tops = {1, 2}
    Kids = {5}
    Calls = {1}
    ChildOf <- FamilyChildOf
    Level <- FamilyLevel
    Seeded = {2}
    Limit = 1
    Quota = 2
    MaxDepth = 8
    Submitters = {s1, s2}
    Promoters = {p1, p2}
    Workers = {w1}
    Cancellers = {c1}
    Reapers = {r1}
    MaxCrashes = 1
    MaxStoreErrors = 1
SPECIFICATION FairSpec
INVARIANTS TypeOK OneStarter  ChildOutcomeCounts 
  
CHECK_DEADLOCK FALSE
