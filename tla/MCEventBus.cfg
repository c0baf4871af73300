CONSTANTS
    Pubs = {p1, p2}
    Jobs = {a, b}
    Window = 2
    MaxBatch = 2
    MaxPending = 2
    ChanCap = 2
    MaxEvents = 3
    MaxSubs = 2
    MaxFaults = 1
SYMMETRY Alike
SPECIFICATION Spec
INVARIANTS NoDuplicate PublisherOrder 
CHECK_DEADLOCK FALSE
