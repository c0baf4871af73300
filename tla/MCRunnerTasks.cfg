SPECIFICATION FairSpec
CONSTANTS
    t1 = t1 t2 = t2 a1 = a1 a2 = a2 s1 = s1 s2 = s2
    Nobody = Nobody
    Tasks = {t1}
    Steps = {s1, s2}
    Agents = {a1, a2}
    StepOf <- OneTask
    Carriers <- OneOnPool
    TimeoutOf <- Alone
    Lease = 2
    PickupGrace = 1
    DispatchGrace = 1
    ReportAttempts = 2
    CallsFail = TRUE
    Crashes = TRUE
CHECK_DEADLOCK FALSE
INVARIANT AtMostOneRun
INVARIANT NotRunIsTrue
INVARIANT GivenUpIsClosed
PROPERTY NoFalseCondemnation
PROPERTY TasksClose
PROPERTY DispatchEnds
