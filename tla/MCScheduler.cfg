CONSTANTS
    cron = cron
    poll = poll
    slow = slow
    Replicas = {r1, r2}
    Nobody = Nobody
    Flows = {cron, poll, slow}
    Polls = {poll, slow}
    Every <- FlowPeriods
    Jitter <- FlowJitters
    MaxPublished = 1
    Grace = 1
    MaxMult = 2
    Ceiling = 7
    LookupFails = TRUE
    PromptLoops = TRUE
    MaxTime = 6
    MaxFaults = 2
SYMMETRY Alike
SPECIFICATION Spec
INVARIANT TypeOK
INVARIANT LockIsNotOrphaned
PROPERTIES OncePerInstant NoFalseAlarm
CHECK_DEADLOCK FALSE
