CONSTANTS
    Replicas = {r1, r2}
    Nodes = {1, 2, 3, 4, 5}
    Wires <- TwoBranches
    Breaks = {1, 2, 3}
    Manual = TRUE
    NoNode = 0
    MaxCrashes = 1
SPECIFICATION FairSpec
INVARIANT NoForgottenHold
PROPERTY NoImmortalRun
CHECK_DEADLOCK FALSE
