CONSTANTS
    Replicas = {r1, r2}
    Runs = {a, b}
    NoRun = NoRun
    Mails <- TwoMails
    Hook = "hook"
    MaxAttempts = 2
    Batch = 2
    Lookback = 1
    MaxWindow = 2
    MaxFaults = 1
SPECIFICATION FairSpec
INVARIANTS OneTeller  
  
CHECK_DEADLOCK FALSE
