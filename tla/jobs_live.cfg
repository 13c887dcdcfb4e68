\* Fair workers, lost notifications, a crash, an absent client.
SPECIFICATION FairSpec
CONSTANTS
    j1 = j1
    r1 = r1
    r2 = r2
    b1 = b1
    b2 = b2
    run1 = run1
    Jobs = {j1}
    Workers = {w1, w2}
    Requests = {r1}
    Bodies = {b1}
    Runs = {run1}
    CleanRuns = {run1}
    NoJob = NoJob
    NoBody = NoBody
    NoRun = NoRun
    KeyOf <- SoleKey
    BodyOf <- SoleBody
    RunOf <- SoleRun
    MaxAttempts = 2
    NumCases = 1
    MaxQueue = 1
    SlowWorkers = FALSE
    LostAcks = FALSE
    AttemptBound = 3
    MaxCrashes = 1
PROPERTIES EventuallyTerminal
