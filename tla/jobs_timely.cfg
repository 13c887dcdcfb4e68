\* One key, two requests with different bodies, two workers, a crash, honest heartbeats.
SPECIFICATION Spec
CONSTANTS
    j1 = j1
    r1 = r1
    r2 = r2
    b1 = b1
    b2 = b2
    run1 = run1
    Jobs = {j1}
    Workers = {w1, w2}
    Requests = {r1, r2}
    Bodies = {b1, b2}
    Runs = {run1}
    CleanRuns = {run1}
    NoJob = NoJob
    NoBody = NoBody
    NoRun = NoRun
    KeyOf <- OneKey
    BodyOf <- OtherBody
    RunOf <- SoleRun
    MaxAttempts = 2
    NumCases = 2
    MaxQueue = 1
    SlowWorkers = FALSE
    LostAcks = FALSE
    AttemptBound = 3
    MaxCrashes = 1
SYMMETRY WorkerSymmetry
INVARIANTS TypeOK Discipline AcceptedMatchesRow SingleExecutor AttemptsBounded ResultExact AssignmentSound
PROPERTIES TerminalFinal ProgressMonotone RefinesLifecycle
