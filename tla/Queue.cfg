SPECIFICATION MCSpec
CONSTANTS
    w1 = w1
    w2 = w2
    w3 = w3
    q1 = q1
    q2 = q2
    None = None
    appA = appA
    appB = appB
    Workers = {w1, w2, w3}
    N = 2
    Queues = {q1}
    NoQueue = NoQueue
    AppOf <- MCAppOf
    WorkerApp <- MCWorkerApp
    Delays = {0}
    Visibility = {1}
    U64Max = 2
    MaxTime = 1
    MaxId = 3
    MaxLease = 2
    MaxCrashes = 1
    Procs = {w1, w2}
    SqlQueues = {q1, q2}
    TOKEN = 3
    SqlDelays = {0, 1}
    SqlVisibility = {0, 2}
    SqlMaxTime = 2
    MaxJobs = 2
    MaxClaims = 3
INVARIANTS
    NoJobLost
    AttemptsCountReservations
PROPERTIES
    LeaseFence
    ScansSeeSteadySlots
    ImplementsJobQueue
    SqlImplementsJobQueue
    TableIsTrue
SYMMETRY WorkerSymmetry
CHECK_DEADLOCK FALSE
