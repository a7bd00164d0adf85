\* Two pools, one of which may die at any time; both may be stopped.
\* Two replies to a fetch, transactions at the end of a job or writes of a
\* limit may be lost.
\* Deadlock is not checked: every pool may have stopped or died.
SPECIFICATION Spec
CONSTANTS
    p1 = p1  p2 = p2  p3 = p3
    w1 = w1  w2 = w2  w3 = w3
    j1 = j1  j2 = j2  j3 = j3
    a = a  b = b
    NoJob = NoJob  NoPool = NoPool
    Pools = {p1, p2}
    Workers = {w1, w2}
    Jobs = {j1, j2}
    Names = {a}
    NameOf <- AllA
    Handles <- HandleAll
    MaxConcurrency <- Limit1
    MaxFails <- Fails1
    PoolOf <- OnePerPool
    SkipDead = {}
    Delayed = {}
    Crashable = {p1}
    Stoppable = {p1, p2}
    Reapers = {p2}
    Env = {"lost_reply", "exec_failed", "set_failed"}
    MaxFaults = 2
INVARIANTS
    TypeOK
    InProgressRecoverable
    LocksCountInProgress
    ConcurrencyLimit
    OnePlaceOneWorker
    RunningJobHeld
    StoppedPoolIsClean
SYMMETRY JobSymmetry
CHECK_DEADLOCK FALSE
