\* Two reapers after one crashed pool, whose pools do not handle every name of
\* the crashed one; a call of a reaper, a reply or a transaction may fail.
SPECIFICATION Spec
CONSTANTS
    p1 = p1  p2 = p2  p3 = p3
    w1 = w1  w2 = w2  w3 = w3
    j1 = j1  j2 = j2  j3 = j3
    a = a  b = b
    NoJob = NoJob  NoPool = NoPool
    Pools = {p1, p2, p3}
    Workers = {w1, w2}
    Jobs = {j1, j2}
    Names = {a, b}
    NameOf <- J1AJ2B
    Handles <- P1AB_P2B
    MaxConcurrency <- Limit1
    MaxFails <- Fails1
    PoolOf <- OnePerPool
    SkipDead = {}
    Delayed = {j1}
    Crashable = {p1}
    Stoppable = {}
    Reapers = {p2, p3}
    Env = {"lost_reply", "exec_failed", "redis_error"}
    MaxFaults = 1
INVARIANTS
    InProgressRecoverable
    LocksCountInProgress
    OnePlaceOneWorker
