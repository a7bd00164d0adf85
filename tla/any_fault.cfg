\* One job, and everything that can happen to it, twice.
SPECIFICATION Spec
CONSTANTS
    p1 = p1  p2 = p2  p3 = p3
    w1 = w1  w2 = w2  w3 = w3
    j1 = j1  j2 = j2  j3 = j3
    a = a  b = b
    NoJob = NoJob  NoPool = NoPool
    Pools = {p1, p2}
    Workers = {w1, w2}
    Jobs = {j1}
    Names = {a}
    NameOf <- AllA
    Handles <- HandleAll
    MaxConcurrency <- Limit1
    MaxFails <- Fails1
    PoolOf <- OnePerPool
    SkipDead = {}
    Delayed = {}
    Crashable = {p1}
    Stoppable = {p1}
    Reapers = {p2}
    Env = {"unregistered_crash", "late_beat", "split_beat", "lost_reply", "exec_failed",
           "redis_error", "set_failed", "restart", "pause", "client"}
    MaxFaults = 2
INVARIANTS
    NoJobLost
