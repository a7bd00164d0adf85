\* Liveness while p2 stays up.
SPECIFICATION FairSpec
CONSTANTS
    p1 = p1  p2 = p2  p3 = p3
    w1 = w1  w2 = w2  w3 = w3
    j1 = j1  j2 = j2  j3 = j3
    a = a  b = b
    NoJob = NoJob  NoPool = NoPool
    Pools = {p1, p2}
    Workers = {w1, w2}
    Jobs = {j1, j2}
    Names = {a}
    NameOf <- AllA
    Handles <- HandleAll
    MaxConcurrency <- Limit1
    MaxFails <- Fails2
    PoolOf <- OnePerPool
    SkipDead = {}
    Delayed = {j2}
    Crashable = {p1}
    Stoppable = {p1}
    Reapers = {p2}
    Env = {}
    MaxFaults = 0
PROPERTIES
    EveryJobEnds
    LeavingPoolIsEmptied
