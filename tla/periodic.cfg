\* Two pools with different periodic jobs that start, stop, die and run late.
SPECIFICATION PeriodicSpec
CONSTANTS
    p1 = p1
    p2 = p2
    Pools = {p1, p2}
    Schedules <- TwoJobs
    PeriodicJobs <- OneHasBoth
    Sleep = 2
    Jitter = 1
    Horizon = 5
    Window = 0
    MaxDelay = 1
    MaxFaults = 1
    MaxTime = 6
    Never = Never
INVARIANTS
    PeriodicTypeOK
    NoInstanceMissed
    OnceUnlessLate
CHECK_DEADLOCK FALSE
