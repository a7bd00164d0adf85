\* Keys made of the arguments and keys given by the caller, and all that can happen.
\* Deadlock is not checked: there are only so many calls.
SPECIFICATION UniqueSpec
CONSTANTS
    Jobs = {j1, j2, j3}
    Workers = {w1, w2}
    Placeholder = Placeholder
    NoJob = NoJob
    Env = {"retry", "expire", "crash", "delete", "redis_error", "cut_off"}
INVARIANTS
    UniqueTypeOK
    
    OneJobPerKey
    LastArgumentsKept
CHECK_DEADLOCK FALSE
