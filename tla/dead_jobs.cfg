\* Three jobs of two names, in batches and pages of two.
SPECIFICATION DeadSpec
CONSTANTS
    a = a  b = b
    Jobs = {1, 2, 3}
    Names = {a, b}
    NameOf <- TwoAOneB
    Batch = 2
    MaxBatches = 3
    PageSize = 2
    Penalty = 1
    MaxTime = 2
    NotDead = NotDead
INVARIANTS
    DeadTypeOK
    EachJobOnce
    RetryAllIsComplete
    PagesShowEachOnce
