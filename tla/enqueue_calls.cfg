\* A plain call, a unique one and a bulk of both kinds at the same time, with a
\* key in common; any two errors, failovers or script flushes.
\* Deadlock is not checked: there are only so many calls.
SPECIFICATION CallsSpec
CONSTANTS
    c1 = c1  c2 = c2  c3 = c3
    j1 = j1  j2 = j2  j3 = j3  j4 = j4
    a = a  b = b  k1 = k1
    NoKey = NoKey
    Calls = {c1, c2, c3}
    KindOf <- PlainUniqueBulk
    Params <- BulkOfTwo
    Jobs = {j1, j2, j3, j4}
    Names = {a, b}
    Keys = {k1}
    NameOf <- FirstA
    KeyOf <- SharedKey
    MinWaitEnabled = TRUE
    MaxFaults = 2
    MaxExpiries = 1
INVARIANTS
    CallsTypeOK
    AckedJobsAreThere
    AckedNamesAreKnown
CHECK_DEADLOCK FALSE
