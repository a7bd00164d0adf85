\* Up to four queues with priorities up to three, added at any time between two
\* calls of sample.
SPECIFICATION SamplerSpec
CONSTANTS
    a = a  b = b  c = c  d = d
    Names = {a, b, c, d}
    MaxPriority = 3
INVARIANTS
    SamplerTypeOK
    DrawsFollowPriorities
PROPERTIES
    DrawnQueuesStay
