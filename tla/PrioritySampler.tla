---------------------------- MODULE PrioritySampler ----------------------------
(***************************************************************************)
(* The order in which a worker looks at its queues (priority_sampler.go):  *)
(* before each fetch sample sorts the queues in place, drawing one after   *)
(* the other with a probability in proportion to its priority.  One action *)
(* is one turn of the outer loop; the random number is any it can be.      *)
(***************************************************************************)
EXTENDS Naturals, Sequences, FiniteSetsExt, SequencesExt

CONSTANTS
    Names,      \* job names
    MaxPriority \* the priorities are 1 .. MaxPriority

ASSUME SamplerAssumption ==
    /\ IsFiniteSet(Names)
    /\ MaxPriority \in Nat \ {0}

VARIABLES
    samples,    \* s.samples: names and priorities
    sum,        \* s.sum
    sampling,   \* whether sample is running
    lastValidIdx, \* the first index that is not sorted yet, from 1 on
    sumRemaining

samplerVars == <<samples, sum, sampling, lastValidIdx, sumRemaining>>

SampleItem == [name : Names, priority : 1 .. MaxPriority]

SamplerInit ==
    /\ samples = <<>>
    /\ sum = 0
    /\ sampling = FALSE
    /\ lastValidIdx = 1
    /\ sumRemaining = 0

\* add, for each job type of a worker.
Add ==
    /\ ~sampling
    /\ \E item \in SampleItem :
          /\ \A i \in DOMAIN samples : samples[i].name # item.name
          /\ samples' = Append(samples, item)
          /\ sum' = sum + item.priority
    /\ UNCHANGED <<sampling, lastValidIdx, sumRemaining>>

\* The variables of a call of sample.
SampleBegin ==
    /\ ~sampling
    /\ samples # <<>>
    /\ sampling' = TRUE
    /\ lastValidIdx' = 1
    /\ sumRemaining' = sum
    /\ UNCHANGED <<samples, sum>>

-----------------------------------------------------------------------------
\* prevSum and the priority of the i-th item: the sum of those from i on.
SumFrom(i) == MapThenFoldSet(LAMBDA x, y : x + y, 0, LAMBDA k : samples[k].priority,
                             LAMBDA S : CHOOSE k \in S : TRUE, i .. Len(samples))

\* Faulty variant: the random number may be as large as the sum.
FitsUpTo(rn, i) == rn <= SumFrom(i)

\* Where the number fits in the continuum, seen from the end.
Fits(rn, i) == rn < SumFrom(i)

\* The inner loop goes backwards and stops at the first item that fits.
Drawn(rn) == {i \in lastValidIdx .. Len(samples) :
                 Fits(rn, i) /\ \A k \in i + 1 .. Len(samples) : ~Fits(rn, k)}

\* Faulty variant: the item is moved to the front of the slice.
SwapToFront(i) == [samples EXCEPT ![i] = samples[1], ![1] = samples[i]]

\* Faulty variant: the item is copied, and what was in its place is lost.
SwapOver(i) == [samples EXCEPT ![lastValidIdx] = samples[i]]

Swap(i) == [samples EXCEPT ![i] = samples[lastValidIdx], ![lastValidIdx] = samples[i]]

\* remaining > 1
Remaining == lastValidIdx < Len(samples)

\* One turn; DrawsFollowPriorities says that every number fits somewhere.
SampleNext ==
    /\ sampling
    /\ Remaining
    /\ \E rn \in 0 .. sumRemaining - 1 : \E i \in Drawn(rn) :
          /\ samples' = Swap(i)
          /\ sumRemaining' = sumRemaining - samples[i].priority
    /\ lastValidIdx' = lastValidIdx + 1
    /\ UNCHANGED <<sum, sampling>>

SampleEnd ==
    /\ sampling
    /\ ~Remaining
    /\ sampling' = FALSE
    /\ lastValidIdx' = 1
    /\ sumRemaining' = 0
    /\ UNCHANGED <<samples, sum>>

SamplerNext == Add \/ SampleBegin \/ SampleNext \/ SampleEnd

SamplerSpec == SamplerInit /\ [][SamplerNext]_samplerVars

-----------------------------------------------------------------------------
\* Every variable has its type, each queue is in the samples once, and the sum
\* is theirs, also while they are being sorted in place.
SamplerTypeOK ==
    /\ samples \in Seq(SampleItem)
    /\ \A i, k \in DOMAIN samples : samples[i].name = samples[k].name => i = k
    /\ sum = SumFrom(1)
    /\ sampling \in BOOLEAN
    /\ lastValidIdx \in 1 .. Len(samples) + 1
    /\ sumRemaining \in 0 .. sum

\* In each turn, of the numbers that can be drawn as many lead to a queue as its
\* priority says, and each leads to one: a worker chooses a queue in proportion
\* to its priority, and when it is empty one of the others in proportion.
DrawsFollowPriorities ==
    sampling /\ Remaining =>
        LET draws == 0 .. sumRemaining - 1
        IN /\ \A rn \in draws : Cardinality(Drawn(rn)) = 1
           /\ \A i \in lastValidIdx .. Len(samples) :
                 Cardinality({rn \in draws : i \in Drawn(rn)}) = samples[i].priority

\* A queue that has been drawn keeps its place until sample returns.
DrawnQueuesStay ==
    [][sampling => SubSeq(samples', 1, lastValidIdx - 1) = SubSeq(samples, 1, lastValidIdx - 1)
                   /\ ToSet(samples') = ToSet(samples)]_samplerVars
=============================================================================
