----------------------------- MODULE JobLifecycle -----------------------------
(***************************************************************************)
(* What package work promises about one job, whatever the pools do: where  *)
(* it can be and how it gets from one place to the next.  There are no     *)
(* pools, workers, lists, locks or reapers here; WorkRefinement shows that *)
(* WorkSystem implements this.                                             *)
(***************************************************************************)
EXTENDS Naturals, FiniteSets

CONSTANTS Jobs, Names, NameOf, MaxConcurrency, MaxFails, SkipDead

VARIABLES
    status, \* where each job is
    fails   \* how often it has failed, 0 once it is done

Statuses == {"new", "waiting", "taken", "retry", "scheduled", "dead", "done"}

LifecycleTypeOK ==
    /\ status \in [Jobs -> Statuses]
    /\ fails \in [Jobs -> Nat]

Init ==
    /\ status = [j \in Jobs |-> "new"]
    /\ fails = [j \in Jobs |-> 0]

Move(j, from, to, n) ==
    /\ status[j] \in from
    /\ status' = [status EXCEPT ![j] = to]
    /\ fails' = [fails EXCEPT ![j] = n]

Taken(n) == {j \in Jobs : status[j] = "taken" /\ NameOf[j] = n}

\* A job is taken only while its name is below its limit.
Take(j) ==
    LET n == NameOf[j] IN
    /\ MaxConcurrency[n] = 0 \/ Cardinality(Taken(n)) < MaxConcurrency[n]
    /\ Move(j, {"waiting"}, "taken", fails[j])

\* A handler that fails consumes a retry; without one left the job is dead.
Fail(j) ==
    LET n == NameOf[j] IN
    IF fails[j] + 1 < MaxFails[n] THEN Move(j, {"taken"}, "retry", fails[j] + 1)
    ELSE IF n \in SkipDead THEN Move(j, {"taken"}, "done", 0)
    ELSE Move(j, {"taken"}, "dead", fails[j] + 1)

JobStep(j) ==
    \/ Move(j, {"new"}, "waiting", 0)                        \* Enqueue
    \/ Move(j, {"new"}, "scheduled", 0)                      \* EnqueueIn
    \/ Take(j)
    \/ Move(j, {"taken"}, "done", 0)                         \* success
    \/ Fail(j)
    \/ Move(j, {"taken"}, "waiting", fails[j])               \* its pool died or stopped
    \/ Move(j, {"retry", "scheduled"}, "waiting", fails[j])  \* due
    \/ Move(j, {"dead"}, "waiting", 0)                       \* retried by an operator
    \/ Move(j, {"retry", "scheduled", "dead"}, "done", 0)    \* deleted by an operator

Next == \E j \in Jobs : JobStep(j)

Spec == Init /\ [][Next]_<<status, fails>>
=============================================================================
