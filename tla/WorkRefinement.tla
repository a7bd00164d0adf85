---------------------------- MODULE WorkRefinement ----------------------------
(***************************************************************************)
(* WorkSystem implements JobLifecycle: the status of a job is the Redis    *)
(* key that has it.                                                        *)
(***************************************************************************)
EXTENDS WorkSystem, Functions

EntriesIn(k) ==
    CASE k = "waiting" -> UNION {Range(queue[n]) : n \in Names}
      [] k = "taken"   -> UNION {Range(inprog[p][n]) : p \in Pools, n \in Names}
      [] OTHER         -> zset[k]

Keys == {"waiting", "taken"} \cup Zsets

EntriesOf(j, k) == {e \in EntriesIn(k) : e.id = j}

StatusOf(j) ==
    IF j \notin enqueued THEN "new"
    ELSE IF Stored(j) THEN CHOOSE k \in Keys : EntriesOf(j, k) # {}
    ELSE "done"

FailsOf(j) ==
    IF Stored(j) THEN (CHOOSE e \in EntriesOf(j, StatusOf(j)) : TRUE).fails ELSE 0

Lifecycle == INSTANCE JobLifecycle WITH
    status <- [j \in Jobs |-> StatusOf(j)],
    fails  <- [j \in Jobs |-> FailsOf(j)]

(***************************************************************************)
(* Through crashes, requeues, reaping, lost replies and lost transactions, *)
(* every job only moves the way JobLifecycle allows: it is never skipped,  *)
(* doubled or revived, a retry is consumed exactly when a handler failed,  *)
(* and it is taken only below the concurrency limit of its name.           *)
(***************************************************************************)
ImplementsLifecycle == Lifecycle!Spec
=============================================================================
