-------------------------------- MODULE Worker --------------------------------
(***************************************************************************)
(* The worker goroutines (worker.go): fetch a job, run its handler, then   *)
(* end it in one transaction that also decides where the job goes.         *)
(***************************************************************************)
EXTENDS RedisStore

CONSTANTS
    Workers,    \* worker IDs
    PoolOf,     \* the pool of each worker
    MaxFails,   \* JobOptions.MaxFails of each name, at least 1
    SkipDead,   \* the names with JobOptions.SkipDead
    NoJob       \* the job of a worker that has none

ASSUME WorkerAssumption ==
    /\ IsFiniteSet(Workers)
    /\ PoolOf \in [Workers -> Pools]
    /\ MaxFails \in [Names -> Nat \ {0}]
    /\ SkipDead \subseteq Names
    /\ NoJob \notin Entry

VARIABLES
    wpc,    \* off, idle (in select), running (in runJob), finished or failed
    wjob    \* the entry taken off the queue (dequeuedRawJSON)

workerVars == <<wpc, wjob>>

Busy == {"running", "finished", "failed"}

WorkerTypeOK ==
    /\ wpc \in [Workers -> {"off", "idle"} \cup Busy]
    /\ wjob \in [Workers -> Entry \cup {NoJob}]
    /\ \A w \in Workers : wpc[w] \in Busy => wjob[w] \in Entry

WorkerInit ==
    /\ wpc = [w \in Workers |-> "off"]
    /\ wjob = [w \in Workers |-> NoJob]

Become(w, pc, job) ==
    /\ wpc' = [wpc EXCEPT ![w] = pc]
    /\ wjob' = [wjob EXCEPT ![w] = job]

-----------------------------------------------------------------------------
\* Faulty variant: loop does not test whether fetchJob returned a job.
FetchJobUntested(w) ==
    /\ wpc[w] = "idle"
    /\ \/ \E n \in Names :
            /\ LuaFetchJob(PoolOf[w], n)
            /\ Become(w, "running", Last(queue[n]))
       \/ /\ \A n \in Handles[PoolOf[w]] : ~Fetchable(n)
          /\ Become(w, "running", NoJob)
          /\ UNCHANGED <<listVars, lockVars>>
    /\ UNCHANGED <<zset, regVars, ctlVars, history>>

(***************************************************************************)
(* fetchJob.  When the reply is lost, or is not the JSON of a job, the     *)
(* worker goes back to its loop with an error, but the script has run.     *)
(***************************************************************************)
FetchJob(w) ==
    /\ wpc[w] = "idle"
    /\ \E n \in Names :
        /\ LuaFetchJob(PoolOf[w], n)
        /\ Become(w, "running", Last(queue[n]))
    /\ UNCHANGED <<zset, regVars, ctlVars, history>>

FetchLost(w) ==
    /\ wpc[w] = "idle"
    /\ \E n \in Names : LuaFetchJob(PoolOf[w], n)
    /\ UNCHANGED <<workerVars, zset, regVars, ctlVars, history>>

(***************************************************************************)
(* runJob returns: nil, or the error or recovered panic of a handler.  In  *)
(* "finished" the fate of the job is terminateOnly: it has succeeded, or   *)
(* it has failed and cannot be serialized any more, which terminateAndRetry*)
(* and terminateAndDead log before they return terminateOnly.              *)
(***************************************************************************)
RunJob(w) ==
    /\ wpc[w] = "running"
    /\ \E pc \in {"finished", "failed"} : Become(w, pc, wjob[w])
    /\ UNCHANGED storeVars

(***************************************************************************)
(* job.failed and jobFate: where the job goes, or "none" for terminateOnly.*)
(***************************************************************************)
Failed(e) == [e EXCEPT !.fails = @ + 1]

\* Faulty variant: one failure too few.
JobFateEarly(p, e) ==
    LET n == NameOf[e.id] IN
    CASE n \notin Handles[p]            -> "dead"
      [] MaxFails[n] - e.fails > 1      -> "retry"
      [] n \in SkipDead                 -> "none"
      [] OTHER                          -> "dead"

JobFate(p, e) ==
    LET n == NameOf[e.id] IN
    CASE n \notin Handles[p]            -> "dead"
      [] MaxFails[n] - e.fails > 0      -> "retry"
      [] n \in SkipDead                 -> "none"
      [] OTHER                          -> "dead"

(***************************************************************************)
(* terminateOnly, terminateAndRetry or terminateAndDead.  A job is settled *)
(* when the transaction that ends it keeps it nowhere: it succeeded, its   *)
(* retries are exhausted and its name has SkipDead, or its JSON could not  *)
(* be built again.                                                         *)
(***************************************************************************)
Terminate(k, e) ==
    IF k = "none"
    THEN settled' = settled \cup {e.id} /\ zset' = zset
    ELSE zset' = [zset EXCEPT ![k] = @ \cup {e}] /\ settled' = settled

\* Faulty variant: the lock and its share of the pool are not decremented.
RemoveJobFromInProgressLocked(w) ==
    LET p == PoolOf[w]
        e == wjob[w]
    IN  /\ wpc[w] \in {"finished", "failed"}
        /\ inprog' = [inprog EXCEPT ![p][NameOf[e.id]] = RemoveFirst(@, e)]
        /\ IF wpc[w] = "finished"
           THEN Terminate("none", e)
           ELSE Terminate(JobFate(p, Failed(e)), Failed(e))
        /\ Become(w, "idle", NoJob)
        /\ UNCHANGED <<queue, lockVars, regVars, ctlVars, enqueued>>

(***************************************************************************)
(* removeJobFromInProgress: one MULTI/EXEC.  LREM removes nothing when the *)
(* entry is no longer in the list; the counters go down all the same.      *)
(***************************************************************************)
RemoveJobFromInProgress(w) ==
    LET p == PoolOf[w]
        e == wjob[w]
        n == NameOf[e.id]
    IN  /\ wpc[w] \in {"finished", "failed"}
        /\ inprog' = [inprog EXCEPT ![p][n] = RemoveFirst(@, e)]
        /\ AddLock(n, p, -1)
        /\ IF wpc[w] = "finished"
           THEN Terminate("none", e)
           ELSE Terminate(JobFate(p, Failed(e)), Failed(e))
        /\ Become(w, "idle", NoJob)
        /\ UNCHANGED <<queue, regVars, ctlVars, enqueued>>

\* Faulty variant: without MULTI, the commands before the failure have run.
ExecFailsHalfway(w) ==
    LET p == PoolOf[w]
        n == NameOf[wjob[w].id]
    IN  /\ wpc[w] \in {"finished", "failed"}
        /\ inprog' = [inprog EXCEPT ![p][n] = RemoveFirst(@, wjob[w])]
        /\ Become(w, "idle", NoJob)
        /\ UNCHANGED <<queue, lockVars, zset, regVars, ctlVars, history>>

\* EXEC fails: the error is logged and the worker takes its next job.
ExecFails(w) ==
    /\ wpc[w] \in {"finished", "failed"}
    /\ Become(w, "idle", NoJob)
    /\ UNCHANGED storeVars

-----------------------------------------------------------------------------
(* What becomes of the jobs. *)

\* Whether some list or sorted set of Redis still has job j.
Stored(j) ==
    \/ \E n \in Names : j \in Ids(queue[n])
    \/ \E p \in Pools : \E n \in Names : j \in Ids(inprog[p][n])
    \/ \E k \in Zsets : \E e \in zset[k] : e.id = j

(***************************************************************************)
(* At least once: whatever crashes, is delayed or fails, a job that was    *)
(* enqueued is in Redis until a worker ends it with terminateOnly or a     *)
(* client deletes it.  This is what RPOPLPUSH in the fetch and requeue     *)
(* scripts and the MULTI/EXEC at the end of a job are for.  It says        *)
(* nothing of a failed job that cannot be serialized: that one is gone.    *)
(***************************************************************************)
NoJobLost == \A j \in enqueued \ settled : Stored(j)

\* The positions of all in-progress lists of a name.
Slots(n) == UNION {{p} \X (1 .. Len(inprog[p][n])) : p \in Pools}

(***************************************************************************)
(* The lock of a name counts the in-progress jobs of all pools, and the    *)
(* field of a pool in lock_info counts its own, through crashes, requeues, *)
(* lost replies, failed transactions and concurrent reapers.               *)
(***************************************************************************)
LocksCountInProgress ==
    \A n \in Names :
        /\ lock[n] = Cardinality(Slots(n))
        /\ \A p \in Pools : lockInfo[n][p] = Len(inprog[p][n])

Running(n) == {w \in Workers : wpc[w] = "running" /\ NameOf[wjob[w].id] = n}

(***************************************************************************)
(* MaxConcurrency: no more handlers of a name run at one time, over all    *)
(* pools, than the limit of the name allows, if every Start has written it *)
(* (a SET that fails leaves the name without a limit).                     *)
(***************************************************************************)
ConcurrencyLimit ==
    \A n \in Names \ unlimited :
        MaxConcurrency[n] > 0 => Cardinality(Running(n)) <= MaxConcurrency[n]

(***************************************************************************)
(* A job is in one place of Redis at a time, and at most one worker has    *)
(* it: no reaper and no Stop hands out a job that a worker still runs.     *)
(***************************************************************************)
Positions(s, j) == {i \in 1 .. Len(s) : s[i].id = j}

Places(j) ==
    (UNION {{n} \X Positions(queue[n], j) : n \in Names})
    \cup (UNION {{<<p, n>>} \X Positions(inprog[p][n], j) : p \in Pools, n \in Names})
    \cup (UNION {{k} \X {e \in zset[k] : e.id = j} : k \in Zsets})

OnePlaceOneWorker ==
    /\ \A j \in Jobs : Cardinality(Places(j)) <= 1
    /\ \A v, w \in Workers :
        (v # w /\ wpc[v] \in Busy /\ wpc[w] \in Busy) => wjob[v].id # wjob[w].id

(***************************************************************************)
(* A job that a worker has is in the in-progress list of the worker's pool *)
(* until that worker ends it, so the LREM at its end finds it.             *)
(***************************************************************************)
RunningJobHeld ==
    \A w \in Workers : wpc[w] \in Busy =>
        Contains(inprog[PoolOf[w]][NameOf[wjob[w].id]], wjob[w])

(***************************************************************************)
(* A job is dead only when it has failed as often as MaxFails allows.      *)
(***************************************************************************)
DeadOnlyWhenExhausted ==
    \A e \in zset["dead"] : e.fails >= MaxFails[NameOf[e.id]]
=============================================================================
