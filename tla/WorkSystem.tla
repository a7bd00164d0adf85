------------------------------ MODULE WorkSystem ------------------------------
(***************************************************************************)
(* The whole of job processing: enqueuers, worker pools with their workers,*)
(* heartbeats, requeuers and reapers, and clients, over one Redis.         *)
(***************************************************************************)
EXTENDS Enqueuer, Requeuer, Client, WorkerPool

CONSTANTS
    Crashable,  \* the pools whose process may die
    Stoppable,  \* the pools on which Stop may be called
    Reapers,    \* the pools whose reap timer fires (the period is 10 minutes)
    Env,        \* what else the environment may do, see EnvKinds
    MaxFaults   \* and how often

(***************************************************************************)
(* Beyond crashing pools and failing handlers, the environment can:        *)
(*   unregistered_crash  kill a pool before its first heartbeat            *)
(*   late_beat           delay a live pool's heartbeat beyond deadTime     *)
(*   split_beat          run a command of another client between the SADD  *)
(*                       and the HMSET of one heartbeat                    *)
(*   lost_reply          lose the reply to a fetch the script has executed *)
(*   exec_failed         lose the transaction that ends a job              *)
(*   redis_error         fail a call of the reaper or of Stop              *)
(*   set_failed          fail a SET of max_concurrency in Start            *)
(*   restart             call Start on a pool that was stopped             *)
(* Each of these costs one of MaxFaults, and so does a job that a reaper   *)
(* takes from a live pool: without the bound the counters of the locks can *)
(* drift without end.  An operator can also act:                           *)
(*   pause               set and delete the paused key of a job name       *)
(*   client              retry and delete jobs through Client              *)
(***************************************************************************)
EnvKinds ==
    {"unregistered_crash", "late_beat", "split_beat", "lost_reply",
     "exec_failed", "redis_error", "set_failed", "restart", "pause", "client"}

ASSUME SystemAssumption ==
    /\ Crashable \subseteq Pools
    /\ Stoppable \subseteq Pools
    /\ Reapers \subseteq Pools
    /\ Env \subseteq EnvKinds
    /\ MaxFaults \in Nat

VARIABLE faults     \* how many faults there have been

vars == <<storeVars, workerVars, reaper, poolVars, faults>>

TypeOK ==
    /\ StoreTypeOK
    /\ WorkerTypeOK
    /\ ReaperTypeOK
    /\ PoolTypeOK
    /\ faults \in 0 .. MaxFaults

Init ==
    /\ StoreInit
    /\ WorkerInit
    /\ ReaperInit
    /\ PoolInit
    /\ faults = 0

CountFault == faults < MaxFaults /\ faults' = faults + 1

Fault(kind) == kind \in Env /\ CountFault

\* An ordinary step when the condition holds, and a fault otherwise.
FaultUnless(cond, kind) ==
    \/ cond /\ UNCHANGED faults
    \/ ~cond /\ Fault(kind)

-----------------------------------------------------------------------------
EnqueuerStep(j) ==
    /\ Enqueue(j) \/ EnqueueIn(j)
    /\ UNCHANGED <<workerVars, reaper, poolVars, faults>>

WorkerWork(w) ==
    /\ FetchJob(w) \/ RunJob(w) \/ RemoveJobFromInProgress(w)
    /\ UNCHANGED <<reaper, poolVars, faults>>

WorkerError(w) ==
    /\ \/ FetchLost(w) /\ Fault("lost_reply")
       \/ ExecFails(w) /\ Fault("exec_failed")
    /\ UNCHANGED <<reaper, poolVars>>

RequeuerStep(p) ==
    /\ Live(p)
    /\ \E key \in {"retry", "scheduled"} : RequeuerProcess(p, key)
    /\ UNCHANGED <<workerVars, reaper, poolVars, faults>>

\* The next job the reaper requeues is one of a live pool.
TakesFromLive(r) ==
    LET q == reaper[r].cur IN
    reaper[r].pc = "requeue" /\ Live(q) /\ ~NothingInProgress(q, Handles[q])

ReaperWork(r) ==
    /\ \/ r \in Reapers /\ ReapStart(r)
       \/ \E q \in Pools : FindHeartbeat(r, q)
       \/ FindJobNames(r)
       \/ ReapNext(r)
       \/ ReapRequeue(r)
       \/ ReapDel(r)
       \/ ReapSrem(r)
       \/ ReapClean(r)
    /\ IF TakesFromLive(r) THEN CountFault ELSE UNCHANGED faults
    /\ UNCHANGED <<workerVars, poolVars>>

ReaperError(r) ==
    /\ ReapAbort(r)
    /\ Fault("redis_error")
    /\ UNCHANGED <<workerVars, poolVars>>

Beat(p) ==
    \/ Heartbeat(p) /\ UNCHANGED faults
    \/ HeartbeatSadd(p) /\ Fault("split_beat")
    \/ HeartbeatHmset(p) /\ UNCHANGED faults

\* A running heartbeater beats in time, or that is a fault.
Age(p) ==
    /\ HeartbeatAges(p)
    /\ FaultUnless(beater[p] = "off", "late_beat")

PoolStart(p) ==
    \/ Start(p, {}) /\ FaultUnless(phase[p] = "new", "restart")
    \/ /\ phase[p] = "new" \/ "restart" \in Env
       /\ \E unwritten \in (SUBSET Handles[p]) \ {{}} : Start(p, unwritten)
       /\ Fault("set_failed")

PoolStop(p) ==
    /\ p \in Stoppable
    /\ Stop(p)
    /\ UNCHANGED faults

StopWork(p) ==
    /\ \/ \E w \in WorkersOf(p) : StopWorker(w)
       \/ StopWait(p)
       \/ StopRequeue(p)
       \/ StopClean(p)
       \/ StopSrem(p)
       \/ StopDel(p)
       \/ StopRest(p)
    /\ UNCHANGED faults

PoolStopError(p) == StopError(p) /\ Fault("redis_error")

PoolCrash(p) ==
    /\ p \in Crashable
    /\ Crash(p)
    /\ FaultUnless(beater[p] # "begin", "unregistered_crash")

OperatorStep ==
    /\ \/ "client" \in Env /\ RetryDeadJob
       \/ "client" \in Env /\ DeleteZsetJob
       \/ "pause" \in Env /\ TogglePaused
    /\ UNCHANGED <<workerVars, reaper, poolVars, faults>>

PoolStep(p) ==
    \/ RequeuerStep(p)
    \/ ReaperWork(p) \/ ReaperError(p)
    \/ Beat(p) \/ Age(p)
    \/ PoolStart(p) \/ PoolStop(p) \/ StopWork(p) \/ PoolStopError(p)
    \/ PoolCrash(p)

Next ==
    \/ \E j \in Jobs : EnqueuerStep(j)
    \/ \E w \in Workers : WorkerWork(w) \/ WorkerError(w)
    \/ \E p \in Pools : PoolStep(p)
    \/ OperatorStep

Spec == Init /\ [][Next]_vars

(***************************************************************************)
(* Every goroutine that can go on does: workers, requeuers, heartbeaters   *)
(* and reapers are loops around a timer, handlers return, and Stop goes    *)
(* through its calls.  Time passes, so the heartbeat of a dead pool grows  *)
(* old.  Nothing obliges anyone to enqueue, to call Stop, or to crash.     *)
(***************************************************************************)
Fairness ==
    /\ \A w \in Workers : WF_vars(WorkerWork(w))
    /\ \A p \in Pools :
        /\ WF_vars(RequeuerStep(p))
        /\ WF_vars(ReaperWork(p))
        /\ WF_vars(Beat(p))
        /\ WF_vars(Age(p))
        /\ WF_vars(PoolStart(p))
        /\ WF_vars(StopWork(p))

FairSpec == Spec /\ Fairness

-----------------------------------------------------------------------------
(***************************************************************************)
(* A job in an in-progress list can get out of it: its pool is running and *)
(* will end it or requeue it in Stop, or the pool is listed in             *)
(* worker_pools with a heartbeat that names its jobs, so that a reaper     *)
(* will requeue it.                                                        *)
(***************************************************************************)
InProgressRecoverable ==
    \A p \in Pools : ~NothingInProgress(p, Names) =>
        \/ phase[p] \in {"started", "stopping", "requeue"}
        \/ p \in workerPools /\ heartbeat[p] # "absent"

(***************************************************************************)
(* A pool whose Stop has returned has left nothing behind: no in-progress  *)
(* job, no lock it holds, no heartbeat, whatever reapers did to it before. *)
(***************************************************************************)
StoppedPoolIsClean ==
    \A p \in Pools : phase[p] = "stopped" =>
        /\ NothingInProgress(p, Names)
        /\ \A n \in Names : p \notin lockField[n]
        /\ p \notin workerPools
        /\ heartbeat[p] = "absent"

(***************************************************************************)
(* While some pool stays up, a pool that was told to stop or whose process *)
(* died gives up the jobs it had in progress: Stop requeues them, or the   *)
(* reaper of another pool finds the old heartbeat and does.                *)
(***************************************************************************)
LeavingPoolIsEmptied ==
    \A p \in Pools : phase[p] \in {"stopping", "crashed"} ~> NothingInProgress(p, Names)

(***************************************************************************)
(* While some pool stays up, every enqueued job succeeds, is dropped (see  *)
(* Terminate) or ends up dead: crashes, retries, delays and the concurrency   *)
(* limit never leave it waiting for ever.                                  *)
(***************************************************************************)
EveryJobEnds ==
    \A j \in Jobs : j \in enqueued ~> (j \in settled \/ \E e \in zset["dead"] : e.id = j)
=============================================================================
