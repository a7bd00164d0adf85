------------------------------ MODULE WorkerPool ------------------------------
(***************************************************************************)
(* WorkerPool.Start and Stop (worker_pool.go) with the heartbeat of the    *)
(* pool (heartbeater.go), and the death of the process that runs the pool. *)
(***************************************************************************)
EXTENDS Worker, DeadPoolReaper

(***************************************************************************)
(* phase follows Start and Stop: new or stopped (started is false),        *)
(* started, then the calls of Stop in order: stopping (w.stop of every     *)
(* worker), requeue, clean, unbeat (SREM), unbeat2 (DEL), quiesce (the     *)
(* stop of the remaining goroutines).  crashed is a process that died.     *)
(* beater is the heartbeat goroutine: off, begin (its first beat is still  *)
(* to come), on, or half (between the two commands of a beat).             *)
(***************************************************************************)
VARIABLES phase, beater

poolVars == <<phase, beater>>

Phases == {"new", "started", "stopping", "requeue", "clean", "unbeat",
           "unbeat2", "quiesce", "stopped", "crashed"}

PoolTypeOK ==
    /\ phase \in [Pools -> Phases]
    /\ beater \in [Pools -> {"off", "begin", "on", "half"}]

PoolInit ==
    /\ phase = [p \in Pools |-> "new"]
    /\ beater = [p \in Pools |-> "off"]

WorkersOf(p) == {w \in Workers : PoolOf[w] = p}

\* The retrier, the scheduler and the reaper of a pool run from Start until Stop
\* has stopped them, after the heartbeat was removed.
Live(p) == phase[p] \notin {"new", "stopped", "crashed"}

AllWorkersOff(p) == \A w \in WorkersOf(p) : wpc[w] = "off"

Goto(p, ph) == phase' = [phase EXCEPT ![p] = ph]

-----------------------------------------------------------------------------
(***************************************************************************)
(* Start: writeConcurrencyControlsToRedis, then the goroutines.  A SET of  *)
(* max_concurrency that fails is logged, and Start goes on: unwritten are  *)
(* the names for which it does.  The workers may fetch before the first    *)
(* heartbeat has been written.                                             *)
(***************************************************************************)
Start(p, unwritten) ==
    /\ phase[p] \in {"new", "stopped"}
    /\ Goto(p, "started")
    /\ beater' = [beater EXCEPT ![p] = "begin"]
    /\ maxConc' = [n \in Names |->
                      IF n \in Handles[p] \ unwritten THEN MaxConcurrency[n] ELSE maxConc[n]]
    /\ unlimited' = unlimited \cup unwritten
    /\ wpc' = [w \in Workers |-> IF PoolOf[w] = p THEN "idle" ELSE wpc[w]]
    /\ reaper' = [reaper EXCEPT ![p] = ReaperAt("idle")]
    /\ UNCHANGED <<wjob, listVars, lockVars, zset, regVars, paused, history>>

(***************************************************************************)
(* heartbeat: SADD and HMSET are pipelined, not a transaction.             *)
(***************************************************************************)
Heartbeat(p) ==
    /\ beater[p] \in {"begin", "on"}
    /\ workerPools' = workerPools \cup {p}
    /\ heartbeat' = [heartbeat EXCEPT ![p] = "fresh"]
    /\ beater' = [beater EXCEPT ![p] = "on"]
    /\ UNCHANGED <<phase, workerVars, reaper, listVars, lockVars, zset, ctlVars, history>>

HeartbeatSadd(p) ==
    /\ beater[p] \in {"begin", "on"}
    /\ workerPools' = workerPools \cup {p}
    /\ beater' = [beater EXCEPT ![p] = "half"]
    /\ UNCHANGED <<phase, heartbeat, workerVars, reaper, listVars, lockVars, zset, ctlVars, history>>

HeartbeatHmset(p) ==
    /\ beater[p] = "half"
    /\ heartbeat' = [heartbeat EXCEPT ![p] = "fresh"]
    /\ beater' = [beater EXCEPT ![p] = "on"]
    /\ UNCHANGED <<phase, workerPools, workerVars, reaper, listVars, lockVars, zset, ctlVars, history>>

\* deadTime passes after a heartbeat.
HeartbeatAges(p) ==
    /\ heartbeat[p] = "fresh"
    /\ heartbeat' = [heartbeat EXCEPT ![p] = "stale"]
    /\ UNCHANGED <<poolVars, workerVars, reaper, workerPools, listVars, lockVars, zset, ctlVars, history>>

-----------------------------------------------------------------------------
Stop(p) ==
    /\ phase[p] = "started"
    /\ Goto(p, "stopping")
    /\ UNCHANGED <<beater, workerVars, reaper, storeVars>>

\* The loop of a worker receives from stopChan: only between two jobs.
StopWorker(w) ==
    /\ phase[PoolOf[w]] = "stopping"
    /\ wpc[w] = "idle"
    /\ Become(w, "off", NoJob)
    /\ UNCHANGED <<poolVars, reaper, storeVars>>

\* Faulty variant: Stop does not wait for the workers.
StopWaitNot(p) ==
    /\ phase[p] = "stopping"
    /\ Goto(p, "requeue")
    /\ UNCHANGED <<beater, workerVars, reaper, storeVars>>

StopWait(p) ==
    /\ phase[p] = "stopping"
    /\ AllWorkersOff(p)
    /\ Goto(p, "requeue")
    /\ UNCHANGED <<beater, workerVars, reaper, storeVars>>

\* Faulty variant: Stop requeues nothing.
StopRequeueNothing(p) ==
    /\ phase[p] = "requeue"
    /\ Goto(p, "clean")
    /\ UNCHANGED <<beater, workerVars, reaper, storeVars>>

StopRequeue(p) ==
    /\ phase[p] = "requeue"
    /\ \/ /\ LuaReenqueueJob(p, Handles[p])
          /\ UNCHANGED phase
       \/ /\ NothingInProgress(p, Handles[p])
          /\ Goto(p, "clean")
          /\ UNCHANGED <<listVars, lockVars>>
    /\ UNCHANGED <<beater, workerVars, reaper, zset, regVars, ctlVars, history>>

StopClean(p) ==
    /\ phase[p] = "clean"
    /\ LuaReapStaleLocks(p, Handles[p])
    /\ Goto(p, "unbeat")
    /\ UNCHANGED <<beater, workerVars, reaper, listVars, zset, regVars, ctlVars, history>>

\* removeHeartbeat: SREM, then DEL, pipelined.
StopSrem(p) ==
    /\ phase[p] = "unbeat"
    /\ beater[p] = "on"
    /\ workerPools' = workerPools \ {p}
    /\ beater' = [beater EXCEPT ![p] = "off"]
    /\ Goto(p, "unbeat2")
    /\ UNCHANGED <<workerVars, reaper, listVars, lockVars, zset, heartbeat, ctlVars, history>>

StopDel(p) ==
    /\ phase[p] = "unbeat2"
    /\ heartbeat' = [heartbeat EXCEPT ![p] = "absent"]
    /\ Goto(p, "quiesce")
    /\ UNCHANGED <<beater, workerVars, reaper, listVars, lockVars, zset, workerPools, ctlVars, history>>

\* retrier, scheduler and reaper stop; the reaper only between two reaps.
StopRest(p) ==
    /\ phase[p] = "quiesce"
    /\ reaper[p].pc = "idle"
    /\ reaper' = [reaper EXCEPT ![p] = ReaperAt("off")]
    /\ Goto(p, "stopped")
    /\ UNCHANGED <<beater, workerVars, storeVars>>

(***************************************************************************)
(* A Redis error during Stop is logged, and Stop goes on with the next     *)
(* call.  removeHeartbeat sends both of its commands or none.              *)
(***************************************************************************)
StopError(p) ==
    /\ \/ phase[p] = "requeue" /\ Goto(p, "clean") /\ UNCHANGED beater
       \/ phase[p] = "clean" /\ Goto(p, "unbeat") /\ UNCHANGED beater
       \/ /\ phase[p] = "unbeat" /\ beater[p] = "on"
          /\ Goto(p, "quiesce") /\ beater' = [beater EXCEPT ![p] = "off"]
    /\ UNCHANGED <<workerVars, reaper, storeVars>>

(***************************************************************************)
(* The process dies, with every goroutine of the pool.  Its ID is never    *)
(* used again: a new process makes a new one.                              *)
(***************************************************************************)
Crash(p) ==
    /\ Live(p)
    /\ Goto(p, "crashed")
    /\ beater' = [beater EXCEPT ![p] = "off"]
    /\ wpc' = [w \in Workers |-> IF PoolOf[w] = p THEN "off" ELSE wpc[w]]
    /\ wjob' = [w \in Workers |-> IF PoolOf[w] = p THEN NoJob ELSE wjob[w]]
    /\ reaper' = [reaper EXCEPT ![p] = ReaperAt("off")]
    /\ UNCHANGED storeVars
=============================================================================
