---------------------------- MODULE DeadPoolReaper ----------------------------
(***************************************************************************)
(* The reaper each pool runs (dead_pool_reaper.go).  reap first collects   *)
(* the dead pools (findDeadPools), then cleans up after each of them; both *)
(* are loops of separate Redis calls, and each call is a step, so other    *)
(* reapers, workers and heartbeats run in between.                         *)
(***************************************************************************)
EXTENDS RedisStore

CONSTANT NoPool     \* the pool a reaper is at when it is at none

ASSUME NoPoolAssumption == NoPool \notin Pools

(***************************************************************************)
(* pc    off; idle (in select); find (walking todo, and once it is empty,  *)
(*       the dead pools found); names (heartbeat_at read and too old);     *)
(*       requeue, del, srem, clean (the calls of one iteration of reap)    *)
(* todo  what SMEMBERS returned and findDeadPools has not looked at yet    *)
(* stale deadPools with the job names of their heartbeat                   *)
(* gone  deadPools without a heartbeat, that is, with no job names         *)
(* cur   the pool at hand                                                  *)
(***************************************************************************)
VARIABLE reaper

ReaperPcs == {"off", "idle", "find", "names", "requeue", "del", "srem", "clean"}
Reaping   == {"names", "requeue", "del", "srem", "clean"}

ReaperTypeOK ==
    /\ reaper \in [Pools -> [pc : ReaperPcs, cur : Pools \cup {NoPool},
                             todo : SUBSET Pools, stale : SUBSET Pools, gone : SUBSET Pools]]
    /\ \A r \in Pools : reaper[r].pc \in Reaping => reaper[r].cur \in Pools

ReaperAt(pc) == [pc |-> pc, cur |-> NoPool, todo |-> {}, stale |-> {}, gone |-> {}]

ReaperInit == reaper = [p \in Pools |-> ReaperAt("off")]

\* Reaper r goes on at pc with pool q, having todo, stale and gone left.
ReaperBecomes(r, pc, q, todo, stale, gone) ==
    reaper' = [reaper EXCEPT ![r] =
                [pc |-> pc, cur |-> q, todo |-> todo, stale |-> stale, gone |-> gone]]

ReaperGoto(r, pc, q) ==
    ReaperBecomes(r, pc, q, reaper[r].todo, reaper[r].stale, reaper[r].gone)

\* lockJobTypes: the names in the dead pool's heartbeat, or curJobTypes.
LockJobTypes(r) ==
    IF reaper[r].cur \in reaper[r].stale THEN Handles[reaper[r].cur] ELSE Handles[r]

-----------------------------------------------------------------------------
\* The timer fires: SMEMBERS worker_pools.
ReapStart(r) ==
    /\ reaper[r].pc = "idle"
    /\ ReaperBecomes(r, "find", NoPool, workerPools, {}, {})
    /\ UNCHANGED storeVars

\* HGET heartbeat_at of one pool.
FindHeartbeat(r, q) ==
    LET todo == reaper[r].todo \ {q} IN
    /\ reaper[r].pc = "find"
    /\ q \in reaper[r].todo
    /\ CASE heartbeat[q] = "absent" ->
              ReaperBecomes(r, "find", NoPool, todo, reaper[r].stale, reaper[r].gone \cup {q})
         [] heartbeat[q] = "fresh" ->
              ReaperBecomes(r, "find", NoPool, todo, reaper[r].stale, reaper[r].gone)
         [] heartbeat[q] = "stale" ->
              ReaperBecomes(r, "names", q, todo, reaper[r].stale, reaper[r].gone)
    /\ UNCHANGED storeVars

\* Faulty variant: the pool found dead is not added to deadPools.
FindJobNamesForgets(r) ==
    /\ reaper[r].pc = "names"
    /\ ReaperGoto(r, "find", NoPool)
    /\ UNCHANGED storeVars

\* HGET job_names of a pool whose heartbeat was too old; it may be gone by now.
FindJobNames(r) ==
    LET q == reaper[r].cur
        dead == IF heartbeat[q] = "absent" THEN {} ELSE {q}
    IN  /\ reaper[r].pc = "names"
        /\ ReaperBecomes(r, "find", NoPool, reaper[r].todo, reaper[r].stale \cup dead, reaper[r].gone)
        /\ UNCHANGED storeVars

\* The next dead pool, in map order, or the end of reap.
ReapNext(r) ==
    /\ reaper[r].pc = "find"
    /\ reaper[r].todo = {}
    /\ \/ /\ reaper[r].stale \cup reaper[r].gone = {}
          /\ ReaperGoto(r, "idle", NoPool)
       \/ \E q \in reaper[r].stale : ReaperGoto(r, "requeue", q)
       \/ \E q \in reaper[r].gone : ReaperGoto(r, "srem", q)
    /\ UNCHANGED storeVars

\* Faulty variant: the heartbeat is deleted before the jobs are requeued.
ReapRequeueLate(r) ==
    LET q == reaper[r].cur IN
    /\ reaper[r].pc = "requeue"
    /\ heartbeat' = [heartbeat EXCEPT ![q] = "absent"]
    /\ ReaperGoto(r, "srem", q)
    /\ UNCHANGED <<listVars, lockVars, zset, workerPools, ctlVars, history>>

\* requeueInProgressJobs: call the script until it returns nil.
ReapRequeue(r) ==
    LET q == reaper[r].cur IN
    /\ reaper[r].pc = "requeue"
    /\ \/ /\ LuaReenqueueJob(q, Handles[q])
          /\ UNCHANGED reaper
       \/ /\ NothingInProgress(q, Handles[q])
          /\ ReaperGoto(r, "del", q)
          /\ UNCHANGED <<listVars, lockVars>>
    /\ UNCHANGED <<zset, regVars, ctlVars, history>>

ReapDel(r) ==
    LET q == reaper[r].cur IN
    /\ reaper[r].pc = "del"
    /\ heartbeat' = [heartbeat EXCEPT ![q] = "absent"]
    /\ ReaperGoto(r, "srem", q)
    /\ UNCHANGED <<listVars, lockVars, zset, workerPools, ctlVars, history>>

ReapSrem(r) ==
    LET q == reaper[r].cur IN
    /\ reaper[r].pc = "srem"
    /\ workerPools' = workerPools \ {q}
    /\ ReaperGoto(r, "clean", q)
    /\ UNCHANGED <<listVars, lockVars, zset, heartbeat, ctlVars, history>>

\* cleanStaleLockInfo, and on to the next dead pool.
ReapClean(r) ==
    LET q == reaper[r].cur IN
    /\ reaper[r].pc = "clean"
    /\ LuaReapStaleLocks(q, LockJobTypes(r))
    /\ ReaperBecomes(r, "find", NoPool, {}, reaper[r].stale \ {q}, reaper[r].gone \ {q})
    /\ UNCHANGED <<listVars, zset, regVars, ctlVars, history>>

\* A Redis call fails: reap returns the error and the loop waits for its timer.
ReapAbort(r) ==
    /\ reaper[r].pc \notin {"off", "idle"}
    /\ ReaperBecomes(r, "idle", NoPool, {}, {}, {})
    /\ UNCHANGED storeVars
=============================================================================
