-------------------------------- MODULE Client --------------------------------
(***************************************************************************)
(* What an operator does to jobs: the job commands of Client (client.go,   *)
(* with the scripts redisLuaDeleteSingleCmd, redisLuaRequeueSingleDeadCmd  *)
(* and redisLuaRequeueAllDeadCmd), and the paused key, which the README    *)
(* tells operators to set themselves.                                      *)
(***************************************************************************)
EXTENDS RedisStore

\* Faulty variant: the failure count is not cleared.
LuaRequeueDeadWithFails(e) ==
    /\ NameOf[e.id] \in KnownJobs
    /\ zset' = [zset EXCEPT !["dead"] = @ \ {e}]
    /\ LPush(NameOf[e.id], e)

(***************************************************************************)
(* redisLuaRequeueSingleDeadCmd, and redisLuaRequeueAllDeadCmd for one job:*)
(* back to the queue with the failure count cleared.  A job whose name is  *)
(* not known stays dead.  The batches of the second are single jobs here,  *)
(* which allows more interleavings than the script does.                   *)
(***************************************************************************)
LuaRequeueDead(e) ==
    /\ NameOf[e.id] \in KnownJobs
    /\ zset' = [zset EXCEPT !["dead"] = @ \ {e}]
    /\ LPush(NameOf[e.id], [e EXCEPT !.fails = 0])

RetryDeadJob ==
    /\ \E e \in zset["dead"] : LuaRequeueDead(e)
    /\ UNCHANGED <<inprog, lockVars, regVars, ctlVars, history>>

\* redisLuaDeleteSingleCmd.
LuaDeleteSingle(key, e) == zset' = [zset EXCEPT ![key] = @ \ {e}]

(***************************************************************************)
(* deleteZsetJob, for DeleteDeadJob, DeleteRetryJob and DeleteScheduledJob,*)
(* and one job of DeleteAllDeadJobs.                                       *)
(***************************************************************************)
DeleteZsetJob ==
    /\ \E key \in Zsets : \E e \in zset[key] :
        /\ LuaDeleteSingle(key, e)
        /\ settled' = settled \cup {e.id}
    /\ UNCHANGED <<listVars, lockVars, regVars, ctlVars, enqueued>>

TogglePaused ==
    /\ \E n \in Names : paused' = [paused EXCEPT ![n] = ~@]
    /\ UNCHANGED <<listVars, lockVars, zset, regVars, maxConc, unlimited, history>>
=============================================================================
