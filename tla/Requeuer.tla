------------------------------- MODULE Requeuer -------------------------------
(***************************************************************************)
(* The requeuers of a pool (requeuer.go): the retrier works on the retry   *)
(* set and the scheduler on the scheduled set, both with                   *)
(* redisLuaZremLpushCmd and the names of their own pool.                   *)
(***************************************************************************)
EXTENDS RedisStore

(***************************************************************************)
(* redisLuaZremLpushCmd: a due job goes to its queue if this pool knows    *)
(* the name, and to the dead set otherwise.                                *)
(***************************************************************************)
LuaZremLpush(p, key, e) ==
    LET n == NameOf[e.id] IN
    \/ /\ n \in Handles[p]
       /\ zset' = [zset EXCEPT ![key] = @ \ {e}]
       /\ LPush(n, e)
    \/ /\ n \notin Handles[p]
       /\ zset' = [zset EXCEPT ![key] = @ \ {e}, !["dead"] = @ \cup {e}]
       /\ UNCHANGED queue

\* process: any member may be the first due one.
RequeuerProcess(p, key) ==
    /\ \E e \in zset[key] : LuaZremLpush(p, key, e)
    /\ UNCHANGED <<inprog, lockVars, regVars, ctlVars, history>>
=============================================================================
