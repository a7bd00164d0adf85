------------------------------- MODULE Enqueuer -------------------------------
(***************************************************************************)
(* Enqueuer.Enqueue and EnqueueIn/EnqueueAt (enqueue.go): a new job enters *)
(* its queue, or the scheduled set until it is due.                        *)
(***************************************************************************)
EXTENDS RedisStore

CONSTANT Delayed    \* the jobs enqueued with EnqueueIn or EnqueueAt

ASSUME DelayedAssumption == Delayed \subseteq Jobs

NewEntry(j) == [id |-> j, fails |-> 0]

Enqueue(j) ==
    /\ j \in Jobs \ (enqueued \cup Delayed)
    /\ LPush(NameOf[j], NewEntry(j))
    /\ enqueued' = enqueued \cup {j}
    /\ UNCHANGED <<inprog, lockVars, zset, regVars, ctlVars, settled>>

EnqueueIn(j) ==
    /\ j \in Delayed \ enqueued
    /\ zset' = [zset EXCEPT !["scheduled"] = @ \cup {NewEntry(j)}]
    /\ enqueued' = enqueued \cup {j}
    /\ UNCHANGED <<listVars, lockVars, regVars, ctlVars, settled>>
=============================================================================
