--------------------------- MODULE WorkSystemProofs ---------------------------
(***************************************************************************)
(* What holds in WorkSystem for any number of pools, workers, jobs and     *)
(* names: types, that no job is lost, and that Stop leaves nothing behind. *)
(* Every step of the system is a JobStep of module JobProofs, by idle      *)
(* workers on behalf of their pool, and by Stop and reapers on behalf of   *)
(* the pools they are at.  ServingWorkers, BeatersFollow and LimitsWritten *)
(* hold whatever happens, and StopLeavesNothing when no call of Stop fails.*)
(***************************************************************************)
EXTENDS WorkSystem, JobProofs

\* The obligations are small, but it takes time to translate them.
USE Zenon

-----------------------------------------------------------------------------
(* Types. *)

(***************************************************************************)
(* redisLuaFetchJob keeps the lists and the lock counters well typed.      *)
(***************************************************************************)
LEMMA FetchType ==
    ASSUME StoreTypeOK, NEW p \in Pools, NEW n \in Names, LuaFetchJob(p, n)
    PROVE  /\ queue' \in [Names -> Seq(Entry)]
           /\ inprog' \in [Pools -> [Names -> Seq(Entry)]]
           /\ lock' \in [Names -> Int]
           /\ lockInfo' \in [Names -> [Pools -> Int]]
           /\ lockField' \in [Names -> SUBSET Pools]
           /\ Last(queue[n]) \in Entry
<1>1. queue[n] \in Seq(Entry) /\ queue[n] # <<>> /\ inprog[p][n] \in Seq(Entry)
    BY DEF StoreTypeOK, LuaFetchJob, Fetchable
<1>2. Front(queue[n]) \in Seq(Entry) /\ Last(queue[n]) \in Entry
    BY <1>1, RPopMembers
<1>3. Cons(Last(queue[n]), inprog[p][n]) \in Seq(Entry)
    BY ZenonT(120), <1>1, <1>2, ConsMembers
<1>4. AddLock(n, p, 1)
    BY DEF LuaFetchJob
<1> QED
    BY <1>2, <1>3, <1>4, AddLockType, SMT DEF StoreTypeOK, LuaFetchJob

(***************************************************************************)
(* redisLuaReenqueueJob keeps the lists and the lock counters well typed.  *)
(***************************************************************************)
LEMMA ReenqueueType ==
    ASSUME StoreTypeOK, NEW p \in Pools, NEW types \in SUBSET Names, LuaReenqueueJob(p, types)
    PROVE  /\ queue' \in [Names -> Seq(Entry)]
           /\ inprog' \in [Pools -> [Names -> Seq(Entry)]]
           /\ lock' \in [Names -> Int]
           /\ lockInfo' \in [Names -> [Pools -> Int]]
           /\ lockField' \in [Names -> SUBSET Pools]
<1>1. PICK n \in types :
        /\ inprog[p][n] # <<>>
        /\ LPush(n, Last(inprog[p][n]))
        /\ inprog' = [inprog EXCEPT ![p][n] = Front(@)]
        /\ AddLock(n, p, -1)
    BY ZenonT(120) DEF LuaReenqueueJob
<1>2. queue[n] \in Seq(Entry) /\ inprog[p][n] \in Seq(Entry)
    BY DEF StoreTypeOK
<1>3. Front(inprog[p][n]) \in Seq(Entry) /\ Last(inprog[p][n]) \in Entry
    BY <1>1, <1>2, RPopMembers
<1>4. Cons(Last(inprog[p][n]), queue[n]) \in Seq(Entry)
    BY ZenonT(120), <1>2, <1>3, ConsMembers
<1>5. /\ lock' \in [Names -> Int]
      /\ lockInfo' \in [Names -> [Pools -> Int]]
      /\ lockField' \in [Names -> SUBSET Pools]
    <2>1. -1 \in Int
        BY SMT
    <2> QED
        BY <1>1, n \in Names, <2>1, AddLockType
<1>6. queue' \in [Names -> Seq(Entry)]
    BY <1>1, <1>4 DEF StoreTypeOK, LPush
<1>7. inprog' \in [Pools -> [Names -> Seq(Entry)]]
    BY <1>1, <1>3 DEF StoreTypeOK
<1> QED
    BY <1>5, <1>6, <1>7

(***************************************************************************)
(* redisLuaReapStaleLocks keeps the lock counters well typed.              *)
(***************************************************************************)
LEMMA ReapLocksType ==
    ASSUME StoreTypeOK, NEW p \in Pools, NEW types \in SUBSET Names, LuaReapStaleLocks(p, types)
    PROVE  /\ lock' \in [Names -> Int]
           /\ lockInfo' \in [Names -> [Pools -> Int]]
           /\ lockField' \in [Names -> SUBSET Pools]
BY SMT DEF StoreTypeOK, LuaReapStaleLocks

(***************************************************************************)
(* LPUSH of an entry keeps the queues well typed.                          *)
(***************************************************************************)
LEMMA LPushType ==
    ASSUME StoreTypeOK, NEW n \in Names, NEW e \in Entry, LPush(n, e)
    PROVE  queue' \in [Names -> Seq(Entry)]
<1>1. Cons(e, queue[n]) \in Seq(Entry)
    BY ConsMembers, SMT DEF StoreTypeOK
<1> QED
    BY <1>1 DEF StoreTypeOK, LPush

(***************************************************************************)
(* The LREM of removeJobFromInProgress keeps the in-progress lists well    *)
(* typed.                                                                  *)
(***************************************************************************)
LEMMA LRemType ==
    ASSUME StoreTypeOK, NEW p \in Pools, NEW n \in Names, NEW e,
           inprog' = [inprog EXCEPT ![p][n] = RemoveFirst(@, e)]
    PROVE  inprog' \in [Pools -> [Names -> Seq(Entry)]]
<1>1. RemoveFirst(inprog[p][n], e) \in Seq(Entry)
    BY LRemMembers, SMT DEF StoreTypeOK
<1> QED
    BY <1>1 DEF StoreTypeOK

-----------------------------------------------------------------------------
(***************************************************************************)
(* The empty Redis and the pools before Start are well typed.              *)
(***************************************************************************)
THEOREM TypeInit == Init => TypeOK
<1> SUFFICES ASSUME Init PROVE TypeOK
    OBVIOUS
<1>1. StoreTypeOK
    BY SMT DEF Init, StoreInit, StoreTypeOK
<1>2. WorkerTypeOK
    BY DEF Init, WorkerInit, WorkerTypeOK, Busy
<1>3. ReaperTypeOK
    BY DEF Init, ReaperInit, ReaperTypeOK, ReaperAt, ReaperPcs, Reaping
<1>4. PoolTypeOK
    BY DEF Init, PoolInit, PoolTypeOK, Phases
<1>5. faults \in 0 .. MaxFaults
    BY SystemAssumption, SMT DEF Init
<1> QED
    BY <1>1, <1>2, <1>3, <1>4, <1>5 DEF TypeOK

(***************************************************************************)
(* A worker that goes on with an entry, or to a state without one, keeps   *)
(* the worker variables well typed.                                        *)
(***************************************************************************)
LEMMA BecomeType ==
    ASSUME WorkerTypeOK, NEW w \in Workers, NEW pc \in {"off", "idle"} \cup Busy,
           NEW job \in Entry \cup {NoJob}, pc \in Busy => job \in Entry, Become(w, pc, job)
    PROVE  WorkerTypeOK'
BY DEF WorkerTypeOK, Become

(***************************************************************************)
(* Enqueue and EnqueueIn keep the types.                                   *)
(***************************************************************************)
LEMMA TypeEnqueuer ==
    ASSUME TypeOK, NEW j \in Jobs, EnqueuerStep(j)
    PROVE  TypeOK'
<1>1. NewEntry(j) \in Entry /\ NameOf[j] \in Names
    BY StoreAssumption DEF NewEntry, Entry
<1>2. CASE Enqueue(j)
    <2>1. queue' \in [Names -> Seq(Entry)]
        BY <1>1, <1>2, LPushType DEF TypeOK, Enqueue
    <2> QED
        BY <1>2, <2>1 DEF TypeOK, EnqueuerStep, Enqueue, StoreTypeOK, WorkerTypeOK, ReaperTypeOK,
            PoolTypeOK, workerVars, poolVars, lockVars, regVars, ctlVars
<1>3. CASE EnqueueIn(j)
    <2>1. zset' \in [Zsets -> SUBSET Entry]
        BY <1>1, <1>3 DEF TypeOK, EnqueueIn, StoreTypeOK, Zsets
    <2> QED
        BY <1>3, <2>1 DEF TypeOK, EnqueuerStep, EnqueueIn, StoreTypeOK, WorkerTypeOK, ReaperTypeOK,
            PoolTypeOK, workerVars, poolVars, listVars, lockVars, regVars, ctlVars
<1> QED
    BY <1>2, <1>3 DEF EnqueuerStep

(***************************************************************************)
(* A step that does not touch Redis keeps the types of its keys.           *)
(***************************************************************************)
LEMMA StoreFrame == StoreTypeOK /\ UNCHANGED storeVars => StoreTypeOK'
BY DEF StoreTypeOK, storeVars, listVars, lockVars, regVars, ctlVars, history

(***************************************************************************)
(* A step without workers keeps the types of the workers.                  *)
(***************************************************************************)
LEMMA WorkerFrame == WorkerTypeOK /\ UNCHANGED workerVars => WorkerTypeOK'
BY DEF WorkerTypeOK, workerVars

(***************************************************************************)
(* A step without Start, Stop, crash or heartbeat keeps the types of the   *)
(* pools.                                                                  *)
(***************************************************************************)
LEMMA PoolFrame == PoolTypeOK /\ UNCHANGED poolVars => PoolTypeOK'
BY DEF PoolTypeOK, poolVars

(***************************************************************************)
(* A step without reapers keeps the types of the reapers.                  *)
(***************************************************************************)
LEMMA ReaperFrame == ReaperTypeOK /\ UNCHANGED reaper => ReaperTypeOK'
BY DEF ReaperTypeOK

(***************************************************************************)
(* Counting a fault, or not, keeps the count within its bound.             *)
(***************************************************************************)
LEMMA FaultsType ==
    ASSUME faults \in 0 .. MaxFaults, CountFault \/ UNCHANGED faults
    PROVE  faults' \in 0 .. MaxFaults
BY SystemAssumption, SMT DEF CountFault

(***************************************************************************)
(* fetchJob keeps the types, and gives the worker an entry of its queue.   *)
(***************************************************************************)
LEMMA TypeFetch ==
    ASSUME TypeOK, NEW w \in Workers, FetchJob(w)
    PROVE  StoreTypeOK' /\ WorkerTypeOK'
<1>1. PICK n \in Names : LuaFetchJob(PoolOf[w], n) /\ Become(w, "running", Last(queue[n]))
    BY DEF FetchJob
<1>2. PoolOf[w] \in Pools
    BY WorkerAssumption
<1>3. /\ queue' \in [Names -> Seq(Entry)]
      /\ inprog' \in [Pools -> [Names -> Seq(Entry)]]
      /\ lock' \in [Names -> Int]
      /\ lockInfo' \in [Names -> [Pools -> Int]]
      /\ lockField' \in [Names -> SUBSET Pools]
      /\ Last(queue[n]) \in Entry
    BY <1>1, <1>2, FetchType DEF TypeOK
<1>4. StoreTypeOK'
    BY <1>3 DEF TypeOK, StoreTypeOK, FetchJob, regVars, ctlVars, history
<1>5. WorkerTypeOK'
    BY <1>1, <1>3, BecomeType DEF TypeOK, Busy
<1> QED
    BY <1>4, <1>5

(***************************************************************************)
(* A fetch whose reply is lost keeps the types.                            *)
(***************************************************************************)
LEMMA TypeFetchLost ==
    ASSUME TypeOK, NEW w \in Workers, FetchLost(w)
    PROVE  StoreTypeOK' /\ WorkerTypeOK'
<1>1. PICK n \in Names : LuaFetchJob(PoolOf[w], n)
    BY DEF FetchLost
<1>2. PoolOf[w] \in Pools
    BY WorkerAssumption
<1>3. /\ queue' \in [Names -> Seq(Entry)]
      /\ inprog' \in [Pools -> [Names -> Seq(Entry)]]
      /\ lock' \in [Names -> Int]
      /\ lockInfo' \in [Names -> [Pools -> Int]]
      /\ lockField' \in [Names -> SUBSET Pools]
    BY <1>1, <1>2, FetchType DEF TypeOK
<1>4. StoreTypeOK'
    BY <1>3 DEF TypeOK, StoreTypeOK, FetchLost, regVars, ctlVars, history
<1> QED
    BY <1>4, WorkerFrame DEF TypeOK, FetchLost

(***************************************************************************)
(* removeJobFromInProgress keeps the types, whatever jobFate decides.      *)
(***************************************************************************)
LEMMA TypeRemove ==
    ASSUME TypeOK, NEW w \in Workers, RemoveJobFromInProgress(w)
    PROVE  StoreTypeOK' /\ WorkerTypeOK'
<1> DEFINE p == PoolOf[w]
           e == wjob[w]
           n == NameOf[e.id]
<1>1. p \in Pools /\ e \in Entry /\ n \in Names /\ Failed(e) \in Entry /\ e.id \in Jobs
      /\ Failed(e).id = e.id
    BY StoreAssumption, WorkerAssumption, SMT
        DEF TypeOK, WorkerTypeOK, RemoveJobFromInProgress, Busy, Entry, Failed
<1>2. /\ inprog' = [inprog EXCEPT ![p][n] = RemoveFirst(@, e)]
      /\ AddLock(n, p, -1)
      /\ Become(w, "idle", NoJob)
      /\ UNCHANGED <<queue, regVars, ctlVars, enqueued>>
    BY DEF RemoveJobFromInProgress
<1>3. PICK k \in {"none", "retry", "dead"}, f \in Entry : Terminate(k, f) /\ f.id = e.id
    <2>1. CASE wpc[w] = "finished"
        BY <1>1, <2>1 DEF RemoveJobFromInProgress
    <2>2. CASE wpc[w] # "finished"
        <3>1. JobFate(p, Failed(e)) \in {"none", "retry", "dead"}
            BY DEF JobFate
        <3> QED
            BY <1>1, <2>2, <3>1 DEF RemoveJobFromInProgress
    <2> QED
        BY <2>1, <2>2
<1> HIDE DEF p, e, n
<1>4. zset' \in [Zsets -> SUBSET Entry] /\ settled' \in SUBSET Jobs
    <2>1. f.id \in Jobs /\ zset \in [Zsets -> SUBSET Entry] /\ settled \in SUBSET Jobs
        BY DEF Entry, TypeOK, StoreTypeOK
    <2>2. CASE k = "none"
        BY <1>3, <2>1, <2>2 DEF Terminate
    <2>3. CASE k # "none"
        BY <1>3, <2>1, <2>3, SMTT(60) DEF Terminate, Zsets
    <2> QED
        BY <2>2, <2>3
<1>5. inprog' \in [Pools -> [Names -> Seq(Entry)]]
    BY ZenonT(120), <1>1, <1>2, LRemType DEF TypeOK
<1>6. /\ lock' \in [Names -> Int]
      /\ lockInfo' \in [Names -> [Pools -> Int]]
      /\ lockField' \in [Names -> SUBSET Pools]
    <2>1. -1 \in Int
        BY SMT
    <2> QED
        BY <1>1, <1>2, <2>1, AddLockType DEF TypeOK
<1>7. StoreTypeOK'
    BY <1>2, <1>4, <1>5, <1>6 DEF TypeOK, StoreTypeOK, regVars, ctlVars
<1>8. WorkerTypeOK'
    BY <1>2, BecomeType DEF TypeOK, Busy
<1> QED
    BY <1>7, <1>8

(***************************************************************************)
(* Every step of a worker, with or without an error, keeps the types.      *)
(***************************************************************************)
LEMMA TypeWorker ==
    ASSUME TypeOK, NEW w \in Workers, WorkerWork(w) \/ WorkerError(w)
    PROVE  TypeOK'
<1>1. StoreTypeOK' /\ WorkerTypeOK'
    <2>1. CASE RunJob(w)
        <3>1. wjob[w] \in Entry
            BY <2>1 DEF TypeOK, WorkerTypeOK, RunJob, Busy
        <3>2. WorkerTypeOK'
            BY <2>1, <3>1, BecomeType DEF TypeOK, RunJob, Busy
        <3> QED
            BY <2>1, <3>2, StoreFrame DEF TypeOK, RunJob
    <2>2. CASE ExecFails(w)
        BY <2>2, BecomeType, StoreFrame DEF TypeOK, ExecFails, Busy
    <2> QED
        BY <2>1, <2>2, TypeFetch, TypeFetchLost, TypeRemove DEF WorkerWork, WorkerError
<1>2. ReaperTypeOK' /\ PoolTypeOK' /\ faults' \in 0 .. MaxFaults
    BY ReaperFrame, PoolFrame, FaultsType DEF TypeOK, WorkerWork, WorkerError, Fault
<1> QED
    BY <1>1, <1>2 DEF TypeOK

(***************************************************************************)
(* A step of the retrier or the scheduler keeps the types.                 *)
(***************************************************************************)
LEMMA TypeRequeuer ==
    ASSUME TypeOK, NEW p \in Pools, RequeuerStep(p)
    PROVE  TypeOK'
<1>1. PICK key \in {"retry", "scheduled"} : RequeuerProcess(p, key)
    BY DEF RequeuerStep
<1>2. PICK e \in zset[key] :
        \/ /\ zset' = [zset EXCEPT ![key] = @ \ {e}]
           /\ LPush(NameOf[e.id], e)
        \/ /\ zset' = [zset EXCEPT ![key] = @ \ {e}, !["dead"] = @ \cup {e}]
           /\ UNCHANGED queue
    BY <1>1 DEF RequeuerProcess, LuaZremLpush
<1>3. e \in Entry /\ NameOf[e.id] \in Names
    BY StoreAssumption, SMT DEF TypeOK, StoreTypeOK, Zsets, Entry
<1>4. queue' \in [Names -> Seq(Entry)]
    BY <1>2, <1>3, LPushType DEF TypeOK, StoreTypeOK
<1>5. zset' \in [Zsets -> SUBSET Entry]
    <2>1. zset \in [Zsets -> SUBSET Entry] /\ key \in Zsets /\ key # "dead" /\ "dead" \in Zsets
        BY DEF TypeOK, StoreTypeOK, Zsets
    <2>2. zset[key] \ {e} \in SUBSET Entry /\ zset["dead"] \cup {e} \in SUBSET Entry
        BY <2>1, <1>3
    <2> QED
        BY <1>2, <2>1, <2>2
<1>6. StoreTypeOK'
    BY <1>1, <1>4, <1>5
        DEF TypeOK, StoreTypeOK, RequeuerProcess, lockVars, regVars, ctlVars, history
<1> QED
    BY <1>6, WorkerFrame, ReaperFrame, PoolFrame DEF TypeOK, RequeuerStep

(***************************************************************************)
(* What an operator does through Client or with the paused key keeps the   *)
(* types.                                                                  *)
(***************************************************************************)
LEMMA TypeOperator ==
    ASSUME TypeOK, OperatorStep
    PROVE  TypeOK'
<1>1. StoreTypeOK'
    <2>1. CASE RetryDeadJob
        <3>1. PICK e \in zset["dead"] :
                /\ zset' = [zset EXCEPT !["dead"] = @ \ {e}]
                /\ LPush(NameOf[e.id], [e EXCEPT !.fails = 0])
            BY ZenonT(120), <2>1 DEF RetryDeadJob, LuaRequeueDead
        <3>2. [e EXCEPT !.fails = 0] \in Entry /\ NameOf[e.id] \in Names
            <4>1. e \in [id : Jobs, fails : Nat]
                BY DEF TypeOK, StoreTypeOK, Zsets, Entry
            <4> QED
                BY <4>1, StoreAssumption DEF Entry
        <3>3. queue' \in [Names -> Seq(Entry)]
            BY <3>1, <3>2, LPushType DEF TypeOK
        <3>4. zset' \in [Zsets -> SUBSET Entry]
            BY <3>1 DEF TypeOK, StoreTypeOK, Zsets
        <3> QED
            BY <2>1, <3>3, <3>4
                DEF TypeOK, StoreTypeOK, RetryDeadJob, lockVars, regVars, ctlVars, history
    <2>2. CASE DeleteZsetJob
        <3>1. PICK key \in Zsets : \E e \in zset[key] :
                /\ zset' = [zset EXCEPT ![key] = @ \ {e}]
                /\ settled' = settled \cup {e.id}
            BY ZenonT(120), <2>2 DEF DeleteZsetJob, LuaDeleteSingle
        <3>2. zset' \in [Zsets -> SUBSET Entry] /\ settled' \in SUBSET Jobs
            BY <3>1, SMT DEF TypeOK, StoreTypeOK, Entry
        <3> QED
            BY <2>2, <3>2
                DEF TypeOK, StoreTypeOK, DeleteZsetJob, listVars, lockVars, regVars, ctlVars
    <2>3. CASE TogglePaused
        <3>1. paused' \in [Names -> BOOLEAN]
            BY <2>3 DEF TypeOK, StoreTypeOK, TogglePaused
        <3> QED
            BY <2>3, <3>1
                DEF TypeOK, StoreTypeOK, TogglePaused, listVars, lockVars, regVars, history
    <2> QED
        BY <2>1, <2>2, <2>3 DEF OperatorStep
<1> QED
    BY <1>1, WorkerFrame, ReaperFrame, PoolFrame DEF TypeOK, OperatorStep

(***************************************************************************)
(* A step of the dead pool reaper that names a pool to work on keeps the   *)
(* reaper well-typed.                                                      *)
(***************************************************************************)
LEMMA ReaperBecomesType ==
    ASSUME ReaperTypeOK, NEW r \in Pools, NEW pc \in ReaperPcs, NEW q \in Pools \cup {NoPool},
           NEW todo \in SUBSET Pools, NEW stale \in SUBSET Pools, NEW gone \in SUBSET Pools,
           pc \in Reaping => q \in Pools, ReaperBecomes(r, pc, q, todo, stale, gone)
    PROVE  ReaperTypeOK'
BY DEF ReaperTypeOK, ReaperBecomes

(***************************************************************************)
(* Every call of a reaper, and its failure, keeps the types; a reaper at   *)
(* work always has a pool at hand.                                         *)
(***************************************************************************)
LEMMA TypeReaper ==
    ASSUME TypeOK, NEW r \in Pools, ReaperWork(r) \/ ReaperError(r)
    PROVE  TypeOK'
<1>0. /\ ReaperTypeOK
      /\ reaper[r].pc \in ReaperPcs
      /\ reaper[r].pc \in Reaping => reaper[r].cur \in Pools
      /\ reaper[r].todo \in SUBSET Pools
      /\ reaper[r].stale \in SUBSET Pools
      /\ reaper[r].gone \in SUBSET Pools
    BY DEF TypeOK, ReaperTypeOK
<1>a. ASSUME NEW pc \in ReaperPcs, NEW q \in Pools \cup {NoPool}, pc \in Reaping => q \in Pools,
             ReaperGoto(r, pc, q)
      PROVE  ReaperTypeOK'
    BY <1>0, <1>a, ReaperBecomesType DEF ReaperGoto
<1>1. StoreTypeOK' /\ ReaperTypeOK'
    <2>1. CASE ReapStart(r)
        <3>1. workerPools \in SUBSET Pools
            BY DEF TypeOK, StoreTypeOK
        <3>2. ReaperTypeOK'
            BY <2>1, <1>0, <3>1, ReaperBecomesType, SMT DEF ReapStart, ReaperPcs, Reaping
        <3> QED
            BY <2>1, <3>2, StoreFrame DEF TypeOK, ReapStart
    <2>2. ASSUME NEW q \in Pools, FindHeartbeat(r, q)
          PROVE  StoreTypeOK' /\ ReaperTypeOK'
        <3>1. /\ reaper[r].todo \ {q} \in SUBSET Pools
              /\ reaper[r].gone \cup {q} \in SUBSET Pools
              /\ heartbeat[q] \in {"absent", "fresh", "stale"}
            BY <1>0 DEF TypeOK, StoreTypeOK
        <3>2. ReaperTypeOK'
            BY ZenonT(120), <2>2, <1>0, <3>1, ReaperBecomesType DEF FindHeartbeat, ReaperPcs, Reaping
        <3> QED
            BY <2>2, <3>2, StoreFrame DEF TypeOK, FindHeartbeat
    <2>3. CASE FindJobNames(r)
        <3>1. reaper[r].stale \cup (IF heartbeat[reaper[r].cur] = "absent" THEN {} ELSE {reaper[r].cur})
                \in SUBSET Pools
            BY <2>3, <1>0 DEF FindJobNames, Reaping
        <3>2. ReaperTypeOK'
            BY ZenonT(120), <2>3, <1>0, <3>1, ReaperBecomesType DEF FindJobNames, ReaperPcs, Reaping
        <3> QED
            BY <2>3, <3>2, StoreFrame DEF TypeOK, FindJobNames
    <2>4. CASE ReapNext(r)
        <3>1. ReaperTypeOK'
            BY <2>4, <1>0, <1>a DEF ReapNext, ReaperPcs, Reaping
        <3> QED
            BY <2>4, <3>1, StoreFrame DEF TypeOK, ReapNext
    <2>5. CASE ReapRequeue(r)
        <3>1. reaper[r].cur \in Pools /\ Handles[reaper[r].cur] \in SUBSET Names
            BY <2>5, <1>0, StoreAssumption DEF ReapRequeue, Reaping
        <3>2. ReaperTypeOK'
            <4>1. CASE UNCHANGED reaper
                BY <1>0, <4>1 DEF ReaperTypeOK
            <4>2. CASE ReaperGoto(r, "del", reaper[r].cur)
                BY <3>1, <4>2, <1>a DEF ReaperPcs
            <4> QED
                BY <2>5, <4>1, <4>2 DEF ReapRequeue
        <3>3. /\ queue' \in [Names -> Seq(Entry)]
              /\ inprog' \in [Pools -> [Names -> Seq(Entry)]]
              /\ lock' \in [Names -> Int]
              /\ lockInfo' \in [Names -> [Pools -> Int]]
              /\ lockField' \in [Names -> SUBSET Pools]
            <4>1. CASE LuaReenqueueJob(reaper[r].cur, Handles[reaper[r].cur])
                BY <3>1, <4>1, ReenqueueType DEF TypeOK
            <4>2. CASE UNCHANGED <<listVars, lockVars>>
                BY <4>2 DEF TypeOK, StoreTypeOK, listVars, lockVars
            <4> QED
                BY <2>5, <4>1, <4>2 DEF ReapRequeue
        <3>4. StoreTypeOK'
            BY <2>5, <3>3 DEF TypeOK, StoreTypeOK, ReapRequeue, regVars, ctlVars, history
        <3> QED
            BY <3>2, <3>4
    <2>6. CASE ReapDel(r)
        <3>1. reaper[r].cur \in Pools
            BY <2>6, <1>0 DEF ReapDel, Reaping
        <3>2. ReaperTypeOK'
            BY <2>6, <3>1, <1>a DEF ReapDel, ReaperPcs
        <3>3. StoreTypeOK'
            BY <2>6, <3>1 DEF TypeOK, StoreTypeOK, ReapDel, listVars, lockVars, ctlVars, history
        <3> QED
            BY <3>2, <3>3
    <2>7. CASE ReapSrem(r)
        <3>1. ReaperTypeOK'
            BY <2>7, <1>0, <1>a DEF ReapSrem, ReaperPcs, Reaping
        <3>2. StoreTypeOK'
            BY <2>7 DEF TypeOK, StoreTypeOK, ReapSrem, listVars, lockVars, ctlVars, history
        <3> QED
            BY <3>1, <3>2
    <2>8. CASE ReapClean(r)
        <3>1. reaper[r].cur \in Pools /\ LockJobTypes(r) \in SUBSET Names
            BY <2>8, <1>0, StoreAssumption DEF ReapClean, Reaping, LockJobTypes
        <3>2. ReaperTypeOK'
            <4>1. /\ reaper[r].stale \ {reaper[r].cur} \in SUBSET Pools
                  /\ reaper[r].gone \ {reaper[r].cur} \in SUBSET Pools
                BY <1>0
            <4> QED
                BY ZenonT(120), <2>8, <1>0, <4>1, ReaperBecomesType DEF ReapClean, ReaperPcs, Reaping
        <3>3. /\ lock' \in [Names -> Int]
              /\ lockInfo' \in [Names -> [Pools -> Int]]
              /\ lockField' \in [Names -> SUBSET Pools]
            BY <2>8, <3>1, ReapLocksType DEF TypeOK, ReapClean
        <3>4. StoreTypeOK'
            BY <2>8, <3>3 DEF TypeOK, StoreTypeOK, ReapClean, listVars, regVars, ctlVars, history
        <3> QED
            BY <3>2, <3>4
    <2>9. CASE ReapAbort(r)
        <3>1. {} \in SUBSET Pools /\ "idle" \in ReaperPcs \ Reaping /\ NoPool \in Pools \cup {NoPool}
            BY DEF ReaperPcs, Reaping
        <3>2. ReaperTypeOK'
            BY ZenonT(120), <2>9, <1>0, <3>1, ReaperBecomesType DEF ReapAbort
        <3> QED
            BY <2>9, <3>2, StoreFrame DEF TypeOK, ReapAbort
    <2> QED
        BY <2>1, <2>2, <2>3, <2>4, <2>5, <2>6, <2>7, <2>8, <2>9 DEF ReaperWork, ReaperError
<1>2. WorkerTypeOK' /\ PoolTypeOK'
    BY WorkerFrame, PoolFrame DEF TypeOK, ReaperWork, ReaperError
<1>3. faults' \in 0 .. MaxFaults
    BY FaultsType DEF TypeOK, ReaperWork, ReaperError, Fault
<1> QED
    BY <1>1, <1>2, <1>3 DEF TypeOK

(***************************************************************************)
(* Starting and stopping the goroutine of a reaper keeps it well-typed.    *)
(***************************************************************************)
LEMMA ReaperAtType ==
    ASSUME ReaperTypeOK, NEW r \in Pools, NEW pc \in {"off", "idle"},
           reaper' = [reaper EXCEPT ![r] = ReaperAt(pc)]
    PROVE  ReaperTypeOK'
BY DEF ReaperTypeOK, ReaperAt, ReaperPcs, Reaping

(***************************************************************************)
(* The heartbeater, and the passing of time, keep the state well-typed.    *)
(***************************************************************************)
LEMMA TypeBeat ==
    ASSUME TypeOK, NEW p \in Pools, Beat(p) \/ Age(p)
    PROVE  TypeOK'
<1>1. faults' \in 0 .. MaxFaults
    BY FaultsType DEF TypeOK, Beat, Age, FaultUnless, Fault
<1>2. CASE Heartbeat(p)
    BY <1>1, <1>2, WorkerFrame, ReaperFrame
        DEF TypeOK, Heartbeat, StoreTypeOK, PoolTypeOK, listVars, lockVars, ctlVars, history
<1>3. CASE HeartbeatSadd(p)
    BY <1>1, <1>3, WorkerFrame, ReaperFrame
        DEF TypeOK, HeartbeatSadd, StoreTypeOK, PoolTypeOK, listVars, lockVars, ctlVars, history
<1>4. CASE HeartbeatHmset(p)
    BY <1>1, <1>4, WorkerFrame, ReaperFrame
        DEF TypeOK, HeartbeatHmset, StoreTypeOK, PoolTypeOK, listVars, lockVars, ctlVars, history
<1>5. CASE HeartbeatAges(p)
    BY <1>1, <1>5, WorkerFrame, ReaperFrame, PoolFrame
        DEF TypeOK, HeartbeatAges, StoreTypeOK, listVars, lockVars, ctlVars, history
<1> QED
    BY <1>2, <1>3, <1>4, <1>5 DEF Beat, Age

(***************************************************************************)
(* Start runs with some of its SETs failing, and only for a new pool when  *)
(* there are no restarts.                                                  *)
(***************************************************************************)
LEMMA StartOf ==
    ASSUME NEW p, PoolStart(p)
    PROVE  /\ \E unwritten \in SUBSET Handles[p] : Start(p, unwritten)
           /\ phase[p] = "new" \/ "restart" \in Env
BY DEF PoolStart, FaultUnless, Fault

(***************************************************************************)
(* WorkerPool.Start keeps the state well-typed.                            *)
(***************************************************************************)
LEMMA TypeStart ==
    ASSUME TypeOK, NEW p \in Pools, PoolStart(p)
    PROVE  TypeOK'
<1>1. faults' \in 0 .. MaxFaults
    BY FaultsType DEF TypeOK, PoolStart, FaultUnless, Fault
<1>s. PICK unwritten \in SUBSET Handles[p] : Start(p, unwritten)
    BY StartOf
<1>2. PoolTypeOK'
    BY <1>s DEF TypeOK, PoolTypeOK, Start, Goto, Phases
<1>3. ReaperTypeOK'
    BY <1>s, ZenonT(120), ReaperAtType DEF TypeOK, Start
<1>4. WorkerTypeOK'
    BY <1>s, ZenonT(120) DEF TypeOK, WorkerTypeOK, Start, Busy
<1>5. maxConc' \in [Names -> Nat] /\ unlimited' \in SUBSET Names
    BY <1>s, StoreAssumption DEF TypeOK, StoreTypeOK, Start
<1>6. StoreTypeOK'
    BY <1>s, <1>5 DEF TypeOK, StoreTypeOK, Start, listVars, lockVars, regVars, history
<1> QED
    BY <1>1, <1>2, <1>3, <1>4, <1>6 DEF TypeOK

(***************************************************************************)
(* The calls of WorkerPool.Stop keep the state well-typed, also when one   *)
(* of them fails.                                                          *)
(***************************************************************************)
LEMMA TypeStop ==
    ASSUME TypeOK, NEW p \in Pools, PoolStop(p) \/ StopWork(p) \/ PoolStopError(p)
    PROVE  TypeOK'
<1>1. faults' \in 0 .. MaxFaults
    BY FaultsType DEF TypeOK, PoolStop, StopWork, PoolStopError, Fault
<1>2. phase \in [Pools -> Phases] /\ beater \in [Pools -> {"off", "begin", "on", "half"}]
    BY DEF TypeOK, PoolTypeOK
<1>3. Handles[p] \in SUBSET Names
    BY StoreAssumption
<1>4. CASE PoolStop(p)
    BY <1>4, <1>1, <1>2, StoreFrame, WorkerFrame, ReaperFrame
        DEF TypeOK, PoolStop, Stop, Goto, PoolTypeOK, Phases
<1>5. ASSUME NEW w \in WorkersOf(p), StopWorker(w)
      PROVE  TypeOK'
    <2>1. w \in Workers
        BY DEF WorkersOf
    <2>2. WorkerTypeOK'
        BY <1>5, <2>1, BecomeType DEF TypeOK, StopWorker, Busy
    <2> QED
        BY <1>5, <1>1, <2>2, StoreFrame, ReaperFrame, PoolFrame DEF TypeOK, StopWorker
<1>6. CASE StopWait(p)
    BY <1>6, <1>1, <1>2, StoreFrame, WorkerFrame, ReaperFrame
        DEF TypeOK, StopWait, Goto, PoolTypeOK, Phases
<1>7. CASE StopRequeue(p)
    <2>1. PoolTypeOK'
        BY <1>7, <1>2 DEF StopRequeue, Goto, PoolTypeOK, Phases
    <2>2. /\ queue' \in [Names -> Seq(Entry)]
          /\ inprog' \in [Pools -> [Names -> Seq(Entry)]]
          /\ lock' \in [Names -> Int]
          /\ lockInfo' \in [Names -> [Pools -> Int]]
          /\ lockField' \in [Names -> SUBSET Pools]
        <3>1. CASE LuaReenqueueJob(p, Handles[p])
            BY <1>3, <3>1, ReenqueueType DEF TypeOK
        <3>2. CASE UNCHANGED <<listVars, lockVars>>
            BY <3>2 DEF TypeOK, StoreTypeOK, listVars, lockVars
        <3> QED
            BY <1>7, <3>1, <3>2 DEF StopRequeue
    <2>3. StoreTypeOK'
        BY ZenonT(120), <1>7, <2>2 DEF TypeOK, StoreTypeOK, StopRequeue, regVars, ctlVars, history
    <2> QED
        BY <1>7, <1>1, <2>1, <2>3, WorkerFrame, ReaperFrame DEF TypeOK, StopRequeue
<1>8. CASE StopClean(p)
    <2>1. PoolTypeOK'
        BY <1>8, <1>2 DEF StopClean, Goto, PoolTypeOK, Phases
    <2>2. /\ lock' \in [Names -> Int]
          /\ lockInfo' \in [Names -> [Pools -> Int]]
          /\ lockField' \in [Names -> SUBSET Pools]
        BY <1>8, <1>3, ReapLocksType DEF TypeOK, StopClean
    <2>3. StoreTypeOK'
        BY ZenonT(120), <1>8, <2>2 DEF TypeOK, StoreTypeOK, StopClean, listVars, regVars, ctlVars, history
    <2> QED
        BY ZenonT(120), <1>8, <1>1, <2>1, <2>3, WorkerFrame, ReaperFrame DEF TypeOK, StopClean
<1>9. CASE StopSrem(p)
    <2>1. PoolTypeOK'
        BY <1>9, <1>2 DEF StopSrem, Goto, PoolTypeOK, Phases
    <2>2. StoreTypeOK'
        BY <1>9 DEF TypeOK, StoreTypeOK, StopSrem, listVars, lockVars, ctlVars, history
    <2> QED
        BY <1>9, <1>1, <2>1, <2>2, WorkerFrame, ReaperFrame DEF TypeOK, StopSrem
<1>10. CASE StopDel(p)
    <2>1. PoolTypeOK'
        BY <1>10, <1>2 DEF StopDel, Goto, PoolTypeOK, Phases
    <2>2. StoreTypeOK'
        BY <1>10 DEF TypeOK, StoreTypeOK, StopDel, listVars, lockVars, ctlVars, history
    <2> QED
        BY <1>10, <1>1, <2>1, <2>2, WorkerFrame, ReaperFrame DEF TypeOK, StopDel
<1>11. CASE StopRest(p)
    <2>1. PoolTypeOK'
        BY <1>11, <1>2 DEF StopRest, Goto, PoolTypeOK, Phases
    <2>2. ReaperTypeOK'
        BY ZenonT(120), <1>11, ReaperAtType DEF TypeOK, StopRest
    <2> QED
        BY <1>11, <1>1, <2>1, <2>2, StoreFrame, WorkerFrame DEF TypeOK, StopRest
<1>12. CASE StopError(p)
    <2>1. PoolTypeOK'
        BY <1>12, <1>2 DEF StopError, Goto, PoolTypeOK, Phases
    <2> QED
        BY <1>12, <1>1, <2>1, StoreFrame, WorkerFrame, ReaperFrame DEF TypeOK, StopError
<1> QED
    BY <1>4, <1>5, <1>6, <1>7, <1>8, <1>9, <1>10, <1>11, <1>12 DEF StopWork, PoolStopError

(***************************************************************************)
(* The death of a pool's process keeps the state well-typed.               *)
(***************************************************************************)
LEMMA TypeCrash ==
    ASSUME TypeOK, NEW p \in Pools, PoolCrash(p)
    PROVE  TypeOK'
<1>1. faults' \in 0 .. MaxFaults
    BY FaultsType DEF TypeOK, PoolCrash, FaultUnless, Fault
<1>2. PoolTypeOK'
    BY DEF TypeOK, PoolTypeOK, PoolCrash, Crash, Goto, Phases
<1>3. ReaperTypeOK'
    BY ZenonT(120), ReaperAtType DEF TypeOK, PoolCrash, Crash
<1>4. WorkerTypeOK'
    BY DEF TypeOK, WorkerTypeOK, PoolCrash, Crash, Busy
<1> QED
    BY <1>1, <1>2, <1>3, <1>4, StoreFrame DEF TypeOK, PoolCrash, Crash

(***************************************************************************)
(* Every step of the system, and a step of nobody, keeps the state         *)
(* well-typed.                                                             *)
(***************************************************************************)
THEOREM TypeNext == TypeOK /\ [Next]_vars => TypeOK'
<1> SUFFICES ASSUME TypeOK, [Next]_vars PROVE TypeOK'
    OBVIOUS
<1>1. CASE Next
    BY <1>1, TypeEnqueuer, TypeWorker, TypeRequeuer, TypeReaper, TypeBeat, TypeStart, TypeStop,
       TypeCrash, TypeOperator
        DEF Next, PoolStep
<1>2. CASE UNCHANGED vars
    BY <1>2, StoreFrame, WorkerFrame, ReaperFrame, PoolFrame DEF TypeOK, vars
<1> QED
    BY <1>1, <1>2

(***************************************************************************)
(* In every state that the pools, clients and faults can reach, for any    *)
(* number of pools, workers and jobs, every Redis key and every goroutine  *)
(* has a value of its type; a busy worker has a job, and a reaper at work  *)
(* has a pool.                                                             *)
(***************************************************************************)
THEOREM TypeCorrect == Spec => []TypeOK
<1> QED
    BY TypeInit, TypeNext, PTL DEF Spec

-----------------------------------------------------------------------------
(* Pools, heartbeaters and limits. *)

\* The workers of the pool take jobs: Start has returned, Stop has not joined them.
Serving(p) == phase[p] \in {"started", "stopping"}

\* The pool has stopped its heartbeater, or its process is dead.
Departed(p) == phase[p] \in {"unbeat2", "quiesce", "stopped", "crashed"}

Emptied(p) == NothingInProgress(p, Names)

(***************************************************************************)
(* Only the workers of a serving pool run: Stop waits for them, and they   *)
(* die with their process.                                                 *)
(***************************************************************************)
ServingWorkers == \A w \in Workers : wpc[w] # "off" => Serving(PoolOf[w])

(***************************************************************************)
(* The heartbeater runs from Start until Stop has sent removeHeartbeat or  *)
(* the process dies.                                                       *)
(***************************************************************************)
BeatersFollow ==
    \A p \in Pools : (phase[p] = "new" \/ Departed(p)) <=> beater[p] = "off"

(***************************************************************************)
(* Start has written the limits of the names before the workers run, where *)
(* the SET did not fail, and no other pool writes other limits.            *)
(***************************************************************************)
LimitsWritten ==
    \A p \in Pools : phase[p] # "new" =>
        \A n \in Handles[p] : maxConc[n] = MaxConcurrency[n] \/ n \in unlimited

(***************************************************************************)
(* The effects of a step, by the part of the system that takes it: what it *)
(* leaves alone.                                                           *)
(***************************************************************************)
LEMMA Frames ==
    /\ \A j \in Jobs : EnqueuerStep(j) =>
        UNCHANGED <<workerVars, reaper, poolVars, inprog, lockVars, regVars, ctlVars, settled>>
    /\ \A w \in Workers : WorkerWork(w) \/ WorkerError(w) =>
        UNCHANGED <<reaper, poolVars, regVars, ctlVars, enqueued>>
    /\ \A p \in Pools : RequeuerStep(p) =>
        UNCHANGED <<workerVars, reaper, poolVars, inprog, lockVars, regVars, ctlVars, history>>
    /\ \A p \in Pools : Beat(p) \/ Age(p) =>
        UNCHANGED <<phase, workerVars, reaper, listVars, lockVars, zset, ctlVars, history>>
    /\ \A p \in Pools : PoolStart(p) =>
        UNCHANGED <<wjob, listVars, lockVars, zset, regVars, paused, history>>
    /\ \A p \in Pools : PoolStop(p) \/ PoolStopError(p) =>
        UNCHANGED <<workerVars, reaper, storeVars>>
    /\ \A p \in Pools : PoolCrash(p) => UNCHANGED storeVars
    /\ OperatorStep =>
        /\ UNCHANGED <<workerVars, reaper, poolVars, inprog, lockVars, regVars, enqueued>>
        /\ UNCHANGED <<maxConc, unlimited>>
<1>1. ASSUME NEW j \in Jobs, EnqueuerStep(j)
      PROVE  UNCHANGED <<workerVars, reaper, poolVars, inprog, lockVars, regVars, ctlVars, settled>>
    BY <1>1 DEF EnqueuerStep, Enqueue, EnqueueIn, listVars
<1>2. ASSUME NEW w \in Workers, WorkerWork(w) \/ WorkerError(w)
      PROVE  UNCHANGED <<reaper, poolVars, regVars, ctlVars, enqueued>>
    BY <1>2 DEF WorkerWork, WorkerError, FetchJob, FetchLost, RunJob, RemoveJobFromInProgress,
        ExecFails, storeVars, history
<1>3. ASSUME NEW p \in Pools, RequeuerStep(p)
      PROVE  UNCHANGED <<workerVars, reaper, poolVars, inprog, lockVars, regVars, ctlVars, history>>
    BY <1>3 DEF RequeuerStep, RequeuerProcess
<1>4. ASSUME NEW p \in Pools, Beat(p) \/ Age(p)
      PROVE  UNCHANGED <<phase, workerVars, reaper, listVars, lockVars, zset, ctlVars, history>>
    BY <1>4 DEF Beat, Age, Heartbeat, HeartbeatSadd, HeartbeatHmset, HeartbeatAges, poolVars
<1>5. ASSUME NEW p \in Pools, PoolStart(p)
      PROVE  UNCHANGED <<wjob, listVars, lockVars, zset, regVars, paused, history>>
    BY <1>5, StartOf DEF Start
<1>6. ASSUME NEW p \in Pools, PoolStop(p) \/ PoolStopError(p)
      PROVE  UNCHANGED <<workerVars, reaper, storeVars>>
    BY <1>6 DEF PoolStop, Stop, PoolStopError, StopError
<1>7. ASSUME NEW p \in Pools, PoolCrash(p)
      PROVE  UNCHANGED storeVars
    BY <1>7 DEF PoolCrash, Crash
<1>8. ASSUME OperatorStep
      PROVE  /\ UNCHANGED <<workerVars, reaper, poolVars, inprog, lockVars, regVars, enqueued>>
             /\ UNCHANGED <<maxConc, unlimited>>
    <2>1. CASE RetryDeadJob
        BY <1>8, <2>1 DEF OperatorStep, RetryDeadJob, ctlVars, history
    <2>2. CASE DeleteZsetJob
        BY <1>8, <2>2 DEF OperatorStep, DeleteZsetJob, ctlVars, listVars
    <2>3. CASE TogglePaused
        BY <1>8, <2>3 DEF OperatorStep, TogglePaused, listVars, history
    <2> QED
        BY <1>8, <2>1, <2>2, <2>3 DEF OperatorStep
<1> QED
    BY <1>1, <1>2, <1>3, <1>4, <1>5, <1>6, <1>7, <1>8

(***************************************************************************)
(* What the calls of a reaper leave alone.                                 *)
(***************************************************************************)
LEMMA ReaperFrames ==
    ASSUME NEW r \in Pools, ReaperWork(r) \/ ReaperError(r)
    PROVE  UNCHANGED <<workerVars, poolVars, zset, ctlVars, history>>
<1>1. UNCHANGED <<workerVars, poolVars>>
    BY DEF ReaperWork, ReaperError
<1>2. UNCHANGED <<zset, ctlVars, history>>
    BY ZenonT(120) DEF ReaperWork, ReaperError, ReapStart, FindHeartbeat, FindJobNames, ReapNext,
        ReapRequeue, ReapDel, ReapSrem, ReapClean, ReapAbort, storeVars
<1> QED
    BY <1>1, <1>2

(***************************************************************************)
(* What the calls of Stop leave alone.                                     *)
(***************************************************************************)
LEMMA StopFrames ==
    ASSUME NEW p \in Pools, StopWork(p)
    PROVE  UNCHANGED <<zset, ctlVars, history>>
BY ZenonT(120) DEF StopWork, StopWorker, StopWait, StopRequeue, StopClean, StopSrem, StopDel, StopRest,
    storeVars

-----------------------------------------------------------------------------
(***************************************************************************)
(* A worker becomes busy or idle only while it is not off, and is off      *)
(* before its pool goes on from stopping.                                  *)
(***************************************************************************)
LEMMA ServingWorkersNext == TypeOK /\ ServingWorkers /\ [Next]_vars => ServingWorkers'
<1> SUFFICES ASSUME TypeOK, ServingWorkers, [Next]_vars PROVE ServingWorkers'
    OBVIOUS
<1>t. /\ wpc \in [Workers -> {"off", "idle"} \cup Busy] /\ phase \in [Pools -> Phases]
      /\ PoolOf \in [Workers -> Pools]
    BY WorkerAssumption DEF TypeOK, WorkerTypeOK, PoolTypeOK
<1>a. ASSUME UNCHANGED <<workerVars, poolVars>> PROVE ServingWorkers'
    BY <1>a DEF ServingWorkers, Serving, workerVars, poolVars
<1>b. ASSUME NEW w \in Workers, wpc[w] # "off", NEW pc, NEW e, Become(w, pc, e), UNCHANGED phase
      PROVE  ServingWorkers'
    BY <1>t, <1>b DEF ServingWorkers, Serving, Become
<1>c. ASSUME NEW p \in Pools, phase[p] \notin {"started", "stopping"}, NEW ph, Goto(p, ph),
             UNCHANGED wpc
      PROVE  ServingWorkers'
    BY <1>t, <1>c DEF ServingWorkers, Serving, Goto
<1>1. ASSUME NEW w \in Workers, WorkerWork(w) \/ WorkerError(w) PROVE ServingWorkers'
    <2>1. UNCHANGED poolVars
        BY <1>1, Frames
    <2>2. CASE FetchLost(w)
        BY <1>a, <2>1, <2>2 DEF FetchLost
    <2>3. CASE ~ FetchLost(w)
        <3>1. wpc[w] # "off" /\ \E pc, e : Become(w, pc, e)
            BY ZenonT(120), <1>1, <2>3
                DEF WorkerWork, WorkerError, FetchJob, RunJob, RemoveJobFromInProgress, ExecFails
        <3> QED
            BY <1>b, <2>1, <3>1 DEF poolVars
    <2> QED
        BY <2>2, <2>3
<1>2. ASSUME NEW p \in Pools, PoolStart(p) PROVE ServingWorkers'
    <2>0. PICK unwritten \in SUBSET Handles[p] : Start(p, unwritten)
        BY <1>2, StartOf
    <2>1. /\ phase' = [phase EXCEPT ![p] = "started"]
          /\ wpc' = [w \in Workers |-> IF PoolOf[w] = p THEN "idle" ELSE wpc[w]]
        BY <2>0 DEF Start, Goto
    <2> QED
        BY <1>t, <2>1 DEF ServingWorkers, Serving
<1>3. ASSUME NEW p \in Pools, PoolStop(p) PROVE ServingWorkers'
    <2>1. phase' = [phase EXCEPT ![p] = "stopping"] /\ UNCHANGED wpc
        BY <1>3 DEF PoolStop, Stop, Goto, workerVars
    <2> QED
        BY <1>t, <2>1 DEF ServingWorkers, Serving
<1>4. ASSUME NEW p \in Pools, StopWork(p) PROVE ServingWorkers'
    <2>1. ASSUME NEW w \in WorkersOf(p), StopWorker(w) PROVE ServingWorkers'
        BY <2>1, <1>b DEF StopWorker, WorkersOf, poolVars
    <2>2. CASE StopWait(p)
        <3>1. /\ \A w \in Workers : PoolOf[w] = p => wpc[w] = "off"
              /\ phase' = [phase EXCEPT ![p] = "requeue"] /\ UNCHANGED wpc
            BY <2>2 DEF StopWait, AllWorkersOff, WorkersOf, Goto, workerVars
        <3> QED
            BY <1>t, <3>1 DEF ServingWorkers, Serving
    <2>3. CASE StopRequeue(p)
        BY <2>3, <1>a, <1>c DEF StopRequeue, poolVars, workerVars
    <2>4. CASE StopClean(p) \/ StopSrem(p) \/ StopDel(p) \/ StopRest(p)
        <3>1. /\ phase[p] \notin {"started", "stopping"} /\ UNCHANGED wpc
              /\ \E ph : Goto(p, ph)
            BY <2>4 DEF StopClean, StopSrem, StopDel, StopRest, workerVars
        <3> QED
            BY <1>c, <3>1
    <2> QED
        BY <1>4, <2>1, <2>2, <2>3, <2>4 DEF StopWork
<1>5. ASSUME NEW p \in Pools, PoolStopError(p) PROVE ServingWorkers'
    BY <1>5, <1>c DEF PoolStopError, StopError, workerVars
<1>6. ASSUME NEW p \in Pools, PoolCrash(p) PROVE ServingWorkers'
    <2>1. /\ phase' = [phase EXCEPT ![p] = "crashed"]
          /\ wpc' = [w \in Workers |-> IF PoolOf[w] = p THEN "off" ELSE wpc[w]]
        BY <1>6 DEF PoolCrash, Crash, Goto
    <2> QED
        BY <1>t, <2>1 DEF ServingWorkers, Serving
<1>7. ASSUME NEW p \in Pools, ReaperWork(p) \/ ReaperError(p) PROVE ServingWorkers'
    BY <1>7, <1>a, ReaperFrames
<1>8. ASSUME NEW p \in Pools, Beat(p) \/ Age(p) PROVE ServingWorkers'
    BY <1>8, Frames DEF ServingWorkers, Serving, workerVars
<1>9. CASE \/ \E j \in Jobs : EnqueuerStep(j)
           \/ \E p \in Pools : RequeuerStep(p)
           \/ OperatorStep
           \/ UNCHANGED vars
    BY <1>9, <1>a, Frames DEF vars
<1> QED
    BY <1>1, <1>2, <1>3, <1>4, <1>5, <1>6, <1>7, <1>8, <1>9 DEF Next, PoolStep

(***************************************************************************)
(* Every phase that Start, Stop and a crash go to has its heartbeater.     *)
(***************************************************************************)
LEMMA BeatersFollowNext == TypeOK /\ BeatersFollow /\ [Next]_vars => BeatersFollow'
<1> SUFFICES ASSUME TypeOK, BeatersFollow, [Next]_vars PROVE BeatersFollow'
    OBVIOUS
<1>t. phase \in [Pools -> Phases] /\ beater \in [Pools -> {"off", "begin", "on", "half"}]
    BY DEF TypeOK, PoolTypeOK
<1>a. ASSUME UNCHANGED poolVars PROVE BeatersFollow'
    BY <1>a DEF BeatersFollow, Departed, poolVars
<1>b. ASSUME NEW p \in Pools, NEW b, UNCHANGED phase, beater' = [beater EXCEPT ![p] = b],
             b # "off", beater[p] # "off"
      PROVE  BeatersFollow'
    BY <1>t, <1>b DEF BeatersFollow, Departed
<1>c. ASSUME NEW p \in Pools, NEW ph, Goto(p, ph), UNCHANGED beater,
             (ph \in {"new", "unbeat2", "quiesce", "stopped", "crashed"})
                <=> (phase[p] \in {"new", "unbeat2", "quiesce", "stopped", "crashed"})
      PROVE  BeatersFollow'
    BY <1>t, <1>c DEF BeatersFollow, Departed, Goto
<1>1. ASSUME NEW p \in Pools, Beat(p) \/ Age(p) PROVE BeatersFollow'
    <2>1. CASE Beat(p)
        BY <1>b, <2>1 DEF Beat, Heartbeat, HeartbeatSadd, HeartbeatHmset
    <2>2. CASE Age(p)
        BY <1>a, <2>2 DEF Age, HeartbeatAges
    <2> QED
        BY <1>1, <2>1, <2>2
<1>2. ASSUME NEW p \in Pools, PoolStart(p) PROVE BeatersFollow'
    <2>1. Goto(p, "started") /\ beater' = [beater EXCEPT ![p] = "begin"]
        BY <1>2, StartOf DEF Start
    <2> QED
        BY <1>t, <2>1 DEF BeatersFollow, Departed, Goto
<1>3. ASSUME NEW p \in Pools, PoolStop(p) PROVE BeatersFollow'
    BY <1>3, <1>c DEF PoolStop, Stop
<1>4. ASSUME NEW p \in Pools, StopWork(p) PROVE BeatersFollow'
    <2>1. ASSUME NEW w \in WorkersOf(p), StopWorker(w) PROVE BeatersFollow'
        BY <2>1, <1>a DEF StopWorker
    <2>2. CASE StopWait(p) \/ StopClean(p) \/ StopDel(p) \/ StopRest(p)
        BY <2>2, <1>c DEF StopWait, StopClean, StopDel, StopRest
    <2>3. CASE StopRequeue(p)
        BY <2>3, <1>a, <1>c DEF StopRequeue, poolVars
    <2>4. CASE StopSrem(p)
        <3>1. Goto(p, "unbeat2") /\ beater' = [beater EXCEPT ![p] = "off"]
            BY <2>4 DEF StopSrem
        <3> QED
            BY <1>t, <3>1 DEF BeatersFollow, Departed, Goto
    <2> QED
        BY <1>4, <2>1, <2>2, <2>3, <2>4 DEF StopWork
<1>5. ASSUME NEW p \in Pools, PoolStopError(p) PROVE BeatersFollow'
    <2>1. CASE phase[p] = "unbeat"
        <3>1. Goto(p, "quiesce") /\ beater' = [beater EXCEPT ![p] = "off"]
            BY <1>5, <2>1 DEF PoolStopError, StopError
        <3> QED
            BY <1>t, <3>1 DEF BeatersFollow, Departed, Goto
    <2>2. CASE phase[p] # "unbeat"
        BY <1>5, <1>c, <2>2 DEF PoolStopError, StopError
    <2> QED
        BY <2>1, <2>2
<1>6. ASSUME NEW p \in Pools, PoolCrash(p) PROVE BeatersFollow'
    <2>1. Goto(p, "crashed") /\ beater' = [beater EXCEPT ![p] = "off"]
        BY <1>6 DEF PoolCrash, Crash
    <2> QED
        BY <1>t, <2>1 DEF BeatersFollow, Departed, Goto
<1>7. ASSUME NEW p \in Pools, ReaperWork(p) \/ ReaperError(p) PROVE BeatersFollow'
    BY <1>7, <1>a, ReaperFrames
<1>8. ASSUME NEW w \in Workers, WorkerWork(w) \/ WorkerError(w) PROVE BeatersFollow'
    BY <1>8, <1>a, Frames
<1>9. CASE \/ \E j \in Jobs : EnqueuerStep(j)
           \/ \E p \in Pools : RequeuerStep(p)
           \/ OperatorStep
           \/ UNCHANGED vars
    BY <1>9, <1>a, Frames DEF vars
<1> QED
    BY <1>1, <1>2, <1>3, <1>4, <1>5, <1>6, <1>7, <1>8, <1>9 DEF Next, PoolStep

(***************************************************************************)
(* Only Start writes max_concurrency, and every pool writes the same.  A   *)
(* name that was left without its limit is remembered.                     *)
(***************************************************************************)
LEMMA LimitsWrittenNext ==
    TypeOK /\ LimitsWritten /\ [Next]_vars => LimitsWritten' /\ unlimited \subseteq unlimited'
<1> DEFINE Goal == LimitsWritten' /\ unlimited \subseteq unlimited'
<1> SUFFICES ASSUME TypeOK, LimitsWritten, [Next]_vars PROVE Goal
    OBVIOUS
<1>t. /\ phase \in [Pools -> Phases] /\ maxConc \in [Names -> Nat]
      /\ Handles \in [Pools -> SUBSET Names]
    BY StoreAssumption DEF TypeOK, PoolTypeOK, StoreTypeOK
<1>a. ASSUME UNCHANGED <<phase, maxConc, unlimited>> PROVE Goal
    BY <1>a DEF LimitsWritten
<1>b. ASSUME UNCHANGED <<maxConc, unlimited>>, \A q \in Pools : phase'[q] # "new" => phase[q] # "new"
      PROVE  Goal
    BY <1>b DEF LimitsWritten
<1>1. ASSUME NEW p \in Pools, PoolStart(p) PROVE Goal
    <2>0. PICK unwritten \in SUBSET Handles[p] : Start(p, unwritten)
        BY <1>1, StartOf
    <2>1. /\ phase' = [phase EXCEPT ![p] = "started"]
          /\ maxConc' = [n \in Names |->
                            IF n \in Handles[p] \ unwritten THEN MaxConcurrency[n] ELSE maxConc[n]]
          /\ unlimited' = unlimited \cup unwritten
        BY <2>0 DEF Start, Goto
    <2> SUFFICES ASSUME NEW q \in Pools, phase'[q] # "new", NEW n \in Handles[q]
                 PROVE  maxConc'[n] = MaxConcurrency[n] \/ n \in unlimited'
        BY <2>1 DEF LimitsWritten
    <2>2. n \in Names
        BY <1>t
    <2>3. CASE n \in Handles[p]
        BY <2>1, <2>2, <2>3
    <2>4. CASE n \notin Handles[p]
        <3>1. q # p /\ phase[q] # "new"
            BY <1>t, <2>1, <2>4
        <3> QED
            BY <2>1, <2>2, <2>4, <3>1 DEF LimitsWritten
    <2> QED
        BY <2>3, <2>4
<1>2. ASSUME NEW p \in Pools, PoolStop(p) \/ PoolStopError(p) \/ PoolCrash(p) PROVE Goal
    <2>1. UNCHANGED <<maxConc, unlimited>>
        BY <1>2, Frames DEF storeVars, ctlVars
    <2>2. \A q \in Pools : phase'[q] # "new" => phase[q] # "new"
        BY <1>2, <1>t DEF PoolStop, Stop, PoolStopError, StopError, PoolCrash, Crash, Live, Goto
    <2> QED
        BY <1>b, <2>1, <2>2
<1>3. ASSUME NEW p \in Pools, StopWork(p) PROVE Goal
    <2>1. UNCHANGED <<maxConc, unlimited>>
        BY <1>3, StopFrames DEF ctlVars
    <2>2. \A q \in Pools : phase'[q] # "new" => phase[q] # "new"
        <3>1. CASE \E w \in WorkersOf(p) : StopWorker(w)
            BY <3>1 DEF StopWorker, poolVars
        <3>2. CASE StopRequeue(p)
            BY <1>t, <3>2 DEF StopRequeue, Goto
        <3>3. CASE StopWait(p) \/ StopClean(p) \/ StopSrem(p) \/ StopDel(p) \/ StopRest(p)
            BY <1>t, <3>3 DEF StopWait, StopClean, StopSrem, StopDel, StopRest, Goto
        <3> QED
            BY <1>3, <3>1, <3>2, <3>3 DEF StopWork
    <2> QED
        BY <1>b, <2>1, <2>2
<1>4. ASSUME NEW p \in Pools, ReaperWork(p) \/ ReaperError(p) PROVE Goal
    BY <1>4, <1>a, ReaperFrames DEF poolVars, ctlVars
<1>5. ASSUME NEW p \in Pools, Beat(p) \/ Age(p) \/ RequeuerStep(p) PROVE Goal
    BY <1>5, <1>a, Frames DEF poolVars, ctlVars
<1>6. ASSUME NEW w \in Workers, WorkerWork(w) \/ WorkerError(w) PROVE Goal
    BY <1>6, <1>a, Frames DEF poolVars, ctlVars
<1>7. CASE \/ \E j \in Jobs : EnqueuerStep(j)
           \/ OperatorStep
           \/ UNCHANGED vars
    BY <1>7, <1>a, Frames DEF vars, poolVars, ctlVars, storeVars
<1> QED
    BY <1>1, <1>2, <1>3, <1>4, <1>5, <1>6, <1>7 DEF Next, PoolStep

-----------------------------------------------------------------------------
(* What a step may do to a job, to the store and to a worker. *)

\* Those that may fetch, that are requeued for and that are cleaned up for.
Idle == {w \in Workers : wpc[w] = "idle"}

InReach(ph, pc) ==
    {p \in Pools : phase[p] = ph \/ \E r \in Pools : reaper[r].pc = pc /\ reaper[r].cur = p}

JobsMove == JobStep(Idle, InReach("requeue", "requeue"), InReach("clean", "clean"))

(***************************************************************************)
(* Every step is a step on jobs: idle workers fetch, a requeue script runs *)
(* for a pool in the requeue loop of Stop or of a reaper, and a script     *)
(* that gives back locks for a pool in cleanStaleLockInfo of these.        *)
(***************************************************************************)
LEMMA JobSteps ==
    ASSUME TypeOK, [Next]_vars
    PROVE  JobsMove
<1> DEFINE Out == \E k \in Zsets : \E e \in zset[k] :
                    Drops(k, e) \/ Buries(k, e) \/ \E f \in Entry : Revives(k, e, f)
<1>z. zset \in [Zsets -> SUBSET Entry]
    BY DEF TypeOK, StoreTypeOK
<1>h. Handles \in [Pools -> SUBSET Names]
    BY StoreAssumption
<1>a. ASSUME UNCHANGED <<listVars, lockVars, zset, history>> PROVE JobsMove
    BY <1>a DEF JobsMove, JobStep, jobVars
<1>b. ASSUME NEW p \in InReach("requeue", "requeue"), TakesBack(p) PROVE JobsMove
    BY <1>b DEF JobsMove, JobStep
<1>c. ASSUME NEW p \in InReach("clean", "clean"), NEW types \in SUBSET Names, GivesBack(p, types)
      PROVE  JobsMove
    BY <1>c DEF JobsMove, JobStep
<1>d. ASSUME Out PROVE JobsMove
    BY <1>d DEF JobsMove, JobStep
<1>1. ASSUME NEW j \in Jobs, EnqueuerStep(j) PROVE JobsMove
    <2>1. NewEntry(j) \in Entry /\ NewEntry(j).id = j
        BY DEF NewEntry, Entry
    <2>2. Brings(NewEntry(j))
        <3>1. CASE Enqueue(j)
            BY <2>1, <3>1 DEF Enqueue, Brings, Pushes
        <3>2. CASE EnqueueIn(j)
            BY <2>1, <3>2 DEF EnqueueIn, Brings
        <3> QED
            BY <1>1, <3>1, <3>2 DEF EnqueuerStep
    <2> QED
        BY <2>1, <2>2 DEF JobsMove, JobStep
<1>2. ASSUME NEW w \in Workers, WorkerWork(w) \/ WorkerError(w) PROVE JobsMove
    <2>1. CASE FetchJob(w) \/ FetchLost(w)
        <3>1. w \in Idle /\ \E n \in Names : Fetches(w, n)
            BY <2>1 DEF FetchJob, FetchLost, Fetches, Idle
        <3> QED
            BY <3>1 DEF JobsMove, JobStep
    <2>2. CASE RunJob(w) \/ ExecFails(w)
        BY <1>a, <2>2 DEF RunJob, ExecFails, storeVars
    <2>3. CASE RemoveJobFromInProgress(w)
        BY <2>3 DEF JobsMove, JobStep
    <2> QED
        BY <1>2, <2>1, <2>2, <2>3 DEF WorkerWork, WorkerError
<1>3. ASSUME NEW p \in Pools, RequeuerStep(p) PROVE JobsMove
    <2>1. PICK k \in {"retry", "scheduled"} : RequeuerProcess(p, k)
        BY <1>3 DEF RequeuerStep
    <2>2. PICK e \in zset[k] : LuaZremLpush(p, k, e)
        BY <2>1 DEF RequeuerProcess
    <2>3. k \in Zsets /\ k # "dead" /\ e \in Entry
        BY <1>z, <2>2 DEF Zsets
    <2>4. UNCHANGED <<inprog, lockVars, history>>
        BY <2>1 DEF RequeuerProcess
    <2>5. Buries(k, e) \/ Revives(k, e, e)
        BY <2>2, <2>3, <2>4 DEF LuaZremLpush, Buries, Revives, Pushes, listVars
    <2> QED
        BY <1>d, <2>2, <2>3, <2>5
<1>4. ASSUME NEW r \in Pools, ReaperWork(r) \/ ReaperError(r) PROVE JobsMove
    <2>0. UNCHANGED <<zset, history>>
        BY <1>4, ReaperFrames
    <2>1. CASE ReapRequeue(r)
        <3>1. reaper[r].cur \in InReach("requeue", "requeue")
            BY <2>1 DEF ReapRequeue, TypeOK, ReaperTypeOK, Reaping, InReach
        <3>2. LuaReenqueueJob(reaper[r].cur, Handles[reaper[r].cur]) \/ UNCHANGED <<listVars, lockVars>>
            BY <2>1 DEF ReapRequeue
        <3> QED
            BY <1>a, <1>b, <2>0, <3>1, <3>2 DEF TakesBack
    <2>2. CASE ReapClean(r)
        <3>1. reaper[r].cur \in InReach("clean", "clean") /\ reaper[r].cur \in Pools
            BY <2>2 DEF ReapClean, TypeOK, ReaperTypeOK, Reaping, InReach
        <3>2. GivesBack(reaper[r].cur, LockJobTypes(r))
            BY <2>0, <2>2 DEF ReapClean, GivesBack
        <3>3. LockJobTypes(r) \in SUBSET Names
            BY <1>h, <3>1 DEF LockJobTypes
        <3> QED
            BY <1>c, <3>1, <3>2, <3>3
    <2>3. CASE ~ ReapRequeue(r) /\ ~ ReapClean(r)
        <3>1. UNCHANGED <<listVars, lockVars>>
            BY ZenonT(120), <1>4, <2>3 DEF ReaperWork, ReaperError, ReapStart, FindHeartbeat,
                FindJobNames, ReapNext, ReapDel, ReapSrem, ReapAbort, storeVars
        <3> QED
            BY <1>a, <2>0, <3>1
    <2> QED
        BY <2>1, <2>2, <2>3
<1>5. ASSUME NEW p \in Pools, StopWork(p) PROVE JobsMove
    <2>0. UNCHANGED <<zset, history>>
        BY <1>5, StopFrames
    <2>1. CASE StopRequeue(p)
        <3>1. p \in InReach("requeue", "requeue")
            BY <2>1 DEF StopRequeue, InReach
        <3>2. LuaReenqueueJob(p, Handles[p]) \/ UNCHANGED <<listVars, lockVars>>
            BY <2>1 DEF StopRequeue
        <3> QED
            BY <1>a, <1>b, <2>0, <3>1, <3>2 DEF TakesBack
    <2>2. CASE StopClean(p)
        <3>1. p \in InReach("clean", "clean") /\ Handles[p] \in SUBSET Names
            BY <1>h, <2>2 DEF StopClean, InReach
        <3>2. GivesBack(p, Handles[p])
            BY <2>0, <2>2 DEF StopClean, GivesBack
        <3> QED
            BY <1>c, <3>1, <3>2
    <2>3. CASE ~ StopRequeue(p) /\ ~ StopClean(p)
        <3>1. UNCHANGED <<listVars, lockVars>>
            BY ZenonT(120), <1>5, <2>3 DEF StopWork, StopWorker, StopWait, StopSrem, StopDel, StopRest,
                storeVars
        <3> QED
            BY <1>a, <2>0, <3>1
    <2> QED
        BY <2>1, <2>2, <2>3
<1>6. ASSUME NEW p \in Pools,
             Beat(p) \/ Age(p) \/ PoolStart(p) \/ PoolStop(p) \/ PoolStopError(p) \/ PoolCrash(p)
      PROVE  JobsMove
    BY <1>6, <1>a, Frames DEF storeVars
<1>7. ASSUME OperatorStep PROVE JobsMove
    <2>0. UNCHANGED <<inprog, lockVars, enqueued>>
        BY <1>7, Frames
    <2>1. CASE RetryDeadJob
        <3>1. PICK e \in zset["dead"] : /\ zset' = [zset EXCEPT !["dead"] = @ \ {e}]
                                        /\ LPush(NameOf[e.id], [e EXCEPT !.fails = 0])
            BY ZenonT(120), <2>1 DEF RetryDeadJob, LuaRequeueDead
        <3>2. e \in [id : Jobs, fails : Nat] /\ "dead" \in Zsets
            BY <1>z, <3>1 DEF Zsets, Entry
        <3>3. [e EXCEPT !.fails = 0] \in Entry /\ [e EXCEPT !.fails = 0].id = e.id
            BY <3>2 DEF Entry
        <3> DEFINE f == [e EXCEPT !.fails = 0]
        <3>4. LPush(NameOf[f.id], f) /\ f \in Entry /\ f.id = e.id
            BY <3>1, <3>3
        <3> HIDE DEF f
        <3>5. Revives("dead", e, f)
            BY <2>0, <2>1, <3>1, <3>4 DEF Revives, Pushes, RetryDeadJob
        <3> QED
            BY <1>d, <3>1, <3>2, <3>4, <3>5
    <2>2. CASE DeleteZsetJob
        <3>1. PICK k \in Zsets : \E e \in zset[k] :
                LuaDeleteSingle(k, e) /\ settled' = settled \cup {e.id}
            BY ZenonT(60), <2>2 DEF DeleteZsetJob
        <3>2. PICK e \in zset[k] : LuaDeleteSingle(k, e) /\ settled' = settled \cup {e.id}
            BY <3>1
        <3>3. UNCHANGED listVars
            BY <2>2 DEF DeleteZsetJob
        <3>4. Drops(k, e)
            BY <2>0, <3>2, <3>3 DEF LuaDeleteSingle, Drops
        <3> QED
            BY <1>d, <3>4
    <2>3. CASE TogglePaused
        BY <1>a, <2>3 DEF TogglePaused
    <2> QED
        BY <1>7, <2>1, <2>2, <2>3 DEF OperatorStep
<1>8. ASSUME UNCHANGED vars PROVE JobsMove
    BY <1>8, <1>a DEF vars, storeVars
<1> HIDE DEF Out
<1> QED
    BY <1>1, <1>2, <1>3, <1>4, <1>5, <1>6, <1>7, <1>8 DEF Next, PoolStep

(***************************************************************************)
(* A worker that has a job after a step had it before, or fetched it.      *)
(***************************************************************************)
LEMMA WorkerSteps ==
    ASSUME TypeOK, [Next]_vars, NEW w \in Workers, wpc'[w] \in Busy
    PROVE  (wpc[w] \in Busy /\ wjob'[w] = wjob[w]) \/ FetchJob(w)
<1>t. /\ wpc \in [Workers -> {"off", "idle"} \cup Busy] /\ DOMAIN wjob = Workers
    BY DEF TypeOK, WorkerTypeOK
<1>a. ASSUME UNCHANGED workerVars PROVE wpc[w] \in Busy /\ wjob'[w] = wjob[w]
    BY <1>a DEF workerVars
<1>b. ASSUME NEW v \in Workers, NEW pc, NEW e, Become(v, pc, e), pc \notin Busy
      PROVE  wpc[w] \in Busy /\ wjob'[w] = wjob[w]
    BY <1>t, <1>b DEF Become
<1>1. ASSUME NEW v \in Workers, WorkerWork(v) \/ WorkerError(v)
      PROVE  (wpc[w] \in Busy /\ wjob'[w] = wjob[w]) \/ FetchJob(w)
    <2>1. CASE FetchJob(v) /\ v # w
        <3>1. wpc'[w] = wpc[w] /\ wjob'[w] = wjob[w]
            BY <1>t, <2>1 DEF FetchJob, Become
        <3> QED
            BY <3>1
    <2>2. CASE FetchLost(v)
        BY <1>a, <2>2 DEF FetchLost
    <2>3. CASE RunJob(v)
        BY <1>t, <2>3 DEF RunJob, Become, Busy
    <2>4. CASE RemoveJobFromInProgress(v) \/ ExecFails(v)
        BY <1>b, <2>4 DEF RemoveJobFromInProgress, ExecFails, Busy
    <2> QED
        BY ZenonT(60), <1>1, <2>1, <2>2, <2>3, <2>4 DEF WorkerWork, WorkerError
<1>2. ASSUME NEW p \in Pools, PoolStart(p) \/ PoolCrash(p)
      PROVE  wpc[w] \in Busy /\ wjob'[w] = wjob[w]
    <2>1. ASSUME NEW unwritten, Start(p, unwritten) PROVE wpc[w] \in Busy /\ wjob'[w] = wjob[w]
        BY <1>t, <2>1 DEF Start, Busy
    <2>2. CASE PoolCrash(p)
        BY <1>t, <2>2 DEF PoolCrash, Crash, Busy
    <2> QED
        BY <1>2, <2>1, <2>2, StartOf
<1>3. ASSUME NEW p \in Pools, StopWork(p)
      PROVE  wpc[w] \in Busy /\ wjob'[w] = wjob[w]
    <2>1. ASSUME NEW v \in WorkersOf(p), StopWorker(v) PROVE wpc[w] \in Busy /\ wjob'[w] = wjob[w]
        BY <2>1, <1>b DEF StopWorker, WorkersOf, Busy
    <2> QED
        BY <1>3, <1>a, <2>1 DEF StopWork, StopWait, StopRequeue, StopClean, StopSrem, StopDel, StopRest
<1>4. ASSUME NEW p \in Pools,
             \/ PoolStop(p) \/ PoolStopError(p) \/ Beat(p) \/ Age(p) \/ RequeuerStep(p)
             \/ ReaperWork(p) \/ ReaperError(p)
      PROVE  wpc[w] \in Busy /\ wjob'[w] = wjob[w]
    BY <1>4, <1>a, Frames, ReaperFrames
<1>5. CASE \/ \E j \in Jobs : EnqueuerStep(j)
           \/ OperatorStep
           \/ UNCHANGED vars
    BY <1>5, <1>a, Frames DEF vars
<1> QED
    BY <1>1, <1>2, <1>3, <1>4, <1>5 DEF Next, PoolStep

(***************************************************************************)
(* The sets of a step are sets of workers and of pools.                    *)
(***************************************************************************)
LEMMA StepSets ==
    /\ Idle \in SUBSET Workers
    /\ InReach("requeue", "requeue") \in SUBSET Pools
    /\ InReach("clean", "clean") \in SUBSET Pools
BY DEF Idle, InReach

(***************************************************************************)
(* Jobs stay filed under their names, a worker has jobs and a pool has     *)
(* locks only of the names its pool handles, and no job is lost.           *)
(***************************************************************************)
LEMMA FilingNext ==
    ASSUME TypeOK, Filed, [Next]_vars
    PROVE  Filed' /\ (JobsUnderName => JobsUnderName') /\ (NoJobLost => NoJobLost')
<1>1. StoreTypeOK /\ WorkerTypeOK
    BY DEF TypeOK
<1>2. JobStep(Idle, InReach("requeue", "requeue"), InReach("clean", "clean"))
    BY JobSteps DEF JobsMove
<1>3. \A w \in Workers : KeepsJob(w)
    BY WorkerSteps DEF KeepsJob
<1>4. Filed'
    BY <1>1, <1>2, StepSets, FiledNext
<1>5. JobsUnderName => JobsUnderName'
    BY <1>1, <1>2, <1>3, StepSets, JobsUnderNameNext
<1>6. NoJobLost => NoJobLost'
    BY <1>1, <1>2, StepSets, NoJobLostNext
<1> QED
    BY <1>4, <1>5, <1>6

(***************************************************************************)
(* The in-progress lists of a pool that does not serve stay empty.         *)
(***************************************************************************)
LEMMA EmptiedStays ==
    ASSUME TypeOK, ServingWorkers, [Next]_vars, NEW p \in Pools, Emptied(p), ~ Serving(p)
    PROVE  Emptied(p)'
<1>1. StoreTypeOK /\ WorkerTypeOK
    BY DEF TypeOK
<1>2. JobStep(Idle, InReach("requeue", "requeue"), InReach("clean", "clean"))
    BY JobSteps DEF JobsMove
<1>3. Emptied(p)' \/ \E w \in Idle : PoolOf[w] = p
    BY <1>1, <1>2, StepSets, EmptyStays DEF Emptied
<1> QED
    BY <1>3 DEF Idle, ServingWorkers

(***************************************************************************)
(* At least once, for any number of pools, workers, jobs and faults:       *)
(* however pools crash, stop, start late or are reaped while alive, and    *)
(* whichever replies, transactions and calls are lost, a job that was      *)
(* enqueued stays in Redis until a worker ends it with terminateOnly or a  *)
(* client deletes it.                                                      *)
(***************************************************************************)
THEOREM JobsAreNotLost == Spec => []NoJobLost
<1> DEFINE Inv == TypeOK /\ Filed /\ NoJobLost
<1>1. Init => Inv
    BY TypeInit, NoJobYet DEF Init, TypeOK
<1>2. Inv /\ [Next]_vars => Inv'
    BY TypeNext, FilingNext
<1> QED
    BY <1>1, <1>2, PTL DEF Spec

-----------------------------------------------------------------------------
(* What a step may do to a pool and to its registration. *)

(***************************************************************************)
(* How the phase of a pool changes.                                        *)
(***************************************************************************)
LEMMA PhaseSteps ==
    ASSUME TypeOK, [Next]_vars, NEW p \in Pools
    PROVE  \/ phase'[p] = phase[p]
           \/ phase'[p] = "started" /\ PoolStart(p)
           \/ phase'[p] = "stopping" /\ p \in Stoppable /\ phase[p] = "started"
           \/ phase'[p] = "crashed" /\ PoolCrash(p)
           \/ phase'[p] = "requeue" /\ StopWait(p)
           \/ phase'[p] = "clean" /\ StopRequeue(p)
           \/ phase'[p] = "unbeat" /\ StopClean(p)
           \/ phase'[p] = "unbeat2" /\ StopSrem(p)
           \/ phase'[p] = "quiesce" /\ StopDel(p)
           \/ phase'[p] = "stopped" /\ StopRest(p)
           \/ PoolStopError(p)
<1> DEFINE Goal ==
           \/ phase'[p] = phase[p]
           \/ phase'[p] = "started" /\ PoolStart(p)
           \/ phase'[p] = "stopping" /\ p \in Stoppable /\ phase[p] = "started"
           \/ phase'[p] = "crashed" /\ PoolCrash(p)
           \/ phase'[p] = "requeue" /\ StopWait(p)
           \/ phase'[p] = "clean" /\ StopRequeue(p)
           \/ phase'[p] = "unbeat" /\ StopClean(p)
           \/ phase'[p] = "unbeat2" /\ StopSrem(p)
           \/ phase'[p] = "quiesce" /\ StopDel(p)
           \/ phase'[p] = "stopped" /\ StopRest(p)
           \/ PoolStopError(p)
<1>t. phase \in [Pools -> Phases]
    BY DEF TypeOK, PoolTypeOK
<1>a. ASSUME NEW q \in Pools, NEW ph, Goto(q, ph)
      PROVE  phase'[p] = phase[p] \/ (q = p /\ phase'[p] = ph)
    BY <1>t, <1>a DEF Goto
<1>0. ASSUME NEW q \in Pools, PoolStart(q) PROVE Goal
    <2>1. Goto(q, "started")
        BY <1>0, StartOf DEF Start
    <2> QED
        BY <1>0, <1>a, <2>1
<1>1. ASSUME NEW q \in Pools, PoolCrash(q) PROVE Goal
    <2>1. Goto(q, "crashed")
        BY <1>1 DEF PoolCrash, Crash
    <2> QED
        BY <1>1, <1>a, <2>1
<1>2. ASSUME NEW q \in Pools, PoolStop(q) PROVE Goal
    BY <1>a, <1>2 DEF PoolStop, Stop
<1>3. ASSUME NEW q \in Pools, PoolStopError(q) PROVE Goal
    <2>1. CASE q = p
        BY <1>3, <2>1
    <2>2. CASE q # p
        BY <1>t, <1>3, <2>2 DEF PoolStopError, StopError, Goto
    <2> QED
        BY <2>1, <2>2
<1>4. ASSUME NEW q \in Pools, StopWork(q) PROVE Goal
    <2>1. CASE \E w \in WorkersOf(q) : StopWorker(w)
        BY <2>1 DEF StopWorker, poolVars
    <2>2. CASE StopWait(q)
        <3>1. Goto(q, "requeue")
            BY <2>2 DEF StopWait
        <3> QED
            BY <1>a, <2>2, <3>1
    <2>3. CASE StopRequeue(q)
        <3>1. UNCHANGED phase \/ Goto(q, "clean")
            BY <2>3 DEF StopRequeue
        <3> QED
            BY <1>a, <2>3, <3>1
    <2>4. CASE StopClean(q)
        <3>1. Goto(q, "unbeat")
            BY <2>4 DEF StopClean
        <3> QED
            BY <1>a, <2>4, <3>1
    <2>5. CASE StopSrem(q)
        <3>1. Goto(q, "unbeat2")
            BY <2>5 DEF StopSrem
        <3> QED
            BY <1>a, <2>5, <3>1
    <2>6. CASE StopDel(q)
        <3>1. Goto(q, "quiesce")
            BY <2>6 DEF StopDel
        <3> QED
            BY <1>a, <2>6, <3>1
    <2>7. CASE StopRest(q)
        <3>1. Goto(q, "stopped")
            BY <2>7 DEF StopRest
        <3> QED
            BY <1>a, <2>7, <3>1
    <2> QED
        BY <1>4, <2>1, <2>2, <2>3, <2>4, <2>5, <2>6, <2>7 DEF StopWork
<1>5. ASSUME UNCHANGED phase PROVE Goal
    BY <1>5
<1> HIDE DEF Goal
<1>6. ASSUME NEW q \in Pools, RequeuerStep(q) \/ ReaperWork(q) \/ ReaperError(q) \/ Beat(q) \/ Age(q)
      PROVE  UNCHANGED phase
    BY <1>6, Frames, ReaperFrames DEF poolVars
<1>7. ASSUME \/ \E j \in Jobs : EnqueuerStep(j)
             \/ \E w \in Workers : WorkerWork(w) \/ WorkerError(w)
             \/ OperatorStep
             \/ UNCHANGED vars
      PROVE  Goal
    BY <1>7, <1>5, Frames DEF vars, poolVars
<1>8. Goal
    BY <1>0, <1>1, <1>2, <1>3, <1>4, <1>5, <1>6, <1>7 DEF Next, PoolStep
<1> QED
    BY <1>8 DEF Goal

(***************************************************************************)
(* How the entry of a pool in worker_pools, its heartbeat and its          *)
(* heartbeater change: by its own beats, by Start, Stop or a crash, by the *)
(* passing of deadTime, or by a reaper that has the pool at hand.          *)
(***************************************************************************)
Unregisters(r, p) ==
    (ReapDel(r) \/ ReapSrem(r)) /\ reaper[r].cur = p /\ UNCHANGED poolVars

(***************************************************************************)
(* The registration of a pool and its heartbeat change in no other way.    *)
(***************************************************************************)
LEMMA RegSteps ==
    ASSUME TypeOK, [Next]_vars, NEW p \in Pools
    PROVE  \/ /\ p \in workerPools' <=> p \in workerPools
              /\ heartbeat'[p] = heartbeat[p] /\ beater'[p] = beater[p]
           \/ Beat(p) \/ Age(p)
           \/ \E r \in Pools : Unregisters(r, p)
           \/ StopSrem(p) \/ StopDel(p)
           \/ PoolStart(p) \/ PoolStopError(p) \/ PoolCrash(p)
<1> DEFINE Same == /\ p \in workerPools' <=> p \in workerPools
                   /\ heartbeat'[p] = heartbeat[p] /\ beater'[p] = beater[p]
           Goal == \/ Same
                   \/ Beat(p) \/ Age(p)
                   \/ \E r \in Pools : Unregisters(r, p)
                   \/ StopSrem(p) \/ StopDel(p)
                   \/ PoolStart(p) \/ PoolStopError(p) \/ PoolCrash(p)
<1>t. /\ heartbeat \in [Pools -> {"absent", "fresh", "stale"}]
      /\ beater \in [Pools -> {"off", "begin", "on", "half"}]
    BY DEF TypeOK, StoreTypeOK, PoolTypeOK
<1>1. ASSUME UNCHANGED <<regVars, beater>> PROVE Same
    BY <1>1 DEF regVars
<1>2. ASSUME NEW q \in Pools, Beat(q) \/ Age(q), q # p PROVE Same
    <2>1. CASE Heartbeat(q)
        BY <1>t, <1>2, <2>1 DEF Heartbeat
    <2>2. CASE HeartbeatSadd(q)
        BY <1>t, <1>2, <2>2 DEF HeartbeatSadd
    <2>3. CASE HeartbeatHmset(q)
        BY <1>t, <1>2, <2>3 DEF HeartbeatHmset
    <2>4. CASE HeartbeatAges(q)
        BY <1>t, <1>2, <2>4 DEF HeartbeatAges, poolVars
    <2> QED
        BY <1>2, <2>1, <2>2, <2>3, <2>4 DEF Beat, Age
<1>3. ASSUME NEW r \in Pools, ReaperWork(r) \/ ReaperError(r) PROVE Goal
    <2>0. UNCHANGED poolVars
        BY <1>3, ReaperFrames
    <2>1. CASE (ReapDel(r) \/ ReapSrem(r)) /\ reaper[r].cur = p
        BY <2>0, <2>1 DEF Unregisters
    <2>2. CASE ReapDel(r) /\ reaper[r].cur # p
        BY <1>t, <2>0, <2>2 DEF ReapDel, poolVars
    <2>3. CASE ReapSrem(r) /\ reaper[r].cur # p
        BY <2>0, <2>3 DEF ReapSrem, poolVars
    <2>4. CASE ~ ReapDel(r) /\ ~ ReapSrem(r)
        <3>1. UNCHANGED regVars
            BY ZenonT(120), <1>3, <2>4 DEF ReaperWork, ReaperError, ReapStart, FindHeartbeat,
                FindJobNames, ReapNext, ReapRequeue, ReapClean, ReapAbort, storeVars
        <3> QED
            BY <1>1, <2>0, <3>1 DEF poolVars
    <2> QED
        BY <2>1, <2>2, <2>3, <2>4
<1>4. ASSUME NEW q \in Pools, StopWork(q) PROVE Goal
    <2>1. CASE StopSrem(q)
        <3>1. q # p => Same
            BY <1>t, <2>1 DEF StopSrem
        <3> QED
            BY <2>1, <3>1
    <2>2. CASE StopDel(q)
        <3>1. q # p => Same
            BY <1>t, <2>2 DEF StopDel
        <3> QED
            BY <2>2, <3>1
    <2>3. CASE ~ StopSrem(q) /\ ~ StopDel(q)
        <3>1. UNCHANGED <<regVars, beater>>
            BY ZenonT(120), <1>4, <2>3 DEF StopWork, StopWorker, StopWait, StopRequeue, StopClean,
                StopRest, storeVars, poolVars
        <3> QED
            BY <1>1, <3>1
    <2> QED
        BY <2>1, <2>2, <2>3
<1>5. ASSUME NEW q \in Pools, q # p, PoolStart(q) \/ PoolStopError(q) \/ PoolCrash(q) PROVE Same
    <2>1. UNCHANGED regVars
        BY <1>5, Frames DEF storeVars
    <2>2. beater'[p] = beater[p]
        BY <1>t, <1>5, StartOf DEF Start, PoolStopError, StopError, PoolCrash, Crash
    <2> QED
        BY <2>1, <2>2 DEF regVars
<1>6. ASSUME NEW q \in Pools, RequeuerStep(q) \/ PoolStop(q) PROVE Same
    BY <1>1, <1>6, Frames DEF storeVars, poolVars, PoolStop, Stop
<1>7. ASSUME \/ \E j \in Jobs : EnqueuerStep(j)
             \/ \E w \in Workers : WorkerWork(w) \/ WorkerError(w)
             \/ OperatorStep
             \/ UNCHANGED vars
      PROVE  Goal
    BY <1>7, <1>1, Frames DEF vars, storeVars, poolVars
<1> HIDE DEF Same
<1>8. ASSUME NEW q \in Pools, PoolStep(q) PROVE Goal
    BY <1>2, <1>3, <1>4, <1>5, <1>6, <1>8 DEF PoolStep
<1> HIDE DEF Goal
<1>9. Goal
    BY <1>7, <1>8 DEF Next
<1> QED
    BY <1>9 DEF Goal, Same

(***************************************************************************)
(* Without a heartbeater, nobody writes the name or the heartbeat of a     *)
(* pool.                                                                   *)
(***************************************************************************)
LEMMA BeaterWrites ==
    ASSUME TypeOK, [Next]_vars, NEW p \in Pools, beater[p] = "off"
    PROVE  /\ p \in workerPools' => p \in workerPools
           /\ heartbeat'[p] # "absent" => heartbeat[p] # "absent"
<1>t. heartbeat \in [Pools -> {"absent", "fresh", "stale"}]
    BY DEF TypeOK, StoreTypeOK
<1>1. ~ Beat(p)
    BY DEF Beat, Heartbeat, HeartbeatSadd, HeartbeatHmset
<1>2. CASE Age(p)
    BY <1>t, <1>2 DEF Age, HeartbeatAges
<1>3. ASSUME NEW r \in Pools, Unregisters(r, p)
      PROVE  /\ p \in workerPools' => p \in workerPools
             /\ heartbeat'[p] # "absent" => heartbeat[p] # "absent"
    BY <1>t, <1>3 DEF Unregisters, ReapDel, ReapSrem
<1>4. CASE StopSrem(p) \/ StopDel(p)
    BY <1>t, <1>4 DEF StopSrem, StopDel
<1>5. CASE PoolStart(p) \/ PoolStopError(p) \/ PoolCrash(p)
    BY <1>5, Frames DEF storeVars, regVars
<1> QED
    BY <1>1, <1>2, <1>3, <1>4, <1>5, RegSteps

(***************************************************************************)
(* A pool gets a field in lock_info by a fetch, while it serves, or while  *)
(* it has jobs in progress.                                                *)
(***************************************************************************)
LEMMA FieldSteps ==
    ASSUME TypeOK, ServingWorkers, [Next]_vars, NEW p \in Pools, NEW n \in Names, p \in lockField'[n]
    PROVE  \/ p \in lockField[n]
           \/ Serving(p)
           \/ ~ Emptied(p)
<1> DEFINE Goal == p \in lockField[n] \/ Serving(p) \/ ~ Emptied(p)
<1>t. /\ StoreTypeOK /\ WorkerTypeOK /\ PoolOf \in [Workers -> Pools]
      /\ lockField \in [Names -> SUBSET Pools]
    BY WorkerAssumption DEF TypeOK, StoreTypeOK
<1>a. ASSUME NEW m \in Names, NEW q, NEW d, AddLock(m, q, d)
      PROVE  p \in lockField[n] \/ q = p
    BY <1>t, <1>a DEF AddLock
<1>1. ASSUME NEW w \in Idle, NEW m \in Names, Fetches(w, m) PROVE Goal
    BY <1>1, <1>a DEF Fetches, LuaFetchJob, ServingWorkers, Idle
<1>2. ASSUME NEW q \in InReach("requeue", "requeue"), TakesBack(q) PROVE Goal
    <2>0. q \in Pools
        BY <1>2, StepSets
    <2>1. PICK m \in Names : TakesBackOf(q, m)
        BY <1>2, <1>t, <2>0, ReenqueueLists DEF TakesBack
    <2>2. inprog[q][m] # <<>> /\ AddLock(m, q, -1)
        BY <2>1 DEF TakesBackOf
    <2>3. p \in lockField[n] \/ q = p
        BY <1>a, <2>2
    <2> QED
        BY <2>2, <2>3 DEF Emptied, NothingInProgress
<1>3. ASSUME NEW w \in Workers, RemoveJobFromInProgress(w) PROVE Goal
    <2>1. PICK q, e, m : EndsOf(w, q, e, m)
        BY <1>3, <1>t, RemoveLists
    <2>2. q = PoolOf[w] /\ m \in Names /\ AddLock(m, q, -1) /\ wpc[w] # "off"
        BY <2>1 DEF EndsOf, Busy
    <2>3. p \in lockField[n] \/ q = p
        BY <1>a, <2>2
    <2> QED
        BY <2>2, <2>3 DEF ServingWorkers
<1>4. ASSUME NEW q, NEW types \in SUBSET Names, GivesBack(q, types) PROVE Goal
    BY <1>t, <1>4 DEF GivesBack, LuaReapStaleLocks
<1>5. ASSUME UNCHANGED lockVars PROVE Goal
    BY <1>5 DEF lockVars
<1>6. ASSUME NEW e, Brings(e) PROVE Goal
    BY <1>5, <1>6 DEF Brings, Pushes
<1>7. ASSUME NEW k, NEW e, NEW f, Drops(k, e) \/ Buries(k, e) \/ Revives(k, e, f) PROVE Goal
    BY <1>5, <1>7 DEF Drops, Buries, Revives, Pushes
<1>8. ASSUME NEW k, NEW e, Drops(k, e) \/ Buries(k, e) PROVE Goal
    BY <1>5, <1>8 DEF Drops, Buries
<1> HIDE DEF Goal
<1>9. Goal
    BY <1>1, <1>2, <1>3, <1>4, <1>5, <1>6, <1>7, <1>8, JobSteps DEF JobsMove, JobStep, jobVars
<1> QED
    BY <1>9 DEF Goal

-----------------------------------------------------------------------------
(* A pool that has stopped. *)

(***************************************************************************)
(* Only a pool on which Stop may be called is in Stop.                     *)
(***************************************************************************)
StopIsCalled == \A p \in Pools : phase[p] \in {"new", "started", "crashed"} \/ p \in Stoppable

(***************************************************************************)
(* Start and a crash leave Stop, and only Stop enters it.                  *)
(***************************************************************************)
LEMMA StopIsCalledNext == TypeOK /\ StopIsCalled /\ [Next]_vars => StopIsCalled'
<1> SUFFICES ASSUME TypeOK, StopIsCalled, [Next]_vars, NEW p \in Pools
             PROVE  phase'[p] \in {"new", "started", "crashed"} \/ p \in Stoppable
    BY DEF StopIsCalled
<1> QED
    BY PhaseSteps DEF StopIsCalled, StopWait, StopRequeue, StopClean, StopSrem, StopDel, StopRest,
        PoolStopError, StopError

(***************************************************************************)
(* No call that Stop makes fails.                                          *)
(***************************************************************************)
StopCallsSucceed == "redis_error" \notin Env \/ Stoppable = {}

(***************************************************************************)
(* What Stop has cleared stays clear: after its requeue loop the pool has  *)
(* nothing in progress, after cleanStaleLockInfo it holds no lock, after   *)
(* SREM it is not listed, and after DEL it has no heartbeat.               *)
(***************************************************************************)
Requeued(p)   == phase[p] \in {"clean", "unbeat", "unbeat2", "quiesce", "stopped"}
LocksGiven(p) == phase[p] \in {"unbeat", "unbeat2", "quiesce", "stopped"}
Unlisted(p)   == phase[p] \in {"unbeat2", "quiesce", "stopped"}
BeatGone(p)   == phase[p] \in {"quiesce", "stopped"}

StopLeavesNothing ==
    \A p \in Pools :
        /\ Requeued(p) => Emptied(p)
        /\ LocksGiven(p) => \A n \in Names : p \notin lockField[n]
        /\ Unlisted(p) => p \notin workerPools
        /\ BeatGone(p) => heartbeat[p] = "absent"

(***************************************************************************)
(* No worker, no reaper and no heartbeater undoes what Stop did.           *)
(***************************************************************************)
LEMMA StopLeavesNothingNext ==
    ASSUME StopCallsSucceed, TypeOK, ServingWorkers, BeatersFollow, StopIsCalled, Filed, JobsUnderName,
           StopLeavesNothing, [Next]_vars
    PROVE  StopLeavesNothing'
<1> SUFFICES ASSUME NEW p \in Pools
             PROVE  /\ Requeued(p)' => Emptied(p)'
                    /\ LocksGiven(p)' => \A n \in Names : p \notin lockField'[n]
                    /\ Unlisted(p)' => p \notin workerPools'
                    /\ BeatGone(p)' => heartbeat'[p] = "absent"
    BY DEF StopLeavesNothing
<1>e. ~ PoolStopError(p)
    BY DEF PoolStopError, StopError, Fault, StopIsCalled, StopCallsSucceed
<1>1. ASSUME Requeued(p)' PROVE Emptied(p)'
    <2>1. CASE StopRequeue(p) /\ phase'[p] = "clean"
        <3>1. NothingInProgress(p, Handles[p]) /\ UNCHANGED listVars
            BY <2>1 DEF StopRequeue
        <3>2. Emptied(p)
            BY <3>1 DEF Filed, Emptied, NothingInProgress
        <3> QED
            BY <3>1, <3>2 DEF Emptied, NothingInProgress, listVars
    <2>2. CASE Requeued(p)
        <3>1. Emptied(p) /\ ~ Serving(p)
            BY <2>2 DEF StopLeavesNothing, Requeued, Serving
        <3> QED
            BY <3>1, EmptiedStays
    <2> QED
        BY <1>1, <1>e, <2>1, <2>2, PhaseSteps
            DEF Requeued, StopClean, StopSrem, StopDel, StopRest
<1>2. ASSUME LocksGiven(p)', NEW n \in Names PROVE p \notin lockField'[n]
    <2>1. CASE StopClean(p)
        <3>1. LuaReapStaleLocks(p, Handles[p])
            BY <2>1 DEF StopClean
        <3>2. lockField'[n] = IF n \in Handles[p] /\ p \in lockField[n] THEN lockField[n] \ {p}
                              ELSE lockField[n]
            BY <3>1, StoreAssumption DEF LuaReapStaleLocks
        <3> QED
            BY <3>2 DEF JobsUnderName
    <2>2. CASE LocksGiven(p)
        <3>1. Emptied(p) /\ ~ Serving(p) /\ p \notin lockField[n]
            BY <2>2 DEF StopLeavesNothing, LocksGiven, Requeued, Serving
        <3> QED
            BY <3>1, FieldSteps
    <2> QED
        BY <1>2, <1>e, <2>1, <2>2, PhaseSteps DEF LocksGiven, StopSrem, StopDel, StopRest
<1>3. ASSUME Unlisted(p)' PROVE p \notin workerPools'
    <2>1. CASE StopSrem(p)
        BY <2>1 DEF StopSrem
    <2>2. CASE Unlisted(p)
        <3>1. beater[p] = "off" /\ p \notin workerPools
            BY <2>2 DEF StopLeavesNothing, Unlisted, BeatersFollow, Departed
        <3> QED
            BY <3>1, BeaterWrites
    <2> QED
        BY <1>3, <1>e, <2>1, <2>2, PhaseSteps DEF Unlisted, StopDel, StopRest
<1>4. ASSUME BeatGone(p)' PROVE heartbeat'[p] = "absent"
    <2>1. CASE StopDel(p)
        BY <2>1 DEF StopDel, TypeOK, StoreTypeOK
    <2>2. CASE BeatGone(p)
        <3>1. beater[p] = "off" /\ heartbeat[p] = "absent"
            BY <2>2 DEF StopLeavesNothing, BeatGone, BeatersFollow, Departed
        <3> QED
            BY <3>1, BeaterWrites
    <2> QED
        BY <1>4, <1>e, <2>1, <2>2, PhaseSteps DEF BeatGone, StopRest
<1> QED
    BY <1>1, <1>2, <1>3, <1>4

(***************************************************************************)
(* What holds of pools, workers and names, whatever happens.               *)
(***************************************************************************)
PoolInv ==
    /\ TypeOK /\ ServingWorkers /\ BeatersFollow /\ LimitsWritten
    /\ Filed /\ JobsUnderName /\ StopIsCalled

(***************************************************************************)
(* Before the first Start nothing runs and nothing is in Redis.            *)
(***************************************************************************)
LEMMA PoolInvInit == Init => PoolInv
<1> SUFFICES ASSUME Init PROVE PoolInv
    OBVIOUS
<1>1. TypeOK
    BY TypeInit
<1>2. ServingWorkers /\ BeatersFollow /\ LimitsWritten /\ StopIsCalled
    BY WorkerAssumption DEF Init, WorkerInit, PoolInit, ServingWorkers, BeatersFollow, Departed, LimitsWritten,
        StopIsCalled
<1>3. Filed /\ JobsUnderName
    BY <1>1, NoJobYet DEF Init, TypeOK
<1> QED
    BY <1>1, <1>2, <1>3 DEF PoolInv

(***************************************************************************)
(* Every step of a pool, a worker, a reaper, a requeuer, a client or the   *)
(* environment keeps it.                                                   *)
(***************************************************************************)
LEMMA PoolInvNext == PoolInv /\ [Next]_vars => PoolInv'
BY TypeNext, ServingWorkersNext, BeatersFollowNext, LimitsWrittenNext, FilingNext, StopIsCalledNext
    DEF PoolInv

(***************************************************************************)
(* Only the workers of a serving pool run, its heartbeater follows its     *)
(* phase, the limits are written before workers run, and every job is      *)
(* filed under its own name, whatever happens.                             *)
(***************************************************************************)
THEOREM AlwaysPoolInv == Spec => []PoolInv
BY PoolInvInit, PoolInvNext, PTL DEF Spec

(***************************************************************************)
(* Whatever crashes, is delayed, is lost or is restarted, a pool whose     *)
(* Stop has returned has left nothing behind, if no call of Stop failed.   *)
(***************************************************************************)
THEOREM StopCleansUp == StopCallsSucceed => (Spec => []StoppedPoolIsClean)
<1> SUFFICES ASSUME StopCallsSucceed PROVE Spec => []StoppedPoolIsClean
    OBVIOUS
<1>1. Init => StopLeavesNothing
    BY DEF Init, PoolInit, StopLeavesNothing, Requeued, LocksGiven, Unlisted, BeatGone
<1>2. PoolInv /\ StopLeavesNothing /\ [Next]_vars => StopLeavesNothing'
    BY StopLeavesNothingNext DEF PoolInv
<1>3. StopLeavesNothing => StoppedPoolIsClean
    BY DEF StopLeavesNothing, StoppedPoolIsClean, Requeued, LocksGiven, Unlisted, BeatGone, Emptied
<1> QED
    BY <1>1, <1>2, <1>3, AlwaysPoolInv, PTL DEF Spec

-----------------------------------------------------------------------------
(* Dead jobs. *)

(***************************************************************************)
(* Where every pool has registered every name, a job is dead only when it  *)
(* has failed as often as MaxFails allows, whatever else goes wrong.       *)
(***************************************************************************)
THEOREM DeadAreExhausted == PoolsAgree => (Spec => []DeadOnlyWhenExhausted)
<1> SUFFICES ASSUME PoolsAgree PROVE Spec => []DeadOnlyWhenExhausted
    OBVIOUS
<1>1. Init => TypeOK /\ DeadOnlyWhenExhausted
    BY TypeInit DEF Init, StoreInit, DeadOnlyWhenExhausted, Zsets
<1>2. TypeOK /\ DeadOnlyWhenExhausted /\ [Next]_vars => (TypeOK /\ DeadOnlyWhenExhausted)'
    <2> SUFFICES ASSUME TypeOK, DeadOnlyWhenExhausted, [Next]_vars PROVE (TypeOK /\ DeadOnlyWhenExhausted)'
        OBVIOUS
    <2>1. StoreTypeOK /\ WorkerTypeOK
        BY DEF TypeOK
    <2>2. DeadOnlyWhenExhausted'
        BY <2>1, JobSteps, DeadExhaustedNext DEF JobsMove
    <2> QED
        BY <2>2, TypeNext
<1> QED
    BY <1>1, <1>2, PTL DEF Spec
=============================================================================
