----------------------------- MODULE ReaperProofs -----------------------------
(***************************************************************************)
(* What the reapers do, for any number of pools, workers, jobs and names:  *)
(* that a reaper takes only departed pools for dead (ReapsDeparted), that  *)
(* it removes the traces of a pool only when that has no job in progress   *)
(* any more (ReapsEmptied), and that a job in progress can get out again.  *)
(* The first needs that heartbeats come in time; the second, also that no  *)
(* call of Stop fails.                                                     *)
(***************************************************************************)
EXTENDS WorkSystemProofs

\* The obligations are small, but it takes time to translate them.
USE Zenon

-----------------------------------------------------------------------------
(* The reapers. *)

(***************************************************************************)
(* How a reaper goes on: where the pools it is to look at, the dead pools  *)
(* it has found and the one at hand come from.                             *)
(***************************************************************************)
Cleaning == {"del", "srem", "clean"}

ReaperMoves(r) ==
    /\ reaper'[r].todo \subseteq reaper[r].todo \cup workerPools
    /\ \A q \in reaper'[r].stale :
        q \in reaper[r].stale \/ (reaper[r].pc = "names" /\ q = reaper[r].cur)
    /\ \A q \in reaper'[r].gone :
        q \in reaper[r].gone \/ (q \in reaper[r].todo /\ heartbeat[q] = "absent")
    /\ reaper'[r].pc \in Reaping =>
        \/ reaper[r].pc \in Reaping /\ reaper'[r].cur = reaper[r].cur
        \/ reaper'[r].cur \in reaper[r].stale \cup reaper[r].gone
        \/ reaper'[r].cur \in reaper[r].todo /\ heartbeat[reaper'[r].cur] = "stale"
    /\ reaper'[r].pc \in Cleaning =>
        \/ reaper[r].pc \in Cleaning /\ reaper'[r].cur = reaper[r].cur
        \/ /\ reaper[r].pc = "requeue" /\ reaper'[r].cur = reaper[r].cur
           /\ NothingInProgress(reaper[r].cur, Handles[reaper[r].cur])
           /\ UNCHANGED listVars
        \/ reaper'[r].cur \in reaper[r].gone

(***************************************************************************)
(* Every step of the system does this to every reaper.                     *)
(***************************************************************************)
LEMMA ReaperSteps ==
    ASSUME TypeOK, [Next]_vars, NEW r \in Pools
    PROVE  ReaperMoves(r)
<1>t. /\ reaper \in [Pools -> [pc : ReaperPcs, cur : Pools \cup {NoPool},
                               todo : SUBSET Pools, stale : SUBSET Pools, gone : SUBSET Pools]]
      /\ heartbeat \in [Pools -> {"absent", "fresh", "stale"}]
    BY DEF TypeOK, ReaperTypeOK, StoreTypeOK
<1>a. ASSUME reaper'[r] = reaper[r] PROVE ReaperMoves(r)
    BY <1>a DEF ReaperMoves
<1>b. ASSUME NEW pc, NEW q, NEW todo, NEW stale, NEW gone, ReaperBecomes(r, pc, q, todo, stale, gone)
      PROVE  /\ reaper'[r].pc = pc /\ reaper'[r].cur = q
             /\ reaper'[r].todo = todo /\ reaper'[r].stale = stale /\ reaper'[r].gone = gone
    BY <1>t, <1>b DEF ReaperBecomes
<1>c. ASSUME NEW q \in Pools, q # r, ReaperWork(q) \/ ReaperError(q) PROVE reaper'[r] = reaper[r]
    <2>1. ASSUME NEW pc, NEW p, NEW todo, NEW stale, NEW gone, ReaperBecomes(q, pc, p, todo, stale, gone)
          PROVE  reaper'[r] = reaper[r]
        BY <1>t, <1>c, <2>1 DEF ReaperBecomes
    <2>2. ASSUME NEW p \in Pools, FindHeartbeat(q, p) PROVE reaper'[r] = reaper[r]
        <3>1. heartbeat[p] \in {"absent", "fresh", "stale"}
            BY <1>t
        <3> DEFINE todo == reaper[q].todo \ {p}
        <3>2. heartbeat[p] = "absent" =>
                ReaperBecomes(q, "find", NoPool, todo, reaper[q].stale, reaper[q].gone \cup {p})
            BY <2>2 DEF FindHeartbeat
        <3>3. heartbeat[p] = "fresh" =>
                ReaperBecomes(q, "find", NoPool, todo, reaper[q].stale, reaper[q].gone)
            BY <2>2 DEF FindHeartbeat
        <3>4. heartbeat[p] = "stale" =>
                ReaperBecomes(q, "names", p, todo, reaper[q].stale, reaper[q].gone)
            BY <2>2 DEF FindHeartbeat
        <3> HIDE DEF todo
        <3> QED
            BY <2>1, <3>1, <3>2, <3>3, <3>4
    <2>3. CASE ~ \E p \in Pools : FindHeartbeat(q, p)
        <3>1. \/ UNCHANGED reaper
              \/ \E pc, p, todo, stale, gone : ReaperBecomes(q, pc, p, todo, stale, gone)
            BY ZenonT(120), <1>c, <2>3 DEF ReaperWork, ReaperError, ReapStart, FindJobNames, ReapNext,
                ReapRequeue, ReapDel, ReapSrem, ReapClean, ReapAbort, ReaperGoto
        <3> QED
            BY <2>1, <3>1
    <2> QED
        BY <2>2, <2>3
<1>1. ASSUME ReaperWork(r) \/ ReaperError(r) PROVE ReaperMoves(r)
    <2>1. CASE ReapStart(r)
        <3>1. ReaperBecomes(r, "find", NoPool, workerPools, {}, {})
            BY <2>1 DEF ReapStart
        <3> QED
            BY <1>b, <3>1, SMT DEF ReaperMoves, Reaping, Cleaning
    <2>2. ASSUME NEW q \in Pools, FindHeartbeat(r, q) PROVE ReaperMoves(r)
        <3> DEFINE todo == reaper[r].todo \ {q}
        <3>0. q \in reaper[r].todo
            BY <2>2 DEF FindHeartbeat
        <3>1. CASE heartbeat[q] = "absent"
            <4>1. ReaperBecomes(r, "find", NoPool, todo, reaper[r].stale, reaper[r].gone \cup {q})
                BY <2>2, <3>1 DEF FindHeartbeat
            <4> QED
                BY <1>b, <3>0, <3>1, <4>1, SMT DEF ReaperMoves, Reaping, Cleaning
        <3>2. CASE heartbeat[q] = "fresh"
            <4>1. ReaperBecomes(r, "find", NoPool, todo, reaper[r].stale, reaper[r].gone)
                BY <2>2, <3>2 DEF FindHeartbeat
            <4> QED
                BY <1>b, <4>1, SMT DEF ReaperMoves, Reaping, Cleaning
        <3>3. CASE heartbeat[q] = "stale"
            <4>1. ReaperBecomes(r, "names", q, todo, reaper[r].stale, reaper[r].gone)
                BY <2>2, <3>3 DEF FindHeartbeat
            <4> QED
                BY <1>b, <3>0, <3>3, <4>1, SMT DEF ReaperMoves, Reaping, Cleaning
        <3> QED
            BY <1>t, <3>1, <3>2, <3>3
    <2>3. CASE FindJobNames(r)
        <3> DEFINE dead == IF heartbeat[reaper[r].cur] = "absent" THEN {} ELSE {reaper[r].cur}
        <3>1. reaper[r].pc = "names"
            BY <2>3 DEF FindJobNames
        <3>2. ReaperBecomes(r, "find", NoPool, reaper[r].todo, reaper[r].stale \cup dead, reaper[r].gone)
            BY <2>3 DEF FindJobNames
        <3> QED
            BY <1>b, <3>1, <3>2, SMT DEF ReaperMoves, Reaping, Cleaning
    <2>4. CASE ReapNext(r)
        <3>1. ASSUME NEW pc, NEW q, ReaperGoto(r, pc, q),
                     \/ pc = "idle"
                     \/ pc = "requeue" /\ q \in reaper[r].stale
                     \/ pc = "srem" /\ q \in reaper[r].gone
              PROVE  ReaperMoves(r)
            BY <1>b, <3>1, SMT DEF ReaperGoto, ReaperMoves, Reaping, Cleaning
        <3> QED
            BY <2>4, <3>1 DEF ReapNext
    <2>5. ASSUME NEW pc, ReaperGoto(r, pc, reaper[r].cur),
                 reaper[r].pc \in Reaping,
                 pc \in Cleaning =>
                    \/ reaper[r].pc \in Cleaning
                    \/ /\ reaper[r].pc = "requeue" /\ UNCHANGED listVars
                       /\ NothingInProgress(reaper[r].cur, Handles[reaper[r].cur])
          PROVE  ReaperMoves(r)
        BY <1>b, <2>5, SMT DEF ReaperGoto, ReaperMoves
    <2>6. CASE ReapRequeue(r)
        BY <1>a, <2>5, <2>6 DEF ReapRequeue, Reaping
    <2>7. CASE ReapDel(r)
        BY <2>5, <2>7 DEF ReapDel, Reaping, Cleaning
    <2>8. CASE ReapSrem(r)
        BY <2>5, <2>8 DEF ReapSrem, Reaping, Cleaning
    <2>9. CASE ReapClean(r)
        <3> DEFINE q == reaper[r].cur
        <3>1. ReaperBecomes(r, "find", NoPool, {}, reaper[r].stale \ {q}, reaper[r].gone \ {q})
            BY <2>9 DEF ReapClean
        <3> QED
            BY <1>b, <3>1, SMT DEF ReaperMoves, Reaping, Cleaning
    <2>10. CASE ReapAbort(r)
        <3>1. ReaperBecomes(r, "idle", NoPool, {}, {}, {})
            BY <2>10 DEF ReapAbort
        <3> QED
            BY <1>b, <3>1, SMT DEF ReaperMoves, Reaping, Cleaning
    <2> QED
        BY <1>1, <2>1, <2>2, <2>3, <2>4, <2>6, <2>7, <2>8, <2>9, <2>10 DEF ReaperWork, ReaperError
<1>2. ASSUME NEW q \in Pools,
             \/ reaper' = [reaper EXCEPT ![q] = ReaperAt("idle")]
             \/ reaper' = [reaper EXCEPT ![q] = ReaperAt("off")]
      PROVE  ReaperMoves(r)
    <2>1. CASE q # r
        <3>1. reaper'[r] = reaper[r]
            BY <1>t, <1>2, <2>1
        <3> QED
            BY <1>a, <3>1
    <2>2. CASE q = r
        <3>1. reaper'[r] = ReaperAt("idle") \/ reaper'[r] = ReaperAt("off")
            BY <1>t, <1>2, <2>2
        <3>2. /\ reaper'[r].pc \in {"idle", "off"}
              /\ reaper'[r].todo = {} /\ reaper'[r].stale = {} /\ reaper'[r].gone = {}
            BY <3>1, SMT DEF ReaperAt
        <3> QED
            BY <3>2 DEF ReaperMoves, Reaping, Cleaning
    <2> QED
        BY <2>1, <2>2
<1>3. ASSUME NEW q \in Pools, PoolStart(q) \/ PoolCrash(q) PROVE ReaperMoves(r)
    BY <1>2, <1>3, StartOf DEF Start, PoolCrash, Crash
<1>4. ASSUME NEW q \in Pools, StopWork(q) PROVE ReaperMoves(r)
    <2>1. CASE StopRest(q)
        <3>1. reaper' = [reaper EXCEPT ![q] = ReaperAt("off")]
            BY <2>1 DEF StopRest
        <3> QED
            BY <1>2, <3>1
    <2>2. CASE ~ StopRest(q)
        <3>1. UNCHANGED reaper
            BY ZenonT(120), <1>4, <2>2 DEF StopWork, StopWorker, StopWait, StopRequeue, StopClean,
                StopSrem, StopDel
        <3> QED
            BY <1>a, <3>1
    <2> QED
        BY <2>1, <2>2
<1>5. ASSUME NEW q \in Pools, RequeuerStep(q) \/ Beat(q) \/ Age(q) \/ PoolStop(q) \/ PoolStopError(q)
      PROVE  UNCHANGED reaper
    BY <1>5, Frames
<1>6. ASSUME NEW w \in Workers, WorkerWork(w) \/ WorkerError(w) PROVE UNCHANGED reaper
    BY <1>6, Frames
<1>7. CASE (\E j \in Jobs : EnqueuerStep(j)) \/ OperatorStep \/ UNCHANGED vars
    BY <1>7, <1>a, Frames DEF vars
<1>8. ASSUME NEW q \in Pools, PoolStep(q) PROVE ReaperMoves(r)
    BY <1>a, <1>c, <1>1, <1>3, <1>4, <1>5, <1>8 DEF PoolStep
<1> QED
    BY <1>a, <1>6, <1>7, <1>8 DEF Next

(***************************************************************************)
(* Heartbeats come in time and in one piece, and an ID is started once.    *)
(***************************************************************************)
Timely == Env \cap {"late_beat", "split_beat", "restart"} = {}

(***************************************************************************)
(* Nothing in Redis or in a reaper names the pool.                         *)
(***************************************************************************)
Unseen(p) ==
    /\ p \notin workerPools
    /\ heartbeat[p] = "absent"
    /\ \A r \in Pools : p \notin reaper[r].todo

(***************************************************************************)
(* A reaper takes only a departed pool for dead: a pool that beats is      *)
(* listed with a fresh heartbeat, and before its first beat it is unknown. *)
(***************************************************************************)
BeatsInTime(p) ==
    /\ beater[p] # "half"
    /\ beater[p] = "on" => p \in workerPools /\ heartbeat[p] = "fresh"
    /\ phase[p] = "new" \/ beater[p] = "begin" => Unseen(p)
    /\ heartbeat[p] = "stale" => Departed(p)

TakesForDead(r, q) ==
    \/ q \in reaper[r].stale
    \/ q \in reaper[r].gone
    \/ reaper[r].pc \in Reaping /\ q = reaper[r].cur

ReapsDeparted ==
    /\ \A p \in Pools : BeatsInTime(p)
    /\ \A r, q \in Pools : TakesForDead(r, q) => Departed(q)

(***************************************************************************)
(* Without restarts, a pool that has departed does not come back.          *)
(***************************************************************************)
LEMMA DepartedStays ==
    ASSUME Timely, TypeOK, [Next]_vars, NEW p \in Pools, Departed(p)
    PROVE  Departed(p)'
<1>1. ~ PoolStart(p)
    BY StartOf DEF Timely, Departed
<1> QED
    BY <1>1, PhaseSteps DEF Departed, StopWait, StopRequeue, StopClean, StopSrem, StopDel, StopRest,
        PoolStopError, StopError, PoolCrash

(***************************************************************************)
(* One step of the system, seen from one pool and its heartbeat.           *)
(***************************************************************************)
LEMMA BeatsInTimeNext ==
    ASSUME Timely, TypeOK, BeatersFollow, ReapsDeparted, [Next]_vars, NEW p \in Pools
    PROVE  BeatsInTime(p)'
<1>t. /\ heartbeat \in [Pools -> {"absent", "fresh", "stale"}]
      /\ beater \in [Pools -> {"off", "begin", "on", "half"}]
      /\ phase \in [Pools -> Phases]
    BY DEF TypeOK, StoreTypeOK, PoolTypeOK
<1>i. BeatsInTime(p)
    BY DEF ReapsDeparted
<1>f. (phase[p] = "new" \/ Departed(p)) <=> beater[p] = "off"
    BY DEF BeatersFollow
<1>b. ASSUME Beat(p)
      PROVE  /\ beater[p] \in {"begin", "on"} /\ beater'[p] = "on"
             /\ p \in workerPools' /\ heartbeat'[p] = "fresh" /\ phase' = phase
    <2>1. ~ HeartbeatSadd(p) \/ ~ Fault("split_beat")
        BY DEF Timely, Fault
    <2>2. ~ HeartbeatHmset(p)
        BY <1>i DEF HeartbeatHmset, BeatsInTime
    <2>3. Heartbeat(p)
        BY <1>b, <2>1, <2>2 DEF Beat
    <2> QED
        BY <1>t, <2>3 DEF Heartbeat
<1>c. ASSUME Age(p)
      PROVE  /\ beater[p] = "off" /\ heartbeat[p] = "fresh" /\ UNCHANGED <<workerPools, poolVars>>
             /\ heartbeat'[p] = "stale"
    BY <1>t, <1>c DEF Age, HeartbeatAges, FaultUnless, Fault, Timely
<1>d. ASSUME NEW r \in Pools, Unregisters(r, p)
      PROVE  /\ Departed(p) /\ UNCHANGED poolVars
             /\ p \in workerPools' => p \in workerPools
             /\ heartbeat'[p] \in {"absent", heartbeat[p]}
    <2>1. TakesForDead(r, p)
        BY <1>d DEF Unregisters, ReapDel, ReapSrem, TakesForDead, Reaping
    <2>2. Departed(p)
        BY <2>1 DEF ReapsDeparted
    <2> QED
        BY <1>t, <1>d, <2>2 DEF Unregisters, ReapDel, ReapSrem
<1>s. ASSUME StopSrem(p) \/ StopDel(p)
      PROVE  /\ beater'[p] = "off"
             /\ p \in workerPools' => p \in workerPools
             /\ heartbeat'[p] \in {"absent", heartbeat[p]}
    BY <1>t, <1>f, <1>s DEF StopSrem, StopDel, Departed
<1>p. ASSUME PoolStart(p)
      PROVE  phase[p] = "new" /\ beater'[p] = "begin" /\ UNCHANGED regVars
    <2>1. phase[p] = "new"
        BY <1>p, StartOf DEF Timely
    <2>2. beater'[p] = "begin"
        <3>1. PICK unwritten \in SUBSET Handles[p] : Start(p, unwritten)
            BY <1>p, StartOf
        <3> QED
            BY <1>t, <3>1 DEF Start
    <2> QED
        BY <1>p, <2>1, <2>2, Frames
<1>q. ASSUME PoolStopError(p) \/ PoolCrash(p)
      PROVE  beater'[p] \in {"off", beater[p]} /\ UNCHANGED regVars
    <2>1. beater'[p] \in {"off", beater[p]}
        BY <1>t, <1>q DEF PoolStopError, StopError, PoolCrash, Crash
    <2> QED
        BY <1>q, <2>1, Frames DEF storeVars
<1>n. phase'[p] = "new" => phase[p] = "new"
    BY PhaseSteps, <1>t DEF PoolStopError, StopError, Goto
<1>1. beater'[p] # "half"
    BY <1>b, <1>c, <1>d, <1>s, <1>p, <1>q, <1>i, RegSteps DEF BeatsInTime, poolVars
<1>2. ASSUME beater'[p] = "on" PROVE p \in workerPools' /\ heartbeat'[p] = "fresh"
    BY <1>2, <1>b, <1>c, <1>d, <1>s, <1>p, <1>q, <1>i, <1>f, RegSteps DEF BeatsInTime, poolVars, regVars
<1>3. ASSUME phase'[p] = "new" \/ beater'[p] = "begin" PROVE Unseen(p)'
    <2>1. Unseen(p) /\ ~ Beat(p)
        BY <1>3, <1>b, <1>c, <1>d, <1>s, <1>p, <1>q, <1>i, <1>f, <1>n, RegSteps DEF BeatsInTime, poolVars
    <2>2. ~ Age(p)
        BY <1>c, <2>1 DEF Unseen
    <2>3. p \notin workerPools' /\ heartbeat'[p] = "absent"
        BY <1>d, <1>s, <1>p, <1>q, <2>1, <2>2, RegSteps DEF Unseen, regVars
    <2>4. \A r \in Pools : p \notin reaper'[r].todo
        BY <2>1, ReaperSteps DEF Unseen, ReaperMoves
    <2> QED
        BY <2>3, <2>4 DEF Unseen
<1>4. ASSUME heartbeat'[p] = "stale" PROVE Departed(p)'
    <2>1. Departed(p)
        BY <1>4, <1>b, <1>c, <1>d, <1>s, <1>p, <1>q, <1>i, <1>f, RegSteps DEF BeatsInTime, Unseen, regVars
    <2> QED
        BY <2>1, DepartedStays
<1> QED
    BY <1>1, <1>2, <1>3, <1>4 DEF BeatsInTime

(***************************************************************************)
(* A pool that a reaper finds without a heartbeat, or with an old one, has *)
(* departed, and stays so while the reaper is at it.                       *)
(***************************************************************************)
LEMMA ReapsDepartedNext ==
    ASSUME Timely, TypeOK, BeatersFollow, ReapsDeparted, [Next]_vars
    PROVE  ReapsDeparted'
<1>1. ASSUME NEW r \in Pools, NEW q \in Pools, q \in reaper[r].todo, heartbeat[q] # "fresh"
      PROVE  Departed(q)
    <2>1. ~ Unseen(q) /\ BeatsInTime(q)
        BY <1>1 DEF Unseen, ReapsDeparted
    <2>2. beater[q] \in {"off", "begin", "on", "half"}
        BY DEF TypeOK, PoolTypeOK
    <2> QED
        BY <1>1, <2>1, <2>2 DEF BeatsInTime, BeatersFollow
<1>2. ASSUME NEW r \in Pools, NEW q \in Pools, TakesForDead(r, q)' PROVE Departed(q)'
    <2>0. ReaperMoves(r)
        BY ReaperSteps
    <2>1. \/ TakesForDead(r, q)
          \/ q \in reaper[r].todo /\ heartbeat[q] # "fresh"
        BY <1>2, <2>0 DEF TakesForDead, ReaperMoves, Reaping
    <2>2. Departed(q)
        BY <1>1, <2>1 DEF ReapsDeparted
    <2> QED
        BY <2>2, DepartedStays
<1> QED
    BY <1>2, BeatsInTimeNext DEF ReapsDeparted

(***************************************************************************)
(* A reaper removes the last trace of a pool only after its in-progress    *)
(* jobs: a pool without a heartbeat that is still listed, or that some     *)
(* reaper still has to look at, has none, and neither has a pool whose     *)
(* heartbeat, name and locks a reaper is about to remove.                  *)
(***************************************************************************)
Listed(p) == p \in workerPools \/ \E r \in Pools : p \in reaper[r].todo

CleansUp(r, q) ==
    q \in reaper[r].gone \/ (reaper[r].pc \in Cleaning /\ q = reaper[r].cur)

ReapsEmptied ==
    /\ \A p \in Pools : heartbeat[p] = "absent" /\ Listed(p) => Emptied(p)
    /\ \A r, q \in Pools : CleansUp(r, q) => Emptied(q)

(***************************************************************************)
(* The order of the calls, in reap and in Stop: requeue, then DEL and SREM.*)
(***************************************************************************)
LEMMA ReapsEmptiedNext ==
    ASSUME Timely, PoolInv, StopLeavesNothing, ReapsDeparted, ReapsEmptied, [Next]_vars
    PROVE  ReapsEmptied'
<1>t. TypeOK /\ ServingWorkers /\ BeatersFollow /\ Filed
    BY DEF PoolInv
<1>u. beater \in [Pools -> {"off", "begin", "on", "half"}]
    BY <1>t DEF TypeOK, PoolTypeOK
<1>a. ASSUME NEW q \in Pools, Departed(q), Emptied(q) PROVE Emptied(q)'
    <2>1. ~ Serving(q)
        BY <1>a DEF Departed, Serving
    <2> QED
        BY <1>a, <1>t, <2>1, EmptiedStays
<1>1. ASSUME NEW p \in Pools, heartbeat'[p] = "absent", Listed(p)' PROVE Emptied(p)'
    <2>b. ~ Beat(p)
        <3>1. ~ (HeartbeatSadd(p) /\ Fault("split_beat"))
            BY DEF Timely, Fault
        <3>2. ~ Heartbeat(p) /\ ~ HeartbeatHmset(p)
            BY <1>1, <1>t DEF Heartbeat, HeartbeatHmset, TypeOK, StoreTypeOK
        <3> QED
            BY <3>1, <3>2 DEF Beat
    <2>1. CASE heartbeat[p] = "absent"
        <3>1. p \in workerPools' => p \in workerPools
            <4>1. CASE PoolStart(p) \/ PoolStopError(p) \/ PoolCrash(p)
                BY <4>1, Frames DEF storeVars, regVars
            <4>2. CASE Age(p) \/ StopSrem(p) \/ StopDel(p)
                BY <4>2 DEF Age, HeartbeatAges, StopSrem, StopDel
            <4>3. ASSUME NEW r \in Pools, Unregisters(r, p) PROVE p \in workerPools' => p \in workerPools
                BY <4>3 DEF Unregisters, ReapDel, ReapSrem
            <4> QED
                BY <1>t, <2>b, <4>1, <4>2, <4>3, RegSteps
        <3>2. \A r \in Pools : reaper'[r].todo \subseteq reaper[r].todo \cup workerPools
            BY <1>t, ReaperSteps DEF ReaperMoves
        <3>3. Listed(p)
            BY <1>1, <3>1, <3>2 DEF Listed
        <3>4. Emptied(p)
            BY <2>1, <3>3 DEF ReapsEmptied
        <3>5. BeatsInTime(p) /\ ~ Unseen(p)
            BY <3>3 DEF ReapsDeparted, Unseen, Listed
        <3>6. ~ Serving(p)
            BY <1>t, <1>u, <2>1, <3>5 DEF BeatsInTime, BeatersFollow, Serving, Departed
        <3> QED
            BY <1>t, <3>4, <3>6, EmptiedStays
    <2>2. CASE heartbeat[p] # "absent"
        <3>1. CASE StopDel(p)
            <4>1. Departed(p) /\ Requeued(p)
                BY <3>1 DEF StopDel, Departed, Requeued
            <4> QED
                BY <1>a, <4>1 DEF StopLeavesNothing
        <3>2. ASSUME NEW r \in Pools, Unregisters(r, p) PROVE Emptied(p)'
            <4>1. CleansUp(r, p) /\ TakesForDead(r, p)
                BY <3>2 DEF Unregisters, ReapDel, ReapSrem, CleansUp, Cleaning, TakesForDead, Reaping
            <4> QED
                BY <1>a, <4>1 DEF ReapsEmptied, ReapsDeparted
        <3>3. ~ Age(p) /\ ~ StopSrem(p)
            BY <1>1, <1>t, <2>2 DEF Age, HeartbeatAges, StopSrem, TypeOK, StoreTypeOK
        <3>4. ~ (PoolStart(p) \/ PoolStopError(p) \/ PoolCrash(p))
            BY <1>1, <2>2, Frames DEF storeVars, regVars
        <3> QED
            BY <1>1, <1>t, <2>b, <2>2, <3>1, <3>2, <3>3, <3>4, RegSteps
    <2> QED
        BY <2>1, <2>2
<1>2. ASSUME NEW r \in Pools, NEW q \in Pools, CleansUp(r, q)' PROVE Emptied(q)'
    <2>0. ReaperMoves(r)
        BY <1>t, ReaperSteps
    <2>1. \/ CleansUp(r, q)
          \/ q \in reaper[r].todo /\ heartbeat[q] = "absent"
          \/ /\ reaper[r].pc = "requeue" /\ q = reaper[r].cur
             /\ NothingInProgress(q, Handles[q]) /\ UNCHANGED listVars
        BY <1>2, <2>0 DEF CleansUp, ReaperMoves, Cleaning
    <2>2. CASE CleansUp(r, q)
        <3>1. Emptied(q) /\ TakesForDead(r, q)
            BY <2>2 DEF ReapsEmptied, CleansUp, TakesForDead, Cleaning, Reaping
        <3> QED
            BY <1>a, <3>1 DEF ReapsDeparted
    <2>3. CASE q \in reaper[r].todo /\ heartbeat[q] = "absent"
        <3>1. Listed(q) /\ ~ Unseen(q) /\ BeatsInTime(q)
            BY <2>3 DEF Listed, Unseen, ReapsDeparted
        <3>2. Departed(q)
            BY <1>t, <1>u, <2>3, <3>1 DEF BeatsInTime, BeatersFollow
        <3> QED
            BY <1>a, <2>3, <3>1, <3>2 DEF ReapsEmptied
    <2>4. CASE NothingInProgress(q, Handles[q]) /\ UNCHANGED listVars
        <3>1. Emptied(q)
            BY <1>t, <2>4 DEF Filed, Emptied, NothingInProgress
        <3> QED
            BY <2>4, <3>1 DEF Emptied, NothingInProgress, listVars
    <2> QED
        BY <2>1, <2>2, <2>3, <2>4
<1> QED
    BY <1>1, <1>2 DEF ReapsEmptied

(***************************************************************************)
(* No pool dies between its Start and its first heartbeat.                 *)
(***************************************************************************)
DiesRegistered == "unregistered_crash" \notin Env

(***************************************************************************)
(* A pool that dies with jobs in progress is listed with a heartbeat, and  *)
(* only a reaper that has requeued them removes these.                     *)
(***************************************************************************)
LEMMA RecoverableNext ==
    ASSUME Timely, StopCallsSucceed, DiesRegistered, PoolInv, StopLeavesNothing, ReapsDeparted,
           ReapsEmptied, InProgressRecoverable, [Next]_vars
    PROVE  InProgressRecoverable'
<1>t. TypeOK /\ ServingWorkers /\ BeatersFollow
    BY DEF PoolInv
<1>u. /\ beater \in [Pools -> {"off", "begin", "on", "half"}] /\ phase \in [Pools -> Phases]
      /\ phase' \in [Pools -> Phases]
    BY <1>t, TypeNext DEF TypeOK, PoolTypeOK
<1>s. StopLeavesNothing'
    BY StopLeavesNothingNext DEF PoolInv
<1> SUFFICES ASSUME NEW p \in Pools, ~ Emptied(p)', phase'[p] \notin {"started", "stopping", "requeue"}
             PROVE  p \in workerPools' /\ heartbeat'[p] # "absent"
    BY DEF InProgressRecoverable, Emptied
<1>i. BeatsInTime(p)
    BY DEF ReapsDeparted
<1>1. phase'[p] # "new"
    <2>1. ASSUME phase[p] = "new" PROVE Emptied(p)
        BY <2>1, <1>i DEF InProgressRecoverable, Emptied, BeatsInTime, Unseen
    <2>2. phase'[p] = "new" => phase[p] = "new"
        BY <1>t, <1>u, PhaseSteps DEF PoolStopError, StopError, Goto
    <2> QED
        BY <1>t, <2>1, <2>2, EmptiedStays DEF Serving
<1>2. phase'[p] = "crashed"
    BY <1>s, <1>u, <1>1 DEF StopLeavesNothing, Requeued, Phases
<1>3. CASE PoolCrash(p)
    <2>1. UNCHANGED storeVars /\ Live(p) /\ beater[p] # "begin"
        BY <1>3, Frames DEF PoolCrash, Crash, FaultUnless, Fault, DiesRegistered
    <2>2. ~ Emptied(p)
        BY <2>1 DEF Emptied, NothingInProgress, storeVars, listVars
    <2>3. beater[p] = "on"
        BY <1>t, <1>u, <1>i, <2>1, <2>2
            DEF BeatersFollow, BeatsInTime, Departed, Live, StopLeavesNothing, Requeued
    <2> QED
        BY <1>i, <2>1, <2>3 DEF BeatsInTime, storeVars, regVars
<1>4. CASE phase[p] = "crashed"
    <2>1. ~ Emptied(p)
        BY <1>4, <1>t, EmptiedStays DEF Serving
    <2>2. p \in workerPools /\ heartbeat[p] # "absent" /\ beater[p] = "off"
        BY <1>4, <1>t, <2>1 DEF InProgressRecoverable, Emptied, BeatersFollow, Departed
    <2>3. ~ Beat(p)
        BY <2>2 DEF Beat, Heartbeat, HeartbeatSadd, HeartbeatHmset
    <2>4. CASE Age(p)
        <3>1. heartbeat' = [heartbeat EXCEPT ![p] = "stale"] /\ UNCHANGED workerPools
            BY <2>4 DEF Age, HeartbeatAges
        <3>2. heartbeat \in [Pools -> {"absent", "fresh", "stale"}]
            BY <1>t DEF TypeOK, StoreTypeOK
        <3> QED
            BY <2>2, <3>1, <3>2
    <2>5. ASSUME NEW r \in Pools, Unregisters(r, p) PROVE FALSE
        <3>1. CleansUp(r, p)
            BY <2>5 DEF Unregisters, ReapDel, ReapSrem, CleansUp, Cleaning
        <3> QED
            BY <2>1, <3>1 DEF ReapsEmptied
    <2>6. ~ StopSrem(p) /\ ~ StopDel(p)
        BY <1>4 DEF StopSrem, StopDel
    <2>7. CASE PoolStart(p) \/ PoolStopError(p) \/ PoolCrash(p)
        BY <2>2, <2>7, Frames DEF storeVars, regVars
    <2> QED
        BY <1>t, <2>2, <2>3, <2>4, <2>5, <2>6, <2>7, RegSteps
<1>5. PoolStopError(p) => phase'[p] # "crashed"
    BY <1>u DEF PoolStopError, StopError, Goto
<1> QED
    BY <1>t, <1>2, <1>3, <1>4, <1>5, PhaseSteps

(***************************************************************************)
(* The invariant behind the theorems about timely systems.                 *)
(***************************************************************************)
ReapInv == PoolInv /\ StopLeavesNothing /\ ReapsDeparted /\ ReapsEmptied

(***************************************************************************)
(* It holds before the first Start.                                        *)
(***************************************************************************)
LEMMA ReapInvInit == Init => ReapInv
<1> SUFFICES ASSUME Init PROVE ReapInv
    OBVIOUS
<1>1. PoolInv
    BY PoolInvInit
<1>2. StopLeavesNothing
    BY DEF Init, PoolInit, StopLeavesNothing, Requeued, LocksGiven, Unlisted, BeatGone
<1>3. \A p \in Pools : /\ phase[p] = "new" /\ beater[p] = "off" /\ heartbeat[p] = "absent"
                       /\ p \notin workerPools /\ Emptied(p)
    BY DEF Init, StoreInit, PoolInit, Emptied, NothingInProgress
<1>4. \A r \in Pools : /\ reaper[r].pc = "off" /\ reaper[r].todo = {}
                       /\ reaper[r].stale = {} /\ reaper[r].gone = {}
    BY DEF Init, ReaperInit, ReaperAt
<1>5. ReapsDeparted
    BY <1>3, <1>4 DEF ReapsDeparted, BeatsInTime, Unseen, TakesForDead, Reaping
<1>6. ReapsEmptied
    BY <1>3, <1>4 DEF ReapsEmptied
<1> QED
    BY <1>1, <1>2, <1>5, <1>6 DEF ReapInv

(***************************************************************************)
(* Every step keeps it, when heartbeats come in time and calls of Stop     *)
(* succeed.                                                                *)
(***************************************************************************)
LEMMA ReapInvNext ==
    ASSUME Timely, StopCallsSucceed, ReapInv, [Next]_vars
    PROVE  ReapInv'
BY PoolInvNext, StopLeavesNothingNext, ReapsDepartedNext, ReapsEmptiedNext DEF ReapInv, PoolInv

(***************************************************************************)
(* While heartbeats come in time, no call of Stop fails and no pool dies   *)
(* before its first heartbeat, a job in progress can always get out again, *)
(* whatever crashes and whichever reapers run and fail.                    *)
(***************************************************************************)
THEOREM NoJobStranded ==
    Timely /\ StopCallsSucceed /\ DiesRegistered => (Spec => []InProgressRecoverable)
<1> SUFFICES ASSUME Timely, StopCallsSucceed, DiesRegistered PROVE Spec => []InProgressRecoverable
    OBVIOUS
<1>1. Init => ReapInv /\ InProgressRecoverable
    BY ReapInvInit, SMT DEF Init, StoreInit, InProgressRecoverable, NothingInProgress
<1>2. ReapInv /\ InProgressRecoverable /\ [Next]_vars => (ReapInv /\ InProgressRecoverable)'
    BY ReapInvNext, RecoverableNext DEF ReapInv
<1> QED
    BY <1>1, <1>2, PTL DEF Spec

-----------------------------------------------------------------------------
(* One place and one worker. *)

(***************************************************************************)
(* A requeue script runs for a departed pool, or for one whose Stop has    *)
(* joined the workers, and so never for a pool with a working worker.      *)
(***************************************************************************)
LEMMA PlacesNext ==
    ASSUME TypeOK, Filed, ServingWorkers, ReapsDeparted, SinglePlace, [Next]_vars
    PROVE  SinglePlace'
<1>1. StoreTypeOK /\ WorkerTypeOK
    BY DEF TypeOK
<1>2. JobStep(Idle, InReach("requeue", "requeue"), InReach("clean", "clean"))
    BY JobSteps DEF JobsMove
<1>3. \A w \in Workers : KeepsJob(w)
    BY WorkerSteps DEF KeepsJob
<1>4. ASSUME NEW w \in Workers, wpc[w] \in Busy PROVE PoolOf[w] \notin InReach("requeue", "requeue")
    <2>1. Serving(PoolOf[w])
        BY <1>4 DEF ServingWorkers, Busy
    <2>2. phase[PoolOf[w]] # "requeue" /\ ~ Departed(PoolOf[w])
        BY <2>1 DEF Serving, Departed
    <2>3. ASSUME NEW r \in Pools, NEW q \in Pools, reaper[r].pc = "requeue", reaper[r].cur = q
          PROVE  Departed(q)
        BY <2>3 DEF ReapsDeparted, TakesForDead, Reaping
    <2> QED
        BY <2>2, <2>3 DEF InReach
<1> QED
    BY <1>1, <1>2, <1>3, <1>4, StepSets, SinglePlaceNext

(***************************************************************************)
(* The invariant from which the next two theorems follow.                  *)
(***************************************************************************)
HoldInv == PoolInv /\ ReapsDeparted /\ SinglePlace

(***************************************************************************)
(* It holds initially: there is no job and no pool has started.            *)
(***************************************************************************)
LEMMA HoldInvInit == Init => HoldInv
<1> SUFFICES ASSUME Init PROVE HoldInv
    OBVIOUS
<1>1. PoolInv /\ ReapsDeparted
    BY ReapInvInit DEF ReapInv
<1>2. SinglePlace
    BY <1>1, NoJobYet DEF Init, PoolInv, TypeOK
<1> QED
    BY <1>1, <1>2 DEF HoldInv

(***************************************************************************)
(* Every step keeps it.                                                    *)
(***************************************************************************)
LEMMA HoldInvNext ==
    ASSUME Timely, HoldInv, [Next]_vars
    PROVE  HoldInv'
BY PoolInvNext, ReapsDepartedNext, PlacesNext DEF HoldInv, PoolInv

(***************************************************************************)
(* While heartbeats come in time, the job of a worker stays in the         *)
(* in-progress list of the worker's pool until that worker ends it.        *)
(***************************************************************************)
THEOREM RunningJobStays == Timely => (Spec => []RunningJobHeld)
<1> SUFFICES ASSUME Timely PROVE Spec => []RunningJobHeld
    OBVIOUS
<1>1. HoldInv /\ [Next]_vars => HoldInv'
    BY HoldInvNext
<1>2. HoldInv => RunningJobHeld
    BY DEF HoldInv, SinglePlace
<1> QED
    BY <1>1, <1>2, HoldInvInit, PTL DEF Spec
=============================================================================
