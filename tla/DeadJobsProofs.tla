---------------------------- MODULE DeadJobsProofs ----------------------------
(***************************************************************************)
(* The commands on the dead set, for any number of jobs, names, and sizes  *)
(* of batches: no job is lost or doubled, and RetryAllDeadJobs is complete *)
(* unless it meets a whole batch of jobs it has no queue for, or comes to  *)
(* the end of its loop.  Each dead job is on one page of getZsetPage.      *)
(***************************************************************************)
EXTENDS DeadJobs, FiniteSetTheorems, TLAPS

\* Every non-empty set of natural numbers has a least one.
LEMMA LeastNumber ==
    ASSUME NEW T, T \subseteq Nat, T # {}
    PROVE  \E x \in T : \A y \in T : x <= y
<1>1. PICK x \in T : \A y \in T : ~(<<y, x>> \in OpToRel(<, Nat))
    BY Zenon, WFMin, NatLessThanWellFounded
<1>2. \A y \in T : ~(y < x)
    BY <1>1 DEF OpToRel
<1> QED
    BY <1>2

\* The scores that a script gives are scores.
LEMMA RescoredType ==
    ASSUME DeadTypeOK, NEW js \in SUBSET Jobs, NEW names, NEW time \in Nat
    PROVE  Rescored(js, names, time) \in [Jobs -> Nat \cup {NotDead}]
    BY DeadAssumption DEF Rescored, DeadTypeOK

\* The commands and what goes on meanwhile keep the types; in particular names
\* that a command has read are still known.
LEMMA DeadTypeStep == DeadTypeOK /\ [DeadNext]_deadVars => DeadTypeOK'
<1> SUFFICES ASSUME DeadTypeOK, [DeadNext]_deadVars PROVE DeadTypeOK'
    OBVIOUS
<1> USE DeadAssumption DEF singleVars, allVars
<1>f. Found \subseteq Jobs
    BY DEF Found
<1>b. BatchOf(rnow) \subseteq Jobs /\ Due(now) \subseteq Jobs
    BY DEF BatchOf, Due
<1>n. now \in Nat /\ snow \in Nat /\ rnow \in Nat
    BY DEF DeadTypeOK
<1>r. \A js, names : Requeued(js, names) \subseteq js
    BY DEF Requeued
<1>1. CASE LookAtPage
    <2>1. PICK page \in 0 .. Cardinality(Jobs) : \E j \in ZsetPage(page) :
              seen' = [job |-> j, score |-> dead[j]]
        BY <1>1 DEF LookAtPage
    <2>2. PICK j \in ZsetPage(page) : seen' = [job |-> j, score |-> dead[j]]
        BY <2>1
    <2>3. j \in Jobs /\ dead[j] \in Nat
        BY <2>2 DEF ZsetPage, IsDead, DeadTypeOK
    <2> QED
        BY <1>1, <2>2, <2>3 DEF LookAtPage, DeadTypeOK
<1>2. CASE RetryDeadJob
    BY <1>2, <1>n DEF RetryDeadJob, DeadTypeOK
<1>3. CASE LuaRequeueSingleDead
    <2>1. dead' \in [Jobs -> Nat \cup {NotDead}]
        BY <1>3, <1>f, <1>n, RescoredType DEF LuaRequeueSingleDead
    <2>2. queue' \subseteq Jobs /\ target' \subseteq Jobs
        BY <1>3, <1>f, <1>r DEF LuaRequeueSingleDead, DeadTypeOK
    <2> QED
        BY <1>3, <1>n, <2>1, <2>2 DEF LuaRequeueSingleDead, DeadTypeOK
<1>4. CASE DeleteDeadJob
    BY <1>4, <1>f DEF DeleteDeadJob, Delete, DeadTypeOK
<1>5. CASE DeleteAllDeadJobs
    BY <1>5 DEF DeleteAllDeadJobs, Delete, DeadTypeOK
<1>6. CASE RetryAllDeadJobs
    BY <1>6, <1>n DEF RetryAllDeadJobs, DeadTypeOK
<1>7. CASE RetryAllBegin
    BY <1>7, <1>b, <1>r, <1>n DEF RetryAllBegin, DeadTypeOK
<1>8. CASE RetryAllBatch
    <2>1. dead' \in [Jobs -> Nat \cup {NotDead}]
        BY <1>8, <1>b, <1>n, RescoredType DEF RetryAllBatch, LuaRequeueAllDead
    <2>l. rpc = "loop" /\ left \in 1 .. MaxBatches
        BY <1>8 DEF RetryAllBatch, DeadTypeOK
    <2>2. /\ rpc' \in {"loop", "done"} /\ rnames' \subseteq known /\ rnow' \in 0 .. now
          /\ left' \in 0 .. MaxBatches /\ (rpc' = "loop" => left' # 0)
          /\ UNCHANGED <<now, known, gone, junk, singleVars>>
        BY <1>8, <1>n, <2>l DEF RetryAllBatch, DeadTypeOK
    <2>3. queue' \subseteq Jobs /\ target' \subseteq Jobs
        BY <1>8, <1>b, <1>r DEF RetryAllBatch, LuaRequeueAllDead, DeadTypeOK
    <2> QED
        BY <2>1, <2>2, <2>3 DEF DeadTypeOK
<1>9. CASE RetryAllFails
    BY <1>9, <1>n DEF RetryAllFails, DeadTypeOK
<1>10. CASE JobDies
    <2>1. PICK j \in queue :
              /\ queue' = queue \ {j}
              /\ dead' = [dead EXCEPT ![j] = now]
              /\ junk' \in {junk, junk \cup {j}}
        BY <1>10 DEF JobDies
    <2> QED
        BY <1>10, <1>n, <2>1 DEF JobDies, DeadTypeOK
<1>11. CASE NameBecomesKnown
    BY <1>11 DEF NameBecomesKnown, DeadTypeOK
<1>12. CASE Tick
    BY <1>12, <1>n DEF Tick, DeadTypeOK
<1>13. CASE UNCHANGED deadVars
    BY <1>13 DEF deadVars, DeadTypeOK
<1> QED
    BY <1>1, <1>2, <1>3, <1>4, <1>5, <1>6, <1>7, <1>8, <1>9, <1>10, <1>11, <1>12, <1>13
    DEF DeadNext

\* Initially the types are right.
LEMMA DeadTypeInit == DeadInit => DeadTypeOK
    BY DeadAssumption DEF DeadInit, DeadTypeOK

\* The type invariant holds: the times and names that a command has read are not
\* ahead of the clock and of known_jobs.
THEOREM DeadTypeCorrect == DeadSpec => []DeadTypeOK
    BY DeadTypeInit, DeadTypeStep, PTL DEF DeadSpec

-----------------------------------------------------------------------------
OnceInv == DeadTypeOK /\ EachJobOnce

\* A step of any command keeps every job in one place.
LEMMA OnceStep == OnceInv /\ [DeadNext]_deadVars => OnceInv'
<1> SUFFICES ASSUME OnceInv, [DeadNext]_deadVars PROVE EachJobOnce'
    BY DeadTypeStep DEF OnceInv
<1>t. DeadTypeOK
    BY DEF OnceInv
<1>n. snow \in Nat /\ rnow \in Nat /\ now \in Nat /\ Penalty \in Nat /\ NotDead \notin Nat
    BY <1>t, DeadAssumption DEF DeadTypeOK
<1>1. ASSUME NEW js \in SUBSET Jobs, NEW names, NEW time \in Nat,
             \A j \in js : IsDead(j),
             dead' = Rescored(js, names, time),
             queue' = queue \cup Requeued(js, names), gone' = gone
      PROVE  EachJobOnce'
    <2>r. /\ \A j \in Jobs \ js : dead'[j] = dead[j]
          /\ \A j \in js : NameOf[j] \in names => dead'[j] = NotDead
          /\ \A j \in js : NameOf[j] \notin names => dead'[j] = time + Penalty
        BY <1>1 DEF Rescored
    <2>1. ASSUME NEW j \in Jobs \ js
          PROVE  dead'[j] = dead[j] /\ (j \in queue' <=> j \in queue)
        BY <1>1, <2>r DEF Requeued
    <2>2. ASSUME NEW j \in js, NameOf[j] \in names
          PROVE  dead'[j] = NotDead /\ j \in queue' /\ j \notin gone
        BY <1>1, <2>2, <2>r DEF Requeued, OnceInv, EachJobOnce
    <2>3. ASSUME NEW j \in js, NameOf[j] \notin names
          PROVE  dead'[j] # NotDead /\ j \notin queue' /\ j \notin gone
        <3>1. dead'[j] = time + Penalty /\ time + Penalty \in Nat
            BY <1>n, <2>3, <2>r
        <3>2. j \notin queue /\ j \notin gone /\ j \notin Requeued(js, names)
            BY <1>1, <2>3 DEF Requeued, OnceInv, EachJobOnce
        <3> QED
            BY <1>1, <1>n, <3>1, <3>2
    <2> QED
        BY <1>1, <2>1, <2>2, <2>3 DEF OnceInv, EachJobOnce, IsDead
<1>2. ASSUME NEW js \in SUBSET Jobs, Delete(js), \A j \in js : IsDead(j), queue' = queue
      PROVE  EachJobOnce'
    BY <1>2, <1>t DEF Delete, OnceInv, EachJobOnce, IsDead, DeadTypeOK
<1>3. CASE LuaRequeueSingleDead
    <2>1. Found \subseteq Jobs /\ \A j \in Found : IsDead(j)
        <3>1. seen.score # NotDead
            BY <1>n, <1>t DEF DeadTypeOK, NoneSeen
        <3> QED
            BY <3>1 DEF Found, IsDead
    <2> QED
        BY <1>1, <1>3, <1>n, <2>1 DEF LuaRequeueSingleDead
<1>4. CASE RetryAllBatch
    <2>1. BatchOf(rnow) \subseteq Jobs /\ \A j \in BatchOf(rnow) : IsDead(j)
        BY DEF BatchOf, Due
    <2> QED
        BY <1>1, <1>4, <1>n, <2>1 DEF RetryAllBatch, LuaRequeueAllDead
<1>5. CASE DeleteDeadJob
    <2>1. Found \subseteq Jobs /\ \A j \in Found : IsDead(j)
        <3>1. seen.score # NotDead
            BY <1>n, <1>t DEF DeadTypeOK, NoneSeen
        <3> QED
            BY <3>1 DEF Found, IsDead
    <2> QED
        BY <1>2, <1>5, <2>1 DEF DeleteDeadJob
<1>6. CASE DeleteAllDeadJobs
    <2>1. {j \in Jobs : IsDead(j)} \subseteq Jobs /\ queue' = queue
        BY <1>6 DEF DeleteAllDeadJobs
    <2> QED
        BY <1>2, <1>6, <2>1 DEF DeleteAllDeadJobs
<1>7. CASE JobDies
    <2>1. PICK j \in queue : queue' = queue \ {j} /\ dead' = [dead EXCEPT ![j] = now]
        BY <1>7 DEF JobDies
    <2>2. gone' = gone /\ j \in Jobs /\ j \notin gone /\ dead'[j] # NotDead
        BY <1>7, <1>n, <1>t, <2>1 DEF JobDies, OnceInv, EachJobOnce, DeadTypeOK
    <2>3. \A k \in Jobs \ {j} : dead'[k] = dead[k]
        BY <1>t, <2>1 DEF DeadTypeOK
    <2> QED
        BY <2>1, <2>2, <2>3 DEF OnceInv, EachJobOnce, IsDead
<1>8. CASE UNCHANGED <<dead, queue, gone>>
    BY <1>8 DEF OnceInv, EachJobOnce, IsDead
<1> QED
    BY <1>3, <1>4, <1>5, <1>6, <1>7, <1>8
    DEF DeadNext, LookAtPage, RetryDeadJob, RetryAllDeadJobs, RetryAllBegin, RetryAllFails,
        NameBecomesKnown, Tick, deadVars

\* No command loses, doubles or revives a job, whatever it has read before and
\* however the commands overlap.
THEOREM DeadJobsAreKept == DeadSpec => []EachJobOnce
<1>1. DeadInit => OnceInv
    BY DeadTypeInit DEF DeadInit, OnceInv, EachJobOnce, IsDead
<1>2. OnceInv => EachJobOnce
    BY DEF OnceInv
<1> QED
    BY <1>1, <1>2, OnceStep, PTL DEF DeadSpec

-----------------------------------------------------------------------------
(***************************************************************************)
(* Why RetryAllDeadJobs is complete.  Whatever is due and known is in the  *)
(* batch or behind a full batch; a batch that requeues nothing is all      *)
(* junk; so if there is too little junk to fill a batch, nothing is behind *)
(* it.  A due job without a queue is junk, as no command gives a job a     *)
(* score below the one it had.                                             *)
(***************************************************************************)
Pred(j) == {k \in Jobs : IsDead(k) /\ Before(k, j)}

LoopInv ==
    rpc = "loop" =>
        /\ \A j \in target : j \in Due(rnow) /\ NameOf[j] \in rnames
        /\ \A j \in Due(rnow) : NameOf[j] \notin rnames => j \in junk

ScoreInv ==
    /\ \A j \in Jobs : IsDead(j) => dead[j] <= now + Penalty
    /\ seen # NoneSeen => seen.score <= now + Penalty
    /\ spc = "script" => seen # NoneSeen /\ seen.score <= snow + Penalty

CompleteInv == DeadTypeOK /\ EachJobOnce /\ ScoreInv /\ LoopInv /\ RetryAllIsComplete

\* When a due job is not in the batch, the batch is full: ZRANGEBYSCORE with
\* LIMIT leaves out none that comes before.
LEMMA FullBatch ==
    ASSUME DeadTypeOK, NEW t \in Due(rnow), t \notin BatchOf(rnow)
    PROVE  Batch <= Cardinality(BatchOf(rnow))
<1>t. /\ Batch \in Nat /\ rnow \in Nat /\ Jobs \subseteq Nat /\ IsFiniteSet(Jobs)
      /\ \A j \in Jobs : IsDead(j) => dead[j] \in Nat
    BY DeadAssumption DEF DeadTypeOK, IsDead
<1>1. \A j \in Jobs : IsFiniteSet(Pred(j)) /\ Rank(j) = Cardinality(Pred(j)) /\ Rank(j) \in Nat
    <2> SUFFICES ASSUME NEW j \in Jobs
                 PROVE  IsFiniteSet(Pred(j)) /\ Rank(j) = Cardinality(Pred(j)) /\ Rank(j) \in Nat
        OBVIOUS
    <2>1. Pred(j) \in SUBSET Jobs
        BY DEF Pred
    <2>2. IsFiniteSet(Pred(j))
        BY <1>t, <2>1, FS_Subset
    <2>3. Rank(j) = Cardinality(Pred(j))
        BY DEF Rank, Pred
    <2> QED
        BY <2>2, <2>3, FS_CardinalityType
<1> DEFINE Late == {j \in Due(rnow) : ~(Rank(j) < Batch)}
           Ranks == {Rank(j) : j \in Late}
<1>2. PICK m \in Late : \A j \in Late : Rank(m) <= Rank(j)
    <2>1. t \in Late
        BY DEF BatchOf
    <2>2. Ranks \subseteq Nat /\ Ranks # {}
        BY <1>1, <2>1 DEF Due
    <2>3. PICK r \in Ranks : \A y \in Ranks : r <= y
        BY <2>2, LeastNumber
    <2> QED
        BY <2>3
<1>3. m \in Jobs /\ IsDead(m) /\ dead[m] <= rnow /\ ~(Rank(m) < Batch)
    BY <1>2 DEF Due
<1>4. ASSUME NEW k \in Pred(m) PROVE k \in BatchOf(rnow)
    <2>1. k \in Jobs /\ IsDead(k) /\ Before(k, m)
        BY DEF Pred
    <2>2. k \in Due(rnow)
        BY <1>t, <1>3, <2>1 DEF Due, Before
    <2>3. ASSUME NEW x \in Pred(k) PROVE x \in Pred(m)
        <3>1. x \in Jobs /\ IsDead(x) /\ Before(x, k)
            BY DEF Pred
        <3>2. Before(x, m)
            BY <1>t, <1>3, <2>1, <3>1 DEF Before
        <3> QED
            BY <3>1, <3>2 DEF Pred
    <2>4. k \notin Pred(k)
        BY <1>t, <2>1 DEF Pred, Before
    <2>5. Cardinality(Pred(k)) <= Cardinality(Pred(m)) /\ Cardinality(Pred(k)) # Cardinality(Pred(m))
        <3>1. Pred(k) \in SUBSET Pred(m) /\ IsFiniteSet(Pred(m)) /\ Pred(k) # Pred(m)
            BY <1>1, <1>3, <2>3, <2>4
        <3> QED
            BY <3>1, FS_Subset
    <2>6. Rank(k) < Rank(m)
        BY <1>1, <1>3, <2>1, <2>5
    <2>7. k \notin Late
        BY <1>1, <1>2, <1>3, <2>1, <2>6
    <2> QED
        BY <2>2, <2>7 DEF BatchOf
<1>5. BatchOf(rnow) \in SUBSET Jobs
    BY DEF BatchOf, Due
<1>6. IsFiniteSet(BatchOf(rnow)) /\ Cardinality(BatchOf(rnow)) \in Nat
    BY <1>t, <1>5, FS_Subset, FS_CardinalityType
<1>7. Pred(m) \in SUBSET BatchOf(rnow)
    BY <1>4
<1>8. Cardinality(Pred(m)) <= Cardinality(BatchOf(rnow))
    BY <1>6, <1>7, FS_Subset
<1> QED
    BY <1>t, <1>1, <1>3, <1>6, <1>8

\* A batch that requeues nothing is the last, and there is nothing behind it
\* unless it is full of junk.
LEMMA LastBatch ==
    ASSUME CompleteInv, rpc = "loop", Requeued(BatchOf(rnow), rnames) = {},
           Cardinality(junk) < Batch
    PROVE  target = {}
<1> SUFFICES ASSUME NEW t \in target PROVE FALSE
    OBVIOUS
<1>1. t \in Due(rnow) /\ NameOf[t] \in rnames
    BY DEF CompleteInv, LoopInv
<1>2. t \notin BatchOf(rnow)
    BY <1>1 DEF Requeued
<1>3. BatchOf(rnow) \in SUBSET junk
    BY DEF CompleteInv, LoopInv, Requeued, BatchOf
<1>4. IsFiniteSet(junk)
    BY DeadAssumption, FS_Subset DEF CompleteInv, DeadTypeOK
<1>5. Cardinality(BatchOf(rnow)) <= Cardinality(junk) /\ Cardinality(BatchOf(rnow)) \in Nat
    BY <1>3, <1>4, FS_Subset, FS_CardinalityType
<1>6. Batch <= Cardinality(BatchOf(rnow))
    BY <1>1, <1>2, FullBatch DEF CompleteInv
<1> QED
    BY <1>4, <1>5, <1>6, FS_CardinalityType, DeadAssumption

\* No command gives a job a score below the one that its caller has seen.
LEMMA ScoreStep == CompleteInv /\ [DeadNext]_deadVars => ScoreInv'
<1> SUFFICES ASSUME CompleteInv, [DeadNext]_deadVars PROVE ScoreInv'
    OBVIOUS
<1>t. DeadTypeOK /\ ScoreInv
    BY DEF CompleteInv
<1>n. /\ now \in Nat /\ snow \in Nat /\ rnow \in Nat /\ snow <= now /\ rnow <= now /\ Penalty \in Nat
      /\ \A j \in Jobs : IsDead(j) => dead[j] \in Nat
      /\ seen.score \in Nat
    BY <1>t, DeadAssumption DEF DeadTypeOK, IsDead, NoneSeen
<1>1. CASE LookAtPage
    <2>1. PICK j \in Jobs : IsDead(j) /\ seen' = [job |-> j, score |-> dead[j]]
        BY <1>1 DEF LookAtPage, ZsetPage
    <2>2. seen'.score <= now + Penalty
        BY <1>t, <2>1 DEF ScoreInv
    <2> QED
        BY <1>1, <1>t, <2>2 DEF LookAtPage, ScoreInv, IsDead
<1>2. CASE RetryDeadJob
    BY <1>2, <1>t DEF RetryDeadJob, ScoreInv, IsDead
<1>3. ASSUME NEW js \in SUBSET Jobs, NEW names, NEW time \in Nat, time <= now,
             dead' = Rescored(js, names, time), now' = now
      PROVE  \A j \in Jobs : IsDead(j)' => dead'[j] <= now' + Penalty
    <2> SUFFICES ASSUME NEW j \in Jobs, dead'[j] # NotDead PROVE dead'[j] <= now + Penalty
        BY <1>3 DEF IsDead
    <2>1. dead'[j] = dead[j] \/ dead'[j] = time + Penalty
        BY <1>3 DEF Rescored
    <2> QED
        BY <1>3, <1>n, <1>t, <2>1 DEF ScoreInv, IsDead
<1>4. CASE LuaRequeueSingleDead
    <2>1. Found \subseteq Jobs
        BY DEF Found
    <2> QED
        BY <1>3, <1>4, <1>n, <2>1 DEF LuaRequeueSingleDead, ScoreInv, NoneSeen
<1>5. CASE RetryAllBatch
    <2>1. BatchOf(rnow) \subseteq Jobs
        BY DEF BatchOf, Due
    <2>2. UNCHANGED <<now, seen, spc, snow>> /\ dead' = Rescored(BatchOf(rnow), rnames, rnow)
        BY <1>5 DEF RetryAllBatch, LuaRequeueAllDead, singleVars
    <2> QED
        BY <1>3, <1>n, <1>t, <2>1, <2>2 DEF ScoreInv
<1>6. ASSUME NEW js, Delete(js), now' = now, snow' = snow, spc' = spc,
             seen' = seen \/ (seen' = NoneSeen /\ spc = "idle")
      PROVE  ScoreInv'
    <2>1. \A j \in Jobs : IsDead(j)' => IsDead(j) /\ dead'[j] = dead[j]
        BY <1>6 DEF Delete, IsDead
    <2> QED
        BY <1>6, <1>t, <2>1 DEF ScoreInv
<1>7. CASE DeleteDeadJob
    BY <1>6, <1>7 DEF DeleteDeadJob
<1>8. CASE DeleteAllDeadJobs
    BY <1>6, <1>8 DEF DeleteAllDeadJobs, singleVars
<1>9. CASE JobDies
    <2>1. PICK j \in queue : dead' = [dead EXCEPT ![j] = now]
        BY <1>9 DEF JobDies
    <2>2. \A k \in Jobs : dead'[k] = dead[k] \/ dead'[k] = now
        BY <2>1, <1>t DEF DeadTypeOK
    <2>3. UNCHANGED <<now, seen, spc, snow>>
        BY <1>9 DEF JobDies, singleVars
    <2> QED
        BY <1>n, <1>t, <2>2, <2>3 DEF ScoreInv, IsDead
<1>10. CASE UNCHANGED <<dead, seen, spc, snow>> /\ now' \in {now, now + 1}
    BY <1>10, <1>n, <1>t DEF ScoreInv, IsDead
<1> QED
    BY <1>1, <1>2, <1>4, <1>5, <1>7, <1>8, <1>9, <1>10
    DEF DeadNext, RetryAllDeadJobs, RetryAllBegin, RetryAllFails, NameBecomesKnown, Tick,
        deadVars, singleVars

\* While RetryAllDeadJobs loops, what it has still to requeue is due and known,
\* and what is due and unknown is junk.
LEMMA LoopStep == CompleteInv /\ [DeadNext]_deadVars => LoopInv'
<1> SUFFICES ASSUME CompleteInv, [DeadNext]_deadVars, rpc' = "loop" PROVE LoopInv'
    BY DEF LoopInv
<1>t. DeadTypeOK /\ ScoreInv /\ LoopInv /\ EachJobOnce
    BY DEF CompleteInv
<1>n. /\ now \in Nat /\ snow \in Nat /\ rnow \in Nat /\ rnow <= now /\ Penalty \in Nat \ {0}
      /\ NotDead \notin Nat /\ seen.score \in Nat /\ target \subseteq Jobs
      /\ \A j \in Jobs : IsDead(j) => dead[j] \in Nat
    BY <1>t, DeadAssumption DEF DeadTypeOK, IsDead, NoneSeen
<1> USE DEF LoopInv
<1>1. ASSUME rpc = "loop", UNCHANGED <<rnow, rnames>>,
             \A j \in target' : j \in target /\ dead'[j] = dead[j],
             \A j \in Jobs : j \in Due(rnow)' /\ NameOf[j] \notin rnames => j \in Due(rnow) \/ j \in junk',
             junk \subseteq junk'
      PROVE  LoopInv'
    BY <1>1, <1>t, <1>n DEF Due, IsDead
<1>2. CASE LuaRequeueSingleDead
    <2>1. /\ rpc = "loop" /\ UNCHANGED <<rnow, rnames, junk>>
          /\ spc = "script" /\ target' = target \ Found /\ dead' = Rescored(Found, snames, snow)
        BY <1>2 DEF LuaRequeueSingleDead
    <2>2. \A j \in Jobs \ Found : dead'[j] = dead[j]
        BY <2>1 DEF Rescored
    <2>3. ASSUME NEW j \in Found, dead'[j] # NotDead, dead'[j] <= rnow PROVE j \in Due(rnow)
        <3>1. j \in Jobs /\ dead[j] = seen.score
            BY DEF Found
        <3>2. dead'[j] = snow + Penalty
            BY <2>1, <2>3, <3>1 DEF Rescored
        <3>3. seen.score <= snow + Penalty
            BY <2>1, <1>t DEF ScoreInv
        <3> QED
            BY <1>n, <2>3, <3>1, <3>2, <3>3 DEF Due, IsDead
    <2>4. \A j \in Jobs : j \in Due(rnow)' => j \in Due(rnow)
        BY <2>1, <2>2, <2>3 DEF Due, IsDead
    <2>5. \A j \in target' : j \in target /\ dead'[j] = dead[j]
        BY <1>n, <2>1, <2>2
    <2> QED
        BY <1>1, <2>1, <2>4, <2>5
<1>3. ASSUME NEW js, Delete(js), UNCHANGED <<rpc, rnow, rnames, junk>> PROVE LoopInv'
    <2>1. \A j \in Jobs : dead'[j] = IF j \in js THEN NotDead ELSE dead[j]
        BY <1>3 DEF Delete
    <2>2. \A j \in target' : j \in target /\ dead'[j] = dead[j]
        BY <1>3, <1>n, <2>1 DEF Delete
    <2>3. \A j \in Jobs : j \in Due(rnow)' => j \in Due(rnow)
        BY <1>3, <2>1 DEF Due, IsDead
    <2> QED
        BY <1>1, <1>3, <2>2, <2>3
<1>4. CASE DeleteDeadJob
    BY <1>3, <1>4 DEF DeleteDeadJob
<1>5. CASE DeleteAllDeadJobs
    BY <1>3, <1>5 DEF DeleteAllDeadJobs
<1>6. CASE RetryAllBegin
    BY <1>6 DEF RetryAllBegin, Due, IsDead, Requeued
<1>7. CASE RetryAllBatch
    <2>1. /\ rpc = "loop" /\ UNCHANGED <<rnow, rnames, junk>>
          /\ target' = target \ Requeued(BatchOf(rnow), rnames)
          /\ dead' = Rescored(BatchOf(rnow), rnames, rnow)
        BY <1>7 DEF RetryAllBatch, LuaRequeueAllDead
    <2>2. ASSUME NEW j \in target' PROVE j \in target /\ dead'[j] = dead[j]
        <3>1. j \in target /\ NameOf[j] \in rnames /\ j \in Jobs
            BY <1>n, <1>t, <2>1
        <3>2. j \notin BatchOf(rnow)
            BY <2>1, <3>1 DEF Requeued
        <3> QED
            BY <2>1, <3>1, <3>2 DEF Rescored
    <2>3. ASSUME NEW j \in Jobs, dead'[j] # NotDead, dead'[j] <= rnow PROVE j \in Due(rnow)
        <3>1. dead'[j] = dead[j] \/ dead'[j] = rnow + Penalty
            BY <2>1, <2>3 DEF Rescored
        <3> QED
            BY <1>n, <2>3, <3>1 DEF Due, IsDead
    <2>4. \A j \in Jobs : j \in Due(rnow)' => j \in Due(rnow)
        BY <2>1, <2>3 DEF Due, IsDead
    <2> QED
        BY <1>1, <2>1, <2>2, <2>4
<1>8. CASE JobDies
    <2>1. PICK j \in queue :
              /\ dead' = [dead EXCEPT ![j] = now]
              /\ junk' = IF rpc = "loop" /\ now <= rnow /\ NameOf[j] \notin rnames
                         THEN junk \cup {j} ELSE junk
        BY <1>8 DEF JobDies
    <2>2. rpc = "loop" /\ UNCHANGED <<rnow, rnames, target>>
        BY <1>8 DEF JobDies
    <2>3. j \notin target
        BY <1>n, <1>t, <2>2 DEF EachJobOnce, Due
    <2>4. j \in Jobs /\ dead'[j] = now /\ \A k \in Jobs \ {j} : dead'[k] = dead[k]
        BY <1>t, <2>1 DEF DeadTypeOK
    <2>5. \A k \in Jobs : k \in Due(rnow)' /\ NameOf[k] \notin rnames => k \in Due(rnow) \/ k \in junk'
        BY <2>1, <2>2, <2>4 DEF Due, IsDead
    <2>6. \A k \in target' : k \in target /\ dead'[k] = dead[k]
        BY <1>n, <2>2, <2>3, <2>4
    <2> QED
        BY <1>1, <2>1, <2>2, <2>5, <2>6
<1>9. CASE UNCHANGED <<dead, rpc, rnow, rnames, target, junk>>
    BY <1>9, <1>t DEF Due, IsDead
<1> QED
    BY <1>2, <1>4, <1>5, <1>6, <1>7, <1>8, <1>9
    DEF DeadNext, LookAtPage, RetryDeadJob, RetryAllDeadJobs, RetryAllFails, NameBecomesKnown,
        Tick, deadVars, allVars

\* RetryAllDeadJobs has requeued every due job of a known name that no other
\* command took, unless there was a whole batch of due jobs without a queue or
\* its loop came to an end: for any number of jobs and names, any size and number
\* of batches, and any other commands at the same time.
THEOREM RetryAllCompletes == DeadSpec => []RetryAllIsComplete
<1>1. DeadInit => CompleteInv
    BY DeadTypeInit DEF DeadInit, CompleteInv, ScoreInv, LoopInv, RetryAllIsComplete,
        EachJobOnce, IsDead
<1>2. CompleteInv /\ [DeadNext]_deadVars => CompleteInv'
    <2> SUFFICES ASSUME CompleteInv, [DeadNext]_deadVars PROVE RetryAllIsComplete'
        BY OnceStep, ScoreStep, LoopStep DEF CompleteInv, OnceInv
    <2>1. CASE RetryAllBatch
        <3> SUFFICES ASSUME rpc' = "done", left' > 0, Cardinality(junk) < Batch PROVE target' = {}
            BY <2>1 DEF RetryAllIsComplete, RetryAllBatch
        <3>1. rpc = "loop" /\ Requeued(BatchOf(rnow), rnames) = {}
            <4>1. left \in Nat
                BY DEF CompleteInv, DeadTypeOK
            <4> QED
                BY <2>1, <4>1 DEF RetryAllBatch
        <3>2. target = {}
            BY <3>1, LastBatch
        <3> QED
            BY <2>1, <3>2 DEF RetryAllBatch, LuaRequeueAllDead
    <2>2. CASE rpc' # "done"
        BY <2>2 DEF RetryAllIsComplete
    <2>3. CASE rpc' = rpc /\ left' = left /\ (rpc = "done" => junk' = junk) /\ target' \subseteq target
        BY <2>3 DEF RetryAllIsComplete, CompleteInv
    <2> QED
        BY <2>1, <2>2, <2>3
        DEF DeadNext, LookAtPage, RetryDeadJob, LuaRequeueSingleDead, DeleteDeadJob,
            DeleteAllDeadJobs, Delete, RetryAllDeadJobs, RetryAllBegin, RetryAllFails, JobDies,
            NameBecomesKnown, Tick, deadVars, allVars
<1>3. CompleteInv => RetryAllIsComplete
    BY DEF CompleteInv
<1> QED
    BY <1>1, <1>2, <1>3, PTL DEF DeadSpec

-----------------------------------------------------------------------------
\* Multiplication keeps the order.
LEMMA TimesOrdered ==
    ASSUME NEW a \in Nat, NEW b \in Nat, NEW s \in Nat, a <= b
    PROVE  a * s \in Nat /\ b * s \in Nat /\ a * s <= b * s /\ (a + 1) * s = a * s + s
<1>1. PICK d \in Nat : b = a + d
    BY b - a \in Nat
<1>2. (a + d) * s = a * s + d * s /\ d * s \in Nat /\ a * s \in Nat /\ (a + 1) * s = a * s + s
    OBVIOUS
<1> QED
    BY <1>1, <1>2

\* A natural number is in one of the intervals of a size, and its number is at
\* most one larger than it.
LEMMA OneInterval ==
    ASSUME NEW r \in Nat, NEW s \in Nat \ {0}
    PROVE  \E p \in 1 .. r + 1 :
              /\ (p - 1) * s <= r /\ r < (p - 1) * s + s
              /\ \A q \in Nat \ {0} : (q - 1) * s <= r /\ r < (q - 1) * s + s => q = p
<1> DEFINE T == {p \in Nat : r < p * s}
<1>1. r + 1 \in T
    <2>1. (r + 1) * s >= r + 1
        BY s >= 1
    <2> QED
        BY <2>1
<1>2. PICK p \in T : \A y \in T : p <= y
    <2>1. T \subseteq Nat /\ T # {}
        BY <1>1
    <2> HIDE DEF T
    <2> QED
        BY <2>1, LeastNumber
<1>3. p \in Nat /\ r < p * s /\ p <= r + 1
    BY <1>1, <1>2
<1>4. p # 0
    BY <1>3, 0 * s = 0
<1>5. p - 1 \in Nat /\ p - 1 \notin T /\ (p - 1) + 1 = p
    BY <1>2, <1>3, <1>4
<1>6. (p - 1) * s <= r /\ p * s = (p - 1) * s + s
    <2>1. ~ (r < (p - 1) * s) /\ (p - 1) * s \in Nat
        BY <1>5
    <2>2. ((p - 1) + 1) * s = (p - 1) * s + s
        BY <1>5, TimesOrdered
    <2> QED
        BY <1>5, <2>1, <2>2
<1>7. ASSUME NEW q \in Nat \ {0}, (q - 1) * s <= r, r < (q - 1) * s + s PROVE q = p
    <2>1. q - 1 \in Nat /\ (q - 1) + 1 = q
        OBVIOUS
    <2>2. q * s = (q - 1) * s + s
        BY <2>1, TimesOrdered
    <2>3. q \in T
        BY <1>7, <2>2
    <2>4. p <= q
        BY <1>2, <2>3
    <2>5. ASSUME p <= q - 1 PROVE FALSE
        <3>1. p * s <= (q - 1) * s /\ p * s \in Nat /\ (q - 1) * s \in Nat
            BY <1>3, <2>1, <2>5, TimesOrdered
        <3> QED
            BY <1>3, <1>7, <3>1
    <2> QED
        BY <1>3, <2>1, <2>4, <2>5
<1>8. p \in 1 .. r + 1 /\ r < (p - 1) * s + s
    BY <1>3, <1>4, <1>6
<1> HIDE DEF T
<1> QED
    BY <1>6, <1>7, <1>8

\* A member of the dead set is not before itself.
LEMMA RankBounded ==
    ASSUME DeadTypeOK, NEW j \in Jobs, IsDead(j)
    PROVE  Rank(j) \in Nat /\ Rank(j) + 1 <= Cardinality(Jobs)
<1> DEFINE P == {k \in Jobs : IsDead(k) /\ Before(k, j)}
<1>1. IsFiniteSet(Jobs) /\ dead[j] \in Nat /\ j \in Nat
    BY DeadAssumption DEF DeadTypeOK, IsDead
<1>2. P \subseteq Jobs \ {j}
    BY <1>1 DEF Before
<1>3. IsFiniteSet(Jobs \ {j}) /\ Cardinality(Jobs \ {j}) = Cardinality(Jobs) - 1
    BY <1>1, FS_RemoveElement
<1> HIDE DEF P
<1>4. IsFiniteSet(P) /\ Cardinality(P) <= Cardinality(Jobs \ {j})
    BY <1>2, <1>3, FS_Subset
<1>5. Cardinality(P) \in Nat /\ Cardinality(Jobs) \in Nat
    BY <1>1, <1>4, FS_CardinalityType
<1>6. Rank(j) = Cardinality(P)
    BY DEF Rank, P
<1> QED
    BY <1>3, <1>4, <1>5, <1>6

\* getZsetPage: whatever the scores and the size of a page, each dead job is on
\* exactly one of the pages.
THEOREM PagesPartition == DeadSpec => []PagesShowEachOnce
<1>1. DeadTypeOK => PagesShowEachOnce
    <2> SUFFICES ASSUME DeadTypeOK, NEW j \in Jobs, IsDead(j)
                 PROVE  Cardinality({page \in 1 .. Cardinality(Jobs) : j \in ZsetPage(page)}) = 1
        BY DEF PagesShowEachOnce
    <2> DEFINE pages == {page \in 1 .. Cardinality(Jobs) : j \in ZsetPage(page)}
    <2>1. Rank(j) \in Nat /\ Rank(j) + 1 <= Cardinality(Jobs) /\ PageSize \in Nat \ {0}
          /\ Cardinality(Jobs) \in Nat
        BY RankBounded, DeadAssumption, FS_CardinalityType
    <2>2. ASSUME NEW page \in Nat \ {0}
          PROVE  j \in ZsetPage(page) <=>
                    (page - 1) * PageSize <= Rank(j) /\ Rank(j) < (page - 1) * PageSize + PageSize
        BY <2>2 DEF ZsetPage, Offset
    <2>3. PICK p \in 1 .. Rank(j) + 1 :
              /\ (p - 1) * PageSize <= Rank(j) /\ Rank(j) < (p - 1) * PageSize + PageSize
              /\ \A q \in Nat \ {0} :
                    (q - 1) * PageSize <= Rank(j) /\ Rank(j) < (q - 1) * PageSize + PageSize => q = p
        BY <2>1, OneInterval
    <2>4. p \in 1 .. Cardinality(Jobs) /\ p \in Nat \ {0}
        BY <2>1, <2>3
    <2>5. p \in pages
        BY <2>2, <2>3, <2>4
    <2>6. \A q \in pages : q = p
        BY <2>1, <2>2, <2>3
    <2> HIDE DEF pages
    <2>7. pages = {p}
        BY <2>5, <2>6
    <2>8. Cardinality({p}) = 1
        BY FS_Singleton
    <2> QED
        BY <2>7, <2>8 DEF pages
<1> QED
    BY <1>1, DeadTypeCorrect, PTL
=============================================================================
