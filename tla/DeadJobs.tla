------------------------------- MODULE DeadJobs -------------------------------
(***************************************************************************)
(* The dead set with its scores, and what an operator does to it through   *)
(* Client (client.go): look at a page of it, retry or delete what the page *)
(* shows, retry all in batches, delete all.  Meanwhile jobs run and die,   *)
(* and names become known.                                                 *)
(***************************************************************************)
EXTENDS Naturals, FiniteSets

CONSTANTS
    Jobs,       \* numbers, in the order of the members of the set with equal scores
    Names,
    NameOf,     \* job -> its name
    Batch,      \* how many jobs RetryAllDeadJobs moves at a time
    MaxBatches, \* how often it does so at most
    PageSize,   \* how many jobs a page has
    Penalty,    \* the seconds that are added to now for an unknown job
    MaxTime,    \* jobs die before then
    NotDead     \* in place of a score

ASSUME DeadAssumption ==
    /\ Jobs \subseteq Nat /\ IsFiniteSet(Jobs)
    /\ NameOf \in [Jobs -> Names]
    /\ Batch \in Nat \ {0} /\ MaxBatches \in Nat \ {0}
    /\ PageSize \in Nat \ {0} /\ Penalty \in Nat \ {0}
    /\ MaxTime \in Nat
    /\ NotDead \notin Nat

VARIABLES
    now,
    dead,       \* job -> its score in the dead set, or NotDead
    queue,      \* the jobs that wait or run, or have succeeded
    known,      \* known_jobs
    seen,       \* the job and score that the operator has picked from a page
    spc,        \* RetryDeadJob: idle, or script (it has the names)
    snames,     \* the name of the job, if it is among those it has read
    snow,       \* the time it has read
    rpc,        \* RetryAllDeadJobs: idle, begin, loop, done (returned without error)
    rnames,     \* the names it has read
    rnow,       \* the time it has read
    left,       \* how many batches its loop may still move
    gone,       \* history: the jobs that were deleted
    target,     \* history: the jobs RetryAllDeadJobs has still to requeue
    junk        \* history: the due jobs it finds no queue for

singleVars == <<seen, spc, snames, snow>>
allVars == <<rpc, rnames, rnow, left, target, junk>>
deadVars == <<now, dead, queue, known, gone, singleVars, allVars>>

IsDead(j) == dead[j] # NotDead
NoneSeen == [job |-> NotDead, score |-> 0]

\* Every variable has its type, and the times and names that a command has read
\* are not ahead of the clock and of known_jobs.
DeadTypeOK ==
    /\ now \in 0 .. MaxTime
    /\ dead \in [Jobs -> Nat \cup {NotDead}]
    /\ queue \subseteq Jobs
    /\ known \subseteq Names /\ snames \subseteq known /\ rnames \subseteq known
    /\ seen \in [job : Jobs, score : Nat] \cup {NoneSeen}
    /\ spc \in {"idle", "script"}
    /\ rpc \in {"idle", "begin", "loop", "done"}
    /\ snow \in 0 .. now /\ rnow \in 0 .. now
    /\ left \in 0 .. MaxBatches /\ (rpc = "loop" => left # 0)
    /\ gone \subseteq Jobs /\ target \subseteq Jobs /\ junk \subseteq Jobs

\* Some names were never made known: SADD has failed.
DeadInit ==
    /\ now = 0
    /\ dead = [j \in Jobs |-> NotDead]
    /\ queue = Jobs
    /\ known \in SUBSET Names
    /\ seen = NoneSeen /\ spc = "idle" /\ snames = {} /\ snow = 0
    /\ rpc = "idle" /\ rnames = {} /\ rnow = 0 /\ left = 0
    /\ gone = {} /\ target = {} /\ junk = {}

-----------------------------------------------------------------------------
(* The sorted set. *)

\* The order of ZRANGEBYSCORE.
Before(j, k) == dead[j] < dead[k] \/ (dead[j] = dead[k] /\ j < k)

\* How many members come before j.
Rank(j) == Cardinality({k \in Jobs : IsDead(k) /\ Before(k, j)})

\* Faulty variant: the offset is not that of the page but of the next one.
OffsetOfNext(page) == page * PageSize

\* LIMIT (page-1)*20; page 0 is page 1.
Offset(page) == IF page = 0 THEN 0 ELSE (page - 1) * PageSize

\* getZsetPage
ZsetPage(page) ==
    {j \in Jobs : IsDead(j) /\ Offset(page) <= Rank(j) /\ Rank(j) < Offset(page) + PageSize}

\* ZREM and LPUSH, or ZREM and ZADD with a score in the future: what the scripts
\* make of the given jobs with the names and the time they are given.
Requeued(js, names) == {j \in js : NameOf[j] \in names}

Rescored(js, names, time) ==
    [j \in Jobs |-> IF j \notin js THEN dead[j]
                    ELSE IF NameOf[j] \in names THEN NotDead ELSE time + Penalty]

-----------------------------------------------------------------------------
(* RetryDeadJob and DeleteDeadJob, for a job of a page. *)

LookAtPage ==
    /\ spc = "idle"
    /\ \E page \in 0 .. Cardinality(Jobs) : \E j \in ZsetPage(page) :
          seen' = [job |-> j, score |-> dead[j]]
    /\ UNCHANGED <<now, dead, queue, known, gone, spc, snames, snow, allVars>>

\* The names of Queues() and the time.
RetryDeadJob ==
    /\ spc = "idle"
    /\ seen # NoneSeen
    /\ spc' = "script"
    /\ snames' = known \cap {NameOf[seen.job]} /\ snow' = now
    /\ UNCHANGED <<now, dead, queue, known, gone, seen, allVars>>

\* The scripts look for the job at the score the operator has seen.
Found == {j \in Jobs : j = seen.job /\ dead[j] = seen.score}

\* Faulty variant: the job is pushed whether or not ZREM has removed one.
LuaRequeueSingleDeadUnchecked ==
    /\ spc = "script"
    /\ dead' = Rescored(Found, snames, snow)
    /\ queue' = queue \cup Requeued({seen.job}, snames)
    /\ target' = target \ Found
    /\ spc' = "idle" /\ snames' = {} /\ snow' = 0 /\ seen' = NoneSeen
    /\ UNCHANGED <<now, known, gone, rpc, rnames, rnow, left, junk>>

\* redisLuaRequeueSingleDeadCmd
LuaRequeueSingleDead ==
    /\ spc = "script"
    /\ dead' = Rescored(Found, snames, snow)
    /\ queue' = queue \cup Requeued(Found, snames)
    /\ target' = target \ Found
    /\ spc' = "idle" /\ snames' = {} /\ snow' = 0 /\ seen' = NoneSeen
    /\ UNCHANGED <<now, known, gone, rpc, rnames, rnow, left, junk>>

Delete(js) ==
    /\ dead' = [j \in Jobs |-> IF j \in js THEN NotDead ELSE dead[j]]
    /\ gone' = gone \cup js
    /\ target' = target \ js

\* redisLuaDeleteSingleCmd
DeleteDeadJob ==
    /\ spc = "idle"
    /\ seen # NoneSeen
    /\ Delete(Found)
    /\ seen' = NoneSeen
    /\ UNCHANGED <<now, queue, known, spc, snames, snow, rpc, rnames, rnow, left, junk>>

DeleteAllDeadJobs ==
    /\ Delete({j \in Jobs : IsDead(j)})
    /\ UNCHANGED <<now, queue, known, singleVars, rpc, rnames, rnow, left, junk>>

-----------------------------------------------------------------------------
(* RetryAllDeadJobs. *)

\* The names of Queues() ...
RetryAllDeadJobs ==
    /\ rpc \in {"idle", "done"}
    /\ rpc' = "begin"
    /\ rnames' = known
    /\ rnow' = 0 /\ left' = 0 /\ target' = {} /\ junk' = {}
    /\ UNCHANGED <<now, dead, queue, known, gone, singleVars>>

Due(time) == {j \in Jobs : IsDead(j) /\ dead[j] <= time}

\* Faulty variant: the time is rounded up.
RetryAllBeginAhead ==
    /\ rpc = "begin"
    /\ rpc' = "loop"
    /\ rnow' = now + 1 /\ left' = MaxBatches
    /\ target' = Requeued(Due(now + 1), rnames)
    /\ junk' = Due(now + 1) \ Requeued(Due(now + 1), rnames)
    /\ UNCHANGED <<now, dead, queue, known, gone, rnames, singleVars>>

\* ... and the time, for all batches.
RetryAllBegin ==
    /\ rpc = "begin"
    /\ rpc' = "loop"
    /\ rnow' = now /\ left' = MaxBatches
    /\ target' = Requeued(Due(now), rnames)
    /\ junk' = Due(now) \ Requeued(Due(now), rnames)
    /\ UNCHANGED <<now, dead, queue, known, gone, rnames, singleVars>>

\* Faulty variant: a batch leaves out the oldest job.
BatchAfterFirst(time) == {j \in Due(time) : Rank(j) \in 1 .. Batch}

\* ZRANGEBYSCORE with LIMIT 0: the jobs that have been dead for longest.
BatchOf(time) == {j \in Due(time) : Rank(j) < Batch}

\* redisLuaRequeueAllDeadCmd
LuaRequeueAllDead ==
    /\ dead' = Rescored(BatchOf(rnow), rnames, rnow)
    /\ queue' = queue \cup Requeued(BatchOf(rnow), rnames)
    /\ target' = target \ Requeued(BatchOf(rnow), rnames)

\* One batch, and the last when it has requeued nothing or the loop is over:
\* RetryAllDeadJobs returns no error in either case.
RetryAllBatch ==
    /\ rpc = "loop"
    /\ LuaRequeueAllDead
    /\ left' = IF Requeued(BatchOf(rnow), rnames) = {} THEN left ELSE left - 1
    /\ IF left' \in {0, left}
       THEN rpc' = "done" /\ rnames' = {} /\ rnow' = 0
       ELSE UNCHANGED <<rpc, rnames, rnow>>
    /\ UNCHANGED <<now, known, gone, junk, singleVars>>

\* A call of Redis fails.
RetryAllFails ==
    /\ rpc \in {"begin", "loop"}
    /\ rpc' = "idle" /\ rnames' = {} /\ rnow' = 0 /\ left' = 0
    /\ target' = {} /\ junk' = {}
    /\ UNCHANGED <<now, dead, queue, known, gone, singleVars>>

-----------------------------------------------------------------------------
(* What goes on meanwhile. *)

\* terminateAndDead: a job dies for good, now.
JobDies ==
    /\ now < MaxTime
    /\ \E j \in queue :
          /\ queue' = queue \ {j}
          /\ dead' = [dead EXCEPT ![j] = now]
          /\ junk' = IF rpc = "loop" /\ now <= rnow /\ NameOf[j] \notin rnames
                     THEN junk \cup {j} ELSE junk
    /\ UNCHANGED <<now, known, gone, singleVars, rpc, rnames, rnow, left, target>>

\* addToKnownJobs, by some enqueuer, or writeKnownJobsToRedis.
NameBecomesKnown ==
    /\ \E n \in Names \ known : known' = known \cup {n}
    /\ UNCHANGED <<now, dead, queue, gone, singleVars, allVars>>

Tick ==
    /\ now < MaxTime
    /\ now' = now + 1
    /\ UNCHANGED <<dead, queue, known, gone, singleVars, allVars>>

DeadNext ==
    \/ LookAtPage \/ RetryDeadJob \/ LuaRequeueSingleDead
    \/ DeleteDeadJob \/ DeleteAllDeadJobs
    \/ RetryAllDeadJobs \/ RetryAllBegin \/ RetryAllBatch \/ RetryAllFails
    \/ JobDies \/ NameBecomesKnown \/ Tick

DeadSpec == DeadInit /\ [][DeadNext]_deadVars

-----------------------------------------------------------------------------
\* Every job is in exactly one place: queued (or run since), dead, or deleted.
\* Scripts of several calls on the same jobs, each with names, times
\* and scores that were read before, lose, double and revive none.
EachJobOnce ==
    \A j \in Jobs :
        /\ j \in queue \cup gone \/ IsDead(j)
        /\ ~(j \in queue /\ j \in gone)
        /\ IsDead(j) => j \notin queue \cup gone

\* RetryAllDeadJobs has requeued every job that was dead when it read the time
\* and whose name it knew, except those that another command has taken in the
\* meantime.  Two things break this: a whole batch of jobs of other names, as it
\* stops after a batch that requeues nothing, and the end of its loop, which jobs
\* that die again at once can use up.
RetryAllIsComplete ==
    rpc = "done" /\ left > 0 /\ Cardinality(junk) < Batch => target = {}

\* RetryAllDeadJobs "requeues all dead jobs", at least those of known names.  It
\* does not hold: see RetryAllIsComplete.
RetryAllRequeuesAll == rpc = "done" => target = {}

\* Each dead job is on exactly one of the pages from 1 on.
PagesShowEachOnce ==
    \A j \in Jobs : IsDead(j) =>
        Cardinality({page \in 1 .. Cardinality(Jobs) : j \in ZsetPage(page)}) = 1
=============================================================================
