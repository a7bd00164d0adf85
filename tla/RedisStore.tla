------------------------------ MODULE RedisStore ------------------------------
(***************************************************************************)
(* The keys that package work keeps in Redis, and the Lua scripts of       *)
(* redis.go.  A script, a MULTI/EXEC transaction and a single command are  *)
(* atomic in Redis, so each is one operator here and at most one step of   *)
(* whoever calls it.                                                       *)
(*                                                                         *)
(* A Redis list is a sequence whose first element is the left end: LPUSH   *)
(* is Cons, RPOP takes Last and leaves Front, LREM key 1 v is RemoveFirst. *)
(* A sorted set is the set of its members: which member is due is decided  *)
(* by scores and clocks, and is left open.                                 *)
(***************************************************************************)
EXTENDS Integers, FiniteSets, Sequences

CONSTANTS
    Pools,          \* worker pool IDs
    Jobs,           \* job IDs
    Names,          \* job names; each has its own queue
    NameOf,         \* the name of each job
    Handles,        \* the names each pool registered with Job/JobWithOptions
    MaxConcurrency  \* JobOptions.MaxConcurrency of each name, 0 for no limit

ASSUME StoreAssumption ==
    /\ IsFiniteSet(Pools)
    /\ IsFiniteSet(Jobs)
    /\ NameOf \in [Jobs -> Names]
    /\ Handles \in [Pools -> SUBSET Names]
    /\ MaxConcurrency \in [Names -> Nat]

VARIABLES
    queue,       \* <ns>:jobs:<name>, the list of waiting jobs
    inprog,      \* <ns>:jobs:<name>:<pool>:inprogress
    lock,        \* <ns>:jobs:<name>:lock, a missing key counts as 0
    lockInfo,    \* <ns>:jobs:<name>:lock_info, field <pool>, 0 when missing
    lockField,   \* the pools that have a field in lock_info
    zset,        \* <ns>:retry, <ns>:scheduled and <ns>:dead
    workerPools, \* <ns>:worker_pools
    heartbeat,   \* <ns>:worker_pools:<pool>, by the age of its heartbeat_at
    maxConc,     \* <ns>:jobs:<name>:max_concurrency, a missing key counts as 0
    paused,      \* whether <ns>:jobs:<name>:paused exists
    unlimited,   \* history: the names whose max_concurrency some Start failed to write
    enqueued,    \* history: the jobs handed to the Enqueuer
    settled      \* history: the jobs that were ended and kept nowhere, see Terminate

listVars  == <<queue, inprog>>
lockVars  == <<lock, lockInfo, lockField>>
regVars   == <<workerPools, heartbeat>>
ctlVars   == <<maxConc, paused, unlimited>>
history   == <<enqueued, settled>>
storeVars == <<listVars, lockVars, zset, regVars, ctlVars, history>>

(***************************************************************************)
(* The JSON of a job, reduced to its ID and its failure count.  The name   *)
(* never changes, so it is NameOf the ID.                                  *)
(***************************************************************************)
Entry == [id : Jobs, fails : Nat]
Zsets == {"retry", "scheduled", "dead"}

\* The jobs of a list.
Ids(s) == {s[i].id : i \in DOMAIN s}

(***************************************************************************)
(* <ns>:known_jobs, for the names that jobs have: Enqueue and EnqueueIn    *)
(* add the name of the job in the same call (writeKnownJobsToRedis adds    *)
(* the names a pool handles), and nothing removes a name.                  *)
(***************************************************************************)
KnownJobs == {NameOf[j] : j \in enqueued}

StoreTypeOK ==
    /\ queue \in [Names -> Seq(Entry)]
    /\ inprog \in [Pools -> [Names -> Seq(Entry)]]
    /\ lock \in [Names -> Int]
    /\ lockInfo \in [Names -> [Pools -> Int]]
    /\ lockField \in [Names -> SUBSET Pools]
    /\ zset \in [Zsets -> SUBSET Entry]
    /\ workerPools \subseteq Pools
    /\ heartbeat \in [Pools -> {"absent", "fresh", "stale"}]
    /\ maxConc \in [Names -> Nat]
    /\ paused \in [Names -> BOOLEAN]
    /\ unlimited \subseteq Names
    /\ enqueued \subseteq Jobs
    /\ settled \subseteq Jobs

StoreInit ==
    /\ queue = [n \in Names |-> <<>>]
    /\ inprog = [p \in Pools |-> [n \in Names |-> <<>>]]
    /\ lock = [n \in Names |-> 0]
    /\ lockInfo = [n \in Names |-> [p \in Pools |-> 0]]
    /\ lockField = [n \in Names |-> {}]
    /\ zset = [k \in Zsets |-> {}]
    /\ workerPools = {}
    /\ heartbeat = [p \in Pools |-> "absent"]
    /\ maxConc = [n \in Names |-> 0]
    /\ paused = [n \in Names |-> FALSE]
    /\ unlimited = {}
    /\ enqueued = {}
    /\ settled = {}

-----------------------------------------------------------------------------
(* The commands on a list, with the names that module SequencesExt has for them. *)

Contains(s, e) == \E i \in 1 .. Len(s) : s[i] = e

Cons(e, s) == <<e>> \o s

Last(s) == s[Len(s)]

Front(s) == SubSeq(s, 1, Len(s) - 1)

\* Position i of the rest is position i of s before the first e, i + 1 behind it.
RemoveFirst(s, e) ==
    IF Contains(s, e)
    THEN [i \in 1 .. Len(s) - 1 |-> IF \E k \in 1 .. i : s[k] = e THEN s[i + 1] ELSE s[i]]
    ELSE s

-----------------------------------------------------------------------------
(* What changes the keys. *)

LPush(n, e) == queue' = [queue EXCEPT ![n] = Cons(e, @)]

(***************************************************************************)
(* INCR/DECR of the lock with the matching HINCRBY of the pool's field,    *)
(* which creates a missing field: acquireLock, releaseLock and the last    *)
(* lines of removeJobFromInProgress.                                       *)
(***************************************************************************)
AddLock(n, p, d) ==
    /\ lock' = [lock EXCEPT ![n] = @ + d]
    /\ lockInfo' = [lockInfo EXCEPT ![n][p] = @ + d]
    /\ lockField' = [lockField EXCEPT ![n] = @ \cup {p}]

\* Faulty variant: the limit is compared with <=.
CanRunOneMore(n) == maxConc[n] = 0 \/ lock[n] <= maxConc[n]

(***************************************************************************)
(* haveJobs, isPaused and canRun of redisLuaFetchJob.                      *)
(***************************************************************************)
CanRun(n) == maxConc[n] = 0 \/ lock[n] < maxConc[n]

Fetchable(n) == queue[n] # <<>> /\ ~paused[n] /\ CanRun(n)

(***************************************************************************)
(* redisLuaFetchJob takes the first fetchable queue in the order of the    *)
(* sampler.  The sampler can produce every order of a pool's queues, so    *)
(* any fetchable queue may be the one.                                     *)
(***************************************************************************)
LuaFetchJob(p, n) ==
    /\ n \in Handles[p]
    /\ Fetchable(n)
    /\ AddLock(n, p, 1)
    /\ queue' = [queue EXCEPT ![n] = Front(@)]
    /\ inprog' = [inprog EXCEPT ![p][n] = Cons(Last(queue[n]), @)]

\* Faulty variant: releaseLock is forgotten.
LuaReenqueueJobLocked(p, types) ==
    \E n \in types :
        /\ inprog[p][n] # <<>>
        /\ LPush(n, Last(inprog[p][n]))
        /\ inprog' = [inprog EXCEPT ![p][n] = Front(@)]
        /\ UNCHANGED lockVars

\* Faulty variant: the job is pushed onto the queue but not popped.
LuaReenqueueJobCopies(p, types) ==
    \E n \in types :
        /\ inprog[p][n] # <<>>
        /\ LPush(n, Last(inprog[p][n]))
        /\ UNCHANGED inprog
        /\ AddLock(n, p, -1)

(***************************************************************************)
(* redisLuaReenqueueJob: one job per call, from whichever in-progress list *)
(* of the pool has one (Go iterates over the names in map order).          *)
(***************************************************************************)
LuaReenqueueJob(p, types) ==
    \E n \in types :
        /\ inprog[p][n] # <<>>
        /\ LPush(n, Last(inprog[p][n]))
        /\ inprog' = [inprog EXCEPT ![p][n] = Front(@)]
        /\ AddLock(n, p, -1)

NothingInProgress(p, types) == \A n \in types : inprog[p][n] = <<>>

(***************************************************************************)
(* redisLuaReapStaleLocks: give back what a pool holds, never below 0.     *)
(***************************************************************************)
LuaReapStaleLocks(p, types) ==
    LET held == {n \in types : p \in lockField[n]}
        left(n) == lock[n] - lockInfo[n][p]
    IN  /\ lock' = [n \in Names |-> IF n \notin held THEN lock[n]
                                    ELSE IF left(n) < 0 THEN 0 ELSE left(n)]
        /\ lockInfo' = [n \in Names |-> IF n \notin held THEN lockInfo[n]
                                        ELSE [lockInfo[n] EXCEPT ![p] = 0]]
        /\ lockField' = [n \in Names |-> IF n \notin held THEN lockField[n]
                                         ELSE lockField[n] \ {p}]
=============================================================================
