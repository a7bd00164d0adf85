----------------------------- MODULE EnqueueCalls -----------------------------
(***************************************************************************)
(* The calls of one Enqueuer command by command (enqueue.go): Enqueue, the *)
(* unique variants and BulkEnqueue, the cache of known job names that they *)
(* share, and WAIT, against a Redis with replicas that may fail over.  The *)
(* queues and the scheduled set are one: an operation is a write that adds *)
(* jobs, names of known_jobs and unique keys.                              *)
(***************************************************************************)
EXTENDS Naturals, Sequences, Functions

CONSTANTS
    Calls,      \* the calls, each in a goroutine of its own
    KindOf,     \* call -> "plain", "unique" or "bulk"
    Params,     \* call -> the jobs it is to enqueue
    Jobs, Names, Keys,
    NameOf,     \* job -> its name
    KeyOf,      \* job -> its unique key, or NoKey
    NoKey,
    MinWaitEnabled, \* MinWaitReplicas > 0
    MaxFaults,  \* how many faults there may be, of all kinds
    MaxExpiries \* how often an entry of the cache may expire

ASSUME CallsAssumption ==
    /\ KindOf \in [Calls -> {"plain", "unique", "bulk"}]
    /\ Params \in [Calls -> Seq(Jobs)]
    /\ NameOf \in [Jobs -> Names]
    /\ KeyOf \in [Jobs -> Keys \cup {NoKey}]
    /\ NoKey \notin Keys
    /\ \A c \in Calls : KindOf[c] # "bulk" => Len(Params[c]) = 1
    /\ \A c \in Calls : KindOf[c] = "plain" => KeyOf[Params[c][1]] = NoKey
    /\ \A c \in Calls : KindOf[c] = "unique" => KeyOf[Params[c][1]] # NoKey
    \* makeIdentifier: every job that a call makes is another one.
    /\ \A c, d \in Calls : \A i \in DOMAIN Params[c], k \in DOMAIN Params[d] :
            Params[c][i] = Params[d][k] => c = d /\ i = k
    /\ MinWaitEnabled \in BOOLEAN
    /\ MaxFaults \in Nat /\ MaxExpiries \in Nat

VARIABLES
    stored,     \* the writes that MinWaitReplicas replicas have, put together
    pending,    \* the later writes, in order, with the call each is of
    loaded,     \* Redis has the scripts
    cache,      \* e.knownJobs: the names that have not expired
    cpc,        \* call: idle, busy, ok (returned without error), error
    todo,       \* call: the commands it has still to send, or has sent
    failed,     \* call: sendHashFailedIndices, as jobs
    skipped,    \* the jobs whose script said "dup"
    faults,     \* how many faults there have been
    expiries,   \* how many cache entries have expired
    failovers   \* history: there has been a failover

serverVars == <<stored, pending, loaded>>
callVars == <<cpc, todo, failed, skipped>>
boundVars == <<faults, expiries, failovers>>
enqueueVars == <<serverVars, cache, callVars, boundVars>>

Write(jobs, names, keys) == [jobs |-> jobs, names |-> names, keys |-> keys]

Merge(v, w) == Write(v.jobs \cup w.jobs, v.names \cup w.names, v.keys \cup w.keys)

\* What is in Redis.
Pushed == stored.jobs \cup UNION {pending[i].write.jobs : i \in DOMAIN pending}
KnownJobs == stored.names \cup UNION {pending[i].write.names : i \in DOMAIN pending}
UniqueKeys == stored.keys \cup UNION {pending[i].write.keys : i \in DOMAIN pending}

Cmd(op, jobs) == [op |-> op, jobs |-> jobs]
Command == [op : {"push", "known", "sadd", "sha", "eval", "wait"}, jobs : SUBSET Jobs]

WriteSet == [jobs : SUBSET Jobs, names : SUBSET Names, keys : SUBSET Keys]

\* Every variable has its type: no script is sent for a job without a key.
CallsTypeOK ==
    /\ stored \in WriteSet
    /\ pending \in Seq([by : Calls, write : WriteSet])
    /\ loaded \in BOOLEAN
    /\ cache \subseteq Names
    /\ cpc \in [Calls -> {"idle", "busy", "ok", "error"}]
    /\ todo \in [Calls -> Seq(Command)]
    /\ failed \in [Calls -> Seq(Jobs)]
    /\ skipped \subseteq Jobs
    /\ faults \in 0 .. MaxFaults
    /\ expiries \in 0 .. MaxExpiries
    /\ failovers \in BOOLEAN

CallsInit ==
    /\ stored = Write({}, {}, {})
    /\ pending = <<>>
    /\ loaded = FALSE
    /\ cache = {}
    /\ cpc = [c \in Calls |-> "idle"]
    /\ todo = [c \in Calls |-> <<>>]
    /\ failed = [c \in Calls |-> <<>>]
    /\ skipped = {}
    /\ faults = 0 /\ expiries = 0
    /\ failovers = FALSE

-----------------------------------------------------------------------------
(* The commands of each kind of call. *)

\* sendWait, unless the option is off.
Wait == IF MinWaitEnabled THEN <<Cmd("wait", {})>> ELSE <<>>

\* redisDoHelper, then addToKnownJobs.
EnqueueCommands(j) == <<Cmd("push", {j})>> \o Wait \o <<Cmd("known", {j})>>

\* uniqueJobHelper: first addToKnownJobs, then the script, which is sent whole
\* when Redis does not have it, then WAIT.
EnqueueUniqueCommands(j) == <<Cmd("known", {j}), Cmd("eval", {j})>> \o Wait

\* Faulty variant: every job goes through the script.
BulkPushUnique(j) == Cmd("sha", {j})

BulkPush(j) == Cmd(IF KeyOf[j] = NoKey THEN "push" ELSE "sha", {j})

\* sendBulkKnownJobs
BulkKnown(jobs) ==
    LET unknown == {j \in jobs : NameOf[j] \notin cache}
    IN IF unknown = {} THEN <<>> ELSE <<Cmd("sadd", unknown)>>

\* BulkEnqueue: one pipeline.
BulkCommands(js) ==
    [i \in DOMAIN js |-> BulkPush(js[i])] \o BulkKnown(Range(js)) \o Wait

Commands(c) ==
    CASE KindOf[c] = "plain"  -> EnqueueCommands(Params[c][1])
      [] KindOf[c] = "unique" -> EnqueueUniqueCommands(Params[c][1])
      [] KindOf[c] = "bulk"   -> BulkCommands(Params[c])

\* Faulty variant: the second pipeline is not waited for.
SecondCommandsOnly(js) == [i \in DOMAIN js |-> Cmd("eval", {js[i]})]

\* The second pipeline of BulkEnqueue, with whole scripts.
SecondCommands(js) == [i \in DOMAIN js |-> Cmd("eval", {js[i]})] \o Wait

CallEnqueue(c) ==
    /\ cpc[c] = "idle"
    /\ cpc' = [cpc EXCEPT ![c] = "busy"]
    /\ todo' = [todo EXCEPT ![c] = Commands(c)]
    /\ UNCHANGED <<serverVars, cache, failed, skipped, boundVars>>

-----------------------------------------------------------------------------
(* Redis executes the next command of a call and the call reads the reply. *)

At(c, op) == cpc[c] = "busy" /\ todo[c] # <<>> /\ Head(todo[c]).op = op

Given(c) == Head(todo[c]).jobs

Done(c) == todo' = [todo EXCEPT ![c] = Tail(@)]

\* The local variables of a call are gone when it returns.
Ends(c, pc) ==
    /\ cpc' = [cpc EXCEPT ![c] = pc]
    /\ todo' = [todo EXCEPT ![c] = <<>>]
    /\ failed' = [failed EXCEPT ![c] = <<>>]

Execute(c, write) ==
    /\ pending' = Append(pending, [by |-> c, write |-> write])
    /\ UNCHANGED stored

\* LPUSH or ZADD
Push(c) ==
    /\ At(c, "push")
    /\ Execute(c, Write(Given(c), {}, {}))
    /\ Done(c)
    /\ UNCHANGED <<loaded, cache, cpc, failed, skipped, boundVars>>

\* Faulty variant: the cache has the name also when SADD has failed.
AddToKnownJobsEarly(c) ==
    /\ At(c, "known")
    /\ LET names == {NameOf[j] : j \in Given(c)}
       IN /\ cache' = cache \cup names
          /\ \/ names \subseteq cache /\ UNCHANGED <<stored, pending, cpc, failed>> /\ Done(c)
             \/ Execute(c, Write({}, names, {})) /\ Done(c) /\ UNCHANGED <<cpc, failed>>
             \/ Ends(c, "error") /\ UNCHANGED <<stored, pending>>
    /\ UNCHANGED <<loaded, skipped, boundVars>>

\* addToKnownJobs: SADD, unless the name is in the cache.
AddToKnownJobs(c) ==
    /\ At(c, "known")
    /\ LET names == {NameOf[j] : j \in Given(c)}
       IN IF names \subseteq cache
          THEN UNCHANGED <<stored, pending, cache>>
          ELSE Execute(c, Write({}, names, {})) /\ cache' = cache \cup names
    /\ Done(c)
    /\ UNCHANGED <<loaded, cpc, failed, skipped, boundVars>>

\* The SADD of BulkEnqueue, whose names were chosen when it was sent.
BulkSadd(c) ==
    /\ At(c, "sadd")
    /\ LET names == {NameOf[j] : j \in Given(c)}
       IN Execute(c, Write({}, names, {})) /\ cache' = cache \cup names
    /\ Done(c)
    /\ UNCHANGED <<loaded, cpc, failed, skipped, boundVars>>

\* redisLuaEnqueueUnique and redisLuaEnqueueUniqueIn; in both cases the key is
\* set, which is a write.
LuaEnqueueUnique(c) ==
    \E j \in Given(c) :
        IF KeyOf[j] \in UniqueKeys
        THEN Execute(c, Write({}, {}, {})) /\ skipped' = skipped \cup {j}
        ELSE Execute(c, Write({j}, {}, {KeyOf[j]})) /\ UNCHANGED skipped

\* EVALSHA of BulkEnqueue.
SendHash(c) ==
    /\ At(c, "sha")
    /\ IF loaded
       THEN LuaEnqueueUnique(c) /\ UNCHANGED failed
       ELSE /\ \E j \in Given(c) : failed' = [failed EXCEPT ![c] = Append(@, j)]
            /\ UNCHANGED <<stored, pending, skipped>>
    /\ Done(c)
    /\ UNCHANGED <<loaded, cache, cpc, boundVars>>

\* EVAL, after which Redis has the script.
Eval(c) ==
    /\ At(c, "eval")
    /\ LuaEnqueueUnique(c)
    /\ loaded' = TRUE
    /\ Done(c)
    /\ UNCHANGED <<cache, cpc, failed, boundVars>>

\* Enough replicas have all that the call has written.
Replicated(c) == \A i \in DOMAIN pending : pending[i].by # c

\* receiveWait: WAIT returns when enough replicas have the writes, or with how
\* many there are when its time is up.
ReceiveWait(c) ==
    /\ At(c, "wait")
    /\ IF Replicated(c)
       THEN Done(c) /\ UNCHANGED <<cpc, failed>>
       ELSE Ends(c, "error")
    /\ UNCHANGED <<serverVars, cache, skipped, boundVars>>

\* The call has read all replies.
Return(c) ==
    /\ cpc[c] = "busy"
    /\ todo[c] = <<>>
    /\ failed[c] = <<>>
    /\ Ends(c, "ok")
    /\ UNCHANGED <<serverVars, cache, skipped, boundVars>>

\* Scripts that Redis did not have are sent again.
SecondRound(c) ==
    /\ cpc[c] = "busy"
    /\ todo[c] = <<>>
    /\ failed[c] # <<>>
    /\ todo' = [todo EXCEPT ![c] = SecondCommands(failed[c])]
    /\ failed' = [failed EXCEPT ![c] = <<>>]
    /\ UNCHANGED <<serverVars, cache, cpc, skipped, boundVars>>

\* A command or its reply is lost; what Redis executed stays executed.
CallFails(c) ==
    /\ cpc[c] = "busy"
    /\ faults < MaxFaults
    /\ faults' = faults + 1
    /\ Ends(c, "error")
    /\ UNCHANGED <<serverVars, cache, skipped, expiries, failovers>>

CallNext(c) ==
    \/ CallEnqueue(c) \/ Push(c) \/ AddToKnownJobs(c) \/ BulkSadd(c)
    \/ SendHash(c) \/ Eval(c) \/ ReceiveWait(c)
    \/ Return(c) \/ SecondRound(c) \/ CallFails(c)

-----------------------------------------------------------------------------
(* What happens to Redis, and time. *)

Replicate ==
    /\ pending # <<>>
    /\ stored' = Merge(stored, Head(pending).write)
    /\ pending' = Tail(pending)
    /\ UNCHANGED <<loaded, cache, callVars, boundVars>>

\* A call that needs nothing more of Redis does not notice a failover.
Notices(c) ==
    /\ cpc[c] = "busy"
    /\ todo[c] \o failed[c] # <<>>
    /\ ~(At(c, "known") /\ Len(todo[c]) = 1 /\ {NameOf[j] : j \in Given(c)} \subseteq cache)

\* The replica that has most becomes the master, and the others copy from it:
\* no less is left than what the replicas were waited for.
Failover ==
    /\ faults < MaxFaults
    /\ faults' = faults + 1
    /\ failovers' = TRUE
    /\ \E n \in 0 .. Len(pending) : pending' = SubSeq(pending, 1, n)
    /\ loaded' \in {loaded, FALSE}
    /\ cpc' = [c \in Calls |-> IF Notices(c) THEN "error" ELSE cpc[c]]
    /\ todo' = [c \in Calls |-> IF Notices(c) THEN <<>> ELSE todo[c]]
    /\ failed' = [c \in Calls |-> <<>>]
    /\ UNCHANGED <<stored, cache, skipped, expiries>>

\* SCRIPT FLUSH
ScriptFlush ==
    /\ faults < MaxFaults
    /\ faults' = faults + 1
    /\ loaded
    /\ loaded' = FALSE
    /\ UNCHANGED <<stored, pending, cache, callVars, expiries, failovers>>

\* The 300 seconds of an entry are over.
CacheExpires ==
    /\ expiries < MaxExpiries
    /\ expiries' = expiries + 1
    /\ \E n \in cache : cache' = cache \ {n}
    /\ UNCHANGED <<serverVars, callVars, faults, failovers>>

CallsNext ==
    \/ \E c \in Calls : CallNext(c)
    \/ Replicate \/ Failover \/ ScriptFlush \/ CacheExpires

CallsSpec == CallsInit /\ [][CallsNext]_enqueueVars

-----------------------------------------------------------------------------
(***************************************************************************)
(* What a call that returns without error says is so, and stays so: each   *)
(* of its jobs is in Redis, or it was skipped, and then its unique key is  *)
(* there and the job is not.  With MinWaitReplicas this outlasts failovers *)
(* in the middle of any pipeline.                                          *)
(***************************************************************************)
AckedJobsAreThere ==
    MinWaitEnabled \/ ~failovers =>
        \A c \in Calls : cpc[c] = "ok" =>
            \A j \in Range(Params[c]) :
                IF j \in skipped THEN KeyOf[j] \in UniqueKeys /\ j \notin Pushed
                                 ELSE j \in Pushed

(***************************************************************************)
(* The name of a job that was enqueued without error is in known_jobs,     *)
(* whoever has put it into the cache, as long as there is no failover: the *)
(* client finds the queue, and can retry the job when it is dead.          *)
(***************************************************************************)
AckedNamesAreKnown ==
    ~failovers => \A c \in Calls : cpc[c] = "ok" =>
                      {NameOf[j] : j \in Range(Params[c])} \subseteq KnownJobs
=============================================================================
