--------------------------- MODULE PeriodicEnqueuer ---------------------------
(***************************************************************************)
(* Periodic jobs (periodic_enqueuer.go): every pool adds the instances of  *)
(* its periodic jobs in the next minutes to the scheduled set, whose       *)
(* members are the same bytes in every pool, and the scheduler of any pool *)
(* moves an instance to its queue when it is due.  Pools need not have the *)
(* same periodic jobs, but share last_periodic_enqueue.  The clocks of all *)
(* pools agree, and all pools handle the names of the jobs.                *)
(***************************************************************************)
EXTENDS Integers, Sequences

CONSTANTS
    Pools,      \* the worker pools
    Schedules,  \* the times of each periodic job, in the order of periodicJobs
    PeriodicJobs,\* periodicJobs of each pool
    Sleep,      \* periodicEnqueuerSleep
    Jitter,     \* the most that rand adds to it
    Horizon,    \* periodicEnqueuerHorizon
    Window,     \* what shouldEnqueue subtracts from now
    MaxDelay,   \* how long a pool may take for one pass, or to notice its timer
    MaxFaults,  \* how often a call of Redis may fail, or a pool stop or die
    MaxTime,    \* the last time that is looked at
    Never       \* last_periodic_enqueue when the key does not exist

ASSUME PeriodicAssumption ==
    /\ MaxTime \in Nat
    /\ Schedules \in Seq(SUBSET (0 .. MaxTime))
    /\ PeriodicJobs \in [Pools -> SUBSET (1 .. Len(Schedules))]
    /\ Sleep \in Nat /\ Jitter \in Nat /\ Horizon \in Nat /\ Window \in Nat
    /\ MaxDelay \in Nat /\ MaxFaults \in Nat
    /\ Never \notin Int

\* The horizon is long enough for a pass that follows the one before it as late
\* as can be: with 120 + 29 + 2 < 240 seconds, up to 88 seconds late.
ASSUME HorizonAssumption == Sleep + Jitter + MaxDelay + Window < Horizon

\* One run of a periodic job: makeUniquePeriodicID of its job and time.
Instance == {i \in (1 .. Len(Schedules)) \X (0 .. MaxTime) : i[2] \in Schedules[i[1]]}

VARIABLES
    now,        \* the time
    instances,  \* the instances in the scheduled set
    lastEnqueue,\* last_periodic_enqueue
    ppc,        \* off, check (shouldEnqueue), begin and add (enqueue), or wait (select)
    passNow,    \* in add, now as enqueue read it; before, when the pass was to begin
    todo,       \* the instances that enqueue has still to add
    timer,      \* when the timer of a pool fires
    faults,     \* how often a call has failed or a pool has stopped
    pushed,     \* history: how often an instance was moved to its queue
    late,       \* history: how often it was added when its time had come
    since,      \* history: the pool sees to all its instances from then on
    lastJobs    \* history: the periodic jobs of the pool whose pass was the last

passVars == <<ppc, passNow, todo, timer>>
countVars == <<faults, pushed, late>>
lastVars == <<lastEnqueue, lastJobs>>
periodicVars == <<now, instances, lastVars, passVars, since, countVars>>

\* Every variable has its type, and no pass adds an instance beyond its horizon.
PeriodicTypeOK ==
    /\ now \in 0 .. MaxTime
    /\ instances \subseteq Instance
    /\ lastEnqueue \in Int \cup {Never}
    /\ ppc \in [Pools -> {"off", "check", "begin", "add", "wait"}]
    /\ passNow \in [Pools -> Int]
    /\ todo \in [Pools -> SUBSET Instance]
    /\ timer \in [Pools -> Int]
    /\ since \in [Pools -> Int \cup {Never}]
    /\ lastJobs \subseteq 1 .. Len(Schedules)
    /\ faults \in 0 .. MaxFaults
    /\ pushed \in [Instance -> Nat]
    /\ late \in [Instance -> Nat]
    /\ \A p \in Pools : \A i \in todo[p] :
        ppc[p] = "add" /\ passNow[p] < i[2] /\ i[2] < passNow[p] + Horizon

PeriodicInit ==
    /\ now = 0
    /\ instances = {}
    /\ lastEnqueue = Never
    /\ ppc = [p \in Pools |-> "off"]
    /\ passNow = [p \in Pools |-> 0]
    /\ todo = [p \in Pools |-> {}]
    /\ timer = [p \in Pools |-> 0]
    /\ since = [p \in Pools |-> Never]
    /\ lastJobs = {}
    /\ faults = 0
    /\ pushed = [i \in Instance |-> 0]
    /\ late = [i \in Instance |-> 0]

-----------------------------------------------------------------------------
Goto(p, pc) == ppc' = [ppc EXCEPT ![p] = pc]

\* The local variables of a pass are gone when it ends.
EndPass(p, pc) ==
    /\ Goto(p, pc)
    /\ passNow' = [passNow EXCEPT ![p] = 0]
    /\ todo' = [todo EXCEPT ![p] = {}]

ResetTimer(p) ==
    \E t \in now + Sleep .. now + Sleep + Jitter : timer' = [timer EXCEPT ![p] = t]

SeesTo(p) == since' = [since EXCEPT ![p] = IF @ = Never THEN now ELSE @]

Forgets(p) == since' = [since EXCEPT ![p] = Never]

CountFault == faults < MaxFaults /\ faults' = faults + 1

Start(p) ==
    /\ ppc[p] = "off"
    /\ Goto(p, "check")
    /\ ResetTimer(p)
    /\ passNow' = [passNow EXCEPT ![p] = now]
    /\ UNCHANGED <<now, instances, lastVars, todo, since, countVars>>

\* Faulty variant: the window is as long as the horizon.
RecentlyForLong == lastEnqueue # Never /\ lastEnqueue >= now - Horizon

\* The last pass of any pool is recent enough to leave out this one.
Recently == lastEnqueue # Never /\ lastEnqueue >= now - Window

\* What becomes of the instances of a pool that leaves out a pass: another pool
\* has seen to them, if it has the same periodic jobs.
LeavesOut(p) == IF PeriodicJobs[p] \subseteq lastJobs THEN SeesTo(p) ELSE Forgets(p)

\* shouldEnqueue, which is true as well when GET fails.
ShouldEnqueue(p) ==
    /\ ppc[p] = "check"
    /\ \/ Recently /\ EndPass(p, "wait") /\ LeavesOut(p) /\ UNCHANGED faults
       \/ ~Recently /\ Goto(p, "begin") /\ UNCHANGED <<passNow, todo, since, faults>>
       \/ CountFault /\ Goto(p, "begin") /\ UNCHANGED <<passNow, todo, since>>
    /\ UNCHANGED <<now, instances, lastVars, timer, pushed, late>>

\* Faulty variant: the horizon is included.
UpcomingThrough(p, t) ==
    {i \in Instance : i[1] \in PeriodicJobs[p] /\ t < i[2] /\ i[2] <= t + Horizon}

\* schedule.Next of each periodic job, from the given time on, before the horizon.
Upcoming(p, t) ==
    {i \in Instance : i[1] \in PeriodicJobs[p] /\ t < i[2] /\ i[2] < t + Horizon}

EnqueueBegin(p) ==
    /\ ppc[p] = "begin"
    /\ passNow' = [passNow EXCEPT ![p] = now]
    /\ todo' = [todo EXCEPT ![p] = Upcoming(p, now)]
    /\ Goto(p, "add")
    /\ SeesTo(p)
    /\ UNCHANGED <<now, instances, lastVars, timer, countVars>>

\* The loops go through the jobs in order, and through the times of each.
IsNext(i, S) ==
    /\ i \in S
    /\ \A k \in S : i[1] < k[1] \/ (i[1] = k[1] /\ i[2] <= k[2])

\* Faulty variant: an instance that is in the set already is added once more.
EnqueueAddAgain(p) ==
    /\ ppc[p] = "add"
    /\ \E i \in todo[p] :
        /\ IsNext(i, todo[p])
        /\ instances' = instances \cup {i}
        /\ todo' = [todo EXCEPT ![p] = @ \ {i}]
        /\ pushed' = IF i \in instances THEN [pushed EXCEPT ![i] = @ + 1] ELSE pushed
        /\ late' = IF i[2] <= now THEN [late EXCEPT ![i] = @ + 1] ELSE late
    /\ UNCHANGED <<now, lastVars, ppc, passNow, timer, since, faults>>

\* One ZADD, which changes nothing when the set has the instance already.
EnqueueAdd(p) ==
    /\ ppc[p] = "add"
    /\ \E i \in todo[p] :
        /\ IsNext(i, todo[p])
        /\ instances' = instances \cup {i}
        /\ todo' = [todo EXCEPT ![p] = @ \ {i}]
        /\ late' = IF i[2] <= now THEN [late EXCEPT ![i] = @ + 1] ELSE late
    /\ UNCHANGED <<now, lastVars, ppc, passNow, timer, since, faults, pushed>>

EnqueueEnd(p) ==
    /\ ppc[p] = "add"
    /\ todo[p] = {}
    /\ lastEnqueue' = passNow[p]
    /\ lastJobs' = PeriodicJobs[p]
    /\ EndPass(p, "wait")
    /\ UNCHANGED <<now, instances, timer, since, countVars>>

\* ZADD or SET fails, and enqueue returns.
EnqueueFails(p) ==
    /\ ppc[p] = "add"
    /\ CountFault
    /\ EndPass(p, "wait")
    /\ Forgets(p)
    /\ UNCHANGED <<now, instances, lastVars, timer, pushed, late>>

TimerFires(p) ==
    /\ ppc[p] = "wait"
    /\ timer[p] <= now
    /\ passNow' = [passNow EXCEPT ![p] = timer[p]]
    /\ ResetTimer(p)
    /\ Goto(p, "check")
    /\ UNCHANGED <<now, instances, lastVars, todo, since, countVars>>

\* Stop, which the loop receives in its select, or the death of the process.
StopOrCrash(p) ==
    /\ ppc[p] # "off"
    /\ CountFault
    /\ EndPass(p, "off")
    /\ timer' = [timer EXCEPT ![p] = 0]
    /\ Forgets(p)
    /\ UNCHANGED <<now, instances, lastVars, pushed, late>>

-----------------------------------------------------------------------------
\* redisLuaZremLpushCmd: the due member with the lowest score goes to its queue.
Due(i) == i \in instances /\ i[2] <= now

Requeue(p) ==
    /\ ppc[p] # "off"
    /\ \E i \in Instance :
        /\ Due(i)
        /\ \A k \in instances : i[2] <= k[2]
        /\ instances' = instances \ {i}
        /\ pushed' = [pushed EXCEPT ![i] = @ + 1]
    /\ UNCHANGED <<now, lastVars, passVars, since, faults, late>>

(***************************************************************************)
(* Time passes, but no pool takes longer than MaxDelay to notice that its  *)
(* timer has fired and begin a pass, nor for the commands of a pass.       *)
(***************************************************************************)
Deadline(p) == (IF ppc[p] = "wait" THEN timer[p] ELSE passNow[p]) + MaxDelay

Tick ==
    /\ now < MaxTime
    /\ \A p \in Pools : ppc[p] # "off" => now < Deadline(p)
    /\ now' = now + 1
    /\ UNCHANGED <<instances, lastVars, passVars, since, countVars>>

PoolNext(p) ==
    \/ Start(p) \/ StopOrCrash(p)
    \/ ShouldEnqueue(p) \/ TimerFires(p)
    \/ EnqueueBegin(p) \/ EnqueueAdd(p) \/ EnqueueEnd(p) \/ EnqueueFails(p)
    \/ Requeue(p)

PeriodicNext == Tick \/ \E p \in Pools : PoolNext(p)

PeriodicSpec == PeriodicInit /\ [][PeriodicNext]_periodicVars

-----------------------------------------------------------------------------
(***************************************************************************)
(* A pool that runs misses no instance of its periodic jobs: once its      *)
(* first pass has begun, whatever comes due is on a queue, in the          *)
(* scheduled set, or about to be added by the pass that is going on.  This *)
(* is why the horizon is longer than two sleeps.  A pool may leave out a   *)
(* pass when another pool has just made one, but only if that pool has all *)
(* its periodic jobs, which nothing in the code ensures: if it has not,    *)
(* nothing is promised until the pool begins its next pass.                *)
(***************************************************************************)
NoInstanceMissed ==
    \A p \in Pools, i \in Instance :
        (i[1] \in PeriodicJobs[p] /\ since[p] # Never /\ since[p] < i[2] /\ i[2] <= now) =>
            i \in instances \cup todo[p] \/ pushed[i] > 0

(***************************************************************************)
(* However many pools there are, an instance is enqueued once, and once    *)
(* more at most for each time that a pass was so late that it added the    *)
(* instance when its time had come.                                        *)
(***************************************************************************)
OnceUnlessLate ==
    \A i \in Instance : pushed[i] + (IF i \in instances THEN 1 ELSE 0) <= 1 + late[i]

(***************************************************************************)
(* The pools "all coordinate and only enqueue your job once".  It does not *)
(* hold: see late.                                                         *)
(***************************************************************************)
EnqueuedOnce == \A i \in Instance : pushed[i] <= 1
=============================================================================
