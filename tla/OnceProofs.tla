------------------------------ MODULE OnceProofs ------------------------------
(***************************************************************************)
(* Two promises that work is not enqueued twice, and not forgotten either. *)
(* Periodic jobs, for any number of pools, any schedules and any times     *)
(* that fulfil HorizonAssumption: instances are enqueued, and not too      *)
(* often.  Unique jobs, for any number of calls and workers and whatever   *)
(* happens: at most one job for a key, whose latest arguments are kept.    *)
(***************************************************************************)
EXTENDS PeriodicEnqueuer, UniqueJobs, TLAPS

\* The obligations are small, but it takes time to translate them.
USE Zenon

-----------------------------------------------------------------------------
(* Periodic jobs. *)

\* Times are integers.
LEMMA InstanceTimes == \A i \in Instance : i[2] \in Int
    BY PeriodicAssumption, SMT DEF Instance

\* What a pool does keeps the types: a pass only ever adds instances that lie
\* between its own time and its horizon.
LEMMA PeriodicTypeStep == PeriodicTypeOK /\ [PeriodicNext]_periodicVars => PeriodicTypeOK'
<1> SUFFICES ASSUME PeriodicTypeOK, [PeriodicNext]_periodicVars PROVE PeriodicTypeOK'
    OBVIOUS
<1> USE PeriodicAssumption DEF PeriodicTypeOK, passVars, lastVars, countVars
<1>1. CASE Tick
    BY <1>1, SMT DEF Tick
<1>2. ASSUME NEW p \in Pools, Start(p) PROVE PeriodicTypeOK'
    BY <1>2, SMT DEF Start, Goto, ResetTimer
<1>3. ASSUME NEW p \in Pools, StopOrCrash(p) PROVE PeriodicTypeOK'
    BY <1>3, SMT DEF StopOrCrash, EndPass, Goto, Forgets, CountFault
<1>4. ASSUME NEW p \in Pools, ShouldEnqueue(p) PROVE PeriodicTypeOK'
    <2>1. CASE Goto(p, "begin") /\ UNCHANGED <<passNow, todo, since>> /\ faults' \in 0 .. MaxFaults
        BY <1>4, <2>1 DEF ShouldEnqueue, Goto
    <2>2. CASE EndPass(p, "wait") /\ LeavesOut(p) /\ UNCHANGED faults
        BY <1>4, <2>2, SMT DEF ShouldEnqueue, EndPass, Goto, LeavesOut, SeesTo, Forgets
    <2> QED
        BY <1>4, <2>1, <2>2, SMTT(60) DEF ShouldEnqueue, CountFault
<1>5. ASSUME NEW p \in Pools, TimerFires(p) PROVE PeriodicTypeOK'
    BY <1>5, SMT DEF TimerFires, Goto, ResetTimer
<1>6. ASSUME NEW p \in Pools, EnqueueBegin(p) PROVE PeriodicTypeOK'
    <2>1. Upcoming(p, now) \subseteq Instance
        BY DEF Upcoming
    <2>2. \A i \in Upcoming(p, now) : now < i[2] /\ i[2] < now + Horizon
        BY DEF Upcoming
    <2> QED
        BY <1>6, <2>1, <2>2, SMT DEF EnqueueBegin, Goto, SeesTo
<1>7. ASSUME NEW p \in Pools, EnqueueAdd(p) PROVE PeriodicTypeOK'
    <2>1. PICK i \in todo[p] :
              /\ instances' = instances \cup {i}
              /\ todo' = [todo EXCEPT ![p] = @ \ {i}]
              /\ late' = IF i[2] <= now THEN [late EXCEPT ![i] = @ + 1] ELSE late
        BY <1>7 DEF EnqueueAdd
    <2>2. i \in Instance
        BY <2>1
    <2>3. late' \in [Instance -> Nat]
        BY <2>1, <2>2, SMT
    <2> QED
        BY <1>7, <2>1, <2>2, <2>3 DEF EnqueueAdd
<1>8. ASSUME NEW p \in Pools, EnqueueEnd(p) PROVE PeriodicTypeOK'
    BY <1>8, SMT DEF EnqueueEnd, EndPass, Goto
<1>9. ASSUME NEW p \in Pools, EnqueueFails(p) PROVE PeriodicTypeOK'
    BY <1>9, SMT DEF EnqueueFails, EndPass, Goto, Forgets, CountFault
<1>10. ASSUME NEW p \in Pools, Requeue(p) PROVE PeriodicTypeOK'
    BY <1>10, SMT DEF Requeue
<1>11. CASE UNCHANGED periodicVars
    BY <1>11 DEF periodicVars
<1> QED
    BY <1>1, <1>2, <1>3, <1>4, <1>5, <1>6, <1>7, <1>8, <1>9, <1>10, <1>11
    DEF PeriodicNext, PoolNext

\* Initially the types are right.
LEMMA PeriodicTypeInit == PeriodicInit => PeriodicTypeOK
    BY PeriodicAssumption, SMT DEF PeriodicInit, PeriodicTypeOK

\* The type invariant holds: a pass never adds an instance beyond its horizon.
THEOREM PeriodicTypeCorrect == PeriodicSpec => []PeriodicTypeOK
    BY PeriodicTypeInit, PeriodicTypeStep, PTL DEF PeriodicSpec

-----------------------------------------------------------------------------
\* An instance is moved to its queue when its time has come.
PushedWhenDue == \A i \in Instance : pushed[i] > 0 => i[2] <= now

OnceInv == PeriodicTypeOK /\ PushedWhenDue /\ OnceUnlessLate

\* However many pools there are, an instance is enqueued once, and once more at
\* most for each pass that added it when its time had come.
THEOREM PeriodicOnceUnlessLate == PeriodicSpec => []OnceUnlessLate
<1>1. PeriodicInit => OnceInv
    <2> SUFFICES ASSUME PeriodicInit PROVE OnceInv
        OBVIOUS
    <2>1. \A i \in Instance : pushed[i] = 0 /\ late[i] = 0
        BY DEF PeriodicInit
    <2> QED
        BY <2>1, PeriodicTypeInit, SMT DEF PeriodicInit, OnceInv, PushedWhenDue, OnceUnlessLate
<1>2. OnceInv /\ [PeriodicNext]_periodicVars => OnceInv'
    <2> SUFFICES ASSUME OnceInv, [PeriodicNext]_periodicVars PROVE OnceInv'
        OBVIOUS
    <2>t. PeriodicTypeOK /\ PeriodicTypeOK'
        BY PeriodicTypeStep DEF OnceInv
    <2>n. /\ now \in Int /\ now' \in Int
          /\ \A i \in Instance : i[2] \in Int /\ pushed[i] \in Nat /\ late[i] \in Nat
        BY <2>t, InstanceTimes, PeriodicAssumption, SMT DEF PeriodicTypeOK
    <2> DEFINE Rest == PushedWhenDue /\ OnceUnlessLate
    <2>1. ASSUME NEW p \in Pools, EnqueueAdd(p) PROVE Rest'
        <3>1. PICK i \in todo[p] :
                  /\ instances' = instances \cup {i}
                  /\ late' = IF i[2] <= now THEN [late EXCEPT ![i] = @ + 1] ELSE late
            BY <2>1 DEF EnqueueAdd
        <3>2. i \in Instance /\ pushed' = pushed /\ now' = now
            BY <2>1, <2>t, <3>1 DEF EnqueueAdd, PeriodicTypeOK
        <3>3. \A k \in Instance \ {i} : late'[k] = late[k] /\ (k \in instances' <=> k \in instances)
            BY <2>t, <3>1, <3>2 DEF PeriodicTypeOK
        <3>4. late'[i] = IF i[2] <= now THEN late[i] + 1 ELSE late[i]
            BY <2>t, <3>1, <3>2 DEF PeriodicTypeOK
        <3>5. pushed[i] + 1 <= 1 + late'[i]
            <4>1. CASE i[2] <= now
                BY <2>n, <3>2, <3>4, <4>1, SMT DEF OnceInv, OnceUnlessLate
            <4>2. CASE ~(i[2] <= now)
                BY <2>n, <3>2, <3>4, <4>2, SMT DEF OnceInv, PushedWhenDue
            <4> QED
                BY <4>1, <4>2
        <3>6. PushedWhenDue'
            BY <3>2 DEF OnceInv, PushedWhenDue
        <3>7. ASSUME NEW k \in Instance
              PROVE  pushed'[k] + (IF k \in instances' THEN 1 ELSE 0) <= 1 + late'[k]
            <4>1. CASE k = i
                <5>1. i \in instances'
                    BY <3>1
                <5> QED
                    BY <3>2, <3>5, <4>1, <5>1
            <4>2. CASE k # i
                BY <3>2, <3>3, <4>2 DEF OnceInv, OnceUnlessLate
            <4> QED
                BY <4>1, <4>2
        <3> QED
            BY <3>6, <3>7 DEF OnceUnlessLate
    <2>2. ASSUME NEW p \in Pools, Requeue(p) PROVE Rest'
        <3>1. PICK i \in Instance :
                  /\ i \in instances /\ i[2] <= now
                  /\ instances' = instances \ {i}
                  /\ pushed' = [pushed EXCEPT ![i] = @ + 1]
            BY <2>2 DEF Requeue, Due
        <3>2. /\ \A k \in Instance \ {i} : pushed'[k] = pushed[k] /\ (k \in instances' <=> k \in instances)
              /\ pushed'[i] = pushed[i] + 1 /\ i \notin instances'
              /\ late' = late /\ now' = now
            BY <2>2, <2>t, <3>1 DEF Requeue, PeriodicTypeOK
        <3>3. PushedWhenDue'
            BY <2>n, <3>1, <3>2 DEF OnceInv, PushedWhenDue
        <3>4. ASSUME NEW k \in Instance
              PROVE  pushed'[k] + (IF k \in instances' THEN 1 ELSE 0) <= 1 + late'[k]
            <4>1. CASE k = i
                BY <2>n, <3>1, <3>2, <4>1, SMT DEF OnceInv, OnceUnlessLate
            <4>2. CASE k # i
                BY <2>n, <3>2, <4>2 DEF OnceInv, OnceUnlessLate
            <4> QED
                BY <4>1, <4>2
        <3> QED
            BY <3>3, <3>4 DEF OnceUnlessLate
    <2>3. CASE UNCHANGED <<instances, pushed, late>> /\ now' \in {now, now + 1}
        BY <2>n, <2>t, <2>3, SMT DEF OnceInv, PushedWhenDue, OnceUnlessLate
    <2>4. \/ UNCHANGED <<instances, pushed, late>> /\ now' \in {now, now + 1}
          \/ \E p \in Pools : EnqueueAdd(p) \/ Requeue(p)
        BY DEF PeriodicNext, PoolNext, Tick, Start, StopOrCrash, ShouldEnqueue, TimerFires,
               EnqueueBegin, EnqueueEnd, EnqueueFails, periodicVars, passVars, lastVars, countVars
    <2> QED
        BY <2>t, <2>1, <2>2, <2>3, <2>4 DEF OnceInv
<1>3. OnceInv => OnceUnlessLate
    BY DEF OnceInv
<1> QED
    BY <1>1, <1>2, <1>3, PTL DEF PeriodicSpec

-----------------------------------------------------------------------------
(***************************************************************************)
(* Why no instance is missed.  A pass sees to all instances of its pool    *)
(* from its time up to its horizon, and last_periodic_enqueue is the time  *)
(* of a pass all of whose instances are there.  So whether a pool makes    *)
(* its next pass or leaves it out because of another that has its jobs,    *)
(* its instances up to the latest time at which it comes back, its         *)
(* Deadline, are seen to.                                                  *)
(***************************************************************************)
InstancesOf(S) == {i \in Instance : i[1] \in S}

There(i) == i \in instances \/ pushed[i] > 0

SeenTo(p, i) == i \in todo[p] \/ There(i)

LastPassInv ==
    lastEnqueue # Never =>
        /\ lastEnqueue <= now
        /\ \A i \in InstancesOf(lastJobs) : lastEnqueue < i[2] /\ i[2] < lastEnqueue + Horizon => There(i)

PassInv(p) ==
    /\ ppc[p] = "off" => since[p] = Never
    /\ ppc[p] \in {"check", "begin"} => timer[p] <= now + Sleep + Jitter
    /\ ppc[p] = "add" =>
        /\ passNow[p] <= now
        /\ timer[p] <= passNow[p] + Sleep + Jitter
        /\ \A i \in InstancesOf(PeriodicJobs[p]) :
            passNow[p] < i[2] /\ i[2] < passNow[p] + Horizon => SeenTo(p, i)
    /\ since[p] # Never =>
        \A i \in InstancesOf(PeriodicJobs[p]) :
            since[p] < i[2] /\ (i[2] <= now \/ i[2] <= Deadline(p)) => SeenTo(p, i)

CoverInv == PeriodicTypeOK /\ LastPassInv /\ \A p \in Pools : PassInv(p)

\* An instance that was scheduled stays so until it is on its queue: no step of
\* any pool takes one back.
LEMMA ThereStays ==
    ASSUME PeriodicTypeOK, [PeriodicNext]_periodicVars, NEW i \in Instance, There(i)
    PROVE  There(i)'
<1>1. ASSUME NEW p \in Pools, EnqueueAdd(p) PROVE There(i)'
    BY <1>1 DEF EnqueueAdd, There
<1>2. ASSUME NEW p \in Pools, Requeue(p) PROVE There(i)'
    <2>1. PICK k \in Instance : instances' = instances \ {k} /\ pushed' = [pushed EXCEPT ![k] = @ + 1]
        BY <1>2 DEF Requeue
    <2>2. pushed[i] \in Nat /\ pushed'[i] = IF i = k THEN pushed[i] + 1 ELSE pushed[i]
        BY <2>1 DEF PeriodicTypeOK
    <2> QED
        BY <2>1, <2>2, SMT DEF There
<1>3. CASE UNCHANGED <<instances, pushed>>
    BY <1>3 DEF There
<1>4. \/ UNCHANGED <<instances, pushed>>
      \/ \E p \in Pools : EnqueueAdd(p) \/ Requeue(p)
    BY DEF PeriodicNext, PoolNext, Tick, Start, StopOrCrash, ShouldEnqueue, TimerFires,
           EnqueueBegin, EnqueueEnd, EnqueueFails, periodicVars, passVars, lastVars, countVars
<1> QED
    BY <1>1, <1>2, <1>3, <1>4

\* What a step leaves of a pool that does not take it.
LEMMA OtherPool ==
    ASSUME CoverInv, [PeriodicNext]_periodicVars, NEW p \in Pools,
           UNCHANGED <<now, ppc[p], passNow[p], todo[p], timer[p], since[p]>>
    PROVE  PassInv(p)'
<1>1. \A i \in Instance : SeenTo(p, i) => SeenTo(p, i)'
    BY ThereStays DEF SeenTo, CoverInv
<1> QED
    BY <1>1 DEF PassInv, CoverInv, Deadline, InstancesOf

\* The time of a pass that has ended is one from which on all instances up to
\* the horizon are there.
LEMMA LastPassStep == CoverInv /\ [PeriodicNext]_periodicVars => LastPassInv'
<1> SUFFICES ASSUME CoverInv, [PeriodicNext]_periodicVars PROVE LastPassInv'
    OBVIOUS
<1>1. \A i \in Instance : There(i) => There(i)'
    BY ThereStays DEF CoverInv
<1>2. CASE UNCHANGED lastVars /\ now' \in {now, now + 1}
    <2>1. now \in Int /\ now' \in Int /\ (lastEnqueue # Never => lastEnqueue \in Int)
        BY <1>2, PeriodicAssumption, SMT DEF CoverInv, PeriodicTypeOK
    <2> QED
        BY <1>1, <1>2, <2>1, SMT DEF CoverInv, LastPassInv, InstancesOf, lastVars
<1>3. ASSUME NEW p \in Pools, EnqueueEnd(p) PROVE LastPassInv'
    <2>1. /\ ppc[p] = "add" /\ todo[p] = {} /\ now' = now
          /\ lastEnqueue' = passNow[p] /\ lastJobs' = PeriodicJobs[p]
        BY <1>3 DEF EnqueueEnd
    <2>2. PassInv(p)
        BY DEF CoverInv
    <2>3. \A i \in InstancesOf(PeriodicJobs[p]) :
              passNow[p] < i[2] /\ i[2] < passNow[p] + Horizon => There(i)
        BY <2>1, <2>2 DEF PassInv, SeenTo
    <2>4. passNow[p] <= now
        BY <2>1, <2>2 DEF PassInv
    <2> QED
        BY <1>1, <2>1, <2>3, <2>4 DEF LastPassInv, InstancesOf
<1>4. \/ UNCHANGED lastVars /\ now' \in {now, now + 1}
      \/ \E p \in Pools : EnqueueEnd(p)
    BY DEF PeriodicNext, PoolNext, Tick, Start, StopOrCrash, ShouldEnqueue, TimerFires,
           EnqueueBegin, EnqueueAdd, EnqueueFails, Requeue, periodicVars, passVars, lastVars, countVars
<1> QED
    BY <1>2, <1>3, <1>4

\* The pool that takes a step sees to the instances it is in charge of.
LEMMA OwnPool ==
    ASSUME CoverInv, [PeriodicNext]_periodicVars, NEW p \in Pools, PoolNext(p)
    PROVE  PassInv(p)'
<1>t. PeriodicTypeOK /\ PeriodicTypeOK'
    BY PeriodicTypeStep DEF CoverInv
<1>n. /\ now \in Int /\ passNow[p] \in Int /\ timer[p] \in Int
      /\ since[p] # Never => since[p] \in Int
      /\ \A i \in Instance : i[2] \in Int
      /\ Sleep \in Nat /\ Jitter \in Nat /\ Horizon \in Nat /\ Window \in Nat /\ MaxDelay \in Nat
    BY <1>t, InstanceTimes, PeriodicAssumption, SMT DEF PeriodicTypeOK
<1>m. \A i \in Instance : There(i) => There(i)'
    BY ThereStays DEF CoverInv
<1>p. PassInv(p)
    BY DEF CoverInv
<1>o. InstancesOf(PeriodicJobs[p]) \subseteq Instance
    BY DEF InstancesOf
<1>e. ppc[p] # "add" => todo[p] = {}
    BY <1>t DEF PeriodicTypeOK
<1>1. CASE Start(p)
    <2>1. since'[p] = Never /\ ppc'[p] = "check" /\ now' = now /\ timer'[p] <= now + Sleep + Jitter
        BY <1>1, <1>n, <1>p, <1>t, SMT DEF Start, Goto, ResetTimer, PassInv, PeriodicTypeOK
    <2> QED
        BY <2>1 DEF PassInv
<1>2. CASE StopOrCrash(p)
    <2>1. since'[p] = Never /\ ppc'[p] = "off"
        BY <1>2, <1>t DEF StopOrCrash, EndPass, Goto, Forgets, PeriodicTypeOK
    <2> QED
        BY <2>1 DEF PassInv
<1>3. CASE ShouldEnqueue(p)
    <2>1. CASE Goto(p, "begin") /\ UNCHANGED <<passNow, todo, since>>
        <3>1. /\ ppc[p] = "check" /\ ppc'[p] = "begin" /\ UNCHANGED <<now, timer>>
              /\ Deadline(p)' = Deadline(p)
            BY <1>3, <2>1, <1>t DEF ShouldEnqueue, Goto, Deadline, PeriodicTypeOK
        <3> QED
            BY <2>1, <3>1, <1>m, <1>o, <1>p DEF PassInv, SeenTo
    <2>2. CASE EndPass(p, "wait") /\ Forgets(p)
        <3>1. ppc'[p] = "wait" /\ since'[p] = Never
            BY <2>2, <1>t DEF EndPass, Goto, Forgets, PeriodicTypeOK
        <3> QED
            BY <3>1 DEF PassInv
    <2>3. CASE Recently /\ EndPass(p, "wait") /\ PeriodicJobs[p] \subseteq lastJobs /\ SeesTo(p)
        <3>1. /\ ppc[p] = "check" /\ ppc'[p] = "wait" /\ UNCHANGED <<now, timer>>
              /\ Deadline(p)' = timer[p] + MaxDelay
              /\ since'[p] = IF since[p] = Never THEN now ELSE since[p]
            BY <1>3, <2>3, <1>t DEF ShouldEnqueue, EndPass, Goto, SeesTo, Deadline, PeriodicTypeOK
        <3>a. /\ lastEnqueue \in Int /\ now - Window <= lastEnqueue /\ lastEnqueue <= now
              /\ \A i \in InstancesOf(lastJobs) :
                    lastEnqueue < i[2] /\ i[2] < lastEnqueue + Horizon => There(i)
            BY <2>3, <1>n, <1>t DEF Recently, CoverInv, LastPassInv, PeriodicTypeOK
        <3>b. InstancesOf(PeriodicJobs[p]) \subseteq InstancesOf(lastJobs)
            BY <2>3 DEF InstancesOf
        <3>2. /\ lastEnqueue \in Int /\ now - Window <= lastEnqueue /\ lastEnqueue <= now
              /\ \A i \in InstancesOf(PeriodicJobs[p]) :
                    lastEnqueue < i[2] /\ i[2] < lastEnqueue + Horizon => There(i)
            BY <3>a, <3>b
        <3>3. timer[p] + MaxDelay < lastEnqueue + Horizon
            BY <1>n, <1>p, <3>1, <3>2, HorizonAssumption, SMT DEF PassInv
        <3>4. ASSUME NEW i \in InstancesOf(PeriodicJobs[p]), since'[p] < i[2],
                     i[2] <= now' \/ i[2] <= Deadline(p)'
              PROVE  There(i)
            <4>i. i \in Instance /\ i[2] \in Int
                BY <1>n, <1>o
            <4>1. CASE i[2] <= now
                BY <4>1, <4>i, <1>e, <1>n, <1>p, <3>1, <3>4, SMT DEF PassInv, SeenTo
            <4>2. CASE now < i[2]
                BY <4>2, <4>i, <1>n, <3>1, <3>2, <3>3, <3>4, SMT
            <4> QED
                BY <4>1, <4>2, <4>i, <1>n, SMT
        <3> QED
            BY <3>1, <3>4, <1>m, <1>o DEF PassInv, SeenTo
    <2> QED
        BY <1>3, <2>1, <2>2, <2>3 DEF ShouldEnqueue, LeavesOut
<1>4. CASE TimerFires(p)
    <2>1. /\ ppc[p] = "wait" /\ ppc'[p] = "check" /\ UNCHANGED <<now, todo, since>>
          /\ timer'[p] <= now + Sleep + Jitter
          /\ Deadline(p)' = Deadline(p)
        BY <1>4, <1>n, <1>t, SMT DEF TimerFires, Goto, ResetTimer, Deadline, PeriodicTypeOK
    <2> QED
        BY <2>1, <1>m, <1>o, <1>p DEF PassInv, SeenTo
<1>5. CASE EnqueueBegin(p)
    <2>1. /\ ppc[p] = "begin" /\ ppc'[p] = "add" /\ UNCHANGED <<now, timer>>
          /\ passNow'[p] = now /\ todo'[p] = Upcoming(p, now)
          /\ Deadline(p)' = now + MaxDelay
          /\ since'[p] = IF since[p] = Never THEN now ELSE since[p]
        BY <1>5, <1>t DEF EnqueueBegin, Goto, SeesTo, Deadline, PeriodicTypeOK
    <2>2. \A i \in InstancesOf(PeriodicJobs[p]) : now < i[2] /\ i[2] < now + Horizon => i \in todo'[p]
        BY <2>1 DEF Upcoming, InstancesOf
    <2>3. ASSUME NEW i \in InstancesOf(PeriodicJobs[p]), since'[p] < i[2],
                 i[2] <= now' \/ i[2] <= Deadline(p)'
          PROVE  SeenTo(p, i)'
        <3>i. i \in Instance /\ i[2] \in Int
            BY <1>n, <1>o
        <3>1. CASE i[2] <= now
            BY <3>1, <3>i, <1>e, <1>m, <1>n, <1>p, <2>1, <2>3, SMT DEF PassInv, SeenTo
        <3>2. CASE now < i[2]
            BY <3>2, <3>i, <1>n, <2>1, <2>2, <2>3, HorizonAssumption, SMT DEF SeenTo
        <3> QED
            BY <3>1, <3>2, <3>i, <1>n, SMT
    <2> QED
        BY <1>n, <1>p, <2>1, <2>2, <2>3, SMT DEF PassInv, SeenTo
<1>6. CASE EnqueueAdd(p)
    <2>1. /\ UNCHANGED <<now, ppc, passNow, timer, since>>
          /\ \A i \in Instance : i \in todo[p] => i \in todo'[p] \/ i \in instances'
        BY <1>6, <1>t, SMT DEF EnqueueAdd, PeriodicTypeOK
    <2>2. \A i \in Instance : SeenTo(p, i) => SeenTo(p, i)'
        BY <2>1, <1>m DEF SeenTo, There
    <2> QED
        BY <1>o, <1>p, <2>1, <2>2 DEF PassInv, Deadline
<1>7. CASE EnqueueEnd(p)
    <2>1. /\ ppc[p] = "add" /\ ppc'[p] = "wait" /\ todo[p] = {}
          /\ UNCHANGED <<now, timer, since>>
          /\ Deadline(p)' = timer[p] + MaxDelay
        BY <1>7, <1>t DEF EnqueueEnd, EndPass, Goto, Deadline, PeriodicTypeOK
    <2>2. /\ passNow[p] <= now /\ timer[p] + MaxDelay < passNow[p] + Horizon
          /\ \A i \in InstancesOf(PeriodicJobs[p]) :
                passNow[p] < i[2] /\ i[2] < passNow[p] + Horizon => There(i)
        BY <1>n, <1>p, <2>1, HorizonAssumption, SMT DEF PassInv, SeenTo
    <2>3. ASSUME NEW i \in InstancesOf(PeriodicJobs[p]), since'[p] # Never, since'[p] < i[2],
                 i[2] <= now' \/ i[2] <= Deadline(p)'
          PROVE  There(i)
        <3>i. i \in Instance /\ i[2] \in Int
            BY <1>n, <1>o
        <3>1. CASE i[2] <= now
            BY <3>1, <1>p, <2>1, <2>3 DEF PassInv, SeenTo
        <3>2. CASE now < i[2]
            BY <3>2, <3>i, <1>n, <2>1, <2>2, <2>3, SMT
        <3> QED
            BY <3>1, <3>2, <3>i, <1>n, SMT
    <2> QED
        BY <1>m, <1>o, <2>1, <2>3 DEF PassInv, SeenTo
<1>8. CASE EnqueueFails(p)
    <2>1. since'[p] = Never /\ ppc'[p] = "wait"
        BY <1>8, <1>t DEF EnqueueFails, EndPass, Goto, Forgets, PeriodicTypeOK
    <2> QED
        BY <2>1 DEF PassInv
<1>9. CASE Requeue(p)
    BY <1>9, OtherPool DEF Requeue, passVars
<1> QED
    BY <1>1, <1>2, <1>3, <1>4, <1>5, <1>6, <1>7, <1>8, <1>9 DEF PoolNext

\* A pool that runs misses no instance of its periodic jobs, for any periodic jobs
\* of any pools, unless it leaves out a pass because of a pool without its jobs.
THEOREM PeriodicNoInstanceMissed == PeriodicSpec => []NoInstanceMissed
<1>1. PeriodicInit => CoverInv
    BY PeriodicTypeInit DEF PeriodicInit, CoverInv, LastPassInv, PassInv
<1>2. CoverInv /\ [PeriodicNext]_periodicVars => CoverInv'
    <2> SUFFICES ASSUME CoverInv, [PeriodicNext]_periodicVars, NEW p \in Pools
                 PROVE  PassInv(p)'
        BY PeriodicTypeStep, LastPassStep DEF CoverInv
    <2>1. CASE Tick
        <3>1. /\ UNCHANGED <<ppc, passNow, todo, timer, since>> /\ now' = now + 1
              /\ ppc[p] # "off" => now < Deadline(p)
            BY <2>1 DEF Tick, passVars
        <3>2. /\ now \in Int /\ passNow[p] \in Int /\ timer[p] \in Int
              /\ \A i \in Instance : i[2] \in Int
              /\ Sleep \in Nat /\ Jitter \in Nat /\ MaxDelay \in Nat
            BY InstanceTimes, PeriodicAssumption, SMT DEF CoverInv, PeriodicTypeOK
        <3>3. \A i \in Instance : SeenTo(p, i) => SeenTo(p, i)'
            BY <3>1, ThereStays DEF SeenTo, CoverInv
        <3>4. PassInv(p) /\ Deadline(p) \in Int /\ Deadline(p)' = Deadline(p)
            BY <3>1, <3>2, SMT DEF CoverInv, Deadline
        <3>5. InstancesOf(PeriodicJobs[p]) \subseteq Instance
            BY DEF InstancesOf
        <3> QED
            BY <3>1, <3>2, <3>3, <3>4, <3>5, SMT DEF PassInv
    <2>2. ASSUME NEW q \in Pools, PoolNext(q), q # p PROVE PassInv(p)'
        <3>1. UNCHANGED <<now, ppc[p], passNow[p], todo[p], timer[p], since[p]>>
            BY <2>2 DEF CoverInv, PeriodicTypeOK, PoolNext, Start, StopOrCrash, ShouldEnqueue,
                TimerFires, EnqueueBegin, EnqueueAdd, EnqueueEnd, EnqueueFails, Requeue,
                EndPass, Goto, ResetTimer, LeavesOut, SeesTo, Forgets, passVars, lastVars, countVars
        <3> QED
            BY <3>1, OtherPool
    <2>3. CASE UNCHANGED periodicVars
        BY <2>3, OtherPool DEF periodicVars, passVars
    <2> QED
        BY <2>1, <2>2, <2>3, OwnPool DEF PeriodicNext
<1>3. CoverInv => NoInstanceMissed
    BY DEF CoverInv, PassInv, NoInstanceMissed, InstancesOf, SeenTo, There
<1> QED
    BY <1>1, <1>2, <1>3, PTL DEF PeriodicSpec

-----------------------------------------------------------------------------
(* Unique jobs. *)

USE UniqueAssumption DEF None, Happens, EnvKinds, uniqueVars, redisVars, workVars, callVars,
    WorkerGoes, WorkerNext, KeyValue, Accepted

\* What a call or a worker does keeps the types: no worker ever runs the value
\* "1" of a key in place of a job.
LEMMA UniqueTypeStep == UniqueTypeOK /\ [UniqueNext]_uniqueVars => UniqueTypeOK'
<1> SUFFICES ASSUME UniqueTypeOK, [UniqueNext]_uniqueVars PROVE UniqueTypeOK'
    OBVIOUS
<1> USE DEF UniqueTypeOK
<1>1. ASSUME NEW j \in Jobs, EnqueueUnique(j) \/ EnqueueUniqueIn(j) PROVE UniqueTypeOK'
    BY <1>1, ZenonT(30) DEF EnqueueUnique, EnqueueUniqueIn, UniqueCall
<1>2. ASSUME NEW w \in Workers, TakeJob(w) PROVE UniqueTypeOK'
    BY <1>2, SMT DEF TakeJob
<1>3. ASSUME NEW w \in Workers, GetUniqueKey(w) PROVE UniqueTypeOK'
    <2>1. raw[w] \in Jobs
        BY <1>3 DEF GetUniqueKey
    <2>2. CASE ukey # NoJob /\ WorkerGoes(w, "del", raw[w], ukey) /\ UNCHANGED happened
        BY <1>3, <2>1, <2>2, SMT DEF GetUniqueKey
    <2>3. CASE WorkerGoes(w, "run", raw[w], raw[w]) /\ UNCHANGED happened
        BY <1>3, <2>1, <2>3, SMT DEF GetUniqueKey
    <2>4. CASE WorkerGoes(w, "run", raw[w], raw[w]) /\ Happens("redis_error")
        BY <1>3, <2>1, <2>4, SMT DEF GetUniqueKey
    <2> QED
        BY <1>3, <2>2, <2>3, <2>4 DEF GetUniqueKey
<1>4. ASSUME NEW w \in Workers, DelUniqueKey(w) PROVE UniqueTypeOK'
    BY <1>4, ZenonT(60) DEF DelUniqueKey, Replacement
<1>5. ASSUME NEW w \in Workers, EndJob(w) PROVE UniqueTypeOK'
    BY <1>5, ZenonT(30) DEF EndJob
<1>6. ASSUME NEW w \in Workers, CrashAndReap(w) PROVE UniqueTypeOK'
    BY <1>6, SMTT(60) DEF CrashAndReap
<1>7. CASE RequeueDue
    BY <1>7, SMTT(60) DEF RequeueDue
<1>8. CASE KeyExpires
    BY <1>8 DEF KeyExpires
<1>9. CASE DeleteScheduled
    BY <1>9, SMT DEF DeleteScheduled
<1>10. CASE DeleteScheduledKey
    BY <1>10 DEF DeleteScheduledKey
<1>11. CASE UNCHANGED uniqueVars
    BY <1>11
<1> QED
    BY <1>1, <1>2, <1>3, <1>4, <1>5, <1>6, <1>7, <1>8, <1>9, <1>10, <1>11 DEF UniqueNext

\* The type invariant holds: whatever GET returns, what a worker runs is a job.
THEOREM UniqueTypeCorrect == UniqueSpec => []UniqueTypeOK
<1>1. UniqueInit => UniqueTypeOK
    BY DEF UniqueInit, UniqueTypeOK
<1> QED
    BY <1>1, UniqueTypeStep, PTL DEF UniqueSpec

-----------------------------------------------------------------------------
(***************************************************************************)
(* KeyHasPendingJob is inductive once it is said that the DEL of           *)
(* DeleteScheduledJob only comes after its script.                         *)
(***************************************************************************)
KeyInv ==
    /\ UniqueTypeOK
    /\ deleting # {} => "delete" \in happened
    /\ KeyHasPendingJob

\* A unique key never outlives the jobs it stands for, for any number of calls
\* and workers, unless a call for the key fails, DeleteScheduledJob is cut off
\* before its DEL, or a job with a keyMap is deleted.
THEOREM KeyIsFreed == UniqueSpec => []KeyHasPendingJob
<1>1. UniqueInit => KeyInv
    BY DEF UniqueInit, KeyInv, UniqueTypeOK, KeyHasPendingJob
<1>2. KeyInv /\ [UniqueNext]_uniqueVars => KeyInv'
    <2> SUFFICES ASSUME KeyInv, [UniqueNext]_uniqueVars PROVE KeyInv'
        OBVIOUS
    <2>t. UniqueTypeOK /\ UniqueTypeOK'
        BY UniqueTypeStep DEF KeyInv
    <2> USE DEF KeyHasPendingJob
    <2> DEFINE Rest == (deleting # {} => "delete" \in happened) /\ KeyHasPendingJob
    <2>1. ASSUME NEW j \in Jobs, EnqueueUnique(j) \/ EnqueueUniqueIn(j) PROVE Rest'
        BY <2>1, SMT DEF EnqueueUnique, EnqueueUniqueIn, UniqueCall, KeyInv
    <2>2. ASSUME NEW w \in Workers, TakeJob(w) PROVE Rest'
        BY <2>2, <2>t, SMT DEF TakeJob, KeyInv, UniqueTypeOK
    <2>3. ASSUME NEW w \in Workers, GetUniqueKey(w) PROVE Rest'
        BY <2>3, <2>t, SMT DEF GetUniqueKey, KeyInv, UniqueTypeOK
    <2>4. ASSUME NEW w \in Workers, DelUniqueKey(w) PROVE Rest'
        BY <2>4, <2>t DEF DelUniqueKey, KeyInv, UniqueTypeOK
    <2>5. ASSUME NEW w \in Workers, EndJob(w) PROVE Rest'
        BY <2>5, <2>t, SMT DEF EndJob, KeyInv, UniqueTypeOK
    <2>6. ASSUME NEW w \in Workers, CrashAndReap(w) PROVE Rest'
        BY <2>6 DEF CrashAndReap, KeyInv
    <2>7. ASSUME RequeueDue PROVE Rest'
        BY <2>7 DEF RequeueDue, KeyInv
    <2>8. ASSUME KeyExpires PROVE Rest'
        BY <2>8 DEF KeyExpires, KeyInv
    <2>9. ASSUME DeleteScheduled PROVE Rest'
        BY <2>9 DEF DeleteScheduled, KeyInv
    <2>10. ASSUME DeleteScheduledKey PROVE Rest'
        BY <2>10 DEF DeleteScheduledKey, KeyInv
    <2>11. ASSUME UNCHANGED uniqueVars PROVE Rest'
        BY <2>11 DEF KeyInv
    <2> QED
        BY <2>t, <2>1, <2>2, <2>3, <2>4, <2>5, <2>6, <2>7, <2>8, <2>9, <2>10, <2>11
        DEF UniqueNext, KeyInv
<1>3. KeyInv => KeyHasPendingJob
    BY DEF KeyInv
<1> QED
    BY <1>1, <1>2, <1>3, PTL DEF UniqueSpec

-----------------------------------------------------------------------------
(***************************************************************************)
(* As long as no job runs again and the key does not expire, at most one   *)
(* thing at a time has a claim on the key: a job that is queued, a worker  *)
(* that has taken it and not yet deleted the key, or a deletion that has   *)
(* the key still to delete.  Without a key there is none.                  *)
(***************************************************************************)
Queued == waiting \cup scheduled

Taking(w) == upc[w] \in {"get", "del"}

OneClaim ==
    None({"retry", "expire", "crash"}) =>
        /\ retry = {} /\ waiting \cap scheduled = {}
        /\ ukey = NoJob => Queued = {} /\ deleting = {} /\ \A w \in Workers : ~Taking(w)
        /\ \A x, y \in Queued : x = y
        /\ \A x, y \in deleting : x = y
        /\ \A x, y \in Workers : Taking(x) /\ Taking(y) => x = y
        /\ Queued # {} => deleting = {} /\ \A w \in Workers : ~Taking(w)
        /\ deleting # {} => \A w \in Workers : ~Taking(w)

ClaimInv == UniqueTypeOK /\ OneClaim

\* EnqueueUnique keeps its promise, for any number of calls and workers: one job
\* per key, until one runs again or the key expires.
THEOREM OneJobForOneKey == UniqueSpec => []OneJobPerKey
<1>1. UniqueInit => ClaimInv
    BY DEF UniqueInit, ClaimInv, UniqueTypeOK, OneClaim, Queued, Taking
<1>2. ClaimInv /\ [UniqueNext]_uniqueVars => ClaimInv'
    <2> SUFFICES ASSUME ClaimInv, [UniqueNext]_uniqueVars PROVE ClaimInv'
        OBVIOUS
    <2>t. UniqueTypeOK /\ UniqueTypeOK'
        BY UniqueTypeStep DEF ClaimInv
    <2> USE DEF OneClaim, Queued, Taking
    <2>1. ASSUME NEW j \in Jobs, EnqueueUnique(j) \/ EnqueueUniqueIn(j) PROVE OneClaim'
        BY <2>1, <2>t, SMTT(60) DEF EnqueueUnique, EnqueueUniqueIn, UniqueCall, ClaimInv, UniqueTypeOK
    <2>2. ASSUME NEW w \in Workers, TakeJob(w) PROVE OneClaim'
        <3> SUFFICES ASSUME None({"retry", "expire", "crash"}) PROVE OneClaim'
            BY <2>2 DEF TakeJob
        <3>1. PICK j \in waiting : waiting' = waiting \ {j}
            BY <2>2 DEF TakeJob
        <3>a. j \in Queued /\ \A x \in Queued : x = j
            BY <3>1 DEF ClaimInv
        <3>2. Queued = {j} /\ deleting = {} /\ ukey # NoJob /\ \A x \in Workers : ~Taking(x)
            BY <3>a DEF ClaimInv
        <3>3. /\ Queued' = {} /\ retry' = {} /\ (waiting \cap scheduled)' = {}
              /\ deleting' = {} /\ ukey' # NoJob
            BY <2>2, <3>1, <3>2, SMT DEF TakeJob, ClaimInv
        <3>4. \A x \in Workers : Taking(x)' => x = w
            BY <2>2, <2>t, <3>2, SMT DEF TakeJob, UniqueTypeOK
        <3> QED
            BY <3>3, <3>4
    <2>3. ASSUME NEW w \in Workers, GetUniqueKey(w) PROVE OneClaim'
        BY <2>3, <2>t, SMTT(60) DEF GetUniqueKey, ClaimInv, UniqueTypeOK
    <2>4. ASSUME NEW w \in Workers, DelUniqueKey(w) PROVE OneClaim'
        BY <2>4, <2>t, SMT DEF DelUniqueKey, Replacement, ClaimInv, UniqueTypeOK
    <2>5. ASSUME NEW w \in Workers, EndJob(w) PROVE OneClaim'
        BY <2>5, <2>t, SMTT(60) DEF EndJob, ClaimInv, UniqueTypeOK
    <2>6. ASSUME NEW w \in Workers, CrashAndReap(w) PROVE OneClaim'
        BY <2>6, <2>t DEF CrashAndReap, ClaimInv, UniqueTypeOK
    <2>7. ASSUME RequeueDue PROVE OneClaim'
        BY <2>7, <2>t, SMT DEF RequeueDue, ClaimInv, UniqueTypeOK
    <2>8. ASSUME KeyExpires PROVE OneClaim'
        BY <2>8, <2>t DEF KeyExpires, ClaimInv, UniqueTypeOK
    <2>9. ASSUME DeleteScheduled PROVE OneClaim'
        <3> SUFFICES ASSUME None({"retry", "expire", "crash"}) PROVE OneClaim'
            BY <2>9 DEF DeleteScheduled
        <3>1. PICK j \in scheduled : /\ scheduled' = scheduled \ {j}
                                     /\ deleting' = deleting \cup {j}
            BY <2>9 DEF DeleteScheduled
        <3>a. j \in Queued /\ \A x \in Queued : x = j
            BY <3>1 DEF ClaimInv
        <3>2. Queued = {j} /\ deleting = {} /\ ukey # NoJob /\ \A x \in Workers : ~Taking(x)
            BY <3>a DEF ClaimInv
        <3>3. /\ Queued' = {} /\ retry' = {} /\ (waiting \cap scheduled)' = {}
              /\ deleting' = {j} /\ ukey' # NoJob
            BY <2>9, <3>1, <3>2, SMT DEF DeleteScheduled, ClaimInv
        <3>4. \A x \in Workers : ~Taking(x)'
            BY <2>9, <3>2 DEF DeleteScheduled
        <3> QED
            BY <3>3, <3>4
    <2>10. ASSUME DeleteScheduledKey PROVE OneClaim'
        BY <2>10, <2>t, SMT DEF DeleteScheduledKey, ClaimInv, UniqueTypeOK
    <2>11. ASSUME UNCHANGED uniqueVars PROVE OneClaim'
        BY <2>11, <2>t DEF ClaimInv, UniqueTypeOK
    <2> QED
        BY <2>t, <2>1, <2>2, <2>3, <2>4, <2>5, <2>6, <2>7, <2>8, <2>9, <2>10, <2>11
        DEF UniqueNext, ClaimInv
<1>3. ClaimInv => OneJobPerKey
    BY DEF ClaimInv, OneClaim, OneJobPerKey, Queued
<1> QED
    BY <1>1, <1>2, <1>3, PTL DEF UniqueSpec

-----------------------------------------------------------------------------
(***************************************************************************)
(* With a keyMap the key holds the last call or nothing, and without a     *)
(* race a worker that is about to delete it has read the last call.        *)
(***************************************************************************)
KeyIsLatest ==
    byKey =>
        /\ ukey \in {latest, NoJob}
        /\ "race" \notin happened => \A w \in Workers : upc[w] = "del" => job[w] = latest

ArgumentsInv == UniqueTypeOK /\ KeyIsLatest /\ LastArgumentsKept

\* The arguments of the last call with a keyMap are not forgotten, for any number
\* of calls and workers, but for what LastArgumentsKept excludes.
THEOREM ArgumentsAreKept == UniqueSpec => []LastArgumentsKept
<1>1. UniqueInit => ArgumentsInv
    BY DEF UniqueInit, ArgumentsInv, UniqueTypeOK, KeyIsLatest, LastArgumentsKept
<1>2. ArgumentsInv /\ [UniqueNext]_uniqueVars => ArgumentsInv'
    <2> SUFFICES ASSUME ArgumentsInv, [UniqueNext]_uniqueVars PROVE ArgumentsInv'
        OBVIOUS
    <2>t. UniqueTypeOK /\ UniqueTypeOK'
        BY UniqueTypeStep DEF ArgumentsInv
    <2> USE DEF KeyIsLatest, LastArgumentsKept
    <2>1. ASSUME NEW j \in Jobs, EnqueueUnique(j) \/ EnqueueUniqueIn(j) PROVE (KeyIsLatest /\ LastArgumentsKept)'
        BY <2>1, <2>t DEF EnqueueUnique, EnqueueUniqueIn, UniqueCall, ArgumentsInv, UniqueTypeOK
    <2>2. ASSUME NEW w \in Workers, TakeJob(w) PROVE (KeyIsLatest /\ LastArgumentsKept)'
        BY <2>2, <2>t, SMT DEF TakeJob, ArgumentsInv, UniqueTypeOK
    <2>3. ASSUME NEW w \in Workers, GetUniqueKey(w) PROVE (KeyIsLatest /\ LastArgumentsKept)'
        BY <2>3, <2>t, SMTT(60) DEF GetUniqueKey, ArgumentsInv, UniqueTypeOK
    <2>4. ASSUME NEW w \in Workers, DelUniqueKey(w) PROVE (KeyIsLatest /\ LastArgumentsKept)'
        BY <2>4, <2>t, SMT DEF DelUniqueKey, Replacement, ArgumentsInv, UniqueTypeOK
    <2>5. ASSUME NEW w \in Workers, EndJob(w) PROVE (KeyIsLatest /\ LastArgumentsKept)'
        BY <2>5, <2>t, SMT DEF EndJob, ArgumentsInv, UniqueTypeOK
    <2>6. ASSUME NEW w \in Workers, CrashAndReap(w) PROVE (KeyIsLatest /\ LastArgumentsKept)'
        BY <2>6, <2>t DEF CrashAndReap, ArgumentsInv, UniqueTypeOK
    <2>7. ASSUME RequeueDue PROVE (KeyIsLatest /\ LastArgumentsKept)'
        BY <2>7, <2>t DEF RequeueDue, ArgumentsInv, UniqueTypeOK
    <2>8. ASSUME KeyExpires PROVE (KeyIsLatest /\ LastArgumentsKept)'
        BY <2>8, <2>t DEF KeyExpires, ArgumentsInv, UniqueTypeOK
    <2>9. ASSUME DeleteScheduled PROVE (KeyIsLatest /\ LastArgumentsKept)'
        BY <2>9, <2>t, SMT DEF DeleteScheduled, ArgumentsInv, UniqueTypeOK
    <2>10. ASSUME DeleteScheduledKey PROVE (KeyIsLatest /\ LastArgumentsKept)'
        BY <2>10, <2>t DEF DeleteScheduledKey, ArgumentsInv, UniqueTypeOK
    <2>11. ASSUME UNCHANGED uniqueVars PROVE (KeyIsLatest /\ LastArgumentsKept)'
        BY <2>11, <2>t DEF ArgumentsInv, UniqueTypeOK
    <2> QED
        BY <2>t, <2>1, <2>2, <2>3, <2>4, <2>5, <2>6, <2>7, <2>8, <2>9, <2>10, <2>11
        DEF UniqueNext, ArgumentsInv
<1>3. ArgumentsInv => LastArgumentsKept
    BY DEF ArgumentsInv
<1> QED
    BY <1>1, <1>2, <1>3, PTL DEF UniqueSpec
=============================================================================
