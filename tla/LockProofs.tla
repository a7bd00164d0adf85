------------------------------ MODULE LockProofs ------------------------------
(***************************************************************************)
(* Where a job is and what the locks count, for any number of pools,       *)
(* workers, jobs and names: while heartbeats come in time a job is in one  *)
(* place and with one worker; while, besides, no call of Stop fails, lock  *)
(* and lock_info count the entries of the in-progress lists, so that no    *)
(* more handlers run than MaxConcurrency allows, for the names whose limit *)
(* every Start has written.                                                *)
(***************************************************************************)
EXTENDS ReaperProofs, FiniteSetTheorems

\* The obligations are small, but it takes time to translate them.
USE Zenon

(***************************************************************************)
(* While heartbeats come in time, whatever crashes and whichever calls     *)
(* fail, a job is in one place of Redis at a time and at most one worker   *)
(* has it.                                                                 *)
(***************************************************************************)
THEOREM OnePlaceAtATime == Timely => (Spec => []OnePlaceOneWorker)
<1> SUFFICES ASSUME Timely PROVE Spec => []OnePlaceOneWorker
    OBVIOUS
<1>1. HoldInv /\ [Next]_vars => HoldInv'
    BY HoldInvNext
<1>2. HoldInv => OnePlaceOneWorker
    <2> SUFFICES ASSUME HoldInv PROVE OnePlaceOneWorker
        OBVIOUS
    <2>1. ASSUME NEW j \in Jobs PROVE Cardinality(Places(j)) <= 1
        <3>1. CASE Places(j) = {}
            BY <3>1, FS_EmptySet, SMT
        <3>2. ASSUME NEW x \in Places(j) PROVE Cardinality(Places(j)) <= 1
            <4>1. \A y \in Places(j) : x = y
                BY <3>2, PlacesAgree DEF HoldInv, PoolInv, TypeOK
            <4>2. Places(j) = {x}
                BY <3>2, <4>1
            <4>3. Cardinality({x}) = 1
                BY FS_Singleton
            <4> QED
                BY <4>2, <4>3, SMT
        <3> QED
            BY <3>1, <3>2
    <2> QED
        BY <2>1 DEF OnePlaceOneWorker, HoldInv, SinglePlace, OneWorker
<1> QED
    BY <1>1, <1>2, HoldInvInit, PTL DEF Spec

-----------------------------------------------------------------------------
(* The locks. *)

(***************************************************************************)
(* The locks count the positions of the in-progress lists, and stay within *)
(* the limits that were written.                                           *)
(***************************************************************************)
LockedFor(n) == IsFiniteSet(Slots(n)) /\ lock[n] = Cardinality(Slots(n))

LocksCount == Shares /\ \A n \in Names : LockedFor(n)

Limited(n) == MaxConcurrency[n] > 0 /\ n \notin unlimited

LockLimit == \A n \in Names : Limited(n) => lock[n] <= MaxConcurrency[n]

(***************************************************************************)
(* A lock that moves with its positions still counts them.                 *)
(***************************************************************************)
LEMMA LockFollows ==
    ASSUME NEW n, LockedFor(n), LockSame(n) \/ LockGrows(n) \/ LockShrinks(n),
           MaxConcurrency[n] \in Nat, Limited(n) => lock[n] <= MaxConcurrency[n]
    PROVE  LockedFor(n)' /\ (Limited(n) => lock'[n] <= MaxConcurrency[n])
<1> DEFINE c == Cardinality(Slots(n))
           d == Cardinality(Slots(n)')
<1>1. IsFiniteSet(Slots(n)) /\ lock[n] = c
    BY DEF LockedFor
<1>2. c \in Nat
    BY <1>1, FS_CardinalityType
<1>3. CASE LockSame(n)
    BY <1>3 DEF LockSame, LockedFor
<1>4. CASE LockGrows(n)
    <2>1. PICK y : y \notin Slots(n) /\ Slots(n)' = Slots(n) \cup {y}
        BY <1>4 DEF LockGrows
    <2>2. IsFiniteSet(Slots(n)') /\ d = c + 1
        <3>1. IsFiniteSet(Slots(n) \cup {y}) /\ Cardinality(Slots(n) \cup {y}) = c + 1
            BY <1>1, <2>1, FS_AddElement
        <3> QED
            BY <2>1, <3>1
    <2>3. lock'[n] = lock[n] + 1 /\ (Limited(n) => lock[n] < MaxConcurrency[n])
        BY <1>4 DEF LockGrows, Limited
    <2> HIDE DEF c, d
    <2>4. lock'[n] = d /\ (Limited(n) => lock'[n] <= MaxConcurrency[n])
        BY <1>1, <1>2, <2>2, <2>3, SMT
    <2> QED
        BY <2>2, <2>4 DEF LockedFor, d
<1>5. CASE LockShrinks(n)
    <2>1. PICK y \in Slots(n) : Slots(n)' = Slots(n) \ {y}
        BY <1>5 DEF LockShrinks
    <2>2. IsFiniteSet(Slots(n)') /\ d = c - 1
        BY <1>1, <2>1, FS_RemoveElement
    <2>3. lock'[n] = lock[n] - 1
        BY <1>5 DEF LockShrinks
    <2> HIDE DEF c, d
    <2>4. lock'[n] = d /\ (Limited(n) => lock'[n] <= MaxConcurrency[n])
        BY <1>1, <1>2, <2>2, <2>3, SMT
    <2> QED
        BY <2>2, <2>4 DEF LockedFor, d
<1> QED
    BY <1>3, <1>4, <1>5

(***************************************************************************)
(* One step of the system: workers fetch when their pool has written the   *)
(* limits, and locks are given back only after the jobs.                   *)
(***************************************************************************)
LEMMA LocksCountNext ==
    ASSUME PoolInv, StopLeavesNothing, ReapsEmptied, SinglePlace, LocksCount, LockLimit, [Next]_vars
    PROVE  LocksCount' /\ LockLimit'
<1>1. StoreTypeOK /\ WorkerTypeOK /\ RunningJobHeld /\ Shares
    BY DEF PoolInv, TypeOK, SinglePlace, LocksCount
<1>2. ASSUME NEW n \in Names PROVE lock[n] >= 0
    <2>1. lock[n] = Cardinality(Slots(n)) /\ Cardinality(Slots(n)) \in Nat
        BY FS_CardinalityType DEF LocksCount, LockedFor
    <2> QED
        BY <2>1, SMT
<1>3. ASSUME NEW w \in Idle, NEW n \in Handles[PoolOf[w]]
      PROVE  maxConc[n] = MaxConcurrency[n] \/ n \in unlimited
    BY <1>3, WorkerAssumption DEF Idle, PoolInv, ServingWorkers, Serving, LimitsWritten
<1>4. ASSUME NEW p \in InReach("clean", "clean") PROVE NothingInProgress(p, Names)
    <2>1. /\ p \in Pools
          /\ \/ phase[p] = "clean"
             \/ \E r \in Pools : reaper[r].pc = "clean" /\ reaper[r].cur = p
        BY <1>4 DEF InReach
    <2> QED
        BY <2>1 DEF StopLeavesNothing, Requeued, ReapsEmptied, CleansUp, Cleaning, Emptied
<1>5. JobStep(Idle, InReach("requeue", "requeue"), InReach("clean", "clean"))
    BY JobSteps DEF JobsMove, PoolInv
<1>6. LocksMove
    BY <1>1, <1>2, <1>3, <1>4, <1>5, StepSets, LockSteps
<1>7. ASSUME NEW n \in Names
      PROVE  LockedFor(n)' /\ (Limited(n)' => lock'[n] <= MaxConcurrency[n])
    <2>1. LockedFor(n) /\ (LockSame(n) \/ LockGrows(n) \/ LockShrinks(n))
          /\ (Limited(n) => lock[n] <= MaxConcurrency[n])
        BY <1>6 DEF LocksMove, LocksCount, LockLimit
    <2>2. MaxConcurrency[n] \in Nat
        BY StoreAssumption
    <2>3. Limited(n)' => Limited(n)
        BY LimitsWrittenNext DEF PoolInv, Limited
    <2> QED
        BY <2>1, <2>2, <2>3, LockFollows
<1> QED
    BY <1>6, <1>7 DEF LocksMove, LocksCount, LockLimit

(***************************************************************************)
(* The invariant from which the theorems about the locks follow.           *)
(***************************************************************************)
LockInv == ReapInv /\ SinglePlace /\ LocksCount /\ LockLimit

(***************************************************************************)
(* It holds initially: no list has an entry and every lock is 0.           *)
(***************************************************************************)
LEMMA LockInvInit == Init => LockInv
<1> SUFFICES ASSUME Init PROVE LockInv
    OBVIOUS
<1>1. ReapInv /\ SinglePlace
    BY ReapInvInit, HoldInvInit DEF HoldInv
<1>2. Shares /\ \A n \in Names : Slots(n) = {} /\ lock[n] = 0
    BY NoSlotYet DEF Init
<1>3. LocksCount
    BY <1>2, FS_EmptySet DEF LocksCount, LockedFor
<1>4. LockLimit
    BY <1>2, StoreAssumption, SMT DEF LockLimit, Limited
<1> QED
    BY <1>1, <1>3, <1>4 DEF LockInv

(***************************************************************************)
(* Every step keeps it.                                                    *)
(***************************************************************************)
LEMMA LockInvNext ==
    ASSUME Timely, StopCallsSucceed, LockInv, [Next]_vars
    PROVE  LockInv'
<1>1. ReapInv'
    BY ReapInvNext DEF LockInv
<1>2. SinglePlace'
    BY PlacesNext DEF LockInv, ReapInv, PoolInv
<1>3. LocksCount' /\ LockLimit'
    BY LocksCountNext DEF LockInv, ReapInv
<1> QED
    BY <1>1, <1>2, <1>3 DEF LockInv

(***************************************************************************)
(* While heartbeats come in time and no call of Stop fails, the locks      *)
(* count the jobs in progress, whatever crashes, whichever replies are     *)
(* lost and however many reapers run at once.                              *)
(***************************************************************************)
THEOREM LocksAreExact == Timely /\ StopCallsSucceed => (Spec => []LocksCountInProgress)
<1> SUFFICES ASSUME Timely, StopCallsSucceed PROVE Spec => []LocksCountInProgress
    OBVIOUS
<1>1. LockInv /\ [Next]_vars => LockInv'
    BY LockInvNext
<1>2. LockInv => LocksCountInProgress
    BY DEF LockInv, LocksCount, LockedFor, Shares, LocksCountInProgress
<1> QED
    BY <1>1, <1>2, LockInvInit, PTL DEF Spec

(***************************************************************************)
(* While heartbeats come in time and no call of Stop fails, no more        *)
(* handlers of a name run at one time than its MaxConcurrency allows,      *)
(* unless a Start failed to write the limit of that very name.             *)
(***************************************************************************)
THEOREM LimitIsKept == Timely /\ StopCallsSucceed => (Spec => []ConcurrencyLimit)
<1> SUFFICES ASSUME Timely, StopCallsSucceed PROVE Spec => []ConcurrencyLimit
    OBVIOUS
<1>1. LockInv /\ [Next]_vars => LockInv'
    BY LockInvNext
<1>2. LockInv => ConcurrencyLimit
    <2> SUFFICES ASSUME LockInv PROVE ConcurrencyLimit
        OBVIOUS
    <2>1. ASSUME NEW n \in Names, MaxConcurrency[n] > 0, n \notin unlimited
          PROVE  Cardinality(Running(n)) <= MaxConcurrency[n]
        <3>1. Cardinality(Running(n)) <= Cardinality(Slots(n))
            <4>1. PICK f \in [Running(n) -> Slots(n)] : \A v, w \in Running(n) : f[v] = f[w] => v = w
                BY RunningHaveSlots DEF LockInv
            <4>2. f \in Injection(Running(n), Slots(n))
                BY <4>1 DEF Injection, IsInjective
            <4> QED
                BY <4>2, FS_Injection DEF LockInv, LocksCount, LockedFor
        <3>2. IsFiniteSet(Slots(n)) /\ Cardinality(Slots(n)) <= MaxConcurrency[n]
            BY <2>1 DEF LockInv, LocksCount, LockedFor, LockLimit, Limited
        <3>3. IsFiniteSet(Running(n))
            <4>1. IsFiniteSet(Workers) /\ Running(n) \subseteq Workers
                BY WorkerAssumption DEF Running
            <4> QED
                BY <4>1, FS_Subset
        <3>4. Cardinality(Running(n)) \in Nat /\ Cardinality(Slots(n)) \in Nat /\ MaxConcurrency[n] \in Nat
            BY <3>2, <3>3, FS_CardinalityType, StoreAssumption
        <3> QED
            BY <3>1, <3>2, <3>4, SMT
    <2> QED
        BY <2>1 DEF ConcurrencyLimit
<1> QED
    BY <1>1, <1>2, LockInvInit, PTL DEF Spec
=============================================================================
