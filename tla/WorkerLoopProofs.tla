--------------------------- MODULE WorkerLoopProofs ---------------------------
(***************************************************************************)
(* Starting, draining and stopping a pool with any number of workers and   *)
(* jobs, when calls of Stop and Drain may overlap; and what the observers  *)
(* believe and show, for any size of the buffers and with writes that      *)
(* fail.                                                                   *)
(***************************************************************************)
EXTENDS WorkerLoop, TLAPS


-----------------------------------------------------------------------------
(* The inductive invariants. *)

\* Who has a job: a job in progress is the job of one worker at most, and of no
\* queue.  Where the loops are while the pool starts and stops, and that only
\* an observed worker tells its observer anything.
LoopInv ==
    /\ LoopTypeOK
    /\ waiting \cap inprog = {}
    /\ \A v, w \in Workers : wjob[v] = wjob[w] /\ wjob[v] # NoJob => v = w
    /\ started => \A w \in Workers : stopper[w] = "none"
    /\ ~started /\ ~Stopping => \A w \in Workers : wpc[w] = "off"
    /\ \A w \in Workers :
          \/ wpc[w] \in {"begin", "done"}
          \/ stopper[w] \in {"odrain", "odrainWait", "ostop", "ostopWait"}
          \/ drainer[w] \in {"odrain", "odrainWait"}
          => w \in Observed

\* Whether the worker has found nothing to fetch since it was told to drain.
HasDrained(w) == wpc[w] = "doneDraining" \/ drainer[w] \in {"odrain", "odrainWait", "done"}

\* A job that Drain has to see to and that runs, does so in a worker that has
\* not reported; once a worker has, no such job waits.
DrainInv ==
    /\ \A w \in Workers :
          /\ drained[w] \/ wpc[w] = "doneDraining" => drainer[w] = "wait"
          /\ ~(drained[w] /\ wpc[w] = "doneDraining")
    /\ owed \subseteq come
    /\ owed # {} => \A w \in Workers : drainer[w] # "none"
    /\ \A j \in owed \cap inprog :
          \E w \in Workers : wjob[w] = j /\ drainer[w] \in {"send", "wait"}
    /\ (\E w \in Workers : HasDrained(w)) => owed \cap waiting = {}

-----------------------------------------------------------------------------
\* What may happen to the variables of the observers in a step.
LEMMA ObserverSteps ==
    ASSUME [LoopNext]_workerVars
    PROVE  \/ UNCHANGED observerVars
           \/ \E w \in Workers : ObserveStarted(w) \/ ObserveDone(w) \/ FetchFails(w)
           \/ \E w \in Workers : DrainObserver(w) \/ StopObserver(w)
           \/ \E w \in Observed : Checkin(w) \/ ObserverGoes(w)
           \/ Start
<1>1. ASSUME NEW w \in Workers, LoopStep(w), ~ObserveStarted(w), ~ObserveDone(w)
      PROVE  UNCHANGED observerVars
    BY <1>1 DEF LoopStep, FetchJob, FetchNothing, RunJob, RemoveJobFromInProgress
<1>2. ASSUME NEW w \in Workers, DrainStep(w), ~DrainObserver(w) PROVE UNCHANGED observerVars
    BY <1>2 DEF DrainStep, DrainReceived, WorkerDrained
<1>3. ASSUME NEW w \in Workers, StopStep(w), ~StopObserver(w) PROVE UNCHANGED observerVars
    BY <1>3 DEF StopStep, StopReceived, WorkerStopped
<1>4. ASSUME NEW w \in Workers, Checkin(w) PROVE w \in Observed
    BY <1>4 DEF Checkin
<1>5. ASSUME Stop \/ StopReturns \/ Drain \/ DrainReturns \/ Enqueue PROVE UNCHANGED observerVars
    BY <1>5 DEF Stop, StopReturns, Drain, DrainReturns, Enqueue
<1>6. ASSUME UNCHANGED workerVars PROVE UNCHANGED observerVars
    BY <1>6 DEF workerVars
<1> QED
    BY <1>1, <1>2, <1>3, <1>4, <1>5, <1>6 DEF LoopNext
-----------------------------------------------------------------------------
(* Types. *)

\* A write keeps the types.
LEMMA WriteType ==
    ASSUME ObserverTypeOK, NEW w \in Observed, NEW obv \in Status, WriteStatus(w, obv)
    PROVE  /\ hash' \in [Observed -> Status]
           /\ errors' \in 0 .. MaxErrors
           /\ misses' \in [Observed -> BOOLEAN]
<1>1. Written(hash[w], obv) \in Status
    BY DEF Written, Status, None, ObserverTypeOK
<1>2. hash' = hash \/ hash' = [hash EXCEPT ![w] = Written(hash[w], obv)]
    BY DEF WriteStatus
<1>3. errors' = errors \/ (errors < MaxErrors /\ errors' = errors + 1)
    BY DEF WriteStatus
<1>4. errors' \in 0 .. MaxErrors
    BY <1>3, ObserverAssumption DEF ObserverTypeOK
<1>5. misses' \in [Observed -> BOOLEAN]
    BY ZenonT(60) DEF WriteStatus, ObserverTypeOK
<1> QED
    BY <1>1, <1>2, <1>4, <1>5, ZenonT(60) DEF ObserverTypeOK

\* What process makes of an observation is a status.
LEMMA ProcessedType ==
    ASSUME NEW cur \in Status, NEW obv \in Observation
    PROVE  Processed(cur, obv) \in Status
    BY DEF Processed, Status, Observation, None

\* Every step keeps the types of the observers.
LEMMA ObserverTypeStep ==
    ASSUME LoopInv, [LoopNext]_workerVars
    PROVE  ObserverTypeOK'
<1> USE ObserverAssumption, LoopAssumption
<1>0. ObserverTypeOK /\ LoopTypeOK
    BY DEF LoopTypeOK, LoopInv
<1>1. CASE UNCHANGED observerVars
    BY <1>0, <1>1 DEF observerVars, ObserverTypeOK
<1>2. ASSUME NEW w \in Observed, NEW kind \in {"started", "done", "checkin"}, NEW job \in Jobs,
             Observe(w, kind, job)
      PROVE  ObserverTypeOK'
    <2>1. [kind |-> kind, job |-> job] \in Observation
        BY <1>2 DEF Observation
    <2>2. Append(obuf[w], [kind |-> kind, job |-> job]) \in Seq(Observation)
        BY <2>1, <1>0 DEF ObserverTypeOK
    <2>3. Len(Append(obuf[w], [kind |-> kind, job |-> job])) = Len(obuf[w]) + 1 /\ Len(obuf[w]) \in Nat
        BY <1>0 DEF ObserverTypeOK
    <2> QED
        BY <1>0, <1>2, <2>2, <2>3 DEF Observe, ObserverTypeOK
<1>3. ASSUME NEW w \in Workers, ObserveStarted(w) \/ ObserveDone(w)
      PROVE  wjob[w] \in Jobs /\ w \in Observed
    BY <1>0, <1>3 DEF ObserveStarted, ObserveDone, LoopTypeOK, Processing, LoopInv
<1>4. ASSUME NEW w \in Observed, Checkin(w) PROVE wjob[w] \in Jobs
    BY <1>0, <1>4 DEF Checkin, LoopTypeOK, Processing
<1>5. ASSUME NEW w \in Workers, FetchFails(w) PROVE ObserverTypeOK'
    BY <1>0, <1>5 DEF FetchFails, ObserverTypeOK
<1>6. ASSUME NEW w \in Observed, NEW from, NEW to \in {"off", "select", "drain", "doneDraining", "doneStopping"},
             ObserverMoves(w, from, to)
      PROVE  ObserverTypeOK'
    BY <1>0, <1>6 DEF ObserverMoves, ObserverTypeOK
<1>7. CASE Start
    BY <1>0, <1>7 DEF Start, ObserverTypeOK
<1>8. ASSUME NEW w \in Observed, ObserverTicks(w) \/ ObserverDrained(w) PROVE ObserverTypeOK'
    <2>1. WriteStatus(w, current[w]) /\ current[w] \in Status
        BY <1>0, <1>8 DEF ObserverTicks, ObserverDrained, ObserverTypeOK
    <2> QED
        BY <1>0, <1>8, <2>1, WriteType, ZenonT(60) DEF ObserverTicks, ObserverDrained, ObserverTypeOK
<1>9. ASSUME NEW w \in Observed, Process(w) PROVE ObserverTypeOK'
    <2>1. obuf[w] \in Seq(Observation) /\ obuf[w] # <<>>
        BY <1>0, <1>9 DEF ObserverTypeOK, Process
    <2>2. Head(obuf[w]) \in Observation /\ Tail(obuf[w]) \in Seq(Observation)
          /\ Len(Tail(obuf[w])) = Len(obuf[w]) - 1
        BY <2>1
    <2>3. Processed(current[w], Head(obuf[w])) \in Status
        BY <1>0, <2>2, ProcessedType DEF ObserverTypeOK
    <2>4. current'[w] = Processed(current[w], Head(obuf[w])) /\ current' \in [Observed -> Status]
        BY <1>0, <1>9, <2>3 DEF Process, ObserverTypeOK
    <2>5. /\ hash' \in [Observed -> Status]
          /\ errors' \in 0 .. MaxErrors
          /\ misses' \in [Observed -> BOOLEAN]
          /\ unwritten' \in [Observed -> BOOLEAN]
        <3>1. CASE version[w]
            BY <1>0, <1>9, <3>1, ZenonT(60) DEF Process, ObserverTypeOK
        <3>2. CASE ~version[w]
            <4>1. WriteStatus(w, current'[w]) /\ UNCHANGED unwritten
                BY <1>9, <3>2 DEF Process
            <4> QED
                BY <1>0, <2>3, <2>4, <4>1, WriteType DEF ObserverTypeOK
        <3> QED
            BY <3>1, <3>2
    <2>6. obuf' \in [Observed -> Seq(Observation)] /\ \A v \in Observed : Len(obuf'[v]) <= BufferSize
        BY <1>0, <1>9, <2>1, <2>2 DEF Process, ObserverTypeOK
    <2> QED
        BY <1>0, <1>9, <2>4, <2>5, <2>6 DEF Process, ObserverTypeOK
<1>10. ASSUME NEW w \in Workers, DrainObserver(w) \/ StopObserver(w) PROVE ObserverTypeOK'
    <2>1. w \in Observed
        BY <1>10 DEF DrainObserver, StopObserver, DrainMeets, StopMeets, LoopInv
    <2> QED
        BY <1>6, <1>10, <2>1 DEF DrainObserver, StopObserver, DrainMeets, StopMeets
<1>11. ASSUME NEW w \in Workers, ObserveStarted(w) \/ ObserveDone(w) PROVE ObserverTypeOK'
    BY <1>2, <1>3, <1>11, ZenonT(60) DEF ObserveStarted, ObserveDone
<1>12. ASSUME NEW w \in Observed, Checkin(w) PROVE ObserverTypeOK'
    BY <1>2, <1>4, <1>12, ZenonT(60) DEF Checkin
<1>13. ASSUME NEW w \in Observed, ObserverGoes(w) PROVE ObserverTypeOK'
    BY <1>8, <1>9, <1>13 DEF ObserverGoes, ObserverStep, ObserverReceives
<1> QED
    BY ObserverSteps, <1>1, <1>5, <1>7, <1>10, <1>11, <1>12, <1>13

\* Every step of a worker, of Drain or of Stop keeps who has a job, and where
\* the loops are.
LEMMA LoopInvStep ==
    ASSUME LoopInv, [LoopNext]_workerVars
    PROVE  LoopInv'
<1> USE ObserverAssumption, LoopAssumption
<1>0. ObserverTypeOK' /\ LoopTypeOK
    BY ObserverTypeStep DEF LoopInv
<1>1. ASSUME NEW w \in Workers, FetchJob(w) PROVE LoopInv'
    <2> PICK j \in waiting :
          waiting' = waiting \ {j} /\ inprog' = inprog \cup {j} /\ wjob' = [wjob EXCEPT ![w] = j]
        BY <1>1, ZenonT(60) DEF FetchJob
    <2>1. j \in Jobs /\ j # NoJob /\ j \notin inprog
        BY <1>0 DEF LoopTypeOK, LoopInv
    <2>2. LoopTypeOK'
        BY <1>0, <1>1, <2>1 DEF FetchJob, WorkerGoes, IfObserved, LoopTypeOK, Processing, callVars
    <2>3. \A v \in Workers : v # w => wjob[v] # j
        BY <1>0, <2>1 DEF LoopTypeOK
    <2> QED
        BY <1>0, <1>1, <2>1, <2>2, <2>3 DEF FetchJob, WorkerGoes, IfObserved, LoopTypeOK, LoopInv, Stopping, callVars
<1>2. ASSUME NEW w \in Workers, FetchNothing(w) PROVE LoopInv'
    BY <1>0, <1>2, ZenonT(60) DEF FetchNothing, WorkerGoes, LoopTypeOK, LoopInv, Stopping, jobVars, Processing
<1>3. ASSUME NEW w \in Workers, FetchFails(w) PROVE LoopInv'
    BY <1>0, <1>3 DEF FetchFails, LoopTypeOK, LoopInv, Stopping, loopVars
<1>4. ASSUME NEW w \in Workers, ObserveStarted(w) \/ RunJob(w) \/ ObserveDone(w) PROVE LoopInv'
    <2>1. LoopTypeOK'
        BY <1>0, <1>4, ZenonT(60) DEF ObserveStarted, RunJob, ObserveDone, WorkerGoes, IfObserved, LoopTypeOK, Processing, jobVars, callVars
    <2> QED
        BY <1>0, <1>4, <2>1 DEF ObserveStarted, RunJob, ObserveDone, WorkerGoes, IfObserved, LoopTypeOK, LoopInv, Stopping, jobVars, callVars
<1>5. ASSUME NEW w \in Workers, RemoveJobFromInProgress(w) PROVE LoopInv'
    <2>1. \A v \in Workers : v # w /\ wjob[v] # NoJob => wjob[v] # wjob[w]
        BY DEF LoopInv
    <2>2. LoopTypeOK'
        BY <1>0, <1>5, <2>1, ZenonT(60) DEF RemoveJobFromInProgress, WorkerGoes, LoopTypeOK, Processing, callVars
    <2> QED
        BY <1>0, <1>5, <2>1, <2>2 DEF RemoveJobFromInProgress, WorkerGoes, LoopTypeOK, LoopInv, Stopping, callVars
<1>6. ASSUME NEW w \in Workers, Checkin(w) PROVE LoopInv'
    BY <1>0, <1>6 DEF Checkin, LoopTypeOK, LoopInv, Stopping, loopVars, jobVars, callVars
<1>7. ASSUME NEW w \in Workers, DrainReceived(w) \/ WorkerDrained(w) PROVE LoopInv'
    <2>1. LoopTypeOK'
        BY <1>0, <1>7, ZenonT(60) DEF DrainReceived, WorkerDrained, WorkerGoes, IfObserved, LoopTypeOK, jobVars, Processing, DrainSteps
    <2>2. CASE DrainReceived(w)
        BY <1>0, <2>1, <2>2, SMTT(60) DEF DrainReceived, LoopTypeOK, LoopInv, Stopping, jobVars
    <2>3. CASE WorkerDrained(w)
        BY <1>0, <2>1, <2>3, SMTT(60) DEF WorkerDrained, WorkerGoes, IfObserved, LoopTypeOK, LoopInv, Stopping, jobVars
    <2> QED
        BY <1>7, <2>2, <2>3
<1>8. ASSUME NEW w \in Workers, DrainObserver(w) PROVE LoopInv'
    <2>1. PICK next \in DrainSteps \ {"none", "send", "wait"} :
            /\ drainer[w] \in {"odrain", "odrainWait"}
            /\ drainer' = [drainer EXCEPT ![w] = next]
            /\ UNCHANGED <<loopVars, jobVars, started, stopper, owed>>
        BY <1>8, ZenonT(60) DEF DrainObserver, DrainMeets, DrainSteps
    <2>2. w \in Observed
        BY <2>1 DEF LoopInv
    <2>3. LoopTypeOK'
        BY <1>0, <2>1 DEF LoopTypeOK, loopVars, jobVars, DrainSteps
    <2> QED
        BY <1>0, <2>1, <2>2, <2>3 DEF LoopTypeOK, LoopInv, Stopping, loopVars, jobVars
<1>9. ASSUME NEW w \in Workers, StopReceived(w) \/ WorkerStopped(w) PROVE LoopInv'
    <2>2. CASE StopReceived(w)
        <3>1. LoopTypeOK'
            BY <1>0, <2>2 DEF StopReceived, WorkerGoes, LoopTypeOK, jobVars, Processing, StopSteps
        <3> QED
            BY <1>0, <2>2, <3>1, SMTT(60) DEF StopReceived, WorkerGoes, LoopTypeOK, LoopInv, Stopping, jobVars
    <2>3. CASE WorkerStopped(w)
        <3>1. LoopTypeOK'
            BY <1>0, <2>3 DEF WorkerStopped, WorkerGoes, IfObserved, LoopTypeOK, jobVars, Processing, StopSteps
        <3> QED
            BY <1>0, <2>3, <3>1, SMTT(60) DEF WorkerStopped, WorkerGoes, IfObserved, LoopTypeOK, LoopInv, Stopping, jobVars
    <2> QED
        BY <1>9, <2>2, <2>3
<1>10. ASSUME NEW w \in Workers, StopObserver(w) PROVE LoopInv'
    <2>1. PICK next \in StopSteps \ {"none", "send", "wait"} :
            /\ stopper[w] \in {"odrain", "odrainWait", "ostop", "ostopWait"}
            /\ stopper' = [stopper EXCEPT ![w] = next]
            /\ UNCHANGED <<loopVars, jobVars, started, drainer, owed>>
        BY <1>10, ZenonT(60) DEF StopObserver, StopMeets, StopSteps
    <2>2. w \in Observed
        BY <2>1 DEF LoopInv
    <2>3. LoopTypeOK'
        BY <1>0, <2>1 DEF LoopTypeOK, loopVars, jobVars, StopSteps
    <2> QED
        BY <1>0, <2>1, <2>2, <2>3, SMTT(60) DEF LoopTypeOK, LoopInv, Stopping, loopVars, jobVars
<1>11. CASE Start
    BY <1>0, <1>11 DEF Start, LoopTypeOK, LoopInv, Stopping, jobVars, Processing
<1>12. CASE Stop
    BY <1>0, <1>12, ZenonT(60) DEF Stop, LoopTypeOK, LoopInv, Stopping, loopVars, jobVars, StopSteps
<1>13. CASE StopReturns
    BY <1>0, <1>13 DEF StopReturns, LoopTypeOK, LoopInv, Stopping, loopVars, Processing, StopSteps
<1>14. CASE Drain
    <2>1. owed' \subseteq Jobs
        BY <1>0, <1>14, ZenonT(60) DEF Drain, LoopTypeOK
    <2> QED
        BY <1>0, <1>14, <2>1 DEF Drain, LoopTypeOK, LoopInv, Stopping, loopVars, jobVars, DrainSteps
<1>15. CASE DrainReturns
    BY <1>0, <1>15 DEF DrainReturns, LoopTypeOK, LoopInv, Stopping, loopVars, jobVars, DrainSteps
<1>16. CASE Enqueue
    BY <1>0, <1>16, SMTT(60) DEF Enqueue, LoopTypeOK, LoopInv, Stopping, loopVars, callVars
<1>17. ASSUME NEW w \in Observed, ObserverGoes(w) PROVE LoopInv'
    BY <1>0, <1>17 DEF ObserverGoes, LoopTypeOK, LoopInv, Stopping, loopVars, jobVars, callVars
<1>18. CASE UNCHANGED workerVars
    BY <1>0, <1>18 DEF workerVars, LoopTypeOK, LoopInv, Stopping, loopVars, jobVars, callVars
<1> QED
    BY <1>1, <1>2, <1>3, <1>4, <1>5, <1>6, <1>7, <1>8, <1>9, <1>10, <1>11, <1>12, <1>13,
       <1>14, <1>15, <1>16, <1>17, <1>18 DEF LoopNext, LoopStep, DrainStep, StopStep

\* Initially no worker runs.
LEMMA LoopInvInit == LoopInit => LoopInv
<1> SUFFICES ASSUME LoopInit PROVE LoopInv
    OBVIOUS
<1> USE ObserverAssumption, LoopAssumption
<1>1. ObserverTypeOK
    BY DEF LoopInit, ObserverInit, ObserverTypeOK, Status, None
<1> QED
    BY <1>1, ZenonT(60) DEF LoopInit, LoopInv, LoopTypeOK, Processing, StopSteps, DrainSteps, Stopping

\* Every variable of a pool has its type, and the goroutines agree on where
\* they are.
THEOREM LoopTypeCorrect == LoopSpec => []LoopTypeOK
<1>1. LoopInv /\ [LoopNext]_workerVars => LoopInv'
    BY LoopInvStep
<1>2. LoopInv => LoopTypeOK
    BY DEF LoopInv
<1> QED
    BY LoopInvInit, <1>1, <1>2, PTL DEF LoopSpec

-----------------------------------------------------------------------------
(* Drain. *)

\* Every step keeps what a worker that has drained stands for.
LEMMA DrainStepKeeps ==
    ASSUME LoopInv, DrainInv, [LoopNext]_workerVars
    PROVE  DrainInv'
<1> USE ObserverAssumption, LoopAssumption
<1>0. LoopTypeOK
    BY DEF LoopInv
<1>1. ASSUME NEW w \in Workers, FetchJob(w) PROVE DrainInv'
    <2> PICK j \in waiting :
          waiting' = waiting \ {j} /\ inprog' = inprog \cup {j} /\ wjob' = [wjob EXCEPT ![w] = j]
        BY <1>1, ZenonT(60) DEF FetchJob
    <2>1. wpc[w] = "select" /\ wjob[w] = NoJob
        BY <1>0, <1>1 DEF FetchJob, LoopTypeOK, Processing
    <2>2. /\ wpc' = [wpc EXCEPT ![w] = IfObserved(w, "begin", "run")]
          /\ UNCHANGED <<drained, drainer, owed, come>>
        BY <1>1 DEF FetchJob, WorkerGoes, callVars
    <2>3. j \in owed => drainer[w] \in {"send", "wait"}
        BY <1>0 DEF DrainInv, HasDrained, LoopTypeOK, DrainSteps
    <2>4. \A k \in owed' \cap inprog' : \E v \in Workers : wjob'[v] = k /\ drainer'[v] \in {"send", "wait"}
        <3> TAKE k \in owed' \cap inprog'
        <3>1. CASE k = j
            BY <1>0, <2>2, <2>3, <3>1 DEF LoopTypeOK
        <3>2. CASE k # j
            <4>1. PICK v \in Workers : wjob[v] = k /\ drainer[v] \in {"send", "wait"}
                BY <2>2, <3>2 DEF DrainInv
            <4>2. v # w
                BY <1>0, <2>1, <4>1, ZenonT(60) DEF LoopTypeOK
            <4> QED
                BY <1>0, <2>2, <4>1, <4>2 DEF LoopTypeOK
        <3> QED
            BY <3>1, <3>2
    <2> QED
        BY <1>0, <2>1, <2>2, <2>4, SMTT(60) DEF DrainInv, HasDrained, IfObserved, LoopTypeOK
<1>2. ASSUME NEW w \in Workers, FetchNothing(w) PROVE DrainInv'
    <2>1. CASE drained[w]
        <3>1. /\ drained' = [drained EXCEPT ![w] = FALSE]
              /\ wpc' = [wpc EXCEPT ![w] = "doneDraining"]
              /\ owed' = owed \ waiting
              /\ UNCHANGED <<wjob, drainer, waiting, inprog, come>>
            BY <1>2, <2>1 DEF FetchNothing, WorkerGoes, jobVars
        <3>2. owed' \cap inprog' \subseteq owed \cap inprog /\ owed' \cap waiting' = {}
            BY <3>1
        <3> QED
            BY <1>0, <2>1, <3>1, <3>2 DEF LoopTypeOK, DrainInv, HasDrained
    <2>2. CASE ~drained[w]
        BY <1>0, <1>2, <2>2, ZenonT(60) DEF FetchNothing, LoopTypeOK, DrainInv, HasDrained, jobVars
    <2> QED
        BY <2>1, <2>2
<1>3. ASSUME NEW w \in Workers, FetchFails(w) PROVE DrainInv'
    <2> PICK j \in waiting :
          waiting' = waiting \ {j} /\ inprog' = inprog \cup {j} /\ owed' = owed \ {j}
        BY <1>3 DEF FetchFails
    <2>1. UNCHANGED <<wpc, wjob, drained, drainer, come>>
        BY <1>3 DEF FetchFails, loopVars
    <2>2. owed' \cap inprog' \subseteq owed \cap inprog /\ owed' \cap waiting' \subseteq owed \cap waiting
        OBVIOUS
    <2> QED
        BY <2>1, <2>2 DEF DrainInv, HasDrained
<1>4. ASSUME NEW w \in Workers, ObserveStarted(w) \/ RunJob(w) \/ ObserveDone(w) PROVE DrainInv'
    <2>1. PICK to \in Processing : wpc' = [wpc EXCEPT ![w] = to]
        BY <1>4 DEF ObserveStarted, RunJob, ObserveDone, WorkerGoes, IfObserved, Processing
    <2>2. UNCHANGED <<wjob, drained, drainer, waiting, inprog, come, owed>>
        BY <1>4 DEF ObserveStarted, RunJob, ObserveDone, jobVars, callVars
    <2> QED
        BY <1>0, <2>1, <2>2, SMTT(60) DEF LoopTypeOK, DrainInv, HasDrained, Processing
<1>5. ASSUME NEW w \in Workers, RemoveJobFromInProgress(w) PROVE DrainInv'
    <2>1. \A k \in owed' \cap inprog' : \E v \in Workers : wjob'[v] = k /\ drainer'[v] \in {"send", "wait"}
        <3> TAKE k \in owed' \cap inprog'
        <3>1. k \in owed \cap inprog /\ k # wjob[w]
            BY <1>5 DEF RemoveJobFromInProgress, callVars
        <3>2. PICK v \in Workers : wjob[v] = k /\ drainer[v] \in {"send", "wait"}
            BY <3>1 DEF DrainInv
        <3> QED
            BY <1>0, <1>5, <3>1, <3>2 DEF RemoveJobFromInProgress, callVars, LoopTypeOK
    <2> QED
        BY <1>0, <1>5, <2>1 DEF RemoveJobFromInProgress, WorkerGoes, callVars, LoopTypeOK, DrainInv, HasDrained
<1>6. ASSUME NEW w \in Workers, Checkin(w) PROVE DrainInv'
    BY <1>6 DEF Checkin, DrainInv, HasDrained, loopVars, jobVars, callVars
<1>7. ASSUME NEW w \in Workers, DrainReceived(w) PROVE DrainInv'
    BY <1>0, <1>7, SMTT(60) DEF DrainReceived, LoopTypeOK, DrainInv, HasDrained, jobVars
<1>8. ASSUME NEW w \in Workers, WorkerDrained(w) PROVE DrainInv'
    <2>1. wjob[w] = NoJob /\ owed \cap waiting = {}
        BY <1>0, <1>8 DEF WorkerDrained, LoopTypeOK, Processing, DrainInv, HasDrained
    <2>2. \A k \in owed' \cap inprog' : \E v \in Workers : wjob'[v] = k /\ drainer'[v] \in {"send", "wait"}
        <3> TAKE k \in owed' \cap inprog'
        <3>1. PICK v \in Workers : wjob[v] = k /\ drainer[v] \in {"send", "wait"}
            BY <1>8 DEF WorkerDrained, DrainInv, jobVars
        <3>2. v # w
            BY <1>0, <1>8, <2>1, <3>1 DEF WorkerDrained, LoopTypeOK
        <3> QED
            BY <1>0, <1>8, <3>1, <3>2 DEF WorkerDrained, LoopTypeOK
    <2> QED
        BY <1>0, <1>8, <2>1, <2>2 DEF WorkerDrained, WorkerGoes, IfObserved, LoopTypeOK, DrainInv, HasDrained, jobVars
<1>9. ASSUME NEW w \in Workers, DrainObserver(w) PROVE DrainInv'
    <2>1. PICK next \in {"odrainWait", "done"} :
            /\ drainer[w] \in {"odrain", "odrainWait"}
            /\ drainer' = [drainer EXCEPT ![w] = next]
            /\ UNCHANGED <<wpc, wjob, drained, waiting, inprog, come, owed>>
        BY <1>9, ZenonT(60) DEF DrainObserver, DrainMeets, loopVars, jobVars
    <2>2. \A k \in owed' \cap inprog' : \E v \in Workers : wjob'[v] = k /\ drainer'[v] \in {"send", "wait"}
        <3> TAKE k \in owed' \cap inprog'
        <3>1. PICK v \in Workers : wjob[v] = k /\ drainer[v] \in {"send", "wait"}
            BY <2>1 DEF DrainInv
        <3> QED
            BY <1>0, <2>1, <3>1 DEF LoopTypeOK
    <2> QED
        BY <1>0, <2>1, <2>2, SMTT(60) DEF LoopTypeOK, DrainInv, HasDrained
<1>10. ASSUME NEW w \in Workers, StopStep(w) PROVE DrainInv'
    <2>1. CASE StopReceived(w)
        BY <1>0, <2>1 DEF StopReceived, WorkerGoes, LoopTypeOK, DrainInv, HasDrained, jobVars
    <2>2. CASE WorkerStopped(w)
        BY <1>0, <2>2 DEF WorkerStopped, WorkerGoes, LoopTypeOK, DrainInv, HasDrained, jobVars
    <2>3. CASE StopObserver(w)
        <3>1. UNCHANGED <<wpc, wjob, drained, waiting, inprog, come, drainer, owed>>
            BY <2>3, ZenonT(60) DEF StopObserver, StopMeets, loopVars, jobVars
        <3> QED
            BY <3>1 DEF DrainInv, HasDrained
    <2> QED
        BY <1>10, <2>1, <2>2, <2>3 DEF StopStep
<1>11. CASE Start
    BY <1>0, <1>11 DEF Start, LoopTypeOK, DrainInv, HasDrained, jobVars
<1>12. CASE Stop
    BY <1>12 DEF Stop, DrainInv, HasDrained, loopVars, jobVars
<1>13. CASE StopReturns
    <2>1. \A w \in Workers : wjob[w] = NoJob
        BY <1>0, <1>13 DEF StopReturns, LoopTypeOK, Processing
    <2>2. owed \cap inprog = {}
        BY <1>0, <2>1 DEF DrainInv, LoopTypeOK
    <2> QED
        BY <1>13, <2>2 DEF StopReturns, DrainInv, HasDrained, loopVars
<1>14. CASE Drain
    <2>1. \A w \in Workers : drainer[w] = "none" /\ ~drained[w] /\ wpc[w] # "doneDraining"
        BY <1>14 DEF Drain, Draining, DrainInv
    <2>2. \A w \in Workers : drainer'[w] = "send"
        BY <1>14 DEF Drain
    <2>3. \A j \in owed' \cap inprog' : \E w \in Workers : wjob'[w] = j
        BY <1>14 DEF Drain, LoopInv, loopVars, jobVars
    <2>4. owed' \subseteq come'
        <3>1. \A w \in Workers : wjob[w] # NoJob => wjob[w] \in come
            BY <1>0, ZenonT(60) DEF LoopTypeOK
        <3>2. waiting \subseteq come
            BY <1>0 DEF LoopTypeOK
        <3> QED
            BY <1>14, <3>1, <3>2 DEF Drain, jobVars
    <2> QED
        BY <1>14, <2>1, <2>2, <2>3, <2>4 DEF Drain, DrainInv, HasDrained, loopVars, jobVars
<1>15. CASE DrainReturns
    BY <1>15 DEF DrainReturns, DrainInv, HasDrained, loopVars, jobVars
<1>16. CASE Enqueue
    <2>1. PICK j \in Jobs \ come : waiting' = waiting \cup {j}
        BY <1>16 DEF Enqueue
    <2>2. j \notin owed
        BY <1>0, <2>1 DEF DrainInv, LoopTypeOK
    <2> QED
        BY <1>16, <2>1, <2>2, SMTT(60) DEF Enqueue, DrainInv, HasDrained, loopVars, callVars
<1>17. ASSUME NEW w \in Observed, ObserverGoes(w) PROVE DrainInv'
    BY <1>17 DEF ObserverGoes, DrainInv, HasDrained, loopVars, jobVars, callVars
<1>18. CASE UNCHANGED workerVars
    BY <1>18 DEF workerVars, DrainInv, HasDrained, loopVars, jobVars, callVars
<1> QED
    BY <1>1, <1>2, <1>3, <1>4, <1>5, <1>6, <1>7, <1>8, <1>9, <1>10, <1>11, <1>12, <1>13,
       <1>14, <1>15, <1>16, <1>17, <1>18 DEF LoopNext, LoopStep, DrainStep

\* When Drain is about to return, each job that waited or ran when it was called
\* has ended, for any number of workers, and even when Stop is called meanwhile.
THEOREM DrainSeesToAll == LoopSpec => []DrainedJobsHaveEnded
<1>1. LoopInit => DrainInv
    BY DEF LoopInit, DrainInv, HasDrained
<1>2. LoopInv /\ DrainInv /\ [LoopNext]_workerVars => LoopInv' /\ DrainInv'
    BY LoopInvStep, DrainStepKeeps
<1>3. LoopInv /\ DrainInv => DrainedJobsHaveEnded
    <2> SUFFICES ASSUME LoopInv, DrainInv, \A w \in Workers : drainer[w] = "done"
                 PROVE  owed \cap (waiting \cup inprog) = {}
        BY DEF DrainedJobsHaveEnded
    <2>1. owed \cap inprog = {}
        BY DEF DrainInv
    <2>2. owed \cap waiting = {}
        BY LoopAssumption DEF DrainInv, HasDrained
    <2> QED
        BY <2>1, <2>2
<1> QED
    BY LoopInvInit, <1>1, <1>2, <1>3, PTL DEF LoopSpec

-----------------------------------------------------------------------------
(* The observers. *)

(* The inductive invariants. *)

\* The job that an observer believes in once it has processed k observations of
\* its buffer.
JobAfter(cur, buf, k) ==
    IF k = 0 THEN cur.job
    ELSE IF buf[k].kind = "done" THEN NoJob ELSE buf[k].job

\* When all is processed the observer believes in the given job, and each
\* check-in finds its job on the way.
Belief(cur, buf, job) ==
    /\ JobAfter(cur, buf, Len(buf)) = job
    /\ \A k \in 1 .. Len(buf) : buf[k].kind = "checkin" => JobAfter(cur, buf, k - 1) = buf[k].job

\* From observeStarted to observeDone, what the worker has told its observer is
\* that it has its job.
Told(w) == IF wpc[w] \in {"run", "done"} THEN wjob[w] ELSE NoJob

BeliefInv == \A w \in Observed : Belief(current[w], obuf[w], Told(w))

\* The observer has nothing to do and shows nothing.
Idle(w) ==
    /\ obuf[w] = <<>>
    /\ current[w].job = NoJob
    /\ misses[w] \/ hash[w] = None

\* The worker has stopped, and the observer has drained after that.
HasStopped(w) ==
    \/ opc[w] \in {"off", "doneStopping"}
    \/ stopper[w] \in {"ostop", "ostopWait", "done"}
    \/ stopper[w] = "odrainWait" /\ opc[w] = "doneDraining"

IdleInv ==
    \A w \in Observed :
        /\ HasStopped(w) => Idle(w)
        /\ opc[w] = "doneStopping" => stopper[w] = "ostopWait"
        /\ opc[w] = "off" => wpc[w] = "off"

-----------------------------------------------------------------------------
(* What the observer believes. *)

\* The worker tells its observer one thing more.
LEMMA AppendBelief ==
    ASSUME NEW cur, NEW buf \in Seq(Observation), NEW job, Belief(cur, buf, job),
           NEW o \in Observation, o.kind = "checkin" => o.job = job
    PROVE  Belief(cur, Append(buf, o), IF o.kind = "done" THEN NoJob ELSE o.job)
<1> DEFINE n == Len(buf)
           more == Append(buf, o)
<1>1. n \in Nat /\ Len(more) = n + 1 /\ more[n + 1] = o /\ \A k \in 1 .. n : more[k] = buf[k]
    OBVIOUS
<1>2. \A k \in 0 .. n : JobAfter(cur, more, k) = JobAfter(cur, buf, k)
    BY <1>1 DEF JobAfter
<1>3. JobAfter(cur, more, n + 1) = IF o.kind = "done" THEN NoJob ELSE o.job
    BY <1>1 DEF JobAfter
<1>4. ASSUME NEW k \in 1 .. n + 1, more[k].kind = "checkin"
      PROVE  JobAfter(cur, more, k - 1) = more[k].job
    <2>1. CASE k = n + 1
        <3>1. k - 1 = n /\ n \in 0 .. n
            BY <1>1, <2>1
        <3> QED
            BY <1>1, <1>2, <1>4, <2>1, <3>1 DEF Belief
    <2>2. CASE k # n + 1
        <3>1. k \in 1 .. n /\ k - 1 \in 0 .. n
            BY <1>1, <2>2
        <3> QED
            BY <1>1, <1>2, <1>4, <3>1 DEF Belief
    <2> QED
        BY <2>1, <2>2
<1> QED
    BY <1>1, <1>3, <1>4 DEF Belief

\* A check-in that is next finds its job.
LEMMA FirstCheckin ==
    ASSUME NEW cur, NEW buf \in Seq(Observation), NEW job, Belief(cur, buf, job),
           buf # <<>>, Head(buf).kind = "checkin"
    PROVE  cur.job = Head(buf).job
<1>1. Head(buf) = buf[1] /\ Len(buf) \in Nat \ {0}
    OBVIOUS
<1>2. 1 \in 1 .. Len(buf) /\ 1 - 1 = 0
    BY <1>1
<1> QED
    BY <1>1, <1>2 DEF Belief, JobAfter

\* The observer processes the next observation.
LEMMA ProcessBelief ==
    ASSUME NEW cur \in Status, NEW buf \in Seq(Observation), NEW job, Belief(cur, buf, job),
           buf # <<>>
    PROVE  Belief(Processed(cur, Head(buf)), Tail(buf), job)
<1> DEFINE n == Len(buf)
           rest == Tail(buf)
           next == Processed(cur, Head(buf))
<1>1. /\ n \in Nat \ {0} /\ Len(rest) = n - 1 /\ Head(buf) = buf[1] /\ Head(buf) \in Observation
      /\ \A k \in 1 .. n - 1 : rest[k] = buf[k + 1]
    OBVIOUS
<1>2. buf[1].kind = "checkin" => cur.job = buf[1].job
    BY <1>1, FirstCheckin
<1>3. next.job = JobAfter(cur, buf, 1)
    BY <1>1, <1>2 DEF JobAfter, Processed, Status, Observation, None
<1>4. \A k \in 0 .. n - 1 : JobAfter(next, rest, k) = JobAfter(cur, buf, k + 1)
    BY <1>1, <1>3 DEF JobAfter
<1>5. JobAfter(next, rest, n - 1) = job
    BY <1>1, <1>4 DEF Belief
<1>6. ASSUME NEW k \in 1 .. n - 1, rest[k].kind = "checkin"
      PROVE  JobAfter(next, rest, k - 1) = rest[k].job
    <2>1. k - 1 \in 0 .. n - 1 /\ k + 1 \in 1 .. n /\ (k - 1) + 1 = k /\ (k + 1) - 1 = k
        BY <1>1
    <2> QED
        BY <1>1, <1>4, <1>6, <2>1 DEF Belief
<1> QED
    BY <1>1, <1>5, <1>6 DEF Belief

\* Every step keeps what the observers believe.
LEMMA BeliefStep ==
    ASSUME LoopInv, BeliefInv, [LoopNext]_workerVars
    PROVE  BeliefInv'
<1> USE ObserverAssumption, LoopAssumption
<1>0. LoopTypeOK /\ ObserverTypeOK
    BY DEF LoopInv, LoopTypeOK
<1>1. ASSUME NEW w \in Observed, NEW kind \in {"started", "done", "checkin"},
             Observe(w, kind, wjob[w]), wjob[w] \in Jobs, kind = "checkin" => wjob[w] = Told(w),
             Told(w)' = IF kind = "done" THEN NoJob ELSE wjob[w],
             \A v \in Observed : v # w => Told(v)' = Told(v)
      PROVE  BeliefInv'
    <2> DEFINE o == [kind |-> kind, job |-> wjob[w]]
    <2>1. o \in Observation /\ o.kind = kind /\ o.job = wjob[w]
        BY <1>1 DEF Observation
    <2>2. current' = current /\ obuf' = [obuf EXCEPT ![w] = Append(obuf[w], o)]
        BY <1>1 DEF Observe
    <2>3. obuf \in [Observed -> Seq(Observation)]
        BY <1>0 DEF ObserverTypeOK
    <2>4. Belief(current[w], obuf[w], Told(w))
        BY DEF BeliefInv
    <2>5. Belief(current[w], Append(obuf[w], o), IF o.kind = "done" THEN NoJob ELSE o.job)
        <3> HIDE DEF o
        <3> QED
            BY <1>1, <2>1, <2>3, <2>4, AppendBelief
    <2>6. Belief(current'[w], obuf'[w], Told(w)')
        BY <1>1, <2>1, <2>2, <2>3, <2>5
    <2>7. ASSUME NEW v \in Observed, v # w PROVE Belief(current'[v], obuf'[v], Told(v)')
        BY <1>1, <2>2, <2>3, <2>7 DEF BeliefInv
    <2> QED
        BY <2>6, <2>7 DEF BeliefInv
<1>2. ASSUME NEW w \in Observed, ObserverGoes(w) PROVE BeliefInv'
    <2>1. \A v \in Observed : Told(v)' = Told(v)
        BY <1>2 DEF ObserverGoes, loopVars, Told
    <2>2. CASE UNCHANGED <<obuf, current>>
        BY <2>1, <2>2 DEF BeliefInv
    <2>3. CASE Process(w)
        <3>1. /\ obuf[w] # <<>> /\ obuf' = [obuf EXCEPT ![w] = Tail(obuf[w])]
              /\ current' = [current EXCEPT ![w] = Processed(current[w], Head(obuf[w]))]
            BY <2>3 DEF Process
        <3>2. current \in [Observed -> Status] /\ obuf \in [Observed -> Seq(Observation)]
            BY <1>0 DEF ObserverTypeOK
        <3>3. Belief(Processed(current[w], Head(obuf[w])), Tail(obuf[w]), Told(w))
            BY <3>1, <3>2, ProcessBelief DEF BeliefInv
        <3>4. Belief(current'[w], obuf'[w], Told(w)')
            BY <2>1, <3>1, <3>2, <3>3
        <3>5. ASSUME NEW v \in Observed, v # w PROVE Belief(current'[v], obuf'[v], Told(v)')
            BY <2>1, <3>1, <3>2, <3>5 DEF BeliefInv
        <3> QED
            BY <3>4, <3>5 DEF BeliefInv
    <2> QED
        BY <1>2, <2>2, <2>3 DEF ObserverGoes, ObserverStep, ObserverReceives, ObserverTicks, ObserverDrained
<1>3. ASSUME UNCHANGED <<obuf, current>>, \A v \in Observed : Told(v)' = Told(v) PROVE BeliefInv'
    BY <1>3 DEF BeliefInv
<1>4. ASSUME NEW w \in Workers, ObserveStarted(w) \/ ObserveDone(w) PROVE BeliefInv'
    <2>1. w \in Observed /\ wjob[w] \in Jobs
        BY <1>0, <1>4 DEF ObserveStarted, ObserveDone, LoopInv, LoopTypeOK, Processing
    <2>2. \A v \in Observed : v # w => Told(v)' = Told(v)
        BY <1>0, <1>4 DEF ObserveStarted, ObserveDone, WorkerGoes, LoopTypeOK, Told
    <2>3. CASE ObserveStarted(w)
        <3>1. Told(w)' = wjob[w]
            BY <1>0, <2>3 DEF ObserveStarted, WorkerGoes, LoopTypeOK, Told
        <3> QED
            BY <1>1, <2>1, <2>2, <2>3, <3>1 DEF ObserveStarted
    <2>4. CASE ObserveDone(w)
        <3>1. Told(w)' = NoJob
            BY <1>0, <2>4 DEF ObserveDone, WorkerGoes, LoopTypeOK, Told
        <3> QED
            BY <1>1, <2>1, <2>2, <2>4, <3>1 DEF ObserveDone
    <2> QED
        BY <1>4, <2>3, <2>4
<1>5. ASSUME NEW w \in Workers, Checkin(w) PROVE BeliefInv'
    <2>1. w \in Observed /\ wjob[w] \in Jobs /\ Told(w) = wjob[w]
        BY <1>0, <1>5 DEF Checkin, LoopTypeOK, Processing, Told
    <2>2. \A v \in Observed : Told(v)' = Told(v)
        BY <1>5 DEF Checkin, loopVars, Told
    <2> QED
        BY <1>1, <1>5, <2>1, <2>2 DEF Checkin
<1>6. ASSUME NEW w \in Workers,
             FetchJob(w) \/ FetchNothing(w) \/ RunJob(w) \/ RemoveJobFromInProgress(w) \/ WorkerDrained(w)
                 \/ StopReceived(w) \/ WorkerStopped(w)
      PROVE  BeliefInv'
    <2>1. UNCHANGED <<obuf, current>>
        BY <1>6, ZenonT(60) DEF FetchJob, FetchNothing, RunJob, RemoveJobFromInProgress, WorkerDrained, StopReceived,
                    WorkerStopped, observerVars
    <2>2. CASE FetchJob(w)
        BY <1>0, <1>3, <2>1, <2>2 DEF FetchJob, WorkerGoes, IfObserved, LoopTypeOK, Told
    <2>3. CASE FetchNothing(w)
        BY <1>0, <1>3, <2>1, <2>3 DEF FetchNothing, WorkerGoes, LoopTypeOK, Told
    <2>4. CASE RunJob(w)
        BY <1>0, <1>3, <2>1, <2>4 DEF RunJob, WorkerGoes, IfObserved, LoopTypeOK, Told
    <2>5. CASE RemoveJobFromInProgress(w)
        BY <1>0, <1>3, <2>1, <2>5 DEF RemoveJobFromInProgress, WorkerGoes, LoopTypeOK, Told
    <2>6. CASE WorkerDrained(w) \/ StopReceived(w) \/ WorkerStopped(w)
        BY <1>0, <1>3, <2>1, <2>6 DEF WorkerDrained, StopReceived, WorkerStopped, WorkerGoes, LoopTypeOK, Told
    <2> QED
        BY <1>6, <2>2, <2>3, <2>4, <2>5, <2>6
<1>7. ASSUME NEW w \in Workers, FetchFails(w) \/ DrainReceived(w) \/ DrainObserver(w) \/ StopObserver(w)
      PROVE  BeliefInv'
    BY <1>3, <1>7, ZenonT(60) DEF FetchFails, DrainReceived, DrainObserver, StopObserver, DrainMeets, StopMeets,
                      ObserverMoves, observerVars, loopVars, Told
<1>8. CASE Start
    <2>1. \A v \in Observed : Told(v)' = Told(v)
        BY <1>8 DEF Start, LoopInv, Told
    <2> QED
        BY <1>3, <1>8, <2>1 DEF Start
<1>9. CASE Stop \/ StopReturns \/ Drain \/ DrainReturns \/ Enqueue
    BY <1>3, <1>9 DEF Stop, StopReturns, Drain, DrainReturns, Enqueue, observerVars, loopVars, Told
<1>10. CASE UNCHANGED workerVars
    BY <1>3, <1>10, ZenonT(60) DEF workerVars, observerVars, loopVars, Told
<1> QED
    BY <1>2, <1>4, <1>5, <1>6, <1>7, <1>8, <1>9, <1>10 DEF LoopNext, LoopStep, DrainStep, StopStep

\* Initially the observers believe in no job.
LEMMA BeliefInit == LoopInit => BeliefInv
<1> SUFFICES ASSUME LoopInit, NEW w \in Observed PROVE Belief(current[w], obuf[w], Told(w))
    BY ZenonT(60) DEF BeliefInv
<1>1. current[w].job = NoJob /\ obuf[w] = <<>> /\ Told(w) = NoJob
    BY LoopAssumption DEF LoopInit, ObserverInit, Told, None
<1>2. Len(obuf[w]) = 0
    BY <1>1, SMTT(60)
<1> QED
    BY <1>1, <1>2 DEF Belief, JobAfter

\* Every check-in finds the job it is about, whatever the size of the buffer.
THEOREM CheckinsAreNotDropped == LoopSpec => []CheckinsFindTheirJob
<1>1. LoopInv /\ BeliefInv /\ [LoopNext]_workerVars => LoopInv' /\ BeliefInv'
    BY LoopInvStep, BeliefStep
<1>2. LoopInv /\ BeliefInv => CheckinsFindTheirJob
    <2> SUFFICES ASSUME LoopInv, BeliefInv, NEW w \in Observed, obuf[w] # <<>>,
                        Head(obuf[w]).kind = "checkin"
                 PROVE  current[w].job = Head(obuf[w]).job
        BY DEF CheckinsFindTheirJob
    <2>1. obuf[w] \in Seq(Observation)
        BY DEF LoopInv, LoopTypeOK, ObserverTypeOK
    <2>2. Belief(current[w], obuf[w], Told(w))
        BY DEF BeliefInv
    <2> QED
        BY <2>1, <2>2, FirstCheckin, ZenonT(60)
<1> QED
    BY LoopInvInit, BeliefInit, <1>1, <1>2, PTL DEF LoopSpec

-----------------------------------------------------------------------------
(* What is in Redis. *)

\* A write that does not fail leaves the job in the hash that it is given.
LEMMA WrittenJob ==
    ASSUME ObserverTypeOK, NEW w \in Observed, NEW obv \in Status, WriteStatus(w, obv)
    PROVE  /\ misses'[w] \/ (hash'[w].job = obv.job /\ (obv.job = NoJob => hash'[w] = None))
           /\ \A v \in Observed : v # w => hash'[v] = hash[v] /\ misses'[v] = misses[v]
<1>1. CASE /\ hash' = [hash EXCEPT ![w] = Written(hash[w], obv)]
           /\ misses' = [misses EXCEPT ![w] = FALSE]
    <2>1. hash'[w] = Written(hash[w], obv)
        BY <1>1 DEF ObserverTypeOK
    <2>2. Written(hash[w], obv).job = obv.job /\ (obv.job = NoJob => Written(hash[w], obv) = None)
        BY DEF Written, None
    <2> QED
        BY <1>1, <2>1, <2>2 DEF ObserverTypeOK
<1>2. CASE misses' = [misses EXCEPT ![w] = TRUE] /\ UNCHANGED hash
    BY <1>2 DEF ObserverTypeOK
<1> QED
    BY <1>1, <1>2 DEF WriteStatus

\* A step leaves an observer alone, or is one of its own.
LEMMA OneObserver ==
    ASSUME LoopInv, [LoopNext]_workerVars
    PROVE  \/ UNCHANGED <<current, version, unwritten, hash, misses>>
           \/ \E w \in Observed : ObserverGoes(w)
<1>1. ASSUME NEW w \in Workers, ObserveStarted(w) \/ ObserveDone(w) \/ FetchFails(w) \/ Checkin(w)
      PROVE  UNCHANGED <<current, version, unwritten, hash, misses>>
    BY <1>1 DEF ObserveStarted, ObserveDone, FetchFails, Checkin, Observe
<1>2. ASSUME NEW w \in Workers, DrainObserver(w) \/ StopObserver(w)
      PROVE  UNCHANGED <<current, version, unwritten, hash, misses>>
    BY <1>2 DEF DrainObserver, StopObserver, DrainMeets, StopMeets, ObserverMoves
<1>3. CASE Start
    BY <1>3 DEF Start
<1>4. CASE UNCHANGED observerVars
    BY <1>4 DEF observerVars
<1> QED
    BY ObserverSteps, LoopAssumption, <1>1, <1>2, <1>3, <1>4

\* An observer that has nothing left to write has written the current job, or
\* has failed to.
THEOREM AllIsWritten == LoopSpec => []NothingLeftToWrite
<1>1. LoopInit => NothingLeftToWrite
    BY DEF LoopInit, ObserverInit, NothingLeftToWrite
<1>2. ASSUME LoopInv, NothingLeftToWrite, [LoopNext]_workerVars PROVE NothingLeftToWrite'
    <2>0. ObserverTypeOK
        BY <1>2 DEF LoopInv, LoopTypeOK
    <2>1. CASE UNCHANGED <<current, version, unwritten, hash, misses>>
        BY <1>2, <2>1 DEF NothingLeftToWrite, WorkerObservation
    <2>2. ASSUME NEW w \in Observed, ObserverTicks(w) \/ ObserverDrained(w) PROVE NothingLeftToWrite'
        <3>1. WriteStatus(w, current[w]) /\ current[w] \in Status
            BY <2>0, <2>2 DEF ObserverTicks, ObserverDrained, ObserverTypeOK
        <3>2. /\ misses'[w] \/ hash'[w].job = current[w].job
              /\ \A v \in Observed : v # w => hash'[v] = hash[v] /\ misses'[v] = misses[v]
            BY <2>0, <3>1, WrittenJob
        <3>3. UNCHANGED <<current, version>> /\ \A v \in Observed : v # w => unwritten'[v] = unwritten[v]
            BY <2>0, <2>2 DEF ObserverTicks, ObserverDrained, ObserverTypeOK
        <3> QED
            BY <1>2, <3>2, <3>3, ZenonT(60) DEF NothingLeftToWrite, WorkerObservation
    <2>3. ASSUME NEW w \in Observed, Process(w) PROVE NothingLeftToWrite'
        <3>1. \A v \in Observed : v # w => current'[v] = current[v] /\ version'[v] = version[v]
            BY <2>0, <2>3 DEF Process, ObserverTypeOK
        <3>2. CASE version[w]
            <4>1. UNCHANGED <<hash, misses>> /\ unwritten'[w]
                BY <2>0, <2>3, <3>2 DEF Process, ObserverTypeOK
            <4>2. \A v \in Observed : v # w => unwritten'[v] = unwritten[v]
                BY <2>0, <2>3, <3>2 DEF Process, ObserverTypeOK
            <4> QED
                BY <1>2, <3>1, <4>1, <4>2 DEF NothingLeftToWrite, WorkerObservation
        <3>3. CASE ~version[w]
            <4>1. obuf[w] \in Seq(Observation) /\ obuf[w] # <<>>
                BY <2>0, <2>3 DEF Process, ObserverTypeOK
            <4>2. Processed(current[w], Head(obuf[w])) \in Status
                BY <2>0, <4>1, ProcessedType DEF ObserverTypeOK
            <4>3. current'[w] \in Status /\ WriteStatus(w, current'[w]) /\ UNCHANGED unwritten
                BY <2>0, <2>3, <3>3, <4>2 DEF Process, ObserverTypeOK
            <4>4. /\ misses'[w] \/ hash'[w].job = current'[w].job
                  /\ \A v \in Observed : v # w => hash'[v] = hash[v] /\ misses'[v] = misses[v]
                BY <2>0, <4>3, WrittenJob
            <4> QED
                BY <1>2, <3>1, <4>3, <4>4, ZenonT(60) DEF NothingLeftToWrite, WorkerObservation
        <3> QED
            BY <3>2, <3>3
    <2> QED
        BY <1>2, <2>1, <2>2, <2>3, OneObserver DEF ObserverGoes, ObserverStep, ObserverReceives
<1>3. LoopInv /\ NothingLeftToWrite /\ [LoopNext]_workerVars => LoopInv' /\ NothingLeftToWrite'
    BY <1>2, LoopInvStep
<1> QED
    BY LoopInvInit, <1>1, <1>3, PTL DEF LoopSpec

\* A stopped worker tells its observer nothing, and an idle observer that writes
\* shows nothing.
LEMMA IdleStays ==
    ASSUME LoopInv, [LoopNext]_workerVars, NEW w \in Observed, Idle(w), wpc[w] = "off"
    PROVE  Idle(w)'
<1>0. LoopTypeOK /\ ObserverTypeOK
    BY DEF LoopInv, LoopTypeOK
<1>1. obuf'[w] = obuf[w]
    <2>1. ASSUME NEW v \in Workers, ObserveStarted(v) \/ ObserveDone(v) \/ Checkin(v) PROVE obuf'[w] = obuf[w]
        <3>1. v # w
            BY <2>1, ZenonT(60) DEF ObserveStarted, ObserveDone, Checkin
        <3> QED
            BY <1>0, <2>1, <3>1 DEF ObserveStarted, ObserveDone, Checkin, Observe, ObserverTypeOK
    <2>2. ASSUME NEW v \in Observed, ObserverGoes(v) PROVE obuf'[w] = obuf[w]
        BY <1>0, <2>2 DEF ObserverGoes, ObserverStep, ObserverReceives, ObserverTicks, ObserverDrained,
                          Process, ObserverTypeOK, Idle
    <2>3. ASSUME NEW v \in Workers, FetchFails(v) \/ DrainObserver(v) \/ StopObserver(v) PROVE obuf' = obuf
        BY <2>3 DEF FetchFails, DrainObserver, StopObserver, DrainMeets, StopMeets, ObserverMoves
    <2>4. CASE Start \/ UNCHANGED observerVars
        BY <2>4 DEF Start, observerVars
    <2> QED
        BY <2>1, <2>2, <2>3, <2>4, ObserverSteps, LoopAssumption, ZenonT(60)
<1>2. CASE UNCHANGED <<current, version, unwritten, hash, misses>>
    BY <1>1, <1>2 DEF Idle
<1>3. ASSUME NEW v \in Observed, ObserverGoes(v) PROVE Idle(w)'
    <2>1. CASE v = w
        <3>1. WriteStatus(w, current[w]) /\ UNCHANGED current /\ current[w] \in Status
            BY <1>0, <1>3, <2>1 DEF ObserverGoes, ObserverStep, ObserverReceives, Process, ObserverTicks,
                                    ObserverDrained, ObserverTypeOK, Idle
        <3>2. misses'[w] \/ (current[w].job = NoJob => hash'[w] = None)
            BY <1>0, <3>1, WrittenJob
        <3> QED
            BY <1>1, <3>1, <3>2, ZenonT(60) DEF Idle
    <2>2. CASE v # w
        <3>1. current'[w] = current[w]
            BY <1>0, <1>3, <2>2 DEF ObserverGoes, ObserverStep, ObserverReceives, Process, ObserverTicks,
                                    ObserverDrained, ObserverTypeOK
        <3>2. hash'[w] = hash[w] /\ misses'[w] = misses[w]
            BY <1>0, <1>3, <2>2, SMTT(60) DEF ObserverGoes, ObserverStep, ObserverReceives, Process, ObserverTicks,
                                    ObserverDrained, WriteStatus, ObserverTypeOK
        <3> QED
            BY <1>1, <3>1, <3>2 DEF Idle
    <2> QED
        BY <2>1, <2>2
<1> QED
    BY <1>2, <1>3, OneObserver

\* The observer of a stopped worker is idle when it has drained.
LEMMA DrainedIsIdle ==
    ASSUME LoopInv, BeliefInv, NEW w \in Observed, wpc[w] = "off", ObserverDrained(w)
    PROVE  Idle(w)'
<1>0. LoopTypeOK /\ ObserverTypeOK
    BY DEF LoopInv, LoopTypeOK
<1>1. obuf[w] = <<>> /\ WriteStatus(w, current[w]) /\ UNCHANGED <<obuf, current>> /\ current[w] \in Status
    BY <1>0 DEF ObserverDrained, ObserverTypeOK
<1>2. Len(obuf[w]) = 0
    BY <1>1
<1>3. current[w].job = NoJob
    BY <1>2 DEF BeliefInv, Belief, JobAfter, Told
<1>4. misses'[w] \/ (current[w].job = NoJob => hash'[w] = None)
    BY <1>0, <1>1, WrittenJob
<1> QED
    BY <1>1, <1>3, <1>4, ZenonT(60) DEF Idle

\* How the goroutine of Stop, the worker and its observer come to where HasStopped
\* says they are.
LEMMA StopOrder ==
    ASSUME LoopInv, IdleInv, [LoopNext]_workerVars, NEW w \in Observed
    PROVE  /\ HasStopped(w)' => HasStopped(w) \/ (ObserverDrained(w) /\ stopper[w] = "odrainWait")
           /\ opc'[w] = "doneStopping" => stopper'[w] = "ostopWait"
           /\ opc'[w] = "off" => wpc'[w] = "off"
<1> DEFINE Goal == /\ HasStopped(w)' => HasStopped(w) \/ (ObserverDrained(w) /\ stopper[w] = "odrainWait")
                   /\ opc'[w] = "doneStopping" => stopper'[w] = "ostopWait"
                   /\ opc'[w] = "off" => wpc'[w] = "off"
<1> USE LoopAssumption
<1>0. /\ opc \in [Observed -> {"off", "select", "drain", "doneDraining", "doneStopping"}]
      /\ stopper \in [Workers -> StopSteps]
      /\ DOMAIN wpc = Workers
      /\ stopper[w] \in {"odrain", "odrainWait", "ostop", "ostopWait", "done"} => wpc[w] = "off"
      /\ opc[w] = "doneStopping" => stopper[w] = "ostopWait"
      /\ opc[w] = "off" => wpc[w] = "off"
      /\ w \in Workers
    BY DEF LoopInv, LoopTypeOK, ObserverTypeOK, IdleInv
<1>1. ASSUME opc'[w] = opc[w], stopper'[w] = stopper[w], opc[w] = "off" => wpc'[w] = wpc[w] PROVE Goal
    BY <1>0, <1>1, ZenonT(60) DEF HasStopped
<1>2. ASSUME NEW v \in Workers, LoopStep(v) \/ WorkerDrained(v) PROVE Goal
    <2>1. opc' = opc /\ stopper' = stopper
        BY <1>2, ZenonT(60) DEF LoopStep, FetchJob, FetchNothing, ObserveStarted, RunJob, ObserveDone, Observe,
                    RemoveJobFromInProgress, WorkerDrained, observerVars, callVars
    <2>2. v # w \/ wpc[w] # "off"
        BY <1>2 DEF LoopStep, FetchJob, FetchNothing, ObserveStarted, RunJob, ObserveDone,
                    RemoveJobFromInProgress, WorkerDrained
    <2>3. v # w => wpc'[w] = wpc[w]
        BY <1>0, <1>2 DEF LoopStep, FetchJob, FetchNothing, ObserveStarted, RunJob, ObserveDone,
                    RemoveJobFromInProgress, WorkerDrained, WorkerGoes
    <2> QED
        BY <1>0, <1>1, <2>1, <2>2, <2>3, ZenonT(60)
<1>3. ASSUME NEW v \in Workers, FetchFails(v) \/ Checkin(v) \/ DrainReceived(v) PROVE Goal
    BY <1>1, <1>3, ZenonT(60) DEF FetchFails, Checkin, Observe, DrainReceived, observerVars, loopVars, callVars
<1>4. ASSUME NEW v \in Workers, DrainObserver(v) PROVE Goal
    <2>1. CASE v = w
        BY <1>0, <1>4, <2>1 DEF DrainObserver, DrainMeets, ObserverMoves, HasStopped, loopVars
    <2>2. CASE v # w
        BY <1>0, <1>1, <1>4, <2>2 DEF DrainObserver, DrainMeets, ObserverMoves, loopVars
    <2> QED
        BY <2>1, <2>2, ZenonT(60)
<1>5. ASSUME NEW v \in Workers, StopReceived(v) \/ WorkerStopped(v) PROVE Goal
    <2>1. opc' = opc
        BY <1>5 DEF StopReceived, WorkerStopped, observerVars
    <2>2. CASE v = w
        BY <1>0, <1>5, <2>1, <2>2 DEF StopReceived, WorkerStopped, WorkerGoes, IfObserved, HasStopped
    <2>3. CASE v # w
        BY <1>0, <1>1, <1>5, <2>1, <2>3 DEF StopReceived, WorkerStopped, WorkerGoes
    <2> QED
        BY <2>2, <2>3, ZenonT(60)
<1>6. ASSUME NEW v \in Workers, StopObserver(v) PROVE Goal
    <2>1. CASE v = w
        BY <1>0, <1>6, <2>1 DEF StopObserver, StopMeets, ObserverMoves, HasStopped, loopVars
    <2>2. CASE v # w
        BY <1>0, <1>1, <1>6, <2>2 DEF StopObserver, StopMeets, ObserverMoves, loopVars
    <2> QED
        BY <2>1, <2>2, ZenonT(60)
<1>7. CASE Start
    <2>1. stopper[w] = "none" /\ stopper' = stopper /\ opc'[w] = "select"
        BY <1>0, <1>7 DEF Start, Stopping
    <2> QED
        BY <2>1, ZenonT(60) DEF HasStopped
<1>8. CASE Stop
    BY <1>0, <1>8, ZenonT(60) DEF Stop, LoopInv, HasStopped, observerVars, loopVars
<1>9. CASE StopReturns
    BY <1>0, <1>9 DEF StopReturns, HasStopped, observerVars, loopVars
<1>10. CASE Drain \/ DrainReturns \/ Enqueue \/ UNCHANGED workerVars
    BY <1>1, <1>10, ZenonT(60) DEF Drain, DrainReturns, Enqueue, workerVars, observerVars, loopVars, callVars
<1>11. ASSUME NEW v \in Observed, ObserverGoes(v) PROVE Goal
    <2>1. stopper' = stopper /\ wpc' = wpc
        BY <1>11 DEF ObserverGoes, loopVars, callVars
    <2>2. CASE opc' = opc
        BY <1>1, <2>1, <2>2, ZenonT(60)
    <2>3. CASE ObserverDrained(v) /\ v # w
        BY <1>0, <1>1, <2>1, <2>3, ZenonT(60) DEF ObserverDrained
    <2>4. CASE ObserverDrained(v) /\ v = w
        BY <1>0, <2>1, <2>4, ZenonT(60) DEF ObserverDrained, HasStopped
    <2> QED
        BY <1>11, <2>2, <2>3, <2>4, ZenonT(60) DEF ObserverGoes, ObserverStep, ObserverReceives, Process, ObserverTicks
<1> QED
    BY <1>2, <1>3, <1>4, <1>5, <1>6, <1>7, <1>8, <1>9, <1>10, <1>11, ZenonT(60) DEF LoopNext, DrainStep, StopStep

\* When an observer has stopped it shows nothing, unless Redis has failed: also
\* when Drain was using the observer while the pool stopped.
THEOREM StoppedShowsNothing == LoopSpec => []StoppedObserverShowsNothing
<1>1. LoopInit => IdleInv
    <2> SUFFICES ASSUME LoopInit, NEW w \in Observed
                 PROVE  Idle(w) /\ opc[w] = "off" /\ wpc[w] = "off"
        BY ZenonT(60) DEF IdleInv
    <2>1. current[w] = None /\ hash[w] = None /\ obuf[w] = <<>>
        BY DEF LoopInit, ObserverInit
    <2>2. None.job = NoJob
        BY DEF None
    <2> QED
        BY <2>1, <2>2, LoopAssumption DEF LoopInit, ObserverInit, Idle
<1>2. ASSUME LoopInv, BeliefInv, IdleInv, [LoopNext]_workerVars PROVE IdleInv'
    <2> SUFFICES ASSUME NEW w \in Observed, HasStopped(w)' PROVE Idle(w)'
        BY <1>2, StopOrder DEF IdleInv
    <2>1. CASE HasStopped(w)
        <3>1. Idle(w) /\ wpc[w] = "off"
            BY <1>2, <2>1, LoopAssumption DEF IdleInv, HasStopped, LoopInv, LoopTypeOK
        <3> QED
            BY <1>2, <3>1, IdleStays
    <2>2. CASE ObserverDrained(w) /\ stopper[w] = "odrainWait"
        <3>1. wpc[w] = "off"
            BY <1>2, <2>2, LoopAssumption DEF LoopInv, LoopTypeOK
        <3> QED
            BY <1>2, <2>2, <3>1, DrainedIsIdle
    <2> QED
        BY <1>2, <2>1, <2>2, StopOrder
<1>3. LoopInv /\ BeliefInv /\ IdleInv /\ [LoopNext]_workerVars => LoopInv' /\ BeliefInv' /\ IdleInv'
    BY <1>2, LoopInvStep, BeliefStep
<1>4. IdleInv => StoppedObserverShowsNothing
    BY ZenonT(60) DEF IdleInv, HasStopped, Idle, StoppedObserverShowsNothing, WorkerObservation
<1> QED
    BY LoopInvInit, BeliefInit, <1>1, <1>3, <1>4, PTL DEF LoopSpec
=============================================================================
