------------------------------ MODULE WorkerLoop ------------------------------
(***************************************************************************)
(* The goroutines of one worker pool that end jobs: the select loop of     *)
(* each worker (worker.go), its observer, and the goroutines that Stop and *)
(* Drain of WorkerPool start for each worker and wait for.  They meet on   *)
(* unbuffered channels: a send and its receive are one step of both.       *)
(***************************************************************************)
EXTENDS Observer, FiniteSets

CONSTANTS
    Workers,    \* the workers of the pool
    Env         \* what else happens, see LoopEnv

(***************************************************************************)
(*   fetch_error  a fetch fails, before or after the script has run        *)
(*   block        a queue with jobs is paused, or at its limit, for a time *)
(*   overlap      Stop is called during Drain, and Drain during Stop       *)
(***************************************************************************)
LoopEnv == {"fetch_error", "block", "overlap"}

ASSUME LoopAssumption ==
    /\ IsFiniteSet(Workers) /\ Workers # {}
    /\ Observed \subseteq Workers
    /\ Jobs \subseteq Nat
    /\ Env \subseteq LoopEnv

VARIABLES
    wpc,        \* off, select, the steps of processJob, or sending: doneDraining, doneStopping
    wjob,       \* the job of the worker
    drained,    \* the flag of loop
    waiting,    \* the jobs in the queues of the pool
    inprog,     \* the jobs in its in-progress lists
    started,    \* wp.started
    stopper,    \* the goroutine of Stop for a worker: where it is in worker.stop
    drainer,    \* the goroutine of Drain for a worker: where it is in worker.drain
    come,       \* history: the jobs that were enqueued
    owed        \* history: the jobs that Drain has to see to

loopVars == <<wpc, wjob, drained>>
jobVars == <<waiting, inprog, come>>
callVars == <<started, stopper, drainer, owed>>
workerVars == <<loopVars, jobVars, callVars, observerVars>>

Processing == {"begin", "run", "done", "end"}
StopSteps == {"none", "send", "wait", "odrain", "odrainWait", "ostop", "ostopWait", "done"}
DrainSteps == {"none", "send", "wait", "odrain", "odrainWait", "done"}

\* Every variable has its type, and what the goroutines believe of each other
\* is so: a loop sends an answer only to someone who waits for it, and a worker
\* that was told to stop is off when its observer is.
LoopTypeOK ==
    /\ ObserverTypeOK
    /\ wpc \in [Workers -> {"off", "select", "doneDraining", "doneStopping"} \cup Processing]
    /\ wjob \in [Workers -> Jobs \cup {NoJob}]
    /\ drained \in [Workers -> BOOLEAN]
    /\ waiting \subseteq come /\ inprog \subseteq come /\ come \subseteq Jobs
    /\ started \in BOOLEAN
    /\ stopper \in [Workers -> StopSteps]
    /\ drainer \in [Workers -> DrainSteps]
    /\ owed \subseteq Jobs
    /\ \A w \in Workers :
          /\ wpc[w] \in Processing <=> wjob[w] # NoJob
          /\ wjob[w] # NoJob => wjob[w] \in inprog
          /\ wpc[w] = "doneStopping" => stopper[w] = "wait"
          /\ stopper[w] \in {"odrain", "odrainWait", "ostop", "ostopWait", "done"} => wpc[w] = "off"

LoopInit ==
    /\ ObserverInit
    /\ wpc = [w \in Workers |-> "off"]
    /\ wjob = [w \in Workers |-> NoJob]
    /\ drained = [w \in Workers |-> FALSE]
    /\ waiting = {} /\ inprog = {} /\ come = {}
    /\ started = FALSE
    /\ stopper = [w \in Workers |-> "none"]
    /\ drainer = [w \in Workers |-> "none"]
    /\ owed = {}

Stopping == \E w \in Workers : stopper[w] # "none"
Draining == \E w \in Workers : drainer[w] # "none"

-----------------------------------------------------------------------------
(* The loop of a worker. *)

\* What has to do with an observer that is not followed is passed over.
IfObserved(w, step, next) == IF w \in Observed THEN step ELSE next

WorkerGoes(w, to) == wpc' = [wpc EXCEPT ![w] = to]

\* Faulty variant: a worker answers Drain as soon as it is told to drain.
DrainReceivedAtOnce(w) ==
    /\ wpc[w] = "select"
    /\ drainer[w] = "send"
    /\ drainer' = [drainer EXCEPT ![w] = "wait"]
    /\ WorkerGoes(w, "doneDraining")
    /\ UNCHANGED <<wjob, drained, jobVars, started, stopper, owed, observerVars>>

\* case <-w.drainChan
DrainReceived(w) ==
    /\ wpc[w] = "select"
    /\ drainer[w] = "send"
    /\ drainer' = [drainer EXCEPT ![w] = "wait"]
    /\ drained' = [drained EXCEPT ![w] = TRUE]
    /\ UNCHANGED <<wpc, wjob, jobVars, started, stopper, owed, observerVars>>

\* Faulty variant: the loop takes the order to stop and answers nothing.
StopReceivedOnly(w) ==
    /\ wpc[w] = "select"
    /\ stopper[w] = "send"
    /\ stopper' = [stopper EXCEPT ![w] = "wait"]
    /\ UNCHANGED <<loopVars, jobVars, started, drainer, owed, observerVars>>

\* case <-w.stopChan
StopReceived(w) ==
    /\ wpc[w] = "select"
    /\ stopper[w] = "send"
    /\ stopper' = [stopper EXCEPT ![w] = "wait"]
    /\ WorkerGoes(w, "doneStopping")
    /\ drained' = [drained EXCEPT ![w] = FALSE]
    /\ UNCHANGED <<wjob, jobVars, started, drainer, owed, observerVars>>

\* case <-timer.C: fetchJob finds a job, and processJob begins.
FetchJob(w) ==
    /\ wpc[w] = "select"
    /\ \E j \in waiting :
          /\ waiting' = waiting \ {j}
          /\ inprog' = inprog \cup {j}
          /\ wjob' = [wjob EXCEPT ![w] = j]
    /\ WorkerGoes(w, IfObserved(w, "begin", "run"))
    /\ UNCHANGED <<drained, come, callVars, observerVars>>

\* Faulty variant: a worker that drains does not say when it has found nothing.
FetchNothingGoesOn(w) ==
    /\ wpc[w] = "select"
    /\ waiting = {}
    /\ drained' = [drained EXCEPT ![w] = FALSE]
    /\ UNCHANGED <<wpc, wjob, jobVars, callVars, observerVars>>

\* fetchJob finds nothing, which is what drain waits for.  A worker that drains
\* cannot tell an empty queue from one it may not fetch from at this time: it
\* is paused, or has as many jobs in progress as it may have.
FetchNothing(w) ==
    /\ wpc[w] = "select"
    /\ waiting = {} \/ "block" \in Env
    /\ drained' = [drained EXCEPT ![w] = FALSE]
    /\ IF drained[w]
       THEN WorkerGoes(w, "doneDraining") /\ owed' = owed \ waiting
       ELSE UNCHANGED <<wpc, owed>>
    /\ UNCHANGED <<wjob, jobVars, started, stopper, drainer, observerVars>>

\* fetchJob fails after the script has run; when it fails before, the loop is
\* where it was.  The job stays in progress until the pool stops, and Drain
\* knows nothing of it.
FetchFails(w) ==
    /\ "fetch_error" \in Env
    /\ errors < MaxErrors
    /\ errors' = errors + 1
    /\ wpc[w] = "select"
    /\ \E j \in waiting :
          /\ waiting' = waiting \ {j}
          /\ inprog' = inprog \cup {j}
          /\ owed' = owed \ {j}
    /\ UNCHANGED <<loopVars, come, started, stopper, drainer,
                   opc, obuf, current, version, unwritten, hash, misses>>

\* Faulty variant: the observer is not told that a job starts.
ObserveStartedNot(w) ==
    /\ wpc[w] = "begin"
    /\ WorkerGoes(w, "run")
    /\ UNCHANGED <<wjob, drained, jobVars, callVars, observerVars>>

\* w.observeStarted
ObserveStarted(w) ==
    /\ wpc[w] = "begin"
    /\ Observe(w, "started", wjob[w])
    /\ WorkerGoes(w, "run")
    /\ UNCHANGED <<wjob, drained, jobVars, callVars>>

\* The handler calls job.Checkin.
Checkin(w) ==
    /\ w \in Observed
    /\ wpc[w] = "run"
    /\ Observe(w, "checkin", wjob[w])
    /\ UNCHANGED <<loopVars, jobVars, callVars>>

\* runJob returns.
RunJob(w) ==
    /\ wpc[w] = "run"
    /\ WorkerGoes(w, IfObserved(w, "done", "end"))
    /\ UNCHANGED <<wjob, drained, jobVars, callVars, observerVars>>

\* w.observeDone
ObserveDone(w) ==
    /\ wpc[w] = "done"
    /\ Observe(w, "done", wjob[w])
    /\ WorkerGoes(w, "end")
    /\ UNCHANGED <<wjob, drained, jobVars, callVars>>

\* removeJobFromInProgress, and back to the select.
RemoveJobFromInProgress(w) ==
    /\ wpc[w] = "end"
    /\ inprog' = inprog \ {wjob[w]}
    /\ wjob' = [wjob EXCEPT ![w] = NoJob]
    /\ WorkerGoes(w, "select")
    /\ UNCHANGED <<drained, waiting, come, callVars, observerVars>>

LoopStep(w) ==
    FetchJob(w) \/ FetchNothing(w) \/ ObserveStarted(w) \/ RunJob(w)
        \/ ObserveDone(w) \/ RemoveJobFromInProgress(w)

-----------------------------------------------------------------------------
(* worker.drain and worker.stop, in the goroutines of Drain and Stop. *)

\* w.doneDrainingChan: from the loop to worker.drain.
WorkerDrained(w) ==
    /\ wpc[w] = "doneDraining"
    /\ drainer[w] = "wait"
    /\ WorkerGoes(w, "select")
    /\ drainer' = [drainer EXCEPT ![w] = IfObserved(w, "odrain", "done")]
    /\ UNCHANGED <<wjob, drained, jobVars, started, stopper, owed, observerVars>>

\* Faulty variant: the loop leaves the select, but does not return.
WorkerStoppedGoesOn(w) ==
    /\ wpc[w] = "doneStopping"
    /\ stopper[w] = "wait"
    /\ WorkerGoes(w, "select")
    /\ stopper' = [stopper EXCEPT ![w] = IfObserved(w, "odrain", "done")]
    /\ UNCHANGED <<wjob, drained, jobVars, started, drainer, owed, observerVars>>

\* w.doneStoppingChan: from the loop, which returns, to worker.stop.
WorkerStopped(w) ==
    /\ wpc[w] = "doneStopping"
    /\ stopper[w] = "wait"
    /\ WorkerGoes(w, "off")
    /\ stopper' = [stopper EXCEPT ![w] = IfObserved(w, "odrain", "done")]
    /\ UNCHANGED <<wjob, drained, jobVars, started, drainer, owed, observerVars>>

\* observer.drain, called by worker.drain: the two meet on the channels of the
\* observer.
DrainMeets(w, at, next, from, to) ==
    /\ drainer[w] = at
    /\ drainer' = [drainer EXCEPT ![w] = next]
    /\ ObserverMoves(w, from, to)
    /\ UNCHANGED <<loopVars, jobVars, started, stopper, owed>>

DrainObserver(w) ==
    \/ DrainMeets(w, "odrain", "odrainWait", "select", "drain")
    \/ DrainMeets(w, "odrainWait", "done", "doneDraining", "select")

\* observer.drain and observer.stop, called by worker.stop.
StopMeets(w, at, next, from, to) ==
    /\ stopper[w] = at
    /\ stopper' = [stopper EXCEPT ![w] = next]
    /\ ObserverMoves(w, from, to)
    /\ UNCHANGED <<loopVars, jobVars, started, drainer, owed>>

\* Faulty variant: worker.stop does not drain the observer first.
StopObserverAtOnce(w) ==
    \/ StopMeets(w, "odrain", "ostopWait", "select", "doneStopping")
    \/ StopMeets(w, "ostopWait", "done", "doneStopping", "off")

StopObserver(w) ==
    \/ StopMeets(w, "odrain", "odrainWait", "select", "drain")
    \/ StopMeets(w, "odrainWait", "ostop", "doneDraining", "select")
    \/ StopMeets(w, "ostop", "ostopWait", "select", "doneStopping")
    \/ StopMeets(w, "ostopWait", "done", "doneStopping", "off")

-----------------------------------------------------------------------------
(* Start, Stop and Drain of the pool, and what happens around it. *)

\* Not called before Stop has returned.
Start ==
    /\ ~started
    /\ ~Stopping
    /\ started' = TRUE
    /\ wpc' = [w \in Workers |-> "select"]
    /\ opc' = [w \in Observed |-> "select"]
    /\ UNCHANGED <<wjob, drained, jobVars, stopper, drainer, owed,
                   obuf, current, version, unwritten, hash, errors, misses>>

\* The caller has one thing done at a time, unless the calls may overlap.
MayCall == "overlap" \in Env \/ ~(Stopping \/ Draining)

Stop ==
    /\ started
    /\ MayCall
    /\ started' = FALSE
    /\ stopper' = [w \in Workers |-> "send"]
    /\ UNCHANGED <<loopVars, jobVars, drainer, owed, observerVars>>

\* wg.Wait() is over, requeueInProgressJobs puts back what is left in progress.
StopReturns ==
    /\ \A w \in Workers : stopper[w] = "done"
    /\ stopper' = [w \in Workers |-> "none"]
    /\ waiting' = waiting \cup inprog
    /\ inprog' = {}
    /\ UNCHANGED <<loopVars, come, started, drainer, owed, observerVars>>

\* Drain has to see to the jobs that wait and those that run.  It does not ask
\* whether the pool is started: if it is not, nobody receives from drainChan.
Drain ==
    /\ MayCall
    /\ ~Draining
    /\ drainer' = [w \in Workers |-> "send"]
    /\ owed' = waiting \cup {wjob[w] : w \in {v \in Workers : wjob[v] # NoJob}}
    /\ UNCHANGED <<loopVars, jobVars, started, stopper, observerVars>>

DrainReturns ==
    /\ \A w \in Workers : drainer[w] = "done"
    /\ drainer' = [w \in Workers |-> "none"]
    /\ owed' = {}
    /\ UNCHANGED <<loopVars, jobVars, started, stopper, observerVars>>

\* Jobs are numbered in the order they come.
Enqueue ==
    /\ \E j \in Jobs \ come :
          /\ \A k \in Jobs \ come : j <= k
          /\ come' = come \cup {j}
          /\ waiting' = waiting \cup {j}
    /\ UNCHANGED <<loopVars, inprog, callVars, observerVars>>

\* The goroutine of Drain, or of Stop, for a worker: each is at one place.
DrainStep(w) == DrainReceived(w) \/ WorkerDrained(w) \/ DrainObserver(w)
StopStep(w) == StopReceived(w) \/ WorkerStopped(w) \/ StopObserver(w)

ObserverGoes(w) == ObserverStep(w) /\ UNCHANGED <<loopVars, jobVars, callVars>>

LoopNext ==
    \/ Start \/ Stop \/ StopReturns \/ Drain \/ DrainReturns
    \/ Enqueue
    \/ \E w \in Workers :
          LoopStep(w) \/ FetchFails(w) \/ Checkin(w) \/ DrainStep(w) \/ StopStep(w)
    \/ \E w \in Observed : ObserverGoes(w)

LoopSpec == LoopInit /\ [][LoopNext]_workerVars

(***************************************************************************)
(* Goroutines that can run do run, and handlers return.  A select with     *)
(* several ready cases picks one at random, so that a case that is ready   *)
(* again and again is taken some time: strong fairness for those who have  *)
(* to be received by one.  Of the goroutines of Drain and Stop for one     *)
(* worker only one has to go on.  The ticker of the observer need not tick.*)
(***************************************************************************)
ObserverWorks(w) ==
    /\ ObserverReceives(w) \/ ObserverDrained(w)
    /\ UNCHANGED <<loopVars, jobVars, callVars>>

LoopFairness ==
    /\ WF_workerVars(StopReturns) /\ WF_workerVars(DrainReturns)
    /\ \A w \in Workers :
          WF_workerVars(LoopStep(w)) /\ SF_workerVars(DrainStep(w) \/ StopStep(w))
    /\ \A w \in Observed : SF_workerVars(ObserverWorks(w))

FairLoopSpec == LoopSpec /\ LoopFairness

-----------------------------------------------------------------------------
(* Properties. *)

\* When the last goroutine of Drain is done, each job that waited or ran when
\* Drain was called has ended, although the workers report one by one, each
\* after the first fetch that brought it nothing, and go on working.  Not owed
\* are jobs that a lost reply left in progress, and those no worker may fetch.
DrainedJobsHaveEnded ==
    (\A w \in Workers : drainer[w] = "done") => owed \cap (waiting \cup inprog) = {}

\* A check-in reaches the observer while the job it is about is current, so
\* that process never drops one.
CheckinsFindTheirJob ==
    \A w \in Observed :
        obuf[w] # <<>> /\ Head(obuf[w]).kind = "checkin" => current[w].job = Head(obuf[w]).job

\* An observer whose lastWrittenVersion is its version has the job in Redis
\* that it believes to be current, or its last write has failed.
NothingLeftToWrite ==
    \A w \in Observed :
        version[w] /\ ~unwritten[w] /\ ~misses[w] => WorkerObservation(w).job = current[w].job

\* When an observer has stopped, everything the worker told it is dealt with
\* and its hash is gone, unless the last write has failed: people do not see a
\* stopped worker at work.
StoppedObserverShowsNothing ==
    \A w \in Observed :
        opc[w] = "off" => obuf[w] = <<>> /\ (misses[w] \/ ~WorkerObservation(w).isBusy)

\* A check-in that is shown with a job was made by that job, as it would be in
\* a snapshot of what the worker is working on.  It does not hold: HMSET leaves
\* the check-in of the job before in the hash when nothing was written between
\* the two jobs.
ShownCheckinIsOfShownJob ==
    \A w \in Observed : WorkerObservation(w).checkin \in {NoJob, WorkerObservation(w).job}

\* Drain of a started pool returns, and so does one that was called before Start:
\* no worker waits for ever to send that it has drained, and no observer is waited
\* for in vain.  Drain of a pool that is not started waits for a Start.
DrainEnds == (Draining /\ started) ~> ~Draining

\* Stop returns, whatever the workers and the observers are doing.
StopEnds == Stopping ~> ~Stopping
=============================================================================
