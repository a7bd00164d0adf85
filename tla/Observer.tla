------------------------------- MODULE Observer -------------------------------
(***************************************************************************)
(* The observer of a worker (observer.go): a goroutine that receives what  *)
(* the worker tells about its jobs from a buffered channel, and now and    *)
(* then writes what it knows to a Redis hash, for people to look at.       *)
(***************************************************************************)
EXTENDS Naturals, Sequences

CONSTANTS
    Observed,   \* the workers whose observer is modelled
    Jobs,       \* job IDs
    NoJob,      \* no job
    BufferSize, \* observerBufferSize
    MaxErrors   \* how many writes to Redis may fail

ASSUME ObserverAssumption ==
    /\ NoJob \notin Jobs
    /\ BufferSize \in Nat \ {0}
    /\ MaxErrors \in Nat

VARIABLES
    opc,        \* off, select, drain (DRAIN_LOOP), or sending: doneDraining, doneStopping
    obuf,       \* observationsChan
    current,    \* currentStartedObservation: its job, and whether that checked in
    version,    \* whether there was an observation yet (version > 0)
    unwritten,  \* lastWrittenVersion # version
    hash,       \* the hash in Redis: the job, and the job whose check-in it shows
    errors,     \* how many writes have failed
    misses      \* history: the last write of the observer failed

observerVars == <<opc, obuf, current, version, unwritten, hash, errors, misses>>

Observation == [kind : {"started", "done", "checkin"}, job : Jobs]

None == [job |-> NoJob, checkin |-> NoJob]
Status == [job : Jobs \cup {NoJob}, checkin : Jobs \cup {NoJob}]

ObserverTypeOK ==
    /\ opc \in [Observed -> {"off", "select", "drain", "doneDraining", "doneStopping"}]
    /\ obuf \in [Observed -> Seq(Observation)]
    /\ \A w \in Observed : Len(obuf[w]) <= BufferSize
    /\ current \in [Observed -> Status]
    /\ version \in [Observed -> BOOLEAN]
    /\ unwritten \in [Observed -> BOOLEAN]
    /\ hash \in [Observed -> Status]
    /\ errors \in 0 .. MaxErrors
    /\ misses \in [Observed -> BOOLEAN]

ObserverInit ==
    /\ opc = [w \in Observed |-> "off"]
    /\ obuf = [w \in Observed |-> <<>>]
    /\ current = [w \in Observed |-> None]
    /\ version = [w \in Observed |-> FALSE]
    /\ unwritten = [w \in Observed |-> FALSE]
    /\ hash = [w \in Observed |-> None]
    /\ errors = 0
    /\ misses = [w \in Observed |-> FALSE]

\* What WorkerObservations of the client makes of the hash: a worker is busy
\* when there is any field.
WorkerObservation(w) ==
    [isBusy |-> hash[w] # None, job |-> hash[w].job, checkin |-> hash[w].checkin]

-----------------------------------------------------------------------------
(***************************************************************************)
(* observeStarted, observeDone and observeCheckin block while the channel  *)
(* is full.                                                                *)
(***************************************************************************)
Observe(w, kind, job) ==
    /\ Len(obuf[w]) < BufferSize
    /\ obuf' = [obuf EXCEPT ![w] = Append(@, [kind |-> kind, job |-> job])]
    /\ UNCHANGED <<opc, current, version, unwritten, hash, errors, misses>>

\* HMSET leaves the fields alone that it is not given.
Written(old, obv) ==
    IF obv.job = NoJob THEN None
    ELSE [job |-> obv.job, checkin |-> IF obv.checkin = NoJob THEN old.checkin ELSE obv.checkin]

\* writeStatus: DEL or HMSET and EXPIRE; an error is logged.
WriteStatus(w, obv) ==
    \/ /\ hash' = [hash EXCEPT ![w] = Written(@, obv)]
       /\ misses' = [misses EXCEPT ![w] = FALSE]
       /\ UNCHANGED errors
    \/ /\ errors < MaxErrors
       /\ errors' = errors + 1
       /\ misses' = [misses EXCEPT ![w] = TRUE]
       /\ UNCHANGED hash

\* What process makes of an observation.
Processed(cur, obv) ==
    CASE obv.kind = "started" -> [job |-> obv.job, checkin |-> NoJob]
      [] obv.kind = "done"    -> None
      [] obv.kind = "checkin" /\ cur.job = obv.job -> [cur EXCEPT !.checkin = obv.job]
      [] OTHER -> cur

\* process: the very first observation is written at once.
Process(w) ==
    /\ obuf[w] # <<>>
    /\ obuf' = [obuf EXCEPT ![w] = Tail(@)]
    /\ current' = [current EXCEPT ![w] = Processed(@, Head(obuf[w]))]
    /\ version' = [version EXCEPT ![w] = TRUE]
    /\ IF version[w]
       THEN unwritten' = [unwritten EXCEPT ![w] = TRUE] /\ UNCHANGED <<hash, errors, misses>>
       ELSE WriteStatus(w, current'[w]) /\ UNCHANGED unwritten
    /\ UNCHANGED opc

\* In the select of loop, and in DRAIN_LOOP.
ObserverReceives(w) == opc[w] \in {"select", "drain"} /\ Process(w)

\* Faulty variant: the ticker does not write, it only notes that it did.
ObserverTicksOnly(w) ==
    /\ opc[w] = "select"
    /\ unwritten[w]
    /\ unwritten' = [unwritten EXCEPT ![w] = FALSE]
    /\ UNCHANGED <<opc, obuf, current, version, hash, errors, misses>>

\* The ticker: lastWrittenVersion is set although the write may have failed.
ObserverTicks(w) ==
    /\ opc[w] = "select"
    /\ unwritten[w]
    /\ WriteStatus(w, current[w])
    /\ unwritten' = [unwritten EXCEPT ![w] = FALSE]
    /\ UNCHANGED <<opc, obuf, current, version>>

\* The default of DRAIN_LOOP: everything is processed, so write it.
ObserverDrained(w) ==
    /\ opc[w] = "drain"
    /\ obuf[w] = <<>>
    /\ WriteStatus(w, current[w])
    /\ opc' = [opc EXCEPT ![w] = "doneDraining"]
    /\ UNCHANGED <<obuf, current, version, unwritten>>

\* The other ends of the channels: a receive or send takes the observer from
\* one place to the next, together with whoever is at the other end.
ObserverMoves(w, from, to) ==
    /\ opc[w] = from
    /\ opc' = [opc EXCEPT ![w] = to]
    /\ UNCHANGED <<obuf, current, version, unwritten, hash, errors, misses>>

ObserverStep(w) == ObserverReceives(w) \/ ObserverTicks(w) \/ ObserverDrained(w)
=============================================================================
