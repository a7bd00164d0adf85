------------------------------ MODULE UniqueJobs ------------------------------
(***************************************************************************)
(* Unique jobs: one unique key, the calls of EnqueueUnique and             *)
(* EnqueueUniqueIn that share it, the workers that take the jobs, and the  *)
(* client that deletes a scheduled one.  Keys do not interact, so one is   *)
(* enough.  A job is named after the call that made it; the lists and sets *)
(* of Redis are the sets of the jobs in them.                              *)
(***************************************************************************)

CONSTANTS
    Jobs,       \* the calls of EnqueueUnique... with the key at hand
    Workers,    \* the workers of all pools
    Placeholder,\* the value "1" of a key that has no job in it
    NoJob,      \* no job, or no key
    Env         \* what else happens, see EnvKinds

(***************************************************************************)
(*   retry   handlers fail, and a failed job is retried                    *)
(*   expire  the key reaches its 24 hours                                  *)
(*   crash   the process of a worker dies and its job is requeued          *)
(*   delete  an operator deletes a scheduled job                           *)
(*   redis_error  GET or DEL of the key returns an error to a worker       *)
(*   cut_off      DeleteScheduledJob ends between its two calls: the reply *)
(*                of the script is lost, DEL fails or the client dies      *)
(***************************************************************************)
EnvKinds == {"retry", "expire", "crash", "delete", "redis_error", "cut_off"}

ASSUME UniqueAssumption ==
    /\ Placeholder \notin Jobs
    /\ NoJob \notin Jobs \cup {Placeholder}
    /\ Env \subseteq EnvKinds

VARIABLES
    byKey,      \* whether the calls pass a keyMap (the ...ByKey variants), never changes
    ukey,       \* the value of the unique key, NoJob when it does not exist
    waiting,    \* the jobs in the queue
    scheduled,  \* the jobs in the scheduled set
    retry,      \* the jobs in the retry set
    upc,        \* worker: idle, get or del (in getAndDeleteUniqueJob), run
    raw,        \* worker: the job it took off the queue
    job,        \* worker: the job it runs, or the value that GET returned
    deleting,   \* DeleteScheduledJob: removed from the set, DEL to come
    called,     \* history: the calls that were made
    latest,     \* history: the last of them
    started,    \* history: the jobs that were ever taken off the queue
    finished,   \* history: the jobs that ran to an end, or were deleted
    happened    \* history: what of Env has happened, and "race": a call came
                \* while a worker was between GET and DEL

redisVars == <<ukey, waiting, scheduled, retry>>
workVars  == <<upc, raw, job, started, finished>>
callVars  == <<byKey, called, latest>>
uniqueVars == <<redisVars, workVars, deleting, callVars, happened>>

\* Every variable has its type, and only a worker with a job deletes a key.
UniqueTypeOK ==
    /\ byKey \in BOOLEAN
    /\ ukey \in Jobs \cup {Placeholder, NoJob}
    /\ waiting \subseteq Jobs
    /\ scheduled \subseteq Jobs
    /\ retry \subseteq Jobs
    /\ upc \in [Workers -> {"idle", "get", "del", "run"}]
    /\ raw \in [Workers -> Jobs \cup {NoJob}]
    /\ job \in [Workers -> Jobs \cup {Placeholder, NoJob}]
    /\ deleting \subseteq Jobs
    /\ called \subseteq Jobs
    /\ latest \in Jobs \cup {NoJob}
    /\ started \subseteq Jobs
    /\ finished \subseteq Jobs
    /\ happened \subseteq EnvKinds \cup {"race"}
    /\ \A w \in Workers : upc[w] # "idle" => raw[w] \in Jobs
    /\ \A w \in Workers : upc[w] = "del" => job[w] # NoJob
    /\ \A w \in Workers : upc[w] = "run" => job[w] \in Jobs

UniqueInit ==
    /\ byKey \in BOOLEAN
    /\ ukey = NoJob
    /\ waiting = {} /\ scheduled = {} /\ retry = {}
    /\ upc = [w \in Workers |-> "idle"]
    /\ raw = [w \in Workers |-> NoJob]
    /\ job = [w \in Workers |-> NoJob]
    /\ deleting = {} /\ called = {} /\ latest = NoJob
    /\ started = {} /\ finished = {} /\ happened = {}

Happens(kind) == kind \in Env /\ happened' = happened \cup {kind}

-----------------------------------------------------------------------------
\* ARGV[2]: the job itself when the key is not made of its arguments.
KeyValue(j) == IF byKey THEN j ELSE Placeholder

\* Faulty variant: a key that holds a job is overwritten as if it were free.
AcceptedOverJob == ukey # Placeholder

(***************************************************************************)
(* redisLuaEnqueueUnique and redisLuaEnqueueUniqueIn set the key in any    *)
(* case, and push the job only when the key did not exist.                 *)
(***************************************************************************)
Accepted == ukey = NoJob

\* Faulty variant: the key is left as it is when it exists.
UniqueCallKeeps(j) ==
    /\ j \in Jobs \ called
    /\ ukey' = IF Accepted THEN KeyValue(j) ELSE ukey
    /\ called' = called \cup {j}
    /\ latest' = j
    /\ UNCHANGED <<byKey, retry, workVars, deleting, happened>>

UniqueCall(j) ==
    /\ j \in Jobs \ called
    /\ ukey' = KeyValue(j)
    /\ called' = called \cup {j}
    /\ latest' = j
    /\ happened' = IF \E w \in Workers : upc[w] = "del" THEN happened \cup {"race"} ELSE happened
    /\ UNCHANGED <<byKey, retry, workVars, deleting>>

EnqueueUnique(j) ==
    /\ UniqueCall(j)
    /\ waiting' = IF Accepted THEN waiting \cup {j} ELSE waiting
    /\ UNCHANGED scheduled

EnqueueUniqueIn(j) ==
    /\ UniqueCall(j)
    /\ scheduled' = IF Accepted THEN scheduled \cup {j} ELSE scheduled
    /\ UNCHANGED waiting

-----------------------------------------------------------------------------
WorkerGoes(w, pc, r, j) ==
    /\ upc' = [upc EXCEPT ![w] = pc]
    /\ raw' = [raw EXCEPT ![w] = r]
    /\ job' = [job EXCEPT ![w] = j]

TakeJob(w) ==
    /\ upc[w] = "idle"
    /\ \E j \in waiting :
        /\ waiting' = waiting \ {j}
        /\ started' = started \cup {j}
        /\ WorkerGoes(w, "get", j, NoJob)
    /\ UNCHANGED <<ukey, scheduled, retry, finished, deleting, callVars, happened>>

\* GET of the key.  Without a key, or without an answer, nothing is deleted.
GetUniqueKey(w) ==
    /\ upc[w] = "get"
    /\ \/ ukey # NoJob /\ WorkerGoes(w, "del", raw[w], ukey) /\ UNCHANGED happened
       \/ ukey = NoJob /\ WorkerGoes(w, "run", raw[w], raw[w]) /\ UNCHANGED happened
       \/ Happens("redis_error") /\ WorkerGoes(w, "run", raw[w], raw[w])
    /\ UNCHANGED <<redisVars, started, finished, deleting, callVars>>

\* What runs once the key is deleted: the job of the key, if it holds one.
Replacement(w) == IF job[w] = Placeholder THEN raw[w] ELSE job[w]

\* Faulty variant: the key is read and not deleted.
DelUniqueKeyNot(w) ==
    /\ upc[w] = "del"
    /\ WorkerGoes(w, "run", raw[w], Replacement(w))
    /\ UNCHANGED <<redisVars, started, finished, deleting, callVars, happened>>

\* Faulty variant: the value "1" is taken for a job.
DelUniqueKeyUnchecked(w) ==
    /\ upc[w] = "del"
    /\ ukey' = NoJob
    /\ WorkerGoes(w, "run", raw[w], job[w])
    /\ UNCHANGED <<waiting, scheduled, retry, started, finished, deleting, callVars, happened>>

\* DEL of the key, a command of its own.  After an error, which may come
\* before or after Redis deletes the key, the job that was taken runs.
DelUniqueKey(w) ==
    /\ upc[w] = "del"
    /\ \/ ukey' = NoJob /\ WorkerGoes(w, "run", raw[w], Replacement(w)) /\ UNCHANGED happened
       \/ /\ Happens("redis_error")
          /\ ukey' \in {ukey, NoJob}
          /\ WorkerGoes(w, "run", raw[w], raw[w])
    /\ UNCHANGED <<waiting, scheduled, retry, started, finished, deleting, callVars>>

\* The jobs that Redis has, the one in progress with worker w left out.
StoredBeside(w) == waiting \cup scheduled \cup retry \cup {raw[v] : v \in Workers \ {w}}

(***************************************************************************)
(* removeJobFromInProgress: a failed job is retried with the arguments it  *)
(* ran with.  With a keyMap it may have them from a job that is in Redis   *)
(* too, so that the retry is a second copy of that job.  The sets do not   *)
(* count copies: the failures that would make a second one are left out.   *)
(***************************************************************************)
EndJob(w) ==
    /\ upc[w] = "run"
    /\ \/ /\ finished' = finished \cup {job[w]}
          /\ UNCHANGED <<retry, happened>>
       \/ /\ job[w] \notin StoredBeside(w)
          /\ Happens("retry")
          /\ retry' = retry \cup {job[w]}
          /\ UNCHANGED finished
    /\ WorkerGoes(w, "idle", NoJob, NoJob)
    /\ UNCHANGED <<ukey, waiting, scheduled, started, deleting, callVars>>

\* The pool dies and a reaper requeues what was taken off the queue.
CrashAndReap(w) ==
    /\ upc[w] # "idle"
    /\ Happens("crash")
    /\ waiting' = waiting \cup {raw[w]}
    /\ WorkerGoes(w, "idle", NoJob, NoJob)
    /\ UNCHANGED <<ukey, scheduled, retry, started, finished, deleting, callVars>>

RequeueDue ==
    /\ \E j \in scheduled \cup retry :
        /\ waiting' = waiting \cup {j}
        /\ scheduled' = scheduled \ {j}
        /\ retry' = retry \ {j}
    /\ UNCHANGED <<ukey, workVars, deleting, callVars, happened>>

KeyExpires ==
    /\ ukey # NoJob
    /\ Happens("expire")
    /\ ukey' = NoJob
    /\ UNCHANGED <<waiting, scheduled, retry, workVars, deleting, callVars>>

-----------------------------------------------------------------------------
\* DeleteScheduledJob: the script removes the job ...
DeleteScheduled ==
    /\ Happens("delete")
    /\ \E j \in scheduled :
        /\ scheduled' = scheduled \ {j}
        /\ deleting' = deleting \cup {j}
        /\ finished' = finished \cup {j}
    /\ UNCHANGED <<ukey, waiting, retry, upc, raw, job, started, callVars>>

\* ... and DEL removes the key made of the arguments of the job, which with a
\* keyMap is another key than the one that was set.  A call that ends before the
\* DEL was executed leaves the key: nothing tries again.
DeleteScheduledKey ==
    /\ \E j \in deleting : deleting' = deleting \ {j}
    /\ \/ ukey' = (IF byKey THEN ukey ELSE NoJob) /\ UNCHANGED happened
       \/ Happens("cut_off") /\ UNCHANGED ukey
    /\ UNCHANGED <<waiting, scheduled, retry, workVars, callVars>>

WorkerNext(w) ==
    TakeJob(w) \/ GetUniqueKey(w) \/ DelUniqueKey(w) \/ EndJob(w) \/ CrashAndReap(w)

UniqueNext ==
    \/ \E j \in Jobs : EnqueueUnique(j) \/ EnqueueUniqueIn(j)
    \/ \E w \in Workers : WorkerNext(w)
    \/ RequeueDue
    \/ KeyExpires
    \/ DeleteScheduled
    \/ DeleteScheduledKey

UniqueSpec == UniqueInit /\ [][UniqueNext]_uniqueVars

-----------------------------------------------------------------------------
None(kinds) == happened \cap kinds = {}

(***************************************************************************)
(* The key exists only while a job that it stands for is still to start,   *)
(* or is about to be deleted: EnqueueUnique never turns a job away when    *)
(* nothing is left that will run in its place.  Three things break this,   *)
(* and the key then lasts until it expires: an error of Redis in           *)
(* getAndDeleteUniqueJob, a DeleteScheduledJob that does not come to its   *)
(* DEL, and the deletion of a job with a keyMap, which deletes another key.*)
(***************************************************************************)
KeyHasPendingJob ==
    (ukey # NoJob /\ None({"redis_error", "cut_off"} \cup IF byKey THEN {"delete"} ELSE {})) =>
        \/ waiting \cup scheduled # {}
        \/ \E w \in Workers : upc[w] \in {"get", "del"}
        \/ deleting # {}

(***************************************************************************)
(* At most one job of the key is enqueued, waiting or scheduled, that no   *)
(* worker has taken yet, as EnqueueUnique promises, until the key expires  *)
(* or a job runs again, by retry or requeue, and deletes the key of the    *)
(* job that was enqueued after it.                                         *)
(***************************************************************************)
OneJobPerKey ==
    None({"retry", "expire", "crash"}) => \A j, k \in (waiting \cup scheduled) \ started : j = k

(***************************************************************************)
(* The arguments of the last call with a keyMap are not forgotten: they    *)
(* are in the key or in a list, or a worker has them, until a run with     *)
(* them has ended.  They can be lost when the key expires, a worker        *)
(* crashes, GET or DEL fails, or the call comes between GET and DEL.       *)
(***************************************************************************)
LastArgumentsKept ==
    (byKey /\ latest # NoJob /\ None({"expire", "crash", "redis_error", "race"})) =>
        \/ ukey = latest
        \/ latest \in waiting \cup scheduled \cup retry \cup finished
        \/ \E w \in Workers : upc[w] \in {"del", "run"} /\ job[w] = latest
        \/ \E w \in Workers : upc[w] = "get" /\ raw[w] = latest
=============================================================================
