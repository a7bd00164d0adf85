------------------------------ MODULE JobProofs ------------------------------
(***************************************************************************)
(* What the steps of the system do to the jobs in Redis and to the workers *)
(* that have them, for all sets of pools, workers, jobs and names.  First  *)
(* the list commands LPUSH (Cons), RPOP (Last and Front) and LREM key 1 v  *)
(* (RemoveFirst); then JobStep, which says what a step may do to jobs and  *)
(* locks, and what follows from it: types, that jobs are filed under their *)
(* names, that no job is lost, that a job is in one place, that the locks  *)
(* move with the lists they count, and that jobs die of their failures.    *)
(* That every step of WorkSystem is a JobStep is shown in WorkSystemProofs.*)
(***************************************************************************)
EXTENDS Worker, TLAPS

\* The obligations are small, but it takes time to translate them.
USE Zenon

-----------------------------------------------------------------------------
(* The list commands. *)

(***************************************************************************)
(* LPUSH adds its value to the members, at position 1.                     *)
(***************************************************************************)
LEMMA ConsMembers ==
    ASSUME NEW S, NEW s \in Seq(S), NEW e \in S
    PROVE  /\ Cons(e, s) \in Seq(S)
           /\ Len(Cons(e, s)) = Len(s) + 1
           /\ Cons(e, s)[1] = e
           /\ \A i \in 1 .. Len(s) : Cons(e, s)[i + 1] = s[i]
BY SMT DEF Cons

(***************************************************************************)
(* RPOP takes a member off the end and keeps the others.                   *)
(***************************************************************************)
LEMMA RPopMembers ==
    ASSUME NEW S, NEW s \in Seq(S), s # <<>>
    PROVE  /\ Last(s) \in S
           /\ Front(s) \in Seq(S)
           /\ Len(s) > 0
           /\ Len(Front(s)) = Len(s) - 1
           /\ Last(s) = s[Len(s)]
           /\ \A i \in 1 .. Len(s) - 1 : Front(s)[i] = s[i]
BY SMT DEF Last, Front

\* The position of s that position i of the rest comes from, once an e was removed.
At(s, e, i) == IF \E k \in 1 .. i : s[k] = e THEN i + 1 ELSE i

(***************************************************************************)
(* LREM key 1 v takes one occurrence of v out, if there is one, and keeps  *)
(* every other member: position i of the rest is position At(s, e, i) of   *)
(* the list, no position is used twice, and every position that does not   *)
(* hold v is used.                                                         *)
(***************************************************************************)
LEMMA LRemMembers ==
    ASSUME NEW S, NEW s \in Seq(S), NEW e
    PROVE  /\ RemoveFirst(s, e) \in Seq(S)
           /\ ~ Contains(s, e) => RemoveFirst(s, e) = s
           /\ Contains(s, e) =>
                /\ Len(RemoveFirst(s, e)) = Len(s) - 1
                /\ \A i \in 1 .. Len(s) - 1 :
                    At(s, e, i) \in 1 .. Len(s) /\ RemoveFirst(s, e)[i] = s[At(s, e, i)]
                /\ \A i, m \in 1 .. Len(s) - 1 : At(s, e, i) = At(s, e, m) => i = m
                /\ \A i \in 1 .. Len(s) :
                    s[i] # e => \E m \in 1 .. Len(s) - 1 : At(s, e, m) = i
<1>1. CASE ~ Contains(s, e)
    BY <1>1 DEF RemoveFirst
<1>2. CASE Contains(s, e)
    <2> DEFINE t == [i \in 1 .. Len(s) - 1 |-> s[At(s, e, i)]]
    <2>1. Len(s) \in Nat /\ Len(s) # 0 /\ \A i \in 1 .. Len(s) : s[i] \in S
        BY <1>2, SMT DEF Contains
    <2>2. \A i \in 1 .. Len(s) - 1 : At(s, e, i) \in 1 .. Len(s)
        BY <2>1, SMT DEF At
    <2>3. RemoveFirst(s, e) = t
        BY <1>2 DEF RemoveFirst, At
    <2>4. t \in Seq(S) /\ Len(t) = Len(s) - 1
        BY <2>1, <2>2, SMT
    <2>5. ASSUME NEW i \in 1 .. Len(s) - 1, NEW m \in 1 .. Len(s) - 1, At(s, e, i) = At(s, e, m)
          PROVE  i = m
        BY <2>1, <2>5, SMT DEF At
    <2>6. ASSUME NEW i \in 1 .. Len(s), s[i] # e
          PROVE  \E m \in 1 .. Len(s) - 1 : At(s, e, m) = i
        <3>1. CASE \E k \in 1 .. i : s[k] = e
            <4>1. \E k \in 1 .. i - 1 : s[k] = e
                BY <2>1, <2>6, <3>1, SMT
            <4>2. i - 1 \in 1 .. Len(s) - 1 /\ At(s, e, i - 1) = i
                BY <2>1, <4>1, SMT DEF At
            <4> QED
                BY <4>2
        <3>2. CASE ~ \E k \in 1 .. i : s[k] = e
            <4>1. i # Len(s)
                BY <1>2, <3>2 DEF Contains
            <4>2. i \in 1 .. Len(s) - 1 /\ At(s, e, i) = i
                BY <2>1, <3>2, <4>1, SMT DEF At
            <4> QED
                BY <4>2
        <3> QED
            BY <3>1, <3>2
    <2>7. \A i \in 1 .. Len(s) - 1 : t[i] = s[At(s, e, i)]
        OBVIOUS
    <2> HIDE DEF t
    <2> QED
        BY <1>2, <2>2, <2>3, <2>4, <2>5, <2>6, <2>7, ZenonT(60)
<1> QED
    BY <1>1, <1>2
-----------------------------------------------------------------------------
(***************************************************************************)
(* LPUSH adds the pushed job to the jobs of a list.                        *)
(***************************************************************************)
LEMMA IdsOfLPush ==
    ASSUME NEW s \in Seq(Entry), NEW e \in Entry
    PROVE  Ids(Cons(e, s)) = Ids(s) \cup {e.id}
<1> DEFINE t == Cons(e, s)
<1>1. /\ t \in Seq(Entry) /\ Len(t) = Len(s) + 1 /\ t[1] = e
      /\ \A i \in 1 .. Len(s) : t[i + 1] = s[i]
    BY ConsMembers, SMT
<1> HIDE DEF t
<1>2. DOMAIN t = 1 .. Len(s) + 1 /\ DOMAIN s = 1 .. Len(s) /\ Len(s) \in Nat
    BY <1>1, SMT
<1>3. e.id \in Ids(t)
    BY <1>1, <1>2, SMT DEF Ids
<1>4. ASSUME NEW x \in Ids(s) PROVE x \in Ids(t)
    <2>1. PICK i \in 1 .. Len(s) : x = s[i].id
        BY <1>2 DEF Ids
    <2>2. i + 1 \in DOMAIN t /\ t[i + 1].id = x
        BY <1>1, <1>2, <2>1, SMT
    <2> QED
        BY <2>2 DEF Ids
<1>5. ASSUME NEW x \in Ids(t) PROVE x \in Ids(s) \cup {e.id}
    <2>1. PICK i \in 1 .. Len(s) + 1 : x = t[i].id
        BY <1>2 DEF Ids
    <2>2. CASE i = 1
        BY <1>1, <2>1, <2>2
    <2>3. CASE i # 1
        <3>1. i - 1 \in 1 .. Len(s) /\ (i - 1) + 1 = i
            BY <1>2, <2>3, SMT
        <3>2. t[i] = s[i - 1]
            BY <1>1, <3>1
        <3> QED
            BY <1>2, <2>1, <3>1, <3>2 DEF Ids
    <2> QED
        BY <2>2, <2>3
<1>6. Ids(t) = Ids(s) \cup {e.id}
    BY <1>3, <1>4, <1>5
<1> QED
    BY <1>6 DEF t

(***************************************************************************)
(* RPOP leaves the other jobs of the list.                                 *)
(***************************************************************************)
LEMMA IdsOfRPop ==
    ASSUME NEW s \in Seq(Entry), s # <<>>
    PROVE  Ids(s) \subseteq Ids(Front(s)) \cup {Last(s).id}
<1> DEFINE t == Front(s)
<1>1. /\ t \in Seq(Entry) /\ Len(s) > 0 /\ Len(t) = Len(s) - 1 /\ Last(s) = s[Len(s)]
      /\ \A i \in 1 .. Len(s) - 1 : t[i] = s[i]
    BY RPopMembers
<1> HIDE DEF t
<1>2. DOMAIN t = 1 .. Len(s) - 1 /\ DOMAIN s = 1 .. Len(s) /\ Len(s) \in Nat
    BY <1>1, SMT
<1>3. ASSUME NEW x \in Ids(s) PROVE x \in Ids(t) \cup {Last(s).id}
    <2>1. PICK i \in 1 .. Len(s) : x = s[i].id
        BY <1>2 DEF Ids
    <2>2. CASE i = Len(s)
        BY <1>1, <2>1, <2>2
    <2>3. CASE i # Len(s)
        <3>1. i \in 1 .. Len(s) - 1
            BY <1>1, <1>2, <2>1, <2>3, SMT
        <3> QED
            BY ZenonT(120), <1>1, <1>2, <2>1, <3>1 DEF Ids
    <2> QED
        BY <2>2, <2>3
<1> QED
    BY <1>3 DEF t

(***************************************************************************)
(* LREM key 1 v leaves the other jobs of the list.                         *)
(***************************************************************************)
LEMMA IdsOfLRem ==
    ASSUME NEW s \in Seq(Entry), NEW e \in Entry
    PROVE  Ids(s) \subseteq Ids(RemoveFirst(s, e)) \cup {e.id}
<1> DEFINE t == RemoveFirst(s, e)
<1>1. CASE ~ Contains(s, e)
    BY <1>1, LRemMembers
<1>2. CASE Contains(s, e)
    <2>1. /\ t \in Seq(Entry)
          /\ Len(t) = Len(s) - 1
          /\ \A i \in 1 .. Len(t) : t[i] = s[At(s, e, i)]
          /\ \A i \in 1 .. Len(s) : s[i] # e => \E m \in 1 .. Len(t) : At(s, e, m) = i
        BY <1>2, LRemMembers, SMT
    <2> HIDE DEF t
    <2>2. DOMAIN t = 1 .. Len(t) /\ DOMAIN s = 1 .. Len(s)
        BY <2>1, SMT
    <2>3. ASSUME NEW x \in Ids(s) PROVE x \in Ids(t) \cup {e.id}
        <3>1. PICK i \in 1 .. Len(s) : x = s[i].id
            BY <2>2 DEF Ids
        <3>2. CASE s[i] # e
            <4>1. PICK m \in 1 .. Len(t) : At(s, e, m) = i
                BY <2>1, <3>2
            <4>2. t[m].id = x
                BY <2>1, <3>1, <4>1
            <4> QED
                BY <2>2, <4>2 DEF Ids
        <3> QED
            BY <3>1, <3>2
    <2> QED
        BY <2>3 DEF t
<1> QED
    BY <1>1, <1>2

-----------------------------------------------------------------------------
\* No job is in the list twice.
Distinct(s) == \A i, k \in 1 .. Len(s) : s[i].id = s[k].id => i = k

(***************************************************************************)
(* The jobs of a list, by their positions.                                 *)
(***************************************************************************)
LEMMA IdsByPosition ==
    ASSUME NEW s \in Seq(Entry), NEW j
    PROVE  j \in Ids(s) <=> \E i \in 1 .. Len(s) : s[i].id = j
<1>1. DOMAIN s = 1 .. Len(s)
    BY SMT
<1> QED
    BY <1>1 DEF Ids

(***************************************************************************)
(* LPUSH of a job that a list does not have yet keeps its jobs distinct,   *)
(* and every entry it had.                                                 *)
(***************************************************************************)
LEMMA LPushKeeps ==
    ASSUME NEW s \in Seq(Entry), NEW e \in Entry
    PROVE  /\ Distinct(s) /\ e.id \notin Ids(s) => Distinct(Cons(e, s))
           /\ Contains(Cons(e, s), e)
           /\ \A f : Contains(s, f) => Contains(Cons(e, s), f)
<1> DEFINE t == Cons(e, s)
<1>1. /\ t \in Seq(Entry) /\ Len(t) = Len(s) + 1 /\ t[1] = e
      /\ \A i \in 1 .. Len(s) : t[i + 1] = s[i]
    BY ConsMembers, SMT
<1> HIDE DEF t
<1>2. \A i \in 1 .. Len(t) : i = 1 \/ (i - 1 \in 1 .. Len(s) /\ t[i] = s[i - 1])
    BY <1>1, SMT
<1>3. ASSUME Distinct(s), e.id \notin Ids(s) PROVE Distinct(t)
    <2>1. \A i \in 1 .. Len(s) : s[i].id # e.id
        BY <1>3, IdsByPosition
    <2> SUFFICES ASSUME NEW i \in 1 .. Len(t), NEW k \in 1 .. Len(t), t[i].id = t[k].id
                 PROVE  i = k
        BY DEF Distinct
    <2>0. \A l \in 1 .. Len(t) : l # 1 => t[l].id # e.id
        BY <1>2, <2>1
    <2>2. CASE i = 1 /\ k # 1
        BY <1>1, <2>0, <2>2
    <2>3. CASE i # 1 /\ k = 1
        BY <1>1, <2>0, <2>3
    <2>4. CASE i # 1 /\ k # 1
        <3>1. i - 1 \in 1 .. Len(s) /\ k - 1 \in 1 .. Len(s) /\ s[i - 1].id = s[k - 1].id
            BY <1>2, <2>4
        <3>2. i - 1 = k - 1
            BY <1>3, <3>1 DEF Distinct
        <3> QED
            BY <3>2, SMT
    <2> QED
        BY <2>2, <2>3, <2>4
<1>4. Contains(t, e)
    BY <1>1, SMT DEF Contains
<1>5. ASSUME NEW f, Contains(s, f) PROVE Contains(t, f)
    <2>1. PICK i \in 1 .. Len(s) : s[i] = f
        BY <1>5 DEF Contains
    <2>2. i + 1 \in 1 .. Len(t) /\ t[i + 1] = f
        BY <1>1, <2>1, SMT
    <2> QED
        BY <2>2 DEF Contains
<1> QED
    BY <1>3, <1>4, <1>5 DEF t

(***************************************************************************)
(* RPOP takes one job of a list out of it, and adds none.                  *)
(***************************************************************************)
LEMMA RPopKeeps ==
    ASSUME NEW s \in Seq(Entry), s # <<>>
    PROVE  /\ Ids(Front(s)) \subseteq Ids(s)
           /\ Last(s).id \in Ids(s)
           /\ Distinct(s) => Distinct(Front(s)) /\ Last(s).id \notin Ids(Front(s))
<1> DEFINE t == Front(s)
<1>1. /\ t \in Seq(Entry) /\ Len(s) > 0 /\ Len(t) = Len(s) - 1 /\ Last(s) = s[Len(s)]
      /\ \A i \in 1 .. Len(s) - 1 : t[i] = s[i]
    BY RPopMembers
<1> HIDE DEF t
<1>2. \A i \in 1 .. Len(t) : i \in 1 .. Len(s) /\ i # Len(s) /\ t[i] = s[i]
    BY <1>1, SMT
<1>3. Ids(t) \subseteq Ids(s)
    <2> SUFFICES ASSUME NEW j \in Ids(t) PROVE j \in Ids(s)
        OBVIOUS
    <2>1. PICK i \in 1 .. Len(t) : t[i].id = j
        BY <1>1, IdsByPosition
    <2> QED
        BY <1>2, <2>1, IdsByPosition
<1>4. Len(s) \in 1 .. Len(s)
    BY <1>1, SMT
<1>5. Last(s).id \in Ids(s)
    BY <1>1, <1>4, IdsByPosition
<1>6. ASSUME Distinct(s) PROVE Distinct(t) /\ Last(s).id \notin Ids(t)
    <2>1. Distinct(t)
        BY <1>2, <1>6 DEF Distinct
    <2>2. \A i \in 1 .. Len(t) : t[i].id # Last(s).id
        BY <1>1, <1>2, <1>4, <1>6 DEF Distinct
    <2> QED
        BY <1>1, <2>1, <2>2, IdsByPosition, SMT
<1> QED
    BY <1>3, <1>5, <1>6 DEF t

(***************************************************************************)
(* LREM key 1 v adds no job, keeps the entries other than v, and takes the *)
(* job of v out of a list that has it once.                                *)
(***************************************************************************)
LEMMA LRemKeeps ==
    ASSUME NEW s \in Seq(Entry), NEW e \in Entry
    PROVE  /\ Ids(RemoveFirst(s, e)) \subseteq Ids(s)
           /\ \A f : Contains(s, f) /\ f # e => Contains(RemoveFirst(s, e), f)
           /\ Distinct(s) => Distinct(RemoveFirst(s, e))
           /\ Distinct(s) /\ Contains(s, e) => e.id \notin Ids(RemoveFirst(s, e))
           /\ Contains(s, e) => Len(RemoveFirst(s, e)) = Len(s) - 1
<1> DEFINE t == RemoveFirst(s, e)
<1>1. CASE ~ Contains(s, e)
    <2>1. t = s
        BY <1>1, LRemMembers, SMT DEF Contains
    <2> QED
        BY <1>1, <2>1
<1>2. CASE Contains(s, e)
    <2> DEFINE at(i) == At(s, e, i)
    <2>1. /\ t \in Seq(Entry)
          /\ Len(t) = Len(s) - 1
        BY <1>2, LRemMembers
    <2>2. \A i \in 1 .. Len(t) : at(i) \in 1 .. Len(s) /\ t[i] = s[at(i)]
        BY <1>2, LRemMembers, SMT
    <2>3. \A i, m \in 1 .. Len(t) : at(i) = at(m) => i = m
        BY <1>2, <2>1, LRemMembers, SMT
    <2>4. \A i \in 1 .. Len(s) : s[i] # e => \E m \in 1 .. Len(t) : at(m) = i
        BY <1>2, <2>1, LRemMembers, SMTT(60)
    <2> HIDE DEF t
    <2>5. Distinct(s) => \A i \in 1 .. Len(t) : s[at(i)].id # e.id
        <3> SUFFICES ASSUME Distinct(s), NEW i \in 1 .. Len(t), s[at(i)].id = e.id PROVE FALSE
            OBVIOUS
        <3>1. PICK k \in 1 .. Len(s) : s[k] = e
            BY <1>2 DEF Contains
        <3>2. at(i) = k
            BY <2>2, <3>1 DEF Distinct
        <3>3. \A m \in 1 .. Len(s) : s[m] = e => m = k
            BY <3>1 DEF Distinct
        <3> QED
            BY <2>1, <3>1, <3>2, <3>3, SMT DEF At
    <2> HIDE DEF at
    <2>6. Ids(t) \subseteq Ids(s)
        <3> SUFFICES ASSUME NEW j \in Ids(t) PROVE j \in Ids(s)
            OBVIOUS
        <3>1. PICK i \in 1 .. Len(t) : t[i].id = j
            BY <2>1, IdsByPosition
        <3> QED
            BY <2>2, <3>1, IdsByPosition
    <2>7. ASSUME NEW f, Contains(s, f), f # e PROVE Contains(t, f)
        <3>1. PICK i \in 1 .. Len(s) : s[i] = f
            BY <2>7 DEF Contains
        <3>2. PICK m \in 1 .. Len(t) : at(m) = i
            BY <2>4, <2>7, <3>1
        <3> QED
            BY <2>2, <3>1, <3>2 DEF Contains
    <2>8. ASSUME Distinct(s) PROVE Distinct(t) /\ e.id \notin Ids(t)
        <3>1. Distinct(t)
            BY <2>2, <2>3, <2>8, SMT DEF Distinct
        <3>2. \A i \in 1 .. Len(t) : t[i].id # e.id
            BY <2>2, <2>5, <2>8
        <3> QED
            BY <2>1, <3>1, <3>2, IdsByPosition
    <2> QED
        BY <2>1, <2>6, <2>7, <2>8 DEF t
<1> QED
    BY <1>1, <1>2

(***************************************************************************)
(* A list without jobs is empty, and has no job twice.                     *)
(***************************************************************************)
LEMMA EmptyIds ==
    ASSUME NEW s \in Seq(Entry)
    PROVE  (s = <<>> <=> Ids(s) = {}) /\ (s = <<>> => Distinct(s))
<1>1. CASE s = <<>>
    <2>1. Len(s) = 0
        BY <1>1
    <2>2. ASSUME NEW j \in Ids(s) PROVE FALSE
        <3>1. \E i \in 1 .. Len(s) : s[i].id = j
            BY <2>2, IdsByPosition
        <3> QED
            BY <2>1, <3>1, SMT
    <2>3. Distinct(s)
        BY <2>1, SMT DEF Distinct
    <2> QED
        BY <1>1, <2>2, <2>3
<1>2. CASE s # <<>>
    <2>1. 1 \in 1 .. Len(s)
        BY <1>2, SMT
    <2>2. s[1].id \in Ids(s)
        BY <2>1, IdsByPosition
    <2> QED
        BY <1>2, <2>2
<1> QED
    BY <1>1, <1>2

-----------------------------------------------------------------------------
(* What a step may do to the jobs and the locks. *)

jobVars == <<listVars, lockVars, zset, history>>

Pushes(e) == LPush(NameOf[e.id], e) /\ UNCHANGED <<inprog, lockVars>>

\* Enqueue or EnqueueIn of a new job.
Brings(e) ==
    /\ e.id \notin enqueued
    /\ enqueued' = enqueued \cup {e.id}
    /\ \/ Pushes(e) /\ UNCHANGED zset
       \/ zset' = [zset EXCEPT !["scheduled"] = @ \cup {e}] /\ UNCHANGED <<listVars, lockVars>>
    /\ UNCHANGED settled

\* fetchJob, whether or not the worker gets the reply.
Fetches(w, n) == LuaFetchJob(PoolOf[w], n) /\ UNCHANGED <<zset, ctlVars, history>>

\* A call of the requeue script, by a reaper or by Stop.
TakesBack(p) == LuaReenqueueJob(p, Handles[p]) /\ UNCHANGED <<zset, history>>

\* A call of the script that gives back locks, by a reaper or by Stop.
GivesBack(p, types) == LuaReapStaleLocks(p, types) /\ UNCHANGED <<listVars, zset, history>>

\* An entry leaves a sorted set: Client deletes it, or a requeuer buries it as
\* dead, or a requeuer or Client pushes it onto its queue.
Drops(k, e) ==
    /\ zset' = [zset EXCEPT ![k] = @ \ {e}]
    /\ settled' = settled \cup {e.id}
    /\ UNCHANGED <<listVars, lockVars, enqueued>>

Buries(k, e) ==
    /\ k # "dead"
    /\ \E p \in Pools : NameOf[e.id] \notin Handles[p]
    /\ zset' = [zset EXCEPT ![k] = @ \ {e}, !["dead"] = @ \cup {e}]
    /\ UNCHANGED <<listVars, lockVars, history>>

Revives(k, e, f) ==
    /\ f.id = e.id
    /\ zset' = [zset EXCEPT ![k] = @ \ {e}]
    /\ Pushes(f)
    /\ UNCHANGED history

(***************************************************************************)
(* One step: fetchers are the workers that may fetch, taken the pools from *)
(* which the requeue script may take jobs, given those whose locks may be  *)
(* given back.                                                             *)
(***************************************************************************)
JobStep(fetchers, taken, given) ==
    \/ UNCHANGED jobVars
    \/ \E e \in Entry : Brings(e)
    \/ \E w \in fetchers, n \in Names : Fetches(w, n)
    \/ \E p \in taken : TakesBack(p)
    \/ \E w \in Workers : RemoveJobFromInProgress(w)
    \/ \E p \in given, types \in SUBSET Names : GivesBack(p, types)
    \/ \E k \in Zsets : \E e \in zset[k] :
        Drops(k, e) \/ Buries(k, e) \/ \E f \in Entry : Revives(k, e, f)

(***************************************************************************)
(* A worker that has a job after a step had it before, or fetched it.      *)
(***************************************************************************)
KeepsJob(w) == wpc'[w] \in Busy => (wpc[w] \in Busy /\ wjob'[w] = wjob[w]) \/ FetchJob(w)

-----------------------------------------------------------------------------
(* The lists after each of these. *)

(***************************************************************************)
(* The lists after LPUSH of an entry.                                      *)
(***************************************************************************)
LEMMA PushLists ==
    ASSUME StoreTypeOK, NEW e \in Entry, Pushes(e)
    PROVE  /\ NameOf[e.id] \in Names /\ e.id \in Jobs
           /\ queue' \in [Names -> Seq(Entry)]
           /\ queue'[NameOf[e.id]] = Cons(e, queue[NameOf[e.id]])
           /\ \A m \in Names : m # NameOf[e.id] => queue'[m] = queue[m]
           /\ inprog' = inprog
<1>1. NameOf[e.id] \in Names /\ e.id \in Jobs
    BY StoreAssumption DEF Entry
<1>2. Cons(e, queue[NameOf[e.id]]) \in Seq(Entry)
    BY <1>1, ConsMembers DEF StoreTypeOK
<1> QED
    BY <1>1, <1>2 DEF StoreTypeOK, Pushes, LPush

(***************************************************************************)
(* The lists after redisLuaFetchJob.                                       *)
(***************************************************************************)
LEMMA FetchLists ==
    ASSUME StoreTypeOK, NEW p \in Pools, NEW n \in Names, LuaFetchJob(p, n)
    PROVE  /\ n \in Handles[p] /\ queue[n] # <<>> /\ Last(queue[n]) \in Entry
           /\ queue' \in [Names -> Seq(Entry)] /\ inprog' \in [Pools -> [Names -> Seq(Entry)]]
           /\ queue'[n] = Front(queue[n])
           /\ \A m \in Names : m # n => queue'[m] = queue[m]
           /\ inprog'[p][n] = Cons(Last(queue[n]), inprog[p][n])
           /\ \A q \in Pools : \A m \in Names : <<q, m>> # <<p, n>> => inprog'[q][m] = inprog[q][m]
<1>1. /\ queue \in [Names -> Seq(Entry)] /\ inprog \in [Pools -> [Names -> Seq(Entry)]]
      /\ queue[n] # <<>> /\ n \in Handles[p]
      /\ queue' = [queue EXCEPT ![n] = Front(queue[n])]
      /\ inprog' = [inprog EXCEPT ![p][n] = Cons(Last(queue[n]), inprog[p][n])]
    BY DEF StoreTypeOK, LuaFetchJob, Fetchable
<1>s. queue[n] \in Seq(Entry) /\ inprog[p][n] \in Seq(Entry)
    BY <1>1
<1>2. Last(queue[n]) \in Entry /\ Front(queue[n]) \in Seq(Entry)
    BY <1>1, <1>s, RPopMembers
<1>3. Cons(Last(queue[n]), inprog[p][n]) \in Seq(Entry)
    BY <1>s, <1>2, ConsMembers
<1> QED
    BY <1>1, <1>2, <1>3

(***************************************************************************)
(* The lists and the lock after redisLuaReenqueueJob.                      *)
(***************************************************************************)
TakesBackOf(p, n) ==
    /\ n \in Handles[p] /\ inprog[p][n] # <<>> /\ Last(inprog[p][n]) \in Entry
    /\ queue' \in [Names -> Seq(Entry)] /\ inprog' \in [Pools -> [Names -> Seq(Entry)]]
    /\ inprog'[p][n] = Front(inprog[p][n])
    /\ \A q \in Pools : \A m \in Names : <<q, m>> # <<p, n>> => inprog'[q][m] = inprog[q][m]
    /\ queue'[n] = Cons(Last(inprog[p][n]), queue[n])
    /\ \A m \in Names : m # n => queue'[m] = queue[m]
    /\ AddLock(n, p, -1)

(***************************************************************************)
(* redisLuaReenqueueJob moves the job at the end of an in-progress list of *)
(* the pool to its queue and gives its lock back, and does nothing else to *)
(* the lists.                                                              *)
(***************************************************************************)
LEMMA ReenqueueLists ==
    ASSUME StoreTypeOK, NEW p \in Pools, LuaReenqueueJob(p, Handles[p])
    PROVE  \E n \in Names : TakesBackOf(p, n)
<1>1. PICK n \in Handles[p] : /\ inprog[p][n] # <<>>
                              /\ LPush(n, Last(inprog[p][n]))
                              /\ inprog' = [inprog EXCEPT ![p][n] = Front(inprog[p][n])]
                              /\ AddLock(n, p, -1)
    BY ZenonT(60) DEF LuaReenqueueJob
<1>2. n \in Names /\ queue \in [Names -> Seq(Entry)] /\ inprog \in [Pools -> [Names -> Seq(Entry)]]
    BY StoreAssumption DEF StoreTypeOK
<1>s. queue[n] \in Seq(Entry) /\ inprog[p][n] \in Seq(Entry)
    BY <1>2
<1>3. Last(inprog[p][n]) \in Entry /\ Front(inprog[p][n]) \in Seq(Entry)
    BY <1>1, <1>s, RPopMembers
<1>q. Cons(Last(inprog[p][n]), queue[n]) \in Seq(Entry)
    BY <1>s, <1>3, ConsMembers
<1>4. /\ queue' \in [Names -> Seq(Entry)]
      /\ queue'[n] = Cons(Last(inprog[p][n]), queue[n])
      /\ \A m \in Names : m # n => queue'[m] = queue[m]
    BY <1>1, <1>2, <1>q DEF LPush
<1>5. /\ inprog' \in [Pools -> [Names -> Seq(Entry)]]
      /\ inprog'[p][n] = Front(inprog[p][n])
      /\ \A q \in Pools : \A m \in Names : <<q, m>> # <<p, n>> => inprog'[q][m] = inprog[q][m]
    BY <1>1, <1>2, <1>3
<1>6. TakesBackOf(p, n)
    BY <1>1, <1>3, <1>4, <1>5 DEF TakesBackOf
<1> QED
    BY <1>2, <1>6

(***************************************************************************)
(* The lists and the lock after removeJobFromInProgress by worker w, which *)
(* had entry e of name n, for pool p.                                      *)
(***************************************************************************)
EndsOf(w, p, e, n) ==
    /\ p \in Pools /\ e \in Entry /\ n \in Names /\ e.id \in Jobs
    /\ p = PoolOf[w] /\ e = wjob[w] /\ n = NameOf[e.id] /\ wpc[w] \in Busy
    /\ queue' = queue
    /\ inprog' \in [Pools -> [Names -> Seq(Entry)]]
    /\ inprog'[p][n] = RemoveFirst(inprog[p][n], e)
    /\ \A q \in Pools : \A m \in Names : <<q, m>> # <<p, n>> => inprog'[q][m] = inprog[q][m]
    /\ AddLock(n, p, -1)
    /\ enqueued' = enqueued
    /\ \/ zset' = zset /\ settled' = settled \cup {e.id}
       \/ /\ \E k \in Zsets, f \in Entry : f.id = e.id /\ zset' = [zset EXCEPT ![k] = zset[k] \cup {f}]
          /\ settled' = settled

(***************************************************************************)
(* removeJobFromInProgress takes the worker's entry out of its in-progress *)
(* list, gives the lock back, and either settles the job or adds it to a   *)
(* sorted set.                                                             *)
(***************************************************************************)
LEMMA RemoveLists ==
    ASSUME StoreTypeOK, WorkerTypeOK, NEW w \in Workers, RemoveJobFromInProgress(w)
    PROVE  \E p, e, n : EndsOf(w, p, e, n)
<1> DEFINE p == PoolOf[w]
           e == wjob[w]
           n == NameOf[e.id]
<1>1. /\ p \in Pools /\ e \in Entry /\ n \in Names /\ e.id \in Jobs
      /\ Failed(e) \in Entry /\ Failed(e).id = e.id /\ wpc[w] \in Busy
    BY StoreAssumption, WorkerAssumption, SMT
        DEF WorkerTypeOK, RemoveJobFromInProgress, Busy, Entry, Failed
<1>2. /\ inprog' = [inprog EXCEPT ![p][n] = RemoveFirst(inprog[p][n], e)]
      /\ AddLock(n, p, -1) /\ queue' = queue /\ enqueued' = enqueued
    BY DEF RemoveJobFromInProgress
<1>3. inprog \in [Pools -> [Names -> Seq(Entry)]] /\ RemoveFirst(inprog[p][n], e) \in Seq(Entry)
    BY <1>1, LRemMembers, SMT DEF StoreTypeOK
<1>4. /\ inprog' \in [Pools -> [Names -> Seq(Entry)]]
      /\ inprog'[p][n] = RemoveFirst(inprog[p][n], e)
      /\ \A q \in Pools : \A m \in Names : <<q, m>> # <<p, n>> => inprog'[q][m] = inprog[q][m]
    BY <1>1, <1>2, <1>3
<1>5. JobFate(p, Failed(e)) \in {"none", "retry", "dead"}
    BY DEF JobFate
<1>6. PICK k \in {"none", "retry", "dead"}, f \in {e, Failed(e)} : Terminate(k, f)
    BY <1>5 DEF RemoveJobFromInProgress
<1>7. f \in Entry /\ f.id = e.id
    BY <1>1, <1>6
<1> HIDE DEF p, e, n
<1>8. \/ zset' = zset /\ settled' = settled \cup {e.id}
      \/ /\ \E l \in Zsets, g \in Entry : g.id = e.id /\ zset' = [zset EXCEPT ![l] = zset[l] \cup {g}]
         /\ settled' = settled
    BY <1>6, <1>7 DEF Terminate, Zsets
<1>9. p = PoolOf[w] /\ e = wjob[w] /\ n = NameOf[e.id]
    BY DEF p, e, n
<1>10. EndsOf(w, p, e, n)
    BY <1>1, <1>2, <1>4, <1>8, <1>9 DEF EndsOf
<1> QED
    BY <1>10

-----------------------------------------------------------------------------
(* Types. *)

(***************************************************************************)
(* The INCR/DECR with HINCRBY of the scripts keeps the counters well typed.*)
(***************************************************************************)
LEMMA AddLockType ==
    ASSUME StoreTypeOK, NEW n \in Names, NEW p \in Pools, NEW d \in Int, AddLock(n, p, d)
    PROVE  /\ lock' \in [Names -> Int]
           /\ lockInfo' \in [Names -> [Pools -> Int]]
           /\ lockField' \in [Names -> SUBSET Pools]
BY SMT DEF StoreTypeOK, AddLock

JobTypeOK ==
    /\ queue \in [Names -> Seq(Entry)]
    /\ inprog \in [Pools -> [Names -> Seq(Entry)]]
    /\ lock \in [Names -> Int]
    /\ lockInfo \in [Names -> [Pools -> Int]]
    /\ lockField \in [Names -> SUBSET Pools]
    /\ zset \in [Zsets -> SUBSET Entry]
    /\ enqueued \subseteq Jobs
    /\ settled \subseteq Jobs

(***************************************************************************)
(* Every step keeps the lists, the locks and the sorted sets well typed.   *)
(***************************************************************************)
LEMMA JobTypes ==
    ASSUME StoreTypeOK, WorkerTypeOK, NEW F \in SUBSET Workers, NEW T \in SUBSET Pools,
           NEW G \in SUBSET Pools, JobStep(F, T, G)
    PROVE  JobTypeOK'
<1>t. JobTypeOK
    BY DEF StoreTypeOK, JobTypeOK
<1>u. PoolOf \in [Workers -> Pools] /\ (\A e \in Entry : e.id \in Jobs) /\ 1 \in Int /\ -1 \in Int
    BY WorkerAssumption, SMT DEF Entry
<1>z. "scheduled" \in Zsets /\ "dead" \in Zsets
    BY DEF Zsets
<1>1. ASSUME UNCHANGED jobVars PROVE JobTypeOK'
    BY <1>t, <1>1 DEF JobTypeOK, jobVars, listVars, lockVars, history
<1>2. ASSUME NEW e \in Entry, Brings(e) PROVE JobTypeOK'
    <2>1. enqueued' \subseteq Jobs /\ settled' \subseteq Jobs
        BY <1>t, <1>u, <1>2 DEF JobTypeOK, Brings
    <2>2. CASE Pushes(e) /\ UNCHANGED zset
        BY <1>t, <2>1, <2>2, PushLists DEF JobTypeOK, Pushes, lockVars
    <2>3. CASE zset' = [zset EXCEPT !["scheduled"] = @ \cup {e}] /\ UNCHANGED <<listVars, lockVars>>
        BY <1>t, <1>z, <2>1, <2>3 DEF JobTypeOK, listVars, lockVars
    <2> QED
        BY <1>2, <2>2, <2>3 DEF Brings
<1>3. ASSUME NEW w \in F, NEW n \in Names, Fetches(w, n) PROVE JobTypeOK'
    <2>1. PoolOf[w] \in Pools /\ LuaFetchJob(PoolOf[w], n) /\ AddLock(n, PoolOf[w], 1)
        BY <1>u, <1>3 DEF Fetches, LuaFetchJob
    <2> QED
        BY <1>t, <1>u, <1>3, <2>1, FetchLists, AddLockType DEF JobTypeOK, Fetches, history
<1>4. ASSUME NEW p \in T, TakesBack(p) PROVE JobTypeOK'
    <2>1. PICK n \in Names : TakesBackOf(p, n)
        BY <1>4, ReenqueueLists DEF TakesBack
    <2> QED
        BY <1>t, <1>u, <1>4, <2>1, AddLockType DEF JobTypeOK, TakesBack, TakesBackOf, history
<1>5. ASSUME NEW w \in Workers, RemoveJobFromInProgress(w) PROVE JobTypeOK'
    <2>1. PICK p, e, n : EndsOf(w, p, e, n)
        BY <1>5, RemoveLists
    <2>2. lock' \in [Names -> Int] /\ lockInfo' \in [Names -> [Pools -> Int]]
          /\ lockField' \in [Names -> SUBSET Pools]
        BY <1>u, <2>1, AddLockType DEF EndsOf
    <2>3. zset' \in [Zsets -> SUBSET Entry] /\ settled' \subseteq Jobs
        <3>1. zset \in [Zsets -> SUBSET Entry] /\ settled \subseteq Jobs /\ e.id \in Jobs
            BY <1>t, <2>1 DEF JobTypeOK, EndsOf
        <3>2. \/ zset' = zset /\ settled' = settled \cup {e.id}
              \/ /\ \E k \in Zsets, f \in Entry : zset' = [zset EXCEPT ![k] = zset[k] \cup {f}]
                 /\ settled' = settled
            BY <2>1 DEF EndsOf
        <3> QED
            BY <3>1, <3>2
    <2> QED
        BY <1>t, <2>1, <2>2, <2>3 DEF JobTypeOK, EndsOf
<1>6. ASSUME NEW p \in G, NEW types \in SUBSET Names, GivesBack(p, types) PROVE JobTypeOK'
    <2>1. lock' \in [Names -> Int] /\ lockInfo' \in [Names -> [Pools -> Int]]
          /\ lockField' \in [Names -> SUBSET Pools]
        BY <1>t, <1>6, SMT DEF JobTypeOK, GivesBack, LuaReapStaleLocks
    <2> QED
        BY <1>t, <1>6, <2>1 DEF JobTypeOK, GivesBack, listVars, history
<1>7. ASSUME NEW k \in Zsets, NEW e \in zset[k],
             Drops(k, e) \/ Buries(k, e) \/ \E f \in Entry : Revives(k, e, f)
      PROVE  JobTypeOK'
    <2>1. e \in Entry /\ e.id \in Jobs
        BY <1>t, <1>u DEF JobTypeOK
    <2>2. CASE Drops(k, e)
        BY <1>t, <2>1, <2>2 DEF JobTypeOK, Drops, listVars, lockVars
    <2>3. CASE Buries(k, e)
        <3>1. zset \in [Zsets -> SUBSET Entry]
            BY <1>t DEF JobTypeOK
        <3>2. zset' = [zset EXCEPT ![k] = zset[k] \ {e}, !["dead"] = zset["dead"] \cup {e}]
            BY <2>3 DEF Buries
        <3>3. zset[k] \ {e} \in SUBSET Entry /\ zset["dead"] \cup {e} \in SUBSET Entry
            BY <1>z, <2>1, <3>1
        <3>4. zset' \in [Zsets -> SUBSET Entry]
            <4> DEFINE A == zset[k] \ {e}
                       B == zset["dead"] \cup {e}
            <4>1. zset' = [[zset EXCEPT ![k] = A] EXCEPT !["dead"] = B]
                BY <3>2
            <4>2. A \in SUBSET Entry /\ B \in SUBSET Entry
                BY <3>3
            <4> HIDE DEF A, B
            <4> QED
                BY <1>z, <3>1, <4>1, <4>2
        <3>5. UNCHANGED <<listVars, lockVars, history>>
            BY <2>3 DEF Buries
        <3> QED
            BY <1>t, <3>4, <3>5 DEF JobTypeOK, listVars, lockVars, history
    <2>4. ASSUME NEW f \in Entry, Revives(k, e, f) PROVE JobTypeOK'
        BY <1>t, <2>4, PushLists DEF JobTypeOK, Revives, Pushes, lockVars, history
    <2> QED
        BY <1>7, <2>2, <2>3, <2>4
<1> QED
    BY <1>1, <1>2, <1>3, <1>4, <1>5, <1>6, <1>7 DEF JobStep

-----------------------------------------------------------------------------
(* Jobs are filed under their names. *)

(***************************************************************************)
(* A job is filed under its own name, and a pool has in progress only jobs *)
(* of the names it handles.                                                *)
(***************************************************************************)
FiledUnder(s, n) == \A j \in Ids(s) : NameOf[j] = n

Filed ==
    /\ \A n \in Names : FiledUnder(queue[n], n)
    /\ \A p \in Pools : \A n \in Names :
        FiledUnder(inprog[p][n], n) /\ (n \notin Handles[p] => inprog[p][n] = <<>>)

(***************************************************************************)
(* A step changes the lists by LPUSH, by a fetch, by a call of the requeue *)
(* script or by the end of a job.                                          *)
(***************************************************************************)
LEMMA ListSteps ==
    ASSUME StoreTypeOK, WorkerTypeOK, NEW F \in SUBSET Workers, NEW T \in SUBSET Pools,
           NEW G \in SUBSET Pools, JobStep(F, T, G)
    PROVE  \/ UNCHANGED listVars
           \/ \E e \in Entry : Pushes(e)
           \/ \E w \in F, n \in Names : LuaFetchJob(PoolOf[w], n)
           \/ \E p \in T, n \in Names : TakesBackOf(p, n)
           \/ \E w \in Workers : \E p, e, n : EndsOf(w, p, e, n)
<1>1. ASSUME NEW e \in Entry, Brings(e) PROVE UNCHANGED listVars \/ \E f \in Entry : Pushes(f)
    BY <1>1 DEF Brings
<1>2. ASSUME NEW k, NEW e, NEW f \in Entry, Drops(k, e) \/ Buries(k, e) \/ Revives(k, e, f)
      PROVE  UNCHANGED listVars \/ \E g \in Entry : Pushes(g)
    BY <1>2 DEF Drops, Buries, Revives
<1>3. ASSUME NEW k, NEW e, Drops(k, e) \/ Buries(k, e) PROVE UNCHANGED listVars
    BY <1>3 DEF Drops, Buries
<1>4. ASSUME NEW p \in T, TakesBack(p) PROVE \E n \in Names : TakesBackOf(p, n)
    BY <1>4, ReenqueueLists DEF TakesBack
<1> QED
    BY <1>1, <1>2, <1>3, <1>4, RemoveLists DEF JobStep, Fetches, GivesBack, jobVars

(***************************************************************************)
(* Enqueuers and requeuers push onto the queue of the name, and the other  *)
(* scripts move entries between lists of one name.                         *)
(***************************************************************************)
LEMMA FiledNext ==
    ASSUME StoreTypeOK, WorkerTypeOK, Filed, NEW F \in SUBSET Workers, NEW T \in SUBSET Pools,
           NEW G \in SUBSET Pools, JobStep(F, T, G)
    PROVE  Filed'
<1>t. /\ queue \in [Names -> Seq(Entry)] /\ inprog \in [Pools -> [Names -> Seq(Entry)]]
      /\ PoolOf \in [Workers -> Pools]
    BY WorkerAssumption DEF StoreTypeOK
<1>1. CASE UNCHANGED listVars
    BY <1>1 DEF Filed, listVars
<1>2. ASSUME NEW e \in Entry, Pushes(e) PROVE Filed'
    <2>0. /\ NameOf[e.id] \in Names
          /\ queue'[NameOf[e.id]] = Cons(e, queue[NameOf[e.id]])
        BY <1>2, PushLists
    <2>1. Ids(queue'[NameOf[e.id]]) = Ids(queue[NameOf[e.id]]) \cup {e.id}
        BY <1>t, <2>0, IdsOfLPush
    <2>2. FiledUnder(queue'[NameOf[e.id]], NameOf[e.id])
        BY <2>0, <2>1 DEF Filed, FiledUnder
    <2>3. /\ \A m \in Names : m # NameOf[e.id] => queue'[m] = queue[m]
          /\ inprog' = inprog
        BY <1>2, PushLists
    <2>4. \A m \in Names : FiledUnder(queue'[m], m)
        BY <2>2, <2>3 DEF Filed
    <2> QED
        BY <2>3, <2>4 DEF Filed
<1>3. ASSUME NEW w \in F, NEW n \in Names, LuaFetchJob(PoolOf[w], n) PROVE Filed'
    <2> DEFINE p == PoolOf[w]
    <2>1. p \in Pools /\ LuaFetchJob(p, n)
        BY <1>3, <1>t
    <2> HIDE DEF p
    <2>2. Ids(queue'[n]) \subseteq Ids(queue[n]) /\ Last(queue[n]).id \in Ids(queue[n])
        BY <1>t, <2>1, FetchLists, RPopKeeps, SMT
    <2>3. Ids(inprog'[p][n]) = Ids(inprog[p][n]) \cup {Last(queue[n]).id}
        BY <1>t, <2>1, FetchLists, IdsOfLPush, SMT
    <2>4. /\ n \in Handles[p]
          /\ \A m \in Names : m # n => queue'[m] = queue[m]
          /\ \A q \in Pools : \A m \in Names : <<q, m>> # <<p, n>> => inprog'[q][m] = inprog[q][m]
        BY <2>1, FetchLists
    <2>5. FiledUnder(queue'[n], n) /\ FiledUnder(inprog'[p][n], n)
        BY <2>1, <2>2, <2>3, SMT DEF Filed, FiledUnder
    <2>6. \A m \in Names : FiledUnder(queue'[m], m)
        BY <2>4, <2>5 DEF Filed
    <2>7. \A q \in Pools : \A m \in Names :
            FiledUnder(inprog'[q][m], m) /\ (m \notin Handles[q] => inprog'[q][m] = <<>>)
        BY <2>4, <2>5, SMT DEF Filed
    <2> QED
        BY <2>6, <2>7 DEF Filed
<1>4. ASSUME NEW p \in T, NEW n \in Names, TakesBackOf(p, n) PROVE Filed'
    <2>2. Ids(inprog'[p][n]) \subseteq Ids(inprog[p][n]) /\ Last(inprog[p][n]).id \in Ids(inprog[p][n])
        BY <1>t, <1>4, RPopKeeps, SMT DEF TakesBackOf
    <2>3. Ids(queue'[n]) = Ids(queue[n]) \cup {Last(inprog[p][n]).id}
        BY <1>t, <1>4, IdsOfLPush DEF TakesBackOf
    <2>4. /\ n \in Handles[p]
          /\ \A m \in Names : m # n => queue'[m] = queue[m]
          /\ \A q \in Pools : \A m \in Names : <<q, m>> # <<p, n>> => inprog'[q][m] = inprog[q][m]
        BY <1>4 DEF TakesBackOf
    <2>5. FiledUnder(queue'[n], n) /\ FiledUnder(inprog'[p][n], n)
        BY <2>2, <2>3, SMT DEF Filed, FiledUnder
    <2>6. \A m \in Names : FiledUnder(queue'[m], m)
        BY <2>4, <2>5 DEF Filed
    <2>7. \A q \in Pools : \A m \in Names :
            FiledUnder(inprog'[q][m], m) /\ (m \notin Handles[q] => inprog'[q][m] = <<>>)
        BY <2>4, <2>5 DEF Filed
    <2> QED
        BY <2>6, <2>7 DEF Filed
<1>5. ASSUME NEW w \in Workers, NEW p, NEW e, NEW n, EndsOf(w, p, e, n) PROVE Filed'
    <2>1. /\ p \in Pools /\ e \in Entry /\ n \in Names
          /\ queue' = queue
          /\ inprog'[p][n] = RemoveFirst(inprog[p][n], e)
          /\ \A q \in Pools : \A m \in Names : <<q, m>> # <<p, n>> => inprog'[q][m] = inprog[q][m]
        BY <1>5 DEF EndsOf
    <2>2. Ids(inprog'[p][n]) \subseteq Ids(inprog[p][n]) /\ inprog'[p][n] \in Seq(Entry)
        BY <1>t, <2>1, LRemKeeps, LRemMembers, SMT
    <2>3. inprog[p][n] = <<>> => inprog'[p][n] = <<>>
        BY <1>t, <2>1, <2>2, EmptyIds
    <2>4. FiledUnder(inprog'[p][n], n)
        BY <2>1, <2>2, SMT DEF Filed, FiledUnder
    <2>5. \A q \in Pools : \A m \in Names :
            FiledUnder(inprog'[q][m], m) /\ (m \notin Handles[q] => inprog'[q][m] = <<>>)
        BY <2>1, <2>3, <2>4, SMT DEF Filed
    <2> QED
        BY <2>1, <2>5 DEF Filed
<1> QED
    BY <1>1, <1>2, <1>3, <1>4, <1>5, ListSteps

(***************************************************************************)
(* The in-progress lists of a pool fill only by a fetch of its workers.    *)
(***************************************************************************)
LEMMA EmptyStays ==
    ASSUME StoreTypeOK, WorkerTypeOK, NEW F \in SUBSET Workers, NEW T \in SUBSET Pools,
           NEW G \in SUBSET Pools, JobStep(F, T, G), NEW p \in Pools, NothingInProgress(p, Names)
    PROVE  NothingInProgress(p, Names)' \/ \E w \in F : PoolOf[w] = p
<1>t. inprog \in [Pools -> [Names -> Seq(Entry)]] /\ PoolOf \in [Workers -> Pools]
    BY WorkerAssumption DEF StoreTypeOK
<1>e. \A n \in Names : inprog[p][n] = <<>>
    BY DEF NothingInProgress
<1>1. CASE UNCHANGED inprog
    BY <1>1 DEF NothingInProgress
<1>3. ASSUME NEW w \in F, NEW n \in Names, LuaFetchJob(PoolOf[w], n), PoolOf[w] # p
      PROVE  NothingInProgress(p, Names)'
    BY <1>t, <1>e, <1>3, FetchLists, SMT DEF NothingInProgress
<1>4. ASSUME NEW q \in T, NEW n \in Names, TakesBackOf(q, n) PROVE NothingInProgress(p, Names)'
    <2>1. /\ inprog[q][n] # <<>>
          /\ \A r \in Pools : \A m \in Names : <<r, m>> # <<q, n>> => inprog'[r][m] = inprog[r][m]
        BY <1>4 DEF TakesBackOf
    <2>2. q # p
        BY <1>e, <2>1
    <2> QED
        BY <1>e, <2>1, <2>2 DEF NothingInProgress
<1>5. ASSUME NEW w \in Workers, NEW q, NEW e, NEW n, EndsOf(w, q, e, n)
      PROVE  NothingInProgress(p, Names)'
    <2>1. /\ q \in Pools /\ e \in Entry /\ n \in Names
          /\ inprog'[q][n] = RemoveFirst(inprog[q][n], e)
          /\ \A r \in Pools : \A m \in Names : <<r, m>> # <<q, n>> => inprog'[r][m] = inprog[r][m]
        BY <1>5 DEF EndsOf
    <2>2. Ids(inprog'[q][n]) \subseteq Ids(inprog[q][n]) /\ inprog'[q][n] \in Seq(Entry)
        BY <1>t, <2>1, LRemKeeps, LRemMembers, SMT
    <2>3. inprog[q][n] = <<>> => inprog'[q][n] = <<>>
        BY <1>t, <2>1, <2>2, EmptyIds
    <2> QED
        BY <1>e, <2>1, <2>3 DEF NothingInProgress
<1> QED
    BY <1>1, <1>3, <1>4, <1>5, ListSteps DEF Pushes, listVars

(***************************************************************************)
(* A worker has jobs only of the names its pool handles, and a pool has a  *)
(* field in lock_info only for these.                                      *)
(***************************************************************************)
JobsUnderName ==
    /\ \A w \in Workers : wpc[w] \in Busy => NameOf[wjob[w].id] \in Handles[PoolOf[w]]
    /\ \A p \in Pools : \A n \in Names \ Handles[p] : p \notin lockField[n]

(***************************************************************************)
(* A worker gets its job from a queue that its pool handles, and takes and *)
(* gives back the lock of that name.                                       *)
(***************************************************************************)
LEMMA JobsUnderNameNext ==
    ASSUME StoreTypeOK, WorkerTypeOK, Filed, JobsUnderName, \A w \in Workers : KeepsJob(w),
           NEW F \in SUBSET Workers, NEW T \in SUBSET Pools, NEW G \in SUBSET Pools, JobStep(F, T, G)
    PROVE  JobsUnderName'
<1>t. /\ queue \in [Names -> Seq(Entry)] /\ lockField \in [Names -> SUBSET Pools]
      /\ PoolOf \in [Workers -> Pools] /\ DOMAIN wjob = Workers
    BY WorkerAssumption DEF StoreTypeOK, WorkerTypeOK
<1>1. ASSUME NEW w \in Workers, wpc'[w] \in Busy PROVE NameOf[wjob'[w].id] \in Handles[PoolOf[w]]
    <2>1. CASE wpc[w] \in Busy /\ wjob'[w] = wjob[w]
        BY <2>1 DEF JobsUnderName
    <2>2. CASE FetchJob(w)
        <3>1. PICK n \in Names : LuaFetchJob(PoolOf[w], n) /\ Become(w, "running", Last(queue[n]))
            BY <2>2 DEF FetchJob
        <3>2. wjob'[w] = Last(queue[n])
            BY <3>1, <1>t DEF Become
        <3>3. queue[n] # <<>> /\ n \in Handles[PoolOf[w]]
            BY <3>1, <1>t, FetchLists
        <3>4. Last(queue[n]).id \in Ids(queue[n])
            BY <3>3, <1>t, RPopKeeps
        <3> QED
            BY <3>2, <3>3, <3>4, SMT DEF Filed, FiledUnder
    <2> QED
        BY <1>1, <2>1, <2>2 DEF KeepsJob
<1> DEFINE Goal == \A p \in Pools : \A n \in Names \ Handles[p] : p \notin lockField'[n]
<1>2. ASSUME UNCHANGED lockVars PROVE Goal
    BY <1>2 DEF JobsUnderName, lockVars
<1>3. ASSUME NEW q \in Pools, NEW m \in Names, m \in Handles[q], NEW d, AddLock(m, q, d) PROVE Goal
    BY <1>t, <1>3 DEF JobsUnderName, AddLock
<1>4. ASSUME NEW w \in F, NEW n \in Names, Fetches(w, n) PROVE Goal
    <2>1. PoolOf[w] \in Pools /\ n \in Handles[PoolOf[w]] /\ AddLock(n, PoolOf[w], 1)
        BY <1>t, <1>4 DEF Fetches, LuaFetchJob
    <2> QED
        BY <1>3, <2>1
<1>5. ASSUME NEW p \in T, TakesBack(p) PROVE Goal
    <2>1. PICK n \in Names : TakesBackOf(p, n)
        BY <1>5, ReenqueueLists DEF TakesBack
    <2> QED
        BY <1>3, <2>1 DEF TakesBackOf
<1>6. ASSUME NEW w \in Workers, RemoveJobFromInProgress(w) PROVE Goal
    <2>1. PICK p, e, n : EndsOf(w, p, e, n)
        BY <1>6, RemoveLists
    <2>2. p \in Pools /\ n \in Names /\ n \in Handles[p] /\ AddLock(n, p, -1)
        BY <2>1 DEF EndsOf, JobsUnderName
    <2> QED
        BY <1>3, <2>2
<1>7. ASSUME NEW q \in G, NEW types \in SUBSET Names, GivesBack(q, types) PROVE Goal
    <2>1. \A n \in Names : lockField'[n] \subseteq lockField[n]
        BY <1>t, <1>7 DEF GivesBack, LuaReapStaleLocks
    <2> QED
        BY <2>1 DEF JobsUnderName
<1> HIDE DEF Goal
<1>8. ASSUME NEW k, NEW e, NEW f, Brings(e) \/ Drops(k, e) \/ Buries(k, e) \/ Revives(k, e, f)
      PROVE  UNCHANGED lockVars
    BY <1>8 DEF Brings, Drops, Buries, Revives, Pushes
<1>9. Goal
    BY <1>2, <1>4, <1>5, <1>6, <1>7, <1>8 DEF JobStep, jobVars
<1> QED
    BY <1>1, <1>9 DEF JobsUnderName, Goal

-----------------------------------------------------------------------------
(* Where a job is. *)

(***************************************************************************)
(* A job is in the queue of its name, in the in-progress list of a pool,   *)
(* or in a sorted set.                                                     *)
(***************************************************************************)
Queued(j) == j \in Ids(queue[NameOf[j]])

Held(p, j) == j \in Ids(inprog[p][NameOf[j]])

Parked(k, j) == \E e \in zset[k] : e.id = j

(***************************************************************************)
(* A job is in one of them at a time, and only once it has been enqueued.  *)
(***************************************************************************)
OneHome(j) ==
    /\ Queued(j) => /\ \A p \in Pools : ~ Held(p, j)
                    /\ \A k \in Zsets : ~ Parked(k, j)
                    /\ j \in enqueued
    /\ \A p \in Pools : Held(p, j) => /\ \A q \in Pools : Held(q, j) => q = p
                                      /\ \A k \in Zsets : ~ Parked(k, j)
                                      /\ j \in enqueued
    /\ \A k \in Zsets : Parked(k, j) => /\ \A l \in Zsets : Parked(l, j) => l = k
                                        /\ j \in enqueued

(***************************************************************************)
(* No list and no sorted set has two entries of one job.                   *)
(***************************************************************************)
NoCopies ==
    /\ \A n \in Names : Distinct(queue[n])
    /\ \A p \in Pools : \A n \in Names : Distinct(inprog[p][n])
    /\ \A k \in Zsets : \A e, f \in zset[k] : e.id = f.id => e = f

DistinctLists ==
    /\ \A n \in Names : Distinct(queue[n])
    /\ \A p \in Pools : \A n \in Names : Distinct(inprog[p][n])

(***************************************************************************)
(* LPUSH of a job queues it.                                               *)
(***************************************************************************)
LEMMA PushHomes ==
    ASSUME StoreTypeOK, NEW e \in Entry, Pushes(e)
    PROVE  /\ \A j \in Jobs : Queued(j)' <=> (Queued(j) \/ j = e.id)
           /\ \A p \in Pools, j \in Jobs : Held(p, j)' <=> Held(p, j)
           /\ NoCopies /\ ~ Queued(e.id) => DistinctLists'
<1>t. /\ queue \in [Names -> Seq(Entry)] /\ \A j \in Jobs : NameOf[j] \in Names
    BY StoreAssumption DEF StoreTypeOK
<1> DEFINE m == NameOf[e.id]
<1>1. /\ m \in Names
      /\ queue'[m] = Cons(e, queue[m])
      /\ \A n \in Names : n # m => queue'[n] = queue[n]
      /\ inprog' = inprog
    BY PushLists
<1>2. Ids(queue'[m]) = Ids(queue[m]) \cup {e.id}
    BY <1>t, <1>1, IdsOfLPush
<1>4. ASSUME NEW j \in Jobs PROVE Queued(j)' <=> (Queued(j) \/ j = e.id)
    <2>1. CASE NameOf[j] = m
        BY <1>2, <2>1 DEF Queued
    <2>2. CASE NameOf[j] # m
        BY <1>t, <1>1, <2>2 DEF Queued
    <2> QED
        BY <2>1, <2>2
<1>5. \A p \in Pools, j \in Jobs : Held(p, j)' <=> Held(p, j)
    BY <1>1 DEF Held
<1>6. ASSUME NoCopies, ~ Queued(e.id) PROVE DistinctLists'
    <2>1. Distinct(queue'[m])
        BY <1>t, <1>1, <1>6, LPushKeeps, SMT DEF NoCopies, Queued
    <2> QED
        BY <1>1, <1>6, <2>1 DEF NoCopies, DistinctLists
<1> QED
    BY <1>4, <1>5, <1>6

(***************************************************************************)
(* A fetch moves a job from its queue to the in-progress list of the pool. *)
(***************************************************************************)
LEMMA FetchHomes ==
    ASSUME StoreTypeOK, Filed, NEW p \in Pools, NEW n \in Names, LuaFetchJob(p, n),
           NEW e, e = Last(queue[n])
    PROVE  /\ e \in Entry /\ e.id \in Jobs /\ NameOf[e.id] = n /\ Queued(e.id)
           /\ \A j \in Jobs : Queued(j)' => Queued(j)
           /\ \A j \in Jobs : Queued(j) /\ j # e.id => Queued(j)'
           /\ \A q \in Pools, j \in Jobs : Held(q, j)' <=> (Held(q, j) \/ (q = p /\ j = e.id))
           /\ Contains(inprog'[p][n], e)
           /\ NoCopies => ~ Queued(e.id)'
           /\ NoCopies /\ ~ Held(p, e.id) => DistinctLists'
<1>t. /\ queue \in [Names -> Seq(Entry)] /\ \A j \in Jobs : NameOf[j] \in Names
      /\ inprog \in [Pools -> [Names -> Seq(Entry)]]
    BY StoreAssumption DEF StoreTypeOK
<1>i. \A f \in Entry : f.id \in Jobs
    BY DEF Entry
<1>1. /\ queue[n] # <<>> /\ e \in Entry
      /\ queue'[n] = Front(queue[n])
      /\ \A m \in Names : m # n => queue'[m] = queue[m]
      /\ inprog'[p][n] = Cons(e, inprog[p][n])
      /\ \A q \in Pools : \A m \in Names : <<q, m>> # <<p, n>> => inprog'[q][m] = inprog[q][m]
    BY FetchLists
<1>s. queue[n] \in Seq(Entry) /\ inprog[p][n] \in Seq(Entry) /\ e.id \in Jobs
    BY <1>t, <1>i, <1>1
<1>2. /\ Ids(queue'[n]) \subseteq Ids(queue[n]) /\ e.id \in Ids(queue[n])
      /\ Ids(queue[n]) \subseteq Ids(queue'[n]) \cup {e.id}
      /\ Distinct(queue[n]) => Distinct(queue'[n]) /\ e.id \notin Ids(queue'[n])
    BY <1>s, <1>1, RPopKeeps, IdsOfRPop, SMT
<1>3. NameOf[e.id] = n /\ Queued(e.id)
    BY <1>2 DEF Filed, FiledUnder, Queued
<1>4. Ids(inprog'[p][n]) = Ids(inprog[p][n]) \cup {e.id}
    BY <1>s, <1>1, IdsOfLPush, SMT
<1>6. ASSUME NEW j \in Jobs
      PROVE  (Queued(j)' => Queued(j)) /\ (Queued(j) /\ j # e.id => Queued(j)')
    <2>1. CASE NameOf[j] = n
        BY <1>2, <2>1 DEF Queued
    <2>2. CASE NameOf[j] # n
        BY <1>t, <1>1, <2>2 DEF Queued
    <2> QED
        BY <2>1, <2>2
<1>7. ASSUME NEW q \in Pools, NEW j \in Jobs
      PROVE  Held(q, j)' <=> (Held(q, j) \/ (q = p /\ j = e.id))
    <2>1. CASE q = p /\ NameOf[j] = n
        BY <1>4, <2>1 DEF Held
    <2>2. CASE ~ (q = p /\ NameOf[j] = n)
        BY <1>t, <1>1, <1>3, <2>2 DEF Held
    <2> QED
        BY <2>1, <2>2
<1>8. Contains(inprog'[p][n], e)
    <2>1. Contains(Cons(e, inprog[p][n]), e)
        BY <1>s, <1>1, LPushKeeps
    <2> QED
        BY <1>1, <2>1
<1>9. ASSUME NoCopies PROVE ~ Queued(e.id)'
    BY <1>2, <1>3, <1>9 DEF NoCopies, Queued
<1>10. ASSUME NoCopies, ~ Held(p, e.id) PROVE DistinctLists'
    <2>1. Distinct(inprog'[p][n])
        BY <1>s, <1>1, <1>3, <1>10, LPushKeeps, SMT DEF NoCopies, Held
    <2> QED
        BY <1>1, <1>2, <1>10, <2>1, SMT DEF NoCopies, DistinctLists
<1> QED
    BY <1>1, <1>s, <1>3, <1>6, <1>7, <1>8, <1>9, <1>10

(***************************************************************************)
(* The requeue script moves a job back to its queue.                       *)
(***************************************************************************)
LEMMA TakeBackHomes ==
    ASSUME StoreTypeOK, Filed, NEW p \in Pools, NEW n \in Names, TakesBackOf(p, n),
           NEW e, e = Last(inprog[p][n])
    PROVE  /\ e \in Entry /\ e.id \in Jobs /\ Held(p, e.id)
           /\ \A j \in Jobs : Queued(j)' <=> (Queued(j) \/ j = e.id)
           /\ \A q \in Pools, j \in Jobs : Held(q, j)' => Held(q, j)
           /\ \A q \in Pools, j \in Jobs : Held(q, j) /\ ~ (q = p /\ j = e.id) => Held(q, j)'
           /\ NoCopies => ~ Held(p, e.id)'
           /\ NoCopies /\ ~ Queued(e.id) => DistinctLists'
<1>t. /\ queue \in [Names -> Seq(Entry)] /\ \A j \in Jobs : NameOf[j] \in Names
      /\ inprog \in [Pools -> [Names -> Seq(Entry)]]
    BY StoreAssumption DEF StoreTypeOK
<1>i. \A f \in Entry : f.id \in Jobs
    BY DEF Entry
<1>1. /\ inprog[p][n] # <<>> /\ e \in Entry
      /\ queue'[n] = Cons(e, queue[n])
      /\ \A m \in Names : m # n => queue'[m] = queue[m]
      /\ inprog'[p][n] = Front(inprog[p][n])
      /\ \A q \in Pools : \A m \in Names : <<q, m>> # <<p, n>> => inprog'[q][m] = inprog[q][m]
    BY DEF TakesBackOf
<1>s. queue[n] \in Seq(Entry) /\ inprog[p][n] \in Seq(Entry) /\ e.id \in Jobs
    BY <1>t, <1>i, <1>1
<1>2. /\ Ids(inprog'[p][n]) \subseteq Ids(inprog[p][n]) /\ e.id \in Ids(inprog[p][n])
      /\ Ids(inprog[p][n]) \subseteq Ids(inprog'[p][n]) \cup {e.id}
      /\ Distinct(inprog[p][n]) => Distinct(inprog'[p][n]) /\ e.id \notin Ids(inprog'[p][n])
    BY <1>s, <1>1, RPopKeeps, IdsOfRPop, SMT
<1>3. NameOf[e.id] = n /\ Held(p, e.id)
    BY <1>2, SMT DEF Filed, FiledUnder, Held
<1>4. Ids(queue'[n]) = Ids(queue[n]) \cup {e.id}
    BY <1>s, <1>1, IdsOfLPush, SMT
<1>6. ASSUME NEW j \in Jobs PROVE Queued(j)' <=> (Queued(j) \/ j = e.id)
    <2>1. CASE NameOf[j] = n
        BY <1>4, <2>1 DEF Queued
    <2>2. CASE NameOf[j] # n
        BY <1>t, <1>1, <1>3, <2>2 DEF Queued
    <2> QED
        BY <2>1, <2>2
<1>7. ASSUME NEW q \in Pools, NEW j \in Jobs
      PROVE  (Held(q, j)' => Held(q, j)) /\ (Held(q, j) /\ ~ (q = p /\ j = e.id) => Held(q, j)')
    <2>1. CASE q = p /\ NameOf[j] = n
        BY <1>2, <2>1 DEF Held
    <2>2. CASE ~ (q = p /\ NameOf[j] = n)
        BY <1>t, <1>1, <2>2 DEF Held
    <2> QED
        BY <2>1, <2>2
<1>8. ASSUME NoCopies PROVE ~ Held(p, e.id)'
    BY <1>2, <1>3, <1>8 DEF NoCopies, Held
<1>9. ASSUME NoCopies, ~ Queued(e.id) PROVE DistinctLists'
    <2>1. Distinct(queue'[n])
        BY <1>s, <1>1, <1>3, <1>9, LPushKeeps, SMT DEF NoCopies, Queued
    <2> QED
        BY <1>1, <1>2, <1>9, <2>1 DEF NoCopies, DistinctLists
<1> QED
    BY <1>1, <1>s, <1>3, <1>6, <1>7, <1>8, <1>9

(***************************************************************************)
(* The end of a job takes it out of the in-progress list of its pool.      *)
(***************************************************************************)
LEMMA EndHomes ==
    ASSUME StoreTypeOK, NEW w, NEW p, NEW e, NEW n, EndsOf(w, p, e, n)
    PROVE  /\ \A j \in Jobs : Queued(j)' <=> Queued(j)
           /\ \A q \in Pools, j \in Jobs : Held(q, j)' => Held(q, j)
           /\ \A q \in Pools, j \in Jobs : Held(q, j) /\ ~ (q = p /\ j = e.id) => Held(q, j)'
           /\ NoCopies /\ Contains(inprog[p][n], e) => Held(p, e.id) /\ ~ Held(p, e.id)'
           /\ NoCopies => DistinctLists'
<1>t. /\ \A j \in Jobs : NameOf[j] \in Names
      /\ inprog \in [Pools -> [Names -> Seq(Entry)]]
    BY StoreAssumption DEF StoreTypeOK
<1>1. /\ p \in Pools /\ e \in Entry /\ n \in Names /\ n = NameOf[e.id] /\ queue' = queue
      /\ inprog'[p][n] = RemoveFirst(inprog[p][n], e)
      /\ \A q \in Pools : \A m \in Names : <<q, m>> # <<p, n>> => inprog'[q][m] = inprog[q][m]
    BY DEF EndsOf
<1> DEFINE s == inprog[p][n]
           u == inprog'[p][n]
<1>s. s \in Seq(Entry)
    BY <1>t, <1>1
<1>2. /\ Ids(u) \subseteq Ids(s) /\ Ids(s) \subseteq Ids(u) \cup {e.id}
      /\ Distinct(s) => Distinct(u)
      /\ Distinct(s) /\ Contains(s, e) => e.id \notin Ids(u)
    <2>1. u = RemoveFirst(s, e) /\ e \in Entry
        BY <1>1
    <2> HIDE DEF s, u
    <2> QED
        BY <1>s, <2>1, LRemKeeps, IdsOfLRem
<1>3. Contains(s, e) => e.id \in Ids(s)
    BY <1>s, IdsByPosition DEF Contains
<1>4. \A j \in Jobs : Queued(j)' <=> Queued(j)
    BY <1>1 DEF Queued
<1>5. ASSUME NEW q \in Pools, NEW j \in Jobs
      PROVE  (Held(q, j)' => Held(q, j)) /\ (Held(q, j) /\ ~ (q = p /\ j = e.id) => Held(q, j)')
    <2>1. CASE q = p /\ NameOf[j] = n
        BY <1>2, <2>1 DEF Held
    <2>2. CASE ~ (q = p /\ NameOf[j] = n)
        BY <1>t, <1>1, <2>2 DEF Held
    <2> QED
        BY <2>1, <2>2
<1>6. ASSUME NoCopies, Contains(s, e) PROVE Held(p, e.id) /\ ~ Held(p, e.id)'
    BY <1>1, <1>2, <1>3, <1>6 DEF NoCopies, Held
<1>7. ASSUME NoCopies PROVE DistinctLists'
    BY <1>1, <1>2, <1>7, SMT DEF NoCopies, DistinctLists
<1> QED
    BY <1>4, <1>5, <1>6, <1>7

Zadds(k, f) == zset' = [zset EXCEPT ![k] = zset[k] \cup {f}]

Zrems(k, e) == zset' = [zset EXCEPT ![k] = zset[k] \ {e}]

(***************************************************************************)
(* ZADD parks a job in a sorted set.                                       *)
(***************************************************************************)
LEMMA ZaddHomes ==
    ASSUME StoreTypeOK, NEW k \in Zsets, NEW f \in Entry, Zadds(k, f)
    PROVE  /\ \A l \in Zsets, j \in Jobs : Parked(l, j)' <=> (Parked(l, j) \/ (l = k /\ j = f.id))
           /\ NoCopies /\ ~ Parked(k, f.id) => \A l \in Zsets : \A e, g \in zset'[l] : e.id = g.id => e = g
<1>1. zset'[k] = zset[k] \cup {f} /\ \A l \in Zsets : l # k => zset'[l] = zset[l]
    BY DEF StoreTypeOK, Zadds
<1>2. \A l \in Zsets, j \in Jobs : Parked(l, j)' <=> (Parked(l, j) \/ (l = k /\ j = f.id))
    BY <1>1 DEF Parked
<1>3. ASSUME NoCopies, ~ Parked(k, f.id)
      PROVE  \A l \in Zsets : \A e, g \in zset'[l] : e.id = g.id => e = g
    <2>1. \A e \in zset[k] : e.id # f.id
        BY <1>3 DEF Parked
    <2> QED
        BY <1>1, <1>3, <2>1, SMT DEF NoCopies
<1> QED
    BY <1>2, <1>3

(***************************************************************************)
(* ZREM of an entry takes the only entry of its job out of a sorted set.   *)
(***************************************************************************)
LEMMA ZremHomes ==
    ASSUME StoreTypeOK, NEW k \in Zsets, NEW e \in zset[k], Zrems(k, e)
    PROVE  /\ \A l \in Zsets, j \in Jobs : Parked(l, j)' => Parked(l, j)
           /\ \A l \in Zsets, j \in Jobs : Parked(l, j) /\ ~ (l = k /\ j = e.id) => Parked(l, j)'
           /\ NoCopies => /\ ~ Parked(k, e.id)'
                          /\ \A l \in Zsets : \A f, g \in zset'[l] : f.id = g.id => f = g
<1>1. zset'[k] = zset[k] \ {e} /\ \A l \in Zsets : l # k => zset'[l] = zset[l]
    BY DEF StoreTypeOK, Zrems
<1>2. \A l \in Zsets, j \in Jobs : Parked(l, j)' => Parked(l, j)
    BY <1>1 DEF Parked
<1>3. \A l \in Zsets, j \in Jobs : Parked(l, j) /\ ~ (l = k /\ j = e.id) => Parked(l, j)'
    BY <1>1 DEF Parked
<1>4. ASSUME NoCopies
      PROVE  ~ Parked(k, e.id)' /\ \A l \in Zsets : \A f, g \in zset'[l] : f.id = g.id => f = g
    <2>1. \A f \in zset'[k] : f \in zset[k] /\ f.id # e.id
        BY <1>1, <1>4 DEF NoCopies
    <2> QED
        BY <1>1, <1>4, <2>1 DEF NoCopies, Parked
<1> QED
    BY <1>2, <1>3, <1>4

(***************************************************************************)
(* The scripts that bury an entry move it from one sorted set to the dead. *)
(***************************************************************************)
LEMMA BuryHomes ==
    ASSUME StoreTypeOK, NEW k \in Zsets, NEW e \in zset[k], Buries(k, e)
    PROVE  /\ \A l \in Zsets, j \in Jobs : Parked(l, j) /\ j # e.id => Parked(l, j)'
           /\ Parked("dead", e.id)'
           /\ \A l \in Zsets, j \in Jobs : Parked(l, j)' /\ j # e.id => Parked(l, j)
           /\ NoCopies /\ (\A l \in Zsets : l # k => ~ Parked(l, e.id)) =>
                /\ \A l \in Zsets : Parked(l, e.id)' => l = "dead"
                /\ \A l \in Zsets : \A f, g \in zset'[l] : f.id = g.id => f = g
<1>t. zset \in [Zsets -> SUBSET Entry] /\ "dead" \in Zsets
    BY DEF StoreTypeOK, Zsets
<1>1. /\ k # "dead" /\ zset'[k] = zset[k] \ {e} /\ zset'["dead"] = zset["dead"] \cup {e}
      /\ \A l \in Zsets : l # k /\ l # "dead" => zset'[l] = zset[l]
    BY <1>t DEF Buries
<1>2. ASSUME NEW l \in Zsets, NEW j \in Jobs, j # e.id PROVE Parked(l, j) <=> Parked(l, j)'
    <2>1. CASE l = k
        BY <1>1, <1>2, <2>1 DEF Parked
    <2>2. CASE l = "dead"
        BY <1>1, <1>2, <2>2 DEF Parked
    <2>3. CASE l # k /\ l # "dead"
        BY <1>1, <2>3 DEF Parked
    <2> QED
        BY <2>1, <2>2, <2>3
<1>3. Parked("dead", e.id)'
    BY <1>1 DEF Parked
<1>4. ASSUME NoCopies, \A l \in Zsets : l # k => ~ Parked(l, e.id)
      PROVE  /\ \A l \in Zsets : Parked(l, e.id)' => l = "dead"
             /\ \A l \in Zsets : \A f, g \in zset'[l] : f.id = g.id => f = g
    <2>1. \A f \in zset'[k] : f \in zset[k] /\ f.id # e.id
        BY <1>1, <1>4 DEF NoCopies
    <2>2. \A l \in Zsets : l # k => \A f \in zset[l] : f.id # e.id
        BY <1>4 DEF Parked
    <2>3. \A l \in Zsets : Parked(l, e.id)' => l = "dead"
        BY <1>1, <2>1, <2>2 DEF Parked
    <2>4. \A f, g \in zset'["dead"] : f.id = g.id => f = g
        BY <1>t, <1>1, <1>4, <2>2 DEF NoCopies
    <2>5. \A l \in Zsets : l # "dead" => \A f, g \in zset'[l] : f.id = g.id => f = g
        BY <1>1, <1>4 DEF NoCopies
    <2> QED
        BY <2>3, <2>4, <2>5
<1> QED
    BY <1>2, <1>3, <1>4

-----------------------------------------------------------------------------
(* No job is lost. *)

InRedis(j) == Queued(j) \/ (\E p \in Pools : Held(p, j)) \/ \E k \in Zsets : Parked(k, j)

(***************************************************************************)
(* Whatever a step does, a job that was in Redis is still there, or the    *)
(* step settled it; and a new job is there at once.                        *)
(***************************************************************************)
LEMMA NoJobLostNext ==
    ASSUME StoreTypeOK, WorkerTypeOK, Filed, NoJobLost, NEW F \in SUBSET Workers,
           NEW T \in SUBSET Pools, NEW G \in SUBSET Pools, JobStep(F, T, G)
    PROVE  NoJobLost'
<1>t. /\ enqueued \subseteq Jobs /\ \A j \in Jobs : NameOf[j] \in Names
      /\ zset \in [Zsets -> SUBSET Entry] /\ "scheduled" \in Zsets /\ "dead" \in Zsets
      /\ \A e \in Entry : e.id \in Jobs
    BY StoreAssumption DEF StoreTypeOK, Zsets, Entry
<1>a. ASSUME NEW j \in enqueued \ settled PROVE InRedis(j)
    <2>1. Stored(j)
        BY DEF NoJobLost
    <2>2. \A n \in Names : j \in Ids(queue[n]) => Queued(j)
        BY DEF Filed, FiledUnder, Queued
    <2>3. \A p \in Pools : \A n \in Names : j \in Ids(inprog[p][n]) => Held(p, j)
        BY DEF Filed, FiledUnder, Held
    <2> QED
        BY <2>1, <2>2, <2>3 DEF Stored, InRedis, Parked
<1>b. ASSUME \A j \in Jobs : j \in enqueued' \ settled' => InRedis(j)', enqueued' \subseteq Jobs
      PROVE  NoJobLost'
    <2>1. ASSUME NEW j \in Jobs, InRedis(j)' PROVE Stored(j)'
        BY <1>t, <2>1 DEF InRedis, Queued, Held, Parked, Stored
    <2> QED
        BY <1>b, <2>1 DEF NoJobLost
<1>c. ASSUME enqueued' \subseteq Jobs, settled \subseteq settled',
             \A j \in Jobs : InRedis(j) \/ j \in enqueued' \ enqueued => InRedis(j)' \/ j \in settled'
      PROVE  NoJobLost'
    <2>1. \A j \in Jobs : j \in enqueued' \ settled' => InRedis(j)'
        BY <1>a, <1>c
    <2> QED
        BY <1>b, <1>c, <2>1
<1>e. ASSUME enqueued' = enqueued, settled \subseteq settled',
             \A j \in Jobs : InRedis(j) => InRedis(j)' \/ j \in settled'
      PROVE  NoJobLost'
    BY <1>t, <1>c, <1>e
<1>d. ASSUME UNCHANGED history, \A j \in Jobs : InRedis(j) => InRedis(j)' PROVE NoJobLost'
    BY <1>e, <1>d DEF history
<1>v. ASSUME UNCHANGED listVars
      PROVE  /\ \A j \in Jobs : Queued(j)' <=> Queued(j)
             /\ \A p \in Pools, j \in Jobs : Held(p, j)' <=> Held(p, j)
    BY <1>v DEF Queued, Held, listVars
<1>z. ASSUME UNCHANGED zset PROVE \A k \in Zsets, j \in Jobs : Parked(k, j)' <=> Parked(k, j)
    BY <1>z DEF Parked
<1>1. ASSUME UNCHANGED <<listVars, zset, history>> PROVE NoJobLost'
    BY <1>1, <1>d, <1>v, <1>z DEF InRedis
<1>2. ASSUME NEW e \in Entry, Brings(e) PROVE NoJobLost'
    <2>1. e.id \in Jobs
        BY <1>t
    <2>2. enqueued' = enqueued \cup {e.id} /\ settled \subseteq settled' /\ enqueued' \subseteq Jobs
        BY <1>t, <1>2, <2>1 DEF Brings
    <2>3. \A j \in Jobs : InRedis(j) \/ j = e.id => InRedis(j)'
        <3>1. CASE Pushes(e) /\ UNCHANGED zset
            BY <1>z, <3>1, PushHomes DEF InRedis
        <3>2. CASE zset' = [zset EXCEPT !["scheduled"] = zset["scheduled"] \cup {e}] /\ UNCHANGED listVars
            <4>1. Zadds("scheduled", e)
                BY <3>2 DEF Zadds
            <4>2. \A l \in Zsets, j \in Jobs : Parked(l, j)' <=> (Parked(l, j) \/ (l = "scheduled" /\ j = e.id))
                BY <1>t, <4>1, ZaddHomes
            <4> QED
                BY <1>t, <1>v, <3>2, <4>2 DEF InRedis
        <3> QED
            BY <1>2, <3>1, <3>2 DEF Brings
    <2>4. \A j \in Jobs : InRedis(j) \/ j \in enqueued' \ enqueued => InRedis(j)'
        BY <2>2, <2>3
    <2> QED
        BY <1>c, <2>2, <2>4
<1>3. ASSUME NEW w \in F, NEW n \in Names, Fetches(w, n) PROVE NoJobLost'
    <2>1. /\ PoolOf[w] \in Pools /\ LuaFetchJob(PoolOf[w], n)
          /\ UNCHANGED zset /\ UNCHANGED history
        BY <1>3, WorkerAssumption DEF Fetches
    <2>2. PICK e : e = Last(queue[n])
        OBVIOUS
    <2>3. /\ \A j \in Jobs : Queued(j) /\ j # e.id => Queued(j)'
          /\ \A q \in Pools, j \in Jobs : Held(q, j)' <=> (Held(q, j) \/ (q = PoolOf[w] /\ j = e.id))
        BY <2>1, <2>2, FetchHomes, SMT
    <2> QED
        BY <1>d, <1>z, <2>1, <2>3 DEF InRedis
<1>4. ASSUME NEW p \in T, TakesBack(p) PROVE NoJobLost'
    <2>1. UNCHANGED zset /\ UNCHANGED history
        BY <1>4 DEF TakesBack
    <2>2. PICK n \in Names : TakesBackOf(p, n)
        BY <1>4, ReenqueueLists DEF TakesBack
    <2>3. PICK e : e = Last(inprog[p][n])
        OBVIOUS
    <2>4. /\ \A j \in Jobs : Queued(j)' <=> (Queued(j) \/ j = e.id)
          /\ \A q \in Pools, j \in Jobs : Held(q, j) /\ ~ (q = p /\ j = e.id) => Held(q, j)'
        BY <2>2, <2>3, TakeBackHomes, SMT
    <2> QED
        BY <1>d, <1>z, <2>1, <2>4 DEF InRedis
<1>5. ASSUME NEW w \in Workers, RemoveJobFromInProgress(w) PROVE NoJobLost'
    <2>1. PICK p, e, n : EndsOf(w, p, e, n)
        BY <1>5, RemoveLists
    <2>2. /\ \A j \in Jobs : Queued(j)' <=> Queued(j)
          /\ \A q \in Pools, j \in Jobs : Held(q, j) /\ ~ (q = p /\ j = e.id) => Held(q, j)'
        BY <2>1, EndHomes
    <2>3. enqueued' = enqueued /\ settled \subseteq settled'
        BY <2>1 DEF EndsOf
    <2>4. CASE zset' = zset /\ settled' = settled \cup {e.id}
        <3>1. \A j \in Jobs : InRedis(j) => InRedis(j)' \/ j \in settled'
            BY <1>z, <2>2, <2>4 DEF InRedis
        <3> QED
            BY <1>e, <2>3, <3>1
    <2>5. ASSUME NEW k \in Zsets, NEW f \in Entry, f.id = e.id,
                 zset' = [zset EXCEPT ![k] = zset[k] \cup {f}]
          PROVE  NoJobLost'
        <3>1. Zadds(k, f)
            BY <2>5 DEF Zadds
        <3>2. \A l \in Zsets, j \in Jobs : Parked(l, j)' <=> (Parked(l, j) \/ (l = k /\ j = f.id))
            BY <3>1, ZaddHomes
        <3>3. \A j \in Jobs : InRedis(j) => InRedis(j)'
            BY <2>2, <2>5, <3>2 DEF InRedis
        <3> QED
            BY <1>e, <2>3, <3>3
    <2> QED
        BY <2>1, <2>4, <2>5 DEF EndsOf
<1>6. ASSUME NEW p \in G, NEW types \in SUBSET Names, GivesBack(p, types) PROVE NoJobLost'
    BY <1>1, <1>6 DEF GivesBack
<1>7. ASSUME NEW k \in Zsets, NEW e \in zset[k],
             Drops(k, e) \/ Buries(k, e) \/ \E f \in Entry : Revives(k, e, f)
      PROVE  NoJobLost'
    <2>1. CASE Drops(k, e)
        <3>1. enqueued' = enqueued /\ settled' = settled \cup {e.id} /\ Zrems(k, e) /\ UNCHANGED listVars
            BY <2>1 DEF Drops, Zrems
        <3>2. \A l \in Zsets, j \in Jobs : Parked(l, j) /\ ~ (l = k /\ j = e.id) => Parked(l, j)'
            BY <3>1, ZremHomes
        <3>3. \A j \in Jobs : InRedis(j) => InRedis(j)' \/ j \in settled'
            BY <1>v, <3>1, <3>2 DEF InRedis
        <3> QED
            BY <1>e, <3>1, <3>3
    <2>2. CASE Buries(k, e)
        <3>1. UNCHANGED listVars /\ UNCHANGED history
            BY <2>2 DEF Buries
        <3>2. /\ \A l \in Zsets, j \in Jobs : Parked(l, j) /\ j # e.id => Parked(l, j)'
              /\ Parked("dead", e.id)'
            BY <2>2, BuryHomes
        <3> QED
            BY <1>t, <1>d, <1>v, <3>1, <3>2 DEF InRedis
    <2>3. ASSUME NEW f \in Entry, Revives(k, e, f) PROVE NoJobLost'
        <3>1. f.id = e.id /\ Zrems(k, e) /\ Pushes(f) /\ UNCHANGED history
            BY <2>3 DEF Revives, Zrems
        <3>2. \A l \in Zsets, j \in Jobs : Parked(l, j) /\ ~ (l = k /\ j = e.id) => Parked(l, j)'
            BY <3>1, ZremHomes
        <3>3. /\ \A j \in Jobs : Queued(j)' <=> (Queued(j) \/ j = e.id)
              /\ \A p \in Pools, j \in Jobs : Held(p, j)' <=> Held(p, j)
            BY <3>1, PushHomes
        <3> QED
            BY <1>d, <3>1, <3>2, <3>3 DEF InRedis
    <2> QED
        BY <1>7, <2>1, <2>2, <2>3
<1> QED
    BY <1>1, <1>2, <1>3, <1>4, <1>5, <1>6, <1>7 DEF JobStep, jobVars

-----------------------------------------------------------------------------
(* One place and one worker. *)

Homes == NoCopies /\ \A j \in Jobs : OneHome(j)

OneWorker == \A v, w \in Workers : v # w /\ wpc[v] \in Busy /\ wpc[w] \in Busy => wjob[v].id # wjob[w].id

(***************************************************************************)
(* Every job is in one place and with one worker, and the job of a worker  *)
(* is in the in-progress list of the worker's pool.                        *)
(***************************************************************************)
SinglePlace == Homes /\ OneWorker /\ RunningJobHeld

(***************************************************************************)
(* What a worker has is in progress in its pool.                           *)
(***************************************************************************)
LEMMA BusyHolds ==
    ASSUME StoreTypeOK, WorkerTypeOK, RunningJobHeld, NEW w \in Workers, wpc[w] \in Busy
    PROVE  /\ PoolOf[w] \in Pools /\ wjob[w] \in Entry /\ wjob[w].id \in Jobs
           /\ NameOf[wjob[w].id] \in Names
           /\ Held(PoolOf[w], wjob[w].id)
<1>1. /\ PoolOf[w] \in Pools /\ wjob[w] \in Entry /\ wjob[w].id \in Jobs
      /\ NameOf[wjob[w].id] \in Names
    BY StoreAssumption, WorkerAssumption DEF WorkerTypeOK, Busy, Entry
<1> DEFINE s == inprog[PoolOf[w]][NameOf[wjob[w].id]]
<1>2. s \in Seq(Entry) /\ Contains(s, wjob[w])
    BY <1>1 DEF StoreTypeOK, RunningJobHeld
<1>3. wjob[w].id \in Ids(s)
    <2> HIDE DEF s
    <2> QED
        BY <1>2, IdsByPosition DEF Contains
<1> QED
    BY <1>1, <1>3 DEF Held

(***************************************************************************)
(* One step keeps every job in one place.                                  *)
(***************************************************************************)
LEMMA HomesNext ==
    ASSUME StoreTypeOK, WorkerTypeOK, Filed, SinglePlace, NEW F \in SUBSET Workers,
           NEW T \in SUBSET Pools, NEW G \in SUBSET Pools, JobStep(F, T, G)
    PROVE  Homes'
<1>h. NoCopies /\ (\A j \in Jobs : OneHome(j)) /\ RunningJobHeld
    BY DEF SinglePlace, Homes
<1>z. /\ zset \in [Zsets -> SUBSET Entry] /\ \A e \in Entry : e.id \in Jobs
      /\ "scheduled" \in Zsets /\ "dead" \in Zsets
    BY DEF StoreTypeOK, Entry, Zsets
<1>g. ASSUME DistinctLists', \A k \in Zsets : \A e, f \in zset'[k] : e.id = f.id => e = f,
             \A j \in Jobs : OneHome(j)'
      PROVE  Homes'
    BY <1>g DEF Homes, NoCopies, DistinctLists
<1>u. ASSUME zset' = zset
      PROVE  /\ \A k \in Zsets, j \in Jobs : Parked(k, j)' <=> Parked(k, j)
             /\ \A k \in Zsets : \A e, f \in zset'[k] : e.id = f.id => e = f
    BY <1>u, <1>h DEF Parked, NoCopies
<1>v. ASSUME UNCHANGED listVars
      PROVE  /\ \A j \in Jobs : Queued(j)' <=> Queued(j)
             /\ \A p \in Pools, j \in Jobs : Held(p, j)' <=> Held(p, j)
             /\ DistinctLists'
    BY <1>v, <1>h DEF Queued, Held, NoCopies, listVars, DistinctLists
<1>1. ASSUME UNCHANGED <<listVars, zset, enqueued>> PROVE Homes'
    <2>1. \A j \in Jobs : OneHome(j)'
        BY <1>h, <1>1, <1>u, <1>v DEF OneHome
    <2> QED
        BY <1>1, <1>g, <1>u, <1>v, <2>1
<1>2. ASSUME NEW e \in Entry, Brings(e) PROVE Homes'
    <2>1. e.id \in Jobs /\ e.id \notin enqueued /\ enqueued' = enqueued \cup {e.id}
        BY <1>z, <1>2 DEF Brings
    <2>2. ~ Queued(e.id) /\ (\A p \in Pools : ~ Held(p, e.id)) /\ \A k \in Zsets : ~ Parked(k, e.id)
        BY <1>h, <2>1 DEF OneHome
    <2>4. CASE Pushes(e) /\ zset' = zset
        <3>1. /\ \A j \in Jobs : Queued(j)' <=> (Queued(j) \/ j = e.id)
              /\ \A p \in Pools, j \in Jobs : Held(p, j)' <=> Held(p, j)
              /\ DistinctLists'
            BY <1>h, <2>2, <2>4, PushHomes
        <3>2. \A j \in Jobs : OneHome(j)'
            BY <1>h, <1>u, <2>1, <2>2, <2>4, <3>1 DEF OneHome
        <3> QED
            BY <1>g, <1>u, <2>4, <3>1, <3>2
    <2>5. CASE zset' = [zset EXCEPT !["scheduled"] = zset["scheduled"] \cup {e}] /\ UNCHANGED listVars
        <3>1. Zadds("scheduled", e)
            BY <2>5 DEF Zadds
        <3>2. /\ \A l \in Zsets, i \in Jobs : Parked(l, i)' <=> (Parked(l, i) \/ (l = "scheduled" /\ i = e.id))
              /\ \A l \in Zsets : \A f, g \in zset'[l] : f.id = g.id => f = g
            BY <1>h, <1>z, <2>2, <3>1, ZaddHomes
        <3>3. \A j \in Jobs : OneHome(j)'
            BY <1>h, <1>v, <2>1, <2>2, <2>5, <3>2, SMT DEF OneHome
        <3> QED
            BY <1>g, <1>v, <2>5, <3>2, <3>3
    <2> QED
        BY <1>2, <2>4, <2>5 DEF Brings
<1>3. ASSUME NEW w \in F, NEW n \in Names, Fetches(w, n) PROVE Homes'
    <2>1. PoolOf[w] \in Pools /\ LuaFetchJob(PoolOf[w], n) /\ zset' = zset /\ enqueued' = enqueued
        BY <1>3, WorkerAssumption DEF Fetches, history
    <2>2. PICK p \in Pools : p = PoolOf[w]
        BY <2>1
    <2>3. PICK e : e = Last(queue[n])
        OBVIOUS
    <2>4. LuaFetchJob(p, n)
        BY <2>1, <2>2
    <2>5. Queued(e.id) /\ e.id \in Jobs
        BY <2>3, <2>4, FetchHomes
    <2>6. ~ Held(p, e.id)
        BY <1>h, <2>5 DEF OneHome
    <2>7. /\ \A j \in Jobs : Queued(j)' => Queued(j)
          /\ ~ Queued(e.id)'
          /\ \A q \in Pools, j \in Jobs : Held(q, j)' <=> (Held(q, j) \/ (q = p /\ j = e.id))
          /\ DistinctLists'
        BY <1>h, <2>3, <2>4, <2>6, FetchHomes, SMTT(60)
    <2>8. \A j \in Jobs : OneHome(j)'
        BY <1>h, <1>u, <2>1, <2>5, <2>7, SMT DEF OneHome
    <2> QED
        BY <1>g, <1>u, <2>1, <2>7, <2>8
<1>4. ASSUME NEW p \in T, TakesBack(p) PROVE Homes'
    <2>1. zset' = zset /\ enqueued' = enqueued
        BY <1>4 DEF TakesBack, history
    <2>2. PICK n \in Names : TakesBackOf(p, n)
        BY <1>4, ReenqueueLists DEF TakesBack
    <2>3. PICK e : e = Last(inprog[p][n])
        OBVIOUS
    <2>4. Held(p, e.id) /\ e.id \in Jobs
        BY <2>2, <2>3, TakeBackHomes
    <2>5. ~ Queued(e.id)
        BY <1>h, <2>4 DEF OneHome
    <2>6. /\ \A j \in Jobs : Queued(j)' <=> (Queued(j) \/ j = e.id)
          /\ \A q \in Pools, j \in Jobs : Held(q, j)' => Held(q, j)
          /\ ~ Held(p, e.id)'
          /\ DistinctLists'
        BY <1>h, <2>2, <2>3, <2>5, TakeBackHomes
    <2>7. \A j \in Jobs : OneHome(j)'
        BY <1>h, <1>u, <2>1, <2>4, <2>6, SMTT(60) DEF OneHome
    <2> QED
        BY <1>g, <1>u, <2>1, <2>6, <2>7
<1>5. ASSUME NEW w \in Workers, RemoveJobFromInProgress(w) PROVE Homes'
    <2>1. PICK p, e, n : EndsOf(w, p, e, n)
        BY <1>5, RemoveLists
    <2>2. /\ wpc[w] \in Busy /\ p = PoolOf[w] /\ e = wjob[w] /\ n = NameOf[e.id] /\ enqueued' = enqueued
          /\ p \in Pools /\ e.id \in Jobs
        BY <2>1 DEF EndsOf
    <2>3. Held(p, e.id) /\ Contains(inprog[p][n], e)
        BY <1>h, <2>2, BusyHolds DEF RunningJobHeld
    <2>4. /\ ~ Queued(e.id) /\ e.id \in enqueued
          /\ \A k \in Zsets : ~ Parked(k, e.id)
          /\ \A q \in Pools : Held(q, e.id) => q = p
        BY <1>h, <2>2, <2>3 DEF OneHome
    <2>5. /\ \A j \in Jobs : Queued(j)' <=> Queued(j)
          /\ \A q \in Pools, j \in Jobs : Held(q, j)' => Held(q, j)
          /\ ~ Held(p, e.id)'
          /\ DistinctLists'
        BY <1>h, <2>1, <2>3, EndHomes
    <2>6. CASE zset' = zset
        <3>1. \A j \in Jobs : OneHome(j)'
            BY <1>h, <1>u, <2>2, <2>5, <2>6 DEF OneHome
        <3> QED
            BY <1>g, <1>u, <2>5, <2>6, <3>1
    <2>7. ASSUME NEW k \in Zsets, NEW f \in Entry, f.id = e.id,
                 zset' = [zset EXCEPT ![k] = zset[k] \cup {f}]
          PROVE  Homes'
        <3>1. Zadds(k, f) /\ ~ Parked(k, f.id)
            BY <2>4, <2>7 DEF Zadds
        <3>2. /\ \A l \in Zsets, j \in Jobs : Parked(l, j)' <=> (Parked(l, j) \/ (l = k /\ j = f.id))
              /\ \A l \in Zsets : \A h, g \in zset'[l] : h.id = g.id => h = g
            BY <1>h, <3>1, ZaddHomes
        <3>3. \A j \in Jobs : OneHome(j)'
            BY <1>h, <2>2, <2>4, <2>5, <2>7, <3>2, SMTT(60) DEF OneHome
        <3> QED
            BY <1>g, <2>5, <3>2, <3>3
    <2> QED
        BY <2>1, <2>6, <2>7 DEF EndsOf
<1>6. ASSUME NEW p \in G, NEW types \in SUBSET Names, GivesBack(p, types) PROVE Homes'
    BY <1>1, <1>6 DEF GivesBack, history
<1>7. ASSUME NEW k \in Zsets, NEW e \in zset[k],
             Drops(k, e) \/ Buries(k, e) \/ \E f \in Entry : Revives(k, e, f)
      PROVE  Homes'
    <2>1. e \in Entry /\ e.id \in Jobs /\ Parked(k, e.id)
        BY <1>z DEF Parked
    <2>2. /\ ~ Queued(e.id) /\ e.id \in enqueued /\ (\A q \in Pools : ~ Held(q, e.id))
          /\ \A l \in Zsets : l # k => ~ Parked(l, e.id)
        BY <1>h, <2>1 DEF OneHome
    <2>3. CASE Drops(k, e)
        <3>1. Zrems(k, e) /\ UNCHANGED listVars /\ enqueued' = enqueued
            BY <2>3 DEF Drops, Zrems
        <3>2. /\ \A l \in Zsets, j \in Jobs : Parked(l, j)' => Parked(l, j)
              /\ \A l \in Zsets : \A f, g \in zset'[l] : f.id = g.id => f = g
            BY <1>h, <3>1, ZremHomes
        <3>3. \A j \in Jobs : OneHome(j)'
            BY <1>h, <1>v, <3>1, <3>2 DEF OneHome
        <3> QED
            BY <1>g, <1>v, <3>1, <3>2, <3>3
    <2>4. CASE Buries(k, e)
        <3>1. UNCHANGED listVars /\ enqueued' = enqueued
            BY <2>4 DEF Buries, history
        <3>2. /\ \A l \in Zsets, j \in Jobs : Parked(l, j)' /\ j # e.id => Parked(l, j)
              /\ \A l \in Zsets : Parked(l, e.id)' => l = "dead"
              /\ \A l \in Zsets : \A f, g \in zset'[l] : f.id = g.id => f = g
            BY <1>h, <2>2, <2>4, BuryHomes
        <3>3. \A j \in Jobs : OneHome(j)'
            BY <1>h, <1>v, <2>2, <3>1, <3>2, SMTT(60) DEF OneHome
        <3> QED
            BY <1>g, <1>v, <3>1, <3>2, <3>3
    <2>5. ASSUME NEW f \in Entry, Revives(k, e, f) PROVE Homes'
        <3>1. f.id = e.id /\ Zrems(k, e) /\ Pushes(f) /\ enqueued' = enqueued
            BY <2>5 DEF Revives, Zrems, history
        <3>2. /\ \A l \in Zsets, j \in Jobs : Parked(l, j)' => Parked(l, j)
              /\ ~ Parked(k, e.id)'
              /\ \A l \in Zsets : \A h, g \in zset'[l] : h.id = g.id => h = g
            BY <1>h, <3>1, ZremHomes
        <3>3. /\ \A j \in Jobs : Queued(j)' <=> (Queued(j) \/ j = e.id)
              /\ \A p \in Pools, j \in Jobs : Held(p, j)' <=> Held(p, j)
              /\ DistinctLists'
            BY <1>h, <2>2, <3>1, PushHomes
        <3>4. \A j \in Jobs : OneHome(j)'
            BY <1>h, <2>2, <3>1, <3>2, <3>3, SMT DEF OneHome
        <3> QED
            BY <1>g, <3>2, <3>3, <3>4
    <2> QED
        BY <1>7, <2>3, <2>4, <2>5
<1> QED
    BY <1>1, <1>2, <1>3, <1>4, <1>5, <1>6, <1>7 DEF JobStep, jobVars, history

(***************************************************************************)
(* No step but its own end takes the job of a worker out of the in-progress*)
(* list, if nobody requeues for the pools of working workers.              *)
(***************************************************************************)
LEMMA KeepsHolding ==
    ASSUME StoreTypeOK, WorkerTypeOK, Filed, SinglePlace, NEW F \in SUBSET Workers,
           NEW T \in SUBSET Pools, NEW G \in SUBSET Pools, JobStep(F, T, G),
           NEW w \in Workers, wpc[w] \in Busy, wpc'[w] \in Busy,
           NEW p \in Pools \ T, p = PoolOf[w], NEW e \in Entry, e = wjob[w], NEW n \in Names, n = NameOf[e.id]
    PROVE  Contains(inprog'[p][n], e)
<1>s. inprog[p][n] \in Seq(Entry)
    BY SMT DEF StoreTypeOK
<1>h. Contains(inprog[p][n], e)
    BY DEF SinglePlace, RunningJobHeld
<1>u. ASSUME inprog'[p][n] = inprog[p][n] PROVE Contains(inprog'[p][n], e)
    BY <1>h, <1>u
<1>1. ASSUME UNCHANGED inprog PROVE Contains(inprog'[p][n], e)
    BY <1>1, <1>u
<1>2. ASSUME NEW f \in Entry, Brings(f) PROVE Contains(inprog'[p][n], e)
    BY <1>2, <1>1 DEF Brings, Pushes, listVars
<1>3. ASSUME NEW v \in F, NEW m \in Names, Fetches(v, m) PROVE Contains(inprog'[p][n], e)
    <2>1. PICK q \in Pools : q = PoolOf[v]
        BY WorkerAssumption
    <2>2. /\ Last(queue[m]) \in Entry
          /\ inprog'[q][m] = Cons(Last(queue[m]), inprog[q][m])
          /\ \A r \in Pools : \A o \in Names : <<r, o>> # <<q, m>> => inprog'[r][o] = inprog[r][o]
        <3>1. LuaFetchJob(q, m)
            BY <1>3, <2>1 DEF Fetches
        <3> QED
            BY <3>1, FetchLists, SMTT(60)
    <2>3. CASE <<p, n>> # <<q, m>>
        BY <1>u, <2>2, <2>3
    <2>4. CASE p = q /\ n = m
        <3>1. inprog'[p][n] = Cons(Last(queue[m]), inprog[p][n])
            BY <2>2, <2>4
        <3>2. Contains(Cons(Last(queue[m]), inprog[p][n]), e)
            BY <1>s, <1>h, <2>2, LPushKeeps
        <3> QED
            BY <3>1, <3>2
    <2> QED
        BY <2>3, <2>4
<1>4. ASSUME NEW q \in T, TakesBack(q) PROVE Contains(inprog'[p][n], e)
    <2>1. PICK m \in Names : TakesBackOf(q, m)
        BY <1>4, ReenqueueLists DEF TakesBack
    <2>2. /\ \A r \in Pools : \A o \in Names : <<r, o>> # <<q, m>> => inprog'[r][o] = inprog[r][o]
          /\ <<p, n>> # <<q, m>>
        BY <2>1 DEF TakesBackOf
    <2> QED
        BY <1>u, <2>2
<1>5. ASSUME NEW v \in Workers, RemoveJobFromInProgress(v) PROVE Contains(inprog'[p][n], e)
    <2>1. PICK q, f, m : EndsOf(v, q, f, m)
        BY <1>5, RemoveLists
    <2>2. wpc[v] \in Busy
        BY <2>1 DEF EndsOf
    <2>0. wpc'[v] = "idle"
        BY <1>5, SMT DEF RemoveJobFromInProgress, Become, WorkerTypeOK
    <2>3. v # w
        BY <2>0, <2>2 DEF Busy
    <2>4. /\ q \in Pools /\ f \in Entry /\ m \in Names /\ f = wjob[v]
          /\ inprog'[q][m] = RemoveFirst(inprog[q][m], f)
          /\ \A r \in Pools : \A o \in Names : <<r, o>> # <<q, m>> => inprog'[r][o] = inprog[r][o]
        BY <2>1 DEF EndsOf
    <2>5. f # e
        BY <2>2, <2>3, <2>4 DEF SinglePlace, OneWorker
    <2>6. CASE <<p, n>> # <<q, m>>
        BY <1>u, <2>4, <2>6
    <2>7. CASE p = q /\ n = m
        <3>1. inprog'[p][n] = RemoveFirst(inprog[p][n], f)
            BY <2>4, <2>7
        <3>2. Contains(RemoveFirst(inprog[p][n], f), e)
            BY <1>s, <1>h, <2>4, <2>5, LRemKeeps
        <3> QED
            BY <3>1, <3>2
    <2> QED
        BY <2>6, <2>7
<1>6. ASSUME NEW q \in G, NEW types \in SUBSET Names, GivesBack(q, types) PROVE Contains(inprog'[p][n], e)
    BY <1>6, <1>1 DEF GivesBack, listVars
<1>7. ASSUME NEW k \in Zsets, NEW f \in zset[k],
             Drops(k, f) \/ Buries(k, f) \/ \E g \in Entry : Revives(k, f, g)
      PROVE  Contains(inprog'[p][n], e)
    <2>1. UNCHANGED inprog
        BY <1>7 DEF Drops, Buries, Revives, Pushes, listVars
    <2> QED
        BY <1>1, <2>1
<1>8. ASSUME UNCHANGED jobVars PROVE Contains(inprog'[p][n], e)
    BY <1>8, <1>1 DEF jobVars, listVars
<1> QED
    BY <1>2, <1>3, <1>4, <1>5, <1>6, <1>7, <1>8 DEF JobStep

(***************************************************************************)
(* A worker that fetches a job gets one that no other worker has.          *)
(***************************************************************************)
LEMMA FetchedAlone ==
    ASSUME StoreTypeOK, WorkerTypeOK, Filed, SinglePlace, NEW w \in Workers, FetchJob(w)
    PROVE  /\ wjob'[w] \in Entry
           /\ Contains(inprog'[PoolOf[w]][NameOf[wjob'[w].id]], wjob'[w])
           /\ \A v \in Workers : v # w => /\ wpc'[v] = wpc[v] /\ wjob'[v] = wjob[v]
                                          /\ wpc[v] \in Busy => wjob[v].id # wjob'[w].id
<1>1. PICK n \in Names : LuaFetchJob(PoolOf[w], n) /\ Become(w, "running", Last(queue[n]))
    BY DEF FetchJob
<1>2. PICK p \in Pools : p = PoolOf[w]
    BY WorkerAssumption
<1>3. PICK e : e = Last(queue[n])
    OBVIOUS
<1>4. LuaFetchJob(p, n)
    BY <1>1, <1>2
<1>5. /\ e \in Entry /\ e.id \in Jobs /\ NameOf[e.id] = n /\ Queued(e.id)
      /\ Contains(inprog'[p][n], e)
    BY <1>3, <1>4, FetchHomes
<1>6. wjob'[w] = e /\ \A v \in Workers : v # w => wpc'[v] = wpc[v] /\ wjob'[v] = wjob[v]
    BY <1>1, <1>3 DEF Become, WorkerTypeOK
<1>7. ASSUME NEW v \in Workers, wpc[v] \in Busy PROVE wjob[v].id # e.id
    <2>1. PoolOf[v] \in Pools /\ Held(PoolOf[v], wjob[v].id) /\ wjob[v].id \in Jobs
        BY <1>7, BusyHolds DEF SinglePlace
    <2> QED
        BY <1>5, <2>1 DEF SinglePlace, Homes, OneHome
<1> QED
    BY <1>2, <1>5, <1>6, <1>7

(***************************************************************************)
(* One step, if nobody requeues for the pools of working workers.          *)
(***************************************************************************)
LEMMA SinglePlaceNext ==
    ASSUME StoreTypeOK, WorkerTypeOK, Filed, SinglePlace, NEW F \in SUBSET Workers,
           NEW T \in SUBSET Pools, NEW G \in SUBSET Pools, JobStep(F, T, G),
           \A w \in Workers : KeepsJob(w),
           \A w \in Workers : wpc[w] \in Busy => PoolOf[w] \notin T
    PROVE  SinglePlace'
<1>1. Homes'
    BY HomesNext
<1>2. ASSUME NEW w \in Workers, wpc'[w] \in Busy
      PROVE  Contains(inprog'[PoolOf[w]][NameOf[wjob'[w].id]], wjob'[w])
    <2>1. CASE FetchJob(w)
        BY <2>1, FetchedAlone
    <2>2. CASE wpc[w] \in Busy /\ wjob'[w] = wjob[w]
        <3>1. PoolOf[w] \in Pools /\ wjob[w] \in Entry /\ NameOf[wjob[w].id] \in Names
            BY <2>2, BusyHolds DEF SinglePlace
        <3>2. PoolOf[w] \in Pools \ T
            BY <2>2, <3>1
        <3>3. Contains(inprog'[PoolOf[w]][NameOf[wjob[w].id]], wjob[w])
            BY <1>2, <2>2, <3>1, <3>2, KeepsHolding
        <3> QED
            BY <2>2, <3>3
    <2> QED
        BY <1>2, <2>1, <2>2 DEF KeepsJob
<1>3. RunningJobHeld'
    BY <1>2 DEF RunningJobHeld
<1>4. ASSUME NEW v \in Workers, NEW w \in Workers, v # w, wpc'[v] \in Busy, wpc'[w] \in Busy
      PROVE  wjob'[v].id # wjob'[w].id
    <2>1. CASE FetchJob(w)
        <3>1. wpc[v] \in Busy /\ wjob'[v] = wjob[v]
            BY <1>4, <2>1, FetchedAlone
        <3> QED
            BY <1>4, <2>1, <3>1, FetchedAlone
    <2>2. CASE FetchJob(v)
        <3>1. wpc[w] \in Busy /\ wjob'[w] = wjob[w]
            BY <1>4, <2>2, FetchedAlone
        <3> QED
            BY <1>4, <2>2, <3>1, FetchedAlone, SMTT(60)
    <2>3. CASE wpc[w] \in Busy /\ wjob'[w] = wjob[w] /\ wpc[v] \in Busy /\ wjob'[v] = wjob[v]
        BY <1>4, <2>3 DEF SinglePlace, OneWorker
    <2> QED
        BY <1>4, <2>1, <2>2, <2>3 DEF KeepsJob
<1>5. OneWorker'
    BY <1>4 DEF OneWorker
<1> QED
    BY <1>1, <1>3, <1>5 DEF SinglePlace

(***************************************************************************)
(* All of this holds while there is no job yet.                            *)
(***************************************************************************)
LEMMA NoJobYet ==
    ASSUME StoreTypeOK, StoreInit, WorkerInit
    PROVE  Filed /\ JobsUnderName /\ SinglePlace /\ NoJobLost
<1>1. /\ \A n \in Names : queue[n] = <<>> /\ \A p \in Pools : inprog[p][n] = <<>>
      /\ \A k \in Zsets : zset[k] = {}
      /\ \A n \in Names : lockField[n] = {}
      /\ \A w \in Workers : wpc[w] \notin Busy
      /\ enqueued = {}
    BY DEF StoreInit, WorkerInit, Zsets, Busy
<1>2. \A n \in Names : /\ Ids(queue[n]) = {} /\ Distinct(queue[n])
                       /\ \A p \in Pools : Ids(inprog[p][n]) = {} /\ Distinct(inprog[p][n])
    <2>1. ASSUME NEW s \in Seq(Entry), s = <<>> PROVE Ids(s) = {} /\ Distinct(s)
        BY <2>1, EmptyIds
    <2>2. \A n \in Names : queue[n] \in Seq(Entry) /\ \A p \in Pools : inprog[p][n] \in Seq(Entry)
        BY DEF StoreTypeOK
    <2> QED
        BY <1>1, <2>1, <2>2
<1>3. Filed
    BY <1>1, <1>2 DEF Filed, FiledUnder
<1>4. NoJobLost
    BY <1>1 DEF NoJobLost
<1>5. NoCopies
    BY <1>1, <1>2 DEF NoCopies
<1>6. \A j \in Jobs : OneHome(j)
    BY <1>1, <1>2, StoreAssumption DEF OneHome, Queued, Held, Parked
<1>7. OneWorker /\ RunningJobHeld
    BY <1>1 DEF OneWorker, RunningJobHeld
<1>8. JobsUnderName
    BY <1>1, <1>2 DEF JobsUnderName
<1> QED
    BY <1>3, <1>4, <1>5, <1>6, <1>7, <1>8 DEF SinglePlace, Homes

(***************************************************************************)
(* Any two places of a job are the same.                                   *)
(***************************************************************************)
LEMMA PlacesAgree ==
    ASSUME StoreTypeOK, Filed, SinglePlace, NEW j \in Jobs,
           NEW x \in Places(j), NEW y \in Places(j)
    PROVE  x = y
<1>t. /\ queue \in [Names -> Seq(Entry)] /\ inprog \in [Pools -> [Names -> Seq(Entry)]]
    BY DEF StoreTypeOK
<1> DEFINE InQueue(z) == \E n \in Names : \E i \in Positions(queue[n], j) : z = <<n, i>>
           InProg(z) == \E p \in Pools : \E n \in Names :
                            \E i \in Positions(inprog[p][n], j) : z = <<<<p, n>>, i>>
           InZset(z) == \E k \in Zsets : \E e \in zset[k] : e.id = j /\ z = <<k, e>>
<1>1. ASSUME NEW z \in Places(j) PROVE InQueue(z) \/ InProg(z) \/ InZset(z)
    <2> DEFINE A == UNION {{n} \X Positions(queue[n], j) : n \in Names}
               B == UNION {{<<p, n>>} \X Positions(inprog[p][n], j) : p \in Pools, n \in Names}
               C == UNION {{k} \X {e \in zset[k] : e.id = j} : k \in Zsets}
    <2>1. Places(j) = A \cup B \cup C
        BY SMT DEF Places
    <2>2. z \in A => InQueue(z)
        BY SMT
    <2>3. z \in B => InProg(z)
        BY SMT
    <2>4. z \in C => InZset(z)
        BY SMT
    <2> HIDE DEF A, B, C, InQueue, InProg, InZset
    <2> QED
        BY <1>1, <2>1, <2>2, <2>3, <2>4
<1>2. ASSUME NEW n \in Names, NEW i \in Positions(queue[n], j)
      PROVE  n = NameOf[j] /\ Queued(j) /\ \A h \in Positions(queue[n], j) : h = i
    <2>1. j \in Ids(queue[n])
        BY <1>t, <1>2, IdsByPosition DEF Positions
    <2>2. n = NameOf[j] /\ Queued(j)
        BY <2>1 DEF Filed, FiledUnder, Queued
    <2>3. \A h \in Positions(queue[n], j) : h = i
        BY <1>2 DEF SinglePlace, Homes, NoCopies, Distinct, Positions
    <2> QED
        BY <2>2, <2>3
<1>3. ASSUME NEW p \in Pools, NEW n \in Names, NEW i \in Positions(inprog[p][n], j)
      PROVE  n = NameOf[j] /\ Held(p, j) /\ \A h \in Positions(inprog[p][n], j) : h = i
    <2>1. j \in Ids(inprog[p][n])
        BY <1>t, <1>3, IdsByPosition, SMT DEF Positions
    <2>2. n = NameOf[j] /\ Held(p, j)
        BY <2>1 DEF Filed, FiledUnder, Held
    <2>3. \A h \in Positions(inprog[p][n], j) : h = i
        BY <1>3 DEF SinglePlace, Homes, NoCopies, Distinct, Positions
    <2> QED
        BY <2>2, <2>3
<1>4. ASSUME NEW z, InQueue(z)
      PROVE  /\ Queued(j)
             /\ \A u : InQueue(u) => u = z
    BY <1>2, <1>4
<1>5. ASSUME NEW z, InProg(z)
      PROVE  /\ \E p \in Pools : Held(p, j)
             /\ \A u : InProg(u) => u = z
    <2>1. PICK p \in Pools : \E n \in Names : \E i \in Positions(inprog[p][n], j) : z = <<<<p, n>>, i>>
        BY <1>5
    <2>2. PICK n \in Names : \E i \in Positions(inprog[p][n], j) : z = <<<<p, n>>, i>>
        BY <2>1
    <2>3. PICK i \in Positions(inprog[p][n], j) : z = <<<<p, n>>, i>>
        BY <2>2
    <2>4. Held(p, j) /\ n = NameOf[j]
        BY <1>3
    <2>5. ASSUME NEW u, NEW q \in Pools, NEW m \in Names, NEW h \in Positions(inprog[q][m], j),
                 u = <<<<q, m>>, h>>
          PROVE  u = z
        <3>1. Held(q, j) /\ m = NameOf[j]
            BY <1>3
        <3>2. q = p /\ m = n
            BY <2>4, <3>1 DEF SinglePlace, Homes, OneHome
        <3>3. h = i
            BY <1>3, <3>2
        <3> QED
            BY <2>3, <2>5, <3>2, <3>3
    <2> QED
        BY <2>4, <2>5
<1>6. ASSUME NEW z, InZset(z)
      PROVE  /\ \E k \in Zsets : Parked(k, j)
             /\ \A u : InZset(u) => u = z
    <2>1. \A k \in Zsets : \A e \in zset[k] : e.id = j => Parked(k, j)
        BY DEF Parked
    <2> QED
        BY <1>6, <2>1 DEF SinglePlace, Homes, OneHome, NoCopies
<1> HIDE DEF InQueue, InProg, InZset
<1>7. (InQueue(x) \/ InProg(x) \/ InZset(x)) /\ (InQueue(y) \/ InProg(y) \/ InZset(y))
    BY <1>1
<1>8. ~ (Queued(j) /\ \E p \in Pools : Held(p, j)) /\ ~ (Queued(j) /\ \E k \in Zsets : Parked(k, j))
      /\ ~ ((\E p \in Pools : Held(p, j)) /\ \E k \in Zsets : Parked(k, j))
    BY DEF SinglePlace, Homes, OneHome
<1> QED
    BY <1>4, <1>5, <1>6, <1>7, <1>8

-----------------------------------------------------------------------------
(* The positions of the in-progress lists, and the locks. *)

(***************************************************************************)
(* The positions, one by one.                                              *)
(***************************************************************************)
LEMMA SlotsOf ==
    ASSUME NEW n
    PROVE  /\ \A x : x \in Slots(n) <=> \E p \in Pools : \E i \in 1 .. Len(inprog[p][n]) : x = <<p, i>>
           /\ \A p \in Pools : \A i \in 1 .. Len(inprog[p][n]) : <<p, i>> \in Slots(n)
BY SMT DEF Slots

(***************************************************************************)
(* ... and after a step.                                                   *)
(***************************************************************************)
LEMMA SlotsOfNext ==
    ASSUME NEW n
    PROVE  \A x : x \in Slots(n)' <=> \E p \in Pools : \E i \in 1 .. Len(inprog'[p][n]) : x = <<p, i>>
BY SMT DEF Slots

(***************************************************************************)
(* The lists of a name as they were: the same positions.                   *)
(***************************************************************************)
LEMMA SlotsSame ==
    ASSUME NEW n, \A p \in Pools : inprog'[p][n] = inprog[p][n]
    PROVE  Slots(n)' = Slots(n)
<1>1. \A x : x \in Slots(n)' <=> x \in Slots(n)
    BY SlotsOf, SlotsOfNext, SMT
<1> QED
    BY <1>1

(***************************************************************************)
(* A list that grows by one has one more position.                         *)
(***************************************************************************)
LEMMA SlotAdded ==
    ASSUME NEW n, NEW p \in Pools, NEW k \in Nat, Len(inprog[p][n]) = k, Len(inprog'[p][n]) = k + 1,
           \A q \in Pools : q # p => inprog'[q][n] = inprog[q][n]
    PROVE  \E y : y \notin Slots(n) /\ Slots(n)' = Slots(n) \cup {y}
<1> DEFINE y == <<p, k + 1>>
<1>0. \A i \in 1 .. k + 1 : i \in 1 .. k \/ i = k + 1
    BY SMT
<1>1. y \notin Slots(n)
    BY SlotsOf, SMT
<1>2. \A x : x \in Slots(n)' <=> x \in Slots(n) \/ x = y
    <2>1. ASSUME NEW x, x \in Slots(n)' PROVE x \in Slots(n) \/ x = y
        <3>1. PICK q \in Pools : \E i \in 1 .. Len(inprog'[q][n]) : x = <<q, i>>
            BY <2>1, SlotsOfNext, SMT
        <3>2. CASE q = p
            BY <1>0, <3>1, <3>2, SlotsOf
        <3>3. CASE q # p
            BY <3>1, <3>3, SlotsOf
        <3> QED
            BY <3>2, <3>3
    <2>2. ASSUME NEW x, x \in Slots(n) PROVE x \in Slots(n)'
        <3>1. PICK q \in Pools : \E i \in 1 .. Len(inprog[q][n]) : x = <<q, i>>
            BY <2>2, SlotsOf, SMT
        <3>2. CASE q = p
            <4>1. PICK i \in 1 .. k : x = <<q, i>>
                BY <3>1, <3>2
            <4>2. i \in 1 .. Len(inprog'[q][n])
                BY <3>2, SMT
            <4> QED
                BY <4>1, <4>2, SlotsOfNext
        <3>3. CASE q # p
            BY <3>1, <3>3, SlotsOfNext
        <3> QED
            BY <3>2, <3>3
    <2>3. k + 1 \in 1 .. Len(inprog'[p][n])
        BY SMT
    <2>4. y \in Slots(n)'
        BY <2>3, SlotsOfNext
    <2> QED
        BY <2>1, <2>2, <2>4
<1> HIDE DEF y
<1>3. Slots(n)' = Slots(n) \cup {y}
    BY <1>2
<1> QED
    BY <1>1, <1>3

(***************************************************************************)
(* A list that shrinks by one has one less.                                *)
(***************************************************************************)
LEMMA SlotRemoved ==
    ASSUME NEW n, NEW p \in Pools, NEW k \in Nat, Len(inprog[p][n]) = k + 1, Len(inprog'[p][n]) = k,
           \A q \in Pools : q # p => inprog'[q][n] = inprog[q][n]
    PROVE  \E y \in Slots(n) : Slots(n)' = Slots(n) \ {y}
<1> DEFINE y == <<p, k + 1>>
<1>0. \A i \in 1 .. k + 1 : i \in 1 .. k \/ i = k + 1
    BY SMT
<1>1. y \in Slots(n)
    <2>1. k + 1 \in 1 .. Len(inprog[p][n])
        BY SMT
    <2> QED
        BY <2>1, SlotsOf
<1>2. \A x : x \in Slots(n)' <=> x \in Slots(n) /\ x # y
    <2>1. ASSUME NEW x, x \in Slots(n)' PROVE x \in Slots(n) /\ x # y
        <3>1. PICK q \in Pools : \E i \in 1 .. Len(inprog'[q][n]) : x = <<q, i>>
            BY <2>1, SlotsOfNext, SMT
        <3>2. CASE q = p
            <4>1. PICK i \in 1 .. k : x = <<q, i>>
                BY <3>1, <3>2
            <4>2. i \in 1 .. Len(inprog[q][n]) /\ i # k + 1
                BY <3>2, SMT
            <4> QED
                BY <4>1, <4>2, SlotsOf
        <3>3. CASE q # p
            BY <3>1, <3>3, SlotsOf, SMT
        <3> QED
            BY <3>2, <3>3
    <2>2. ASSUME NEW x, x \in Slots(n), x # y PROVE x \in Slots(n)'
        <3>1. PICK q \in Pools : \E i \in 1 .. Len(inprog[q][n]) : x = <<q, i>>
            BY <2>2, SlotsOf, SMT
        <3>2. CASE q = p
            BY <1>0, <2>2, <3>1, <3>2, SlotsOfNext
        <3>3. CASE q # p
            BY <3>1, <3>3, SlotsOfNext
        <3> QED
            BY <3>2, <3>3
    <2> QED
        BY <2>1, <2>2
<1> HIDE DEF y
<1>3. Slots(n)' = Slots(n) \ {y}
    BY <1>2
<1> QED
    BY <1>1, <1>3

(***************************************************************************)
(* The handlers of a name that run have as many positions in the lists of  *)
(* the name.                                                               *)
(***************************************************************************)
LEMMA RunningHaveSlots ==
    ASSUME SinglePlace, NEW n \in Names
    PROVE  \E f \in [Running(n) -> Slots(n)] : \A v, w \in Running(n) : f[v] = f[w] => v = w
<1> DEFINE Pos(w) == {i \in 1 .. Len(inprog[PoolOf[w]][n]) : inprog[PoolOf[w]][n][i] = wjob[w]}
           f == [w \in Running(n) |-> <<PoolOf[w], CHOOSE i \in Pos(w) : TRUE>>]
<1>1. ASSUME NEW w \in Running(n) PROVE w \in Workers /\ wpc[w] \in Busy /\ NameOf[wjob[w].id] = n
    BY <1>1 DEF Running, Busy
<1>2. ASSUME NEW w \in Running(n) PROVE \E i : i \in Pos(w)
    <2>1. Contains(inprog[PoolOf[w]][n], wjob[w])
        BY <1>1 DEF SinglePlace, RunningJobHeld
    <2> QED
        BY <2>1 DEF Contains
<1>3. ASSUME NEW w \in Running(n)
      PROVE  f[w][2] \in Pos(w) /\ f[w] = <<PoolOf[w], f[w][2]>> /\ PoolOf[w] \in Pools
    <2>1. (CHOOSE i \in Pos(w) : TRUE) \in Pos(w)
        BY <1>2
    <2> HIDE DEF Pos
    <2>2. f[w] = <<PoolOf[w], CHOOSE i \in Pos(w) : TRUE>>
        OBVIOUS
    <2> QED
        BY <1>1, <2>1, <2>2, WorkerAssumption
<1>4. ASSUME NEW w \in Running(n) PROVE f[w] \in Slots(n)
    <2> HIDE DEF f
    <2>1. f[w][2] \in 1 .. Len(inprog[PoolOf[w]][n]) /\ f[w] = <<PoolOf[w], f[w][2]>> /\ PoolOf[w] \in Pools
        BY <1>3
    <2>2. <<PoolOf[w], f[w][2]>> \in Slots(n)
        BY <2>1, SlotsOf
    <2> QED
        BY <2>1, <2>2
<1>5. ASSUME NEW v \in Running(n), NEW w \in Running(n), f[v] = f[w] PROVE v = w
    <2> HIDE DEF f
    <2>1. PoolOf[v] = PoolOf[w] /\ f[v][2] = f[w][2]
        BY <1>3, <1>5, SMT
    <2>2. /\ wjob[v] = inprog[PoolOf[v]][n][f[v][2]]
          /\ wjob[w] = inprog[PoolOf[w]][n][f[w][2]]
        BY <1>3
    <2>3. wjob[v].id = wjob[w].id
        BY <2>1, <2>2
    <2> QED
        BY <1>1, <2>3 DEF SinglePlace, OneWorker
<1>6. f \in [Running(n) -> Slots(n)]
    BY <1>4
<1> HIDE DEF f
<1> QED
    BY <1>5, <1>6

(***************************************************************************)
(* The field of a pool in lock_info counts its entries of the name.        *)
(***************************************************************************)
Shares == \A n \in Names : \A p \in Pools : lockInfo[n][p] = Len(inprog[p][n])

(***************************************************************************)
(* Before any job there is no position, and no share.                      *)
(***************************************************************************)
LEMMA NoSlotYet ==
    ASSUME StoreInit
    PROVE  Shares /\ \A n \in Names : Slots(n) = {} /\ lock[n] = 0
<1>1. /\ \A p \in Pools, n \in Names : inprog[p][n] = <<>> /\ lockInfo[n][p] = 0
      /\ \A n \in Names : lock[n] = 0
    BY DEF StoreInit
<1>2. \A p \in Pools, n \in Names : Len(inprog[p][n]) = 0
    BY <1>1, SMT
<1>3. ASSUME NEW n \in Names PROVE Slots(n) = {}
    BY <1>2, SlotsOf, SMT
<1> QED
    BY <1>1, <1>2, <1>3 DEF Shares

(***************************************************************************)
(* What a step may do to the lock of a name: leave it alone with its       *)
(* positions, increment it with one position more when it is below a limit *)
(* that was written, or decrement it with one less.                        *)
(***************************************************************************)
LockSame(n) == lock'[n] = lock[n] /\ Slots(n)' = Slots(n)

LockGrows(n) ==
    /\ lock'[n] = lock[n] + 1
    /\ \E y : y \notin Slots(n) /\ Slots(n)' = Slots(n) \cup {y}
    /\ (MaxConcurrency[n] > 0 /\ n \notin unlimited) => lock[n] < MaxConcurrency[n]

LockShrinks(n) ==
    /\ lock'[n] = lock[n] - 1
    /\ \E y \in Slots(n) : Slots(n)' = Slots(n) \ {y}

LocksMove == Shares' /\ \A n \in Names : LockSame(n) \/ LockGrows(n) \/ LockShrinks(n)

(***************************************************************************)
(* The counters after INCR/DECR with HINCRBY.                              *)
(***************************************************************************)
LEMMA AddLockCounts ==
    ASSUME StoreTypeOK, NEW n \in Names, NEW p \in Pools, NEW d, AddLock(n, p, d)
    PROVE  /\ lock'[n] = lock[n] + d /\ lockInfo'[n][p] = lockInfo[n][p] + d
           /\ \A m \in Names : m # n => lock'[m] = lock[m]
           /\ \A m \in Names : \A q \in Pools :
                <<m, q>> # <<n, p>> => lockInfo'[m][q] = lockInfo[m][q]
<1>1. lock \in [Names -> Int] /\ lockInfo \in [Names -> [Pools -> Int]]
    BY DEF StoreTypeOK
<1>2. /\ lock' = [lock EXCEPT ![n] = lock[n] + d]
      /\ lockInfo' = [lockInfo EXCEPT ![n][p] = lockInfo[n][p] + d]
    BY DEF AddLock
<1> QED
    BY <1>1, <1>2

(***************************************************************************)
(* When a lock is incremented or decremented with one list of its name,    *)
(* shares still count, and the other locks and lists are as they were.     *)
(***************************************************************************)
LEMMA OneLockMoves ==
    ASSUME StoreTypeOK, Shares, NEW n \in Names, NEW p \in Pools, NEW d, AddLock(n, p, d),
           Len(inprog'[p][n]) = Len(inprog[p][n]) + d,
           \A q \in Pools : \A m \in Names : <<q, m>> # <<p, n>> => inprog'[q][m] = inprog[q][m],
           LockGrows(n) \/ LockShrinks(n)
    PROVE  LocksMove
<1>1. /\ lock'[n] = lock[n] + d /\ lockInfo'[n][p] = lockInfo[n][p] + d
      /\ \A m \in Names : m # n => lock'[m] = lock[m]
      /\ \A m \in Names : \A q \in Pools : <<m, q>> # <<n, p>> => lockInfo'[m][q] = lockInfo[m][q]
    BY AddLockCounts
<1>2. ASSUME NEW m \in Names, NEW q \in Pools PROVE lockInfo'[m][q] = Len(inprog'[q][m])
    <2>1. lockInfo[m][q] = Len(inprog[q][m])
        BY DEF Shares
    <2>2. CASE m = n /\ q = p
        BY <1>1, <2>1, <2>2
    <2>3. CASE m # n \/ q # p
        <3>1. lockInfo'[m][q] = lockInfo[m][q] /\ inprog'[q][m] = inprog[q][m]
            BY <1>1, <2>3
        <3> QED
            BY <2>1, <3>1
    <2> QED
        BY <2>2, <2>3
<1>3. ASSUME NEW m \in Names, m # n PROVE LockSame(m)
    <2>1. \A q \in Pools : inprog'[q][m] = inprog[q][m]
        BY <1>3
    <2>2. Slots(m)' = Slots(m)
        BY <2>1, SlotsSame
    <2> QED
        BY <1>1, <1>3, <2>2 DEF LockSame
<1> QED
    BY <1>2, <1>3 DEF LocksMove, Shares

(***************************************************************************)
(* redisLuaReapStaleLocks gives back nothing for a pool that has no job in *)
(* progress, since then its share is 0.                                    *)
(***************************************************************************)
LEMMA NothingToGive ==
    ASSUME StoreTypeOK, Shares, \A n \in Names : lock[n] >= 0, NEW p \in Pools,
           NothingInProgress(p, Names), NEW types \in SUBSET Names, GivesBack(p, types)
    PROVE  LocksMove
<1>t. lock \in [Names -> Int] /\ lockInfo \in [Names -> [Pools -> Int]]
    BY DEF StoreTypeOK
<1>1. ASSUME NEW n \in Names PROVE lockInfo[n][p] = 0 /\ lock[n] >= 0
    <2>1. inprog[p][n] = <<>>
        BY DEF NothingInProgress
    <2>2. lockInfo[n][p] = Len(inprog[p][n])
        BY DEF Shares
    <2> QED
        BY <2>1, <2>2, SMT
<1> DEFINE held == {n \in types : p \in lockField[n]}
<1>2. /\ lock' = [n \in Names |-> IF n \notin held THEN lock[n]
                                  ELSE IF lock[n] - lockInfo[n][p] < 0 THEN 0 ELSE lock[n] - lockInfo[n][p]]
      /\ lockInfo' = [n \in Names |-> IF n \notin held THEN lockInfo[n]
                                      ELSE [lockInfo[n] EXCEPT ![p] = 0]]
      /\ inprog' = inprog
    BY DEF GivesBack, LuaReapStaleLocks, listVars
<1> HIDE DEF held
<1>3. ASSUME NEW n \in Names PROVE LockSame(n)
    <2>1. lock'[n] = lock[n]
        BY <1>t, <1>1, <1>2, SMT
    <2> QED
        BY <1>2, <2>1, SlotsSame DEF LockSame
<1>4. ASSUME NEW n \in Names, NEW q \in Pools PROVE lockInfo'[n][q] = Len(inprog'[q][n])
    <2>1. lockInfo'[n] = IF n \notin held THEN lockInfo[n] ELSE [lockInfo[n] EXCEPT ![p] = 0]
        BY <1>2
    <2>2. lockInfo'[n][q] = lockInfo[n][q]
        BY <1>t, <1>1, <2>1
    <2> QED
        BY <1>2, <2>2 DEF Shares
<1> QED
    BY <1>3, <1>4 DEF LocksMove, Shares

(***************************************************************************)
(* One step, when those who fetch have the limits written that did not     *)
(* fail to be, what a worker ends is in progress, and locks are given back *)
(* only for pools without a job in progress.                               *)
(***************************************************************************)
LEMMA LockSteps ==
    ASSUME StoreTypeOK, WorkerTypeOK, RunningJobHeld, Shares, \A n \in Names : lock[n] >= 0,
           NEW F \in SUBSET Workers, NEW T \in SUBSET Pools, NEW G \in SUBSET Pools, JobStep(F, T, G),
           \A w \in F : \A n \in Handles[PoolOf[w]] : maxConc[n] = MaxConcurrency[n] \/ n \in unlimited,
           \A p \in G : NothingInProgress(p, Names)
    PROVE  LocksMove
<1>t. inprog \in [Pools -> [Names -> Seq(Entry)]] /\ lock \in [Names -> Int]
    BY DEF StoreTypeOK
<1>1. ASSUME UNCHANGED <<inprog, lockVars>> PROVE LocksMove
    <2>1. \A n \in Names : LockSame(n)
        BY <1>1, SlotsSame DEF LockSame, lockVars
    <2> QED
        BY <1>1, <2>1 DEF LocksMove, Shares, lockVars
<1>d. ASSUME NEW n \in Names, NEW p \in Pools, AddLock(n, p, -1), inprog'[p][n] \in Seq(Entry),
             Len(inprog[p][n]) = Len(inprog'[p][n]) + 1,
             \A q \in Pools : \A m \in Names : <<q, m>> # <<p, n>> => inprog'[q][m] = inprog[q][m]
      PROVE  LocksMove
    <2>1. PICK k \in Nat : Len(inprog[p][n]) = k + 1 /\ Len(inprog'[p][n]) = k
        BY <1>d, SMT
    <2>2. \E y \in Slots(n) : Slots(n)' = Slots(n) \ {y}
        BY <1>d, <2>1, SlotRemoved, SMTT(60)
    <2>3. lock' = [lock EXCEPT ![n] = lock[n] + (-1)]
        BY <1>d DEF AddLock
    <2>4. lock'[n] = lock[n] - 1
        BY <1>t, <2>3, SMT
    <2>5. Len(inprog'[p][n]) = Len(inprog[p][n]) + (-1)
        BY <2>1, SMT
    <2>6. LockShrinks(n)
        BY <2>2, <2>4 DEF LockShrinks
    <2> QED
        BY <1>d, <2>5, <2>6, OneLockMoves
<1>2. ASSUME NEW e, Brings(e) PROVE LocksMove
    BY <1>1, <1>2 DEF Brings, Pushes, listVars
<1>3. ASSUME NEW w \in F, NEW n \in Names, Fetches(w, n) PROVE LocksMove
    <2>0. PICK p \in Pools : p = PoolOf[w]
        BY WorkerAssumption
    <2>1. LuaFetchJob(p, n)
        BY <1>3, <2>0 DEF Fetches
    <2>2. /\ n \in Handles[p] /\ inprog'[p][n] = Cons(Last(queue[n]), inprog[p][n])
          /\ Last(queue[n]) \in Entry
          /\ \A q \in Pools : \A m \in Names : <<q, m>> # <<p, n>> => inprog'[q][m] = inprog[q][m]
        BY <2>1, FetchLists
    <2>3. AddLock(n, p, 1) /\ CanRun(n) /\ (maxConc[n] = MaxConcurrency[n] \/ n \in unlimited)
        BY <2>0, <2>1, <2>2 DEF LuaFetchJob, Fetchable
    <2>4. inprog[p][n] \in Seq(Entry)
        BY <1>t
    <2>5. Len(Cons(Last(queue[n]), inprog[p][n])) = Len(inprog[p][n]) + 1
        BY <2>2, <2>4, ConsMembers, ZenonT(60)
    <2>6. PICK k \in Nat : Len(inprog[p][n]) = k /\ Len(inprog'[p][n]) = k + 1
        BY <2>2, <2>4, <2>5, SMT
    <2>7. \E y : y \notin Slots(n) /\ Slots(n)' = Slots(n) \cup {y}
        BY <2>2, <2>6, SlotAdded, SMTT(60)
    <2>8. (MaxConcurrency[n] > 0 /\ n \notin unlimited) => lock[n] < MaxConcurrency[n]
        <3>1. MaxConcurrency[n] \in Nat
            BY StoreAssumption
        <3> QED
            BY <2>3, <3>1, SMT DEF CanRun
    <2>9. lock' = [lock EXCEPT ![n] = lock[n] + 1]
        BY <2>3 DEF AddLock
    <2>10. LockGrows(n)
        BY <1>t, <2>7, <2>8, <2>9 DEF LockGrows
    <2> QED
        BY <2>2, <2>3, <2>6, <2>10, OneLockMoves
<1>4. ASSUME NEW p \in T, TakesBack(p) PROVE LocksMove
    <2>0. p \in Pools
        BY <1>4
    <2>1. PICK n \in Names : TakesBackOf(p, n)
        BY <1>4, <2>0, ReenqueueLists DEF TakesBack
    <2>2. /\ inprog[p][n] # <<>> /\ inprog'[p][n] = Front(inprog[p][n])
          /\ \A q \in Pools : \A m \in Names : <<q, m>> # <<p, n>> => inprog'[q][m] = inprog[q][m]
          /\ AddLock(n, p, -1)
        BY <2>1 DEF TakesBackOf
    <2>3. inprog[p][n] \in Seq(Entry)
        BY <1>t, <2>0
    <2>4. Len(inprog[p][n]) = Len(inprog'[p][n]) + 1 /\ inprog'[p][n] \in Seq(Entry)
        BY <2>2, <2>3, RPopMembers, SMT
    <2> QED
        BY <1>d, <2>0, <2>2, <2>4
<1>5. ASSUME NEW w \in Workers, RemoveJobFromInProgress(w) PROVE LocksMove
    <2>1. PICK p, e, n : EndsOf(w, p, e, n)
        BY <1>5, RemoveLists
    <2>2. p \in Pools /\ e \in Entry /\ n \in Names /\ Contains(inprog[p][n], e)
        BY <2>1 DEF EndsOf, RunningJobHeld
    <2>3. /\ AddLock(n, p, -1) /\ inprog'[p][n] = RemoveFirst(inprog[p][n], e)
          /\ \A q \in Pools : \A m \in Names : <<q, m>> # <<p, n>> => inprog'[q][m] = inprog[q][m]
        BY <2>1 DEF EndsOf
    <2>4. inprog[p][n] \in Seq(Entry)
        BY <1>t, <2>2
    <2>5. /\ RemoveFirst(inprog[p][n], e) \in Seq(Entry)
          /\ Len(RemoveFirst(inprog[p][n], e)) = Len(inprog[p][n]) - 1
        BY <2>2, <2>4, LRemMembers, ZenonT(30)
    <2>6. Len(inprog[p][n]) = Len(inprog'[p][n]) + 1 /\ inprog'[p][n] \in Seq(Entry)
        BY <2>3, <2>4, <2>5, SMT
    <2> QED
        BY <1>d, <2>2, <2>3, <2>6
<1>6. ASSUME NEW p \in G, NEW types \in SUBSET Names, GivesBack(p, types) PROVE LocksMove
    BY <1>6, NothingToGive
<1>7. ASSUME NEW k \in Zsets, NEW e \in zset[k],
             Drops(k, e) \/ Buries(k, e) \/ \E f \in Entry : Revives(k, e, f)
      PROVE  LocksMove
    BY <1>1, <1>7 DEF Drops, Buries, Revives, Pushes, listVars
<1>8. ASSUME UNCHANGED jobVars PROVE LocksMove
    BY <1>1, <1>8 DEF jobVars, listVars
<1> QED
    BY <1>2, <1>3, <1>4, <1>5, <1>6, <1>7, <1>8 DEF JobStep

-----------------------------------------------------------------------------
(* Dead jobs. *)

(***************************************************************************)
(* Every pool has registered every name that jobs have.                    *)
(***************************************************************************)
PoolsAgree == \A p \in Pools, j \in Jobs : NameOf[j] \in Handles[p]

(***************************************************************************)
(* Only jobFate then makes a job dead, and only at its last failure.       *)
(***************************************************************************)
LEMMA DeadExhaustedNext ==
    ASSUME PoolsAgree, StoreTypeOK, WorkerTypeOK, DeadOnlyWhenExhausted,
           NEW F, NEW T, NEW G, JobStep(F, T, G)
    PROVE  DeadOnlyWhenExhausted'
<1> DEFINE Goal == DeadOnlyWhenExhausted'
<1>z. /\ zset \in [Zsets -> SUBSET Entry] /\ \A e \in Entry : e.id \in Jobs
      /\ "scheduled" \in Zsets /\ "dead" \in Zsets
    BY DEF StoreTypeOK, Entry, Zsets
<1>u. ASSUME zset'["dead"] \subseteq zset["dead"] PROVE Goal
    BY <1>u DEF DeadOnlyWhenExhausted
<1>1. ASSUME zset' = zset PROVE Goal
    BY <1>1, <1>u
<1>2. ASSUME NEW e, Brings(e) PROVE Goal
    BY <1>z, <1>u, <1>2 DEF Brings
<1>3. ASSUME NEW w, NEW n, Fetches(w, n) PROVE Goal
    BY <1>1, <1>3 DEF Fetches
<1>4. ASSUME NEW p, TakesBack(p) PROVE Goal
    BY <1>1, <1>4 DEF TakesBack
<1>5. ASSUME NEW w \in Workers, RemoveJobFromInProgress(w) PROVE Goal
    <2> DEFINE e == wjob[w]
               p == PoolOf[w]
               f == Failed(e)
    <2>2. p \in Pools /\ e \in Entry /\ f \in Entry
        BY <1>5, StoreAssumption, WorkerAssumption, SMT
            DEF WorkerTypeOK, RemoveJobFromInProgress, Busy, Entry, Failed
    <2>3. Terminate("none", e) \/ Terminate(JobFate(p, f), f)
        BY <1>5 DEF RemoveJobFromInProgress
    <2> HIDE DEF f, e, p
    <2>4. NameOf[f.id] \in Handles[p] /\ NameOf[f.id] \in Names
        BY <1>z, <2>2, StoreAssumption DEF PoolsAgree
    <2>5. /\ JobFate(p, f) \in {"none", "retry", "dead"}
          /\ JobFate(p, f) = "dead" => ~ (MaxFails[NameOf[f.id]] - f.fails > 0)
        BY <2>4 DEF JobFate
    <2>6. f.fails \in Nat /\ MaxFails[NameOf[f.id]] \in Nat
        BY <2>2, <2>4, WorkerAssumption DEF Entry
    <2>7. JobFate(p, f) = "dead" => f.fails >= MaxFails[NameOf[f.id]]
        BY <2>5, <2>6, SMT
    <2>8. CASE Terminate("none", e)
        BY <1>1, <2>8 DEF Terminate
    <2>9. CASE Terminate(JobFate(p, f), f)
        <3> DEFINE k == JobFate(p, f)
        <3>1. k \in {"none", "retry", "dead"} /\ (k = "dead" => f.fails >= MaxFails[NameOf[f.id]])
              /\ Terminate(k, f)
            BY <2>5, <2>7, <2>9
        <3> HIDE DEF k
        <3>2. CASE k = "none"
            BY <1>1, <3>1, <3>2 DEF Terminate
        <3>3. CASE k = "retry"
            BY <1>z, <1>u, <3>1, <3>3 DEF Terminate, Zsets
        <3>4. CASE k = "dead"
            <4>1. zset'["dead"] = zset["dead"] \cup {f}
                BY <1>z, <3>1, <3>4 DEF Terminate
            <4> QED
                BY <3>1, <3>4, <4>1 DEF DeadOnlyWhenExhausted
        <3> QED
            BY <3>1, <3>2, <3>3, <3>4
    <2> QED
        BY <2>3, <2>8, <2>9
<1>6. ASSUME NEW p, NEW types, GivesBack(p, types) PROVE Goal
    BY <1>1, <1>6 DEF GivesBack
<1>7. ASSUME NEW k \in Zsets, NEW e \in zset[k],
             Drops(k, e) \/ Buries(k, e) \/ \E f \in Entry : Revives(k, e, f)
      PROVE  Goal
    <2>1. ~ Buries(k, e)
        BY <1>z DEF Buries, PoolsAgree
    <2>2. zset' = [zset EXCEPT ![k] = zset[k] \ {e}]
        BY <1>7, <2>1 DEF Drops, Revives
    <2> QED
        BY <1>z, <1>u, <2>2
<1>8. ASSUME UNCHANGED jobVars PROVE Goal
    BY <1>1, <1>8 DEF jobVars
<1> HIDE DEF Goal
<1>9. Goal
    BY <1>2, <1>3, <1>4, <1>5, <1>6, <1>7, <1>8 DEF JobStep
<1> QED
    BY <1>9 DEF Goal
=============================================================================
