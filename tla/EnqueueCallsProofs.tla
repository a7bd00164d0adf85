-------------------------- MODULE EnqueueCallsProofs --------------------------
(***************************************************************************)
(* Theorems about EnqueueCalls, for any number of calls of any kind, any   *)
(* number of jobs per call and any sharing of names and keys among them.   *)
(* What a call that returns without error promises has to be built up from *)
(* the first command it sends: Orderly says what pipelines look like,      *)
(* JobsKept what has been done about a job that is sent, and NamesKept     *)
(* which names are known. The first needs nothing else, and the other two  *)
(* are inductive together with it.                                         *)
(***************************************************************************)
EXTENDS EnqueueCalls, TLAPS

USE Zenon

-----------------------------------------------------------------------------
(* The commands of a call. *)

JobOps == {"push", "sha", "eval"}
NameOps == {"known", "sadd"}

Own(c) == Range(Params[c])

\* The commands s, and the scripts to be sent again f, still send the job.
Sends(s, f, j) ==
    \/ \E i \in 1 .. Len(s) : s[i].op \in JobOps /\ j \in s[i].jobs
    \/ \E i \in 1 .. Len(f) : f[i] = j

SendsName(s, j) == \E i \in 1 .. Len(s) : s[i].op \in NameOps /\ j \in s[i].jobs

Waits(s) == \E i \in 1 .. Len(s) : s[i].op = "wait"

(***************************************************************************)
(* What the commands of a call and the scripts it is to send again look    *)
(* like at any time: a job is sent by one of them, and only a job with a   *)
(* key by a script; only Enqueue and EnqueueUnique send "known", and they  *)
(* have no second pipeline; and there is a WAIT after the last job.        *)
(***************************************************************************)
Pipeline(c, s, f) ==
    /\ \A i \in 1 .. Len(s) : s[i].op \in JobOps =>
          \E j \in Own(c) : s[i].jobs = {j} /\ (s[i].op # "push" => KeyOf[j] # NoKey)
    /\ \A i \in 1 .. Len(f) : f[i] \in Own(c) /\ KeyOf[f[i]] # NoKey
    /\ \A i, k \in 1 .. Len(s) :
          (s[i].op \in JobOps /\ s[k].op \in JobOps /\ s[i].jobs = s[k].jobs) => i = k
    /\ \A i \in 1 .. Len(s), k \in 1 .. Len(f) : s[i].op \in JobOps => f[k] \notin s[i].jobs
    /\ \A i, k \in 1 .. Len(f) : f[i] = f[k] => i = k
    /\ \A i, k \in 1 .. Len(s) : s[i].op = "known" => s[k].op # "sha" /\ Len(f) = 0
    /\ MinWaitEnabled => \A i \in 1 .. Len(s) : s[i].op \in JobOps =>
          \E k \in i + 1 .. Len(s) : s[k].op = "wait"

(***************************************************************************)
(* A call that has done its next command is left with the others.          *)
(***************************************************************************)
LEMMA TailPipeline ==
    ASSUME NEW c \in Calls, NEW s \in Seq(Command), NEW f \in Seq(Jobs), s # <<>>, Pipeline(c, s, f)
    PROVE  Pipeline(c, Tail(s), f)
<1>1. /\ Len(Tail(s)) = Len(s) - 1 /\ Len(s) \in Nat
      /\ \A i \in 1 .. Len(Tail(s)) : Tail(s)[i] = s[i + 1] /\ i + 1 \in 1 .. Len(s)
    BY SMT
<1>2. ASSUME MinWaitEnabled, NEW i \in 1 .. Len(Tail(s)), Tail(s)[i].op \in JobOps
      PROVE  \E k \in i + 1 .. Len(Tail(s)) : Tail(s)[k].op = "wait"
    <2>1. PICK k \in i + 2 .. Len(s) : s[k].op = "wait"
        BY <1>1, <1>2, SMT DEF Pipeline
    <2>2. k - 1 \in i + 1 .. Len(Tail(s)) /\ Tail(s)[k - 1] = s[k]
        BY <1>1, <2>1, SMT
    <2> QED
        BY <2>1, <2>2
<1>3. \A i, k \in 1 .. Len(Tail(s)) : i + 1 = k + 1 => i = k
    BY <1>1, SMT
<1> QED
    BY <1>1, <1>2, <1>3, SMTT(60) DEF Pipeline

(***************************************************************************)
(* The hash of a script that Redis does not have is to be sent again.      *)
(***************************************************************************)
LEMMA FailedPipeline ==
    ASSUME NEW c \in Calls, NEW s \in Seq(Command), NEW f \in Seq(Jobs), s # <<>>, Pipeline(c, s, f),
           s[1].op = "sha", NEW j \in s[1].jobs, j \in Jobs
    PROVE  Pipeline(c, Tail(s), Append(f, j))
<1>1. /\ Len(Tail(s)) = Len(s) - 1 /\ Len(s) \in Nat /\ 1 \in 1 .. Len(s)
      /\ \A i \in 1 .. Len(Tail(s)) : Tail(s)[i] = s[i + 1] /\ i + 1 \in 1 .. Len(s)
    BY SMT
<1>2. /\ Len(Append(f, j)) = Len(f) + 1 /\ Len(f) \in Nat
      /\ \A i \in 1 .. Len(f) : Append(f, j)[i] = f[i]
      /\ Append(f, j)[Len(f) + 1] = j
    BY SMT
<1>3. s[1].jobs = {j} /\ j \in Own(c) /\ KeyOf[j] # NoKey
    BY <1>1, SMT DEF Pipeline, JobOps
<1>4. Pipeline(c, Tail(s), f)
    BY TailPipeline
<1>5. \A i \in 1 .. Len(Append(f, j)) : Append(f, j)[i] \in Own(c) /\ KeyOf[Append(f, j)[i]] # NoKey
    BY <1>2, <1>3, SMT DEF Pipeline
<1>6. \A i \in 1 .. Len(f) : f[i] # j
    BY <1>1, <1>3 DEF Pipeline, JobOps
<1>7. \A i, k \in 1 .. Len(Append(f, j)) : Append(f, j)[i] = Append(f, j)[k] => i = k
    BY <1>2, <1>6, SMT DEF Pipeline
<1>8. ASSUME NEW i \in 1 .. Len(Tail(s)), NEW k \in 1 .. Len(Append(f, j)), Tail(s)[i].op \in JobOps
      PROVE  Append(f, j)[k] \notin Tail(s)[i].jobs
    <2>1. CASE k \in 1 .. Len(f)
        BY <1>2, <1>4, <1>8, <2>1 DEF Pipeline
    <2>2. CASE k = Len(f) + 1
        <3>1. PICK l \in Own(c) : s[i + 1].jobs = {l}
            BY <1>1, <1>8 DEF Pipeline
        <3>2. s[i + 1].jobs # s[1].jobs
            BY <1>1, <1>8, SMT DEF Pipeline, JobOps
        <3> QED
            BY <1>1, <1>2, <1>3, <2>2, <3>1, <3>2, SMT
    <2> QED
        BY <1>2, <2>1, <2>2, SMT
<1>9. \A i \in 1 .. Len(Tail(s)) : Tail(s)[i].op # "known"
    BY <1>1, SMT DEF Pipeline
<1>10. MinWaitEnabled => \A i \in 1 .. Len(Tail(s)) : Tail(s)[i].op \in JobOps =>
          \E k \in i + 1 .. Len(Tail(s)) : Tail(s)[k].op = "wait"
    BY <1>4 DEF Pipeline
<1> QED
    BY <1>4, <1>5, <1>7, <1>8, <1>9, <1>10, ZenonT(20) DEF Pipeline

-----------------------------------------------------------------------------
(***************************************************************************)
(* Nothing is in the empty sequence.                                       *)
(***************************************************************************)
LEMMA EmptyLen == Len(<<>>) = 0 /\ 1 .. 0 = {}
BY SMT

(***************************************************************************)
(* The members of two sequences that are put together.                     *)
(***************************************************************************)
LEMMA Concatenation ==
    ASSUME NEW S, NEW s \in Seq(S), NEW t \in Seq(S), NEW u, u = s \o t
    PROVE  /\ u \in Seq(S) /\ Len(u) = Len(s) + Len(t) /\ Len(s) \in Nat /\ Len(t) \in Nat
           /\ \A i \in 1 .. Len(s) : i \in 1 .. Len(u) /\ u[i] = s[i]
           /\ \A i \in 1 .. Len(t) : Len(s) + i \in 1 .. Len(u) /\ u[Len(s) + i] = t[i]
           /\ \A i \in 1 .. Len(u) : \/ i \in 1 .. Len(s) /\ u[i] = s[i]
                                     \/ i - Len(s) \in 1 .. Len(t) /\ u[i] = t[i - Len(s)]
<1>1. /\ u \in Seq(S) /\ Len(u) = Len(s) + Len(t)
      /\ \A i \in 1 .. Len(s) + Len(t) : u[i] = IF i <= Len(s) THEN s[i] ELSE t[i - Len(s)]
    BY SMT
<1>2. Len(s) \in Nat /\ Len(t) \in Nat
    BY SMT
<1>3. ASSUME NEW i \in 1 .. Len(t) PROVE Len(s) + i \in 1 .. Len(u) /\ u[Len(s) + i] = t[i]
    <2>1. Len(s) + i \in 1 .. Len(s) + Len(t) /\ ~(Len(s) + i <= Len(s)) /\ (Len(s) + i) - Len(s) = i
        BY <1>2, SMT
    <2> QED
        BY <1>1, <2>1
<1> QED
    BY <1>1, <1>2, <1>3, SMT

(***************************************************************************)
(* One command for each of some jobs, and then other commands, of which    *)
(* the last is WAIT if it has to be.                                       *)
(***************************************************************************)
OneEach(c, s, js) ==
    /\ \A i \in 1 .. Len(js) : js[i] \in Own(c)
    /\ \A i, k \in 1 .. Len(js) : js[i] = js[k] => i = k
    /\ Len(s) = Len(js)
    /\ \A i \in 1 .. Len(js) : /\ s[i].op \in JobOps /\ s[i].jobs = {js[i]}
                               /\ s[i].op # "push" => KeyOf[js[i]] # NoKey

Trailer(t) ==
    /\ \A i \in 1 .. Len(t) : t[i].op \in {"sadd", "wait"}
    /\ MinWaitEnabled => Len(t) > 0 /\ t[Len(t)].op = "wait"

(***************************************************************************)
(* Such a pipeline sends these jobs and no others.                         *)
(***************************************************************************)
LEMMA JobsPipeline ==
    ASSUME NEW c \in Calls, NEW js \in Seq(Jobs), NEW s \in Seq(Command), NEW t \in Seq(Command),
           OneEach(c, s, js), Trailer(t)
    PROVE  /\ s \o t \in Seq(Command)
           /\ Pipeline(c, s \o t, <<>>)
           /\ \A j : Sends(s \o t, <<>>, j) <=> \E i \in 1 .. Len(js) : js[i] = j
           /\ \A j : SendsName(t, j) => SendsName(s \o t, j)
<1> DEFINE u == s \o t
<1>1. /\ u \in Seq(Command) /\ Len(u) = Len(s) + Len(t) /\ Len(s) \in Nat /\ Len(t) \in Nat
      /\ \A i \in 1 .. Len(s) : i \in 1 .. Len(u) /\ u[i] = s[i]
      /\ \A i \in 1 .. Len(t) : Len(s) + i \in 1 .. Len(u) /\ u[Len(s) + i] = t[i]
      /\ \A i \in 1 .. Len(u) : \/ i \in 1 .. Len(s) /\ u[i] = s[i]
                                \/ i - Len(s) \in 1 .. Len(t) /\ u[i] = t[i - Len(s)]
    BY Concatenation, SMT
<1>2. Len(<<>>) = 0 /\ 1 .. 0 = {}
    BY EmptyLen
<1> HIDE DEF u
<1>5. \A i \in 1 .. Len(u) : u[i].op \in JobOps => i \in 1 .. Len(s) /\ u[i] = s[i]
    <2> SUFFICES ASSUME NEW i \in 1 .. Len(u), i \notin 1 .. Len(s) PROVE u[i].op \notin JobOps
        BY <1>1
    <2>1. i - Len(s) \in 1 .. Len(t) /\ u[i] = t[i - Len(s)]
        BY <1>1
    <2> QED
        BY <2>1 DEF JobOps, Trailer
<1>6. \A i \in 1 .. Len(u) : u[i].op # "known"
    <2> SUFFICES ASSUME NEW i \in 1 .. Len(u) PROVE u[i].op # "known"
        OBVIOUS
    <2>1. \/ i \in 1 .. Len(s) /\ u[i] = s[i]
          \/ i - Len(s) \in 1 .. Len(t) /\ u[i] = t[i - Len(s)]
        BY <1>1
    <2> QED
        BY <2>1 DEF JobOps, OneEach, Trailer
<1>7. ASSUME MinWaitEnabled, NEW i \in 1 .. Len(s) PROVE \E k \in i + 1 .. Len(u) : u[k].op = "wait"
    <2>1. Len(u) \in i + 1 .. Len(u) /\ u[Len(u)] = t[Len(t)]
        BY <1>1, <1>7, SMT DEF Trailer
    <2> QED
        BY <1>7, <2>1 DEF Trailer
<1>8. \A i \in 1 .. Len(u) : u[i].op \in JobOps =>
          \E j \in Own(c) : u[i].jobs = {j} /\ (u[i].op # "push" => KeyOf[j] # NoKey)
    BY <1>5, SMTT(60) DEF OneEach
<1>9. \A i, k \in 1 .. Len(u) :
          (u[i].op \in JobOps /\ u[k].op \in JobOps /\ u[i].jobs = u[k].jobs) => i = k
    <2> SUFFICES ASSUME NEW i \in 1 .. Len(u), NEW k \in 1 .. Len(u),
                        u[i].op \in JobOps, u[k].op \in JobOps, u[i].jobs = u[k].jobs
                 PROVE  i = k
        OBVIOUS
    <2>1. i \in 1 .. Len(s) /\ k \in 1 .. Len(s) /\ s[i].jobs = s[k].jobs
        BY <1>5
    <2>2. i \in 1 .. Len(js) /\ k \in 1 .. Len(js) /\ {js[i]} = {js[k]}
        BY <2>1 DEF OneEach
    <2> QED
        BY <2>2, ZenonT(60) DEF OneEach
<1>10. Pipeline(c, u, <<>>)
    BY <1>2, <1>5, <1>6, <1>7, <1>8, <1>9, ZenonT(20) DEF Pipeline
<1>11. \A j : Sends(u, <<>>, j) <=> \E i \in 1 .. Len(js) : js[i] = j
    <2> SUFFICES ASSUME NEW j PROVE Sends(u, <<>>, j) <=> \E i \in 1 .. Len(js) : js[i] = j
        OBVIOUS
    <2>1. Sends(u, <<>>, j) <=> \E i \in 1 .. Len(u) : u[i].op \in JobOps /\ j \in u[i].jobs
        BY <1>2 DEF Sends
    <2>2. ASSUME NEW i \in 1 .. Len(u), u[i].op \in JobOps, j \in u[i].jobs
          PROVE  i \in 1 .. Len(js) /\ js[i] = j
        <3>1. i \in 1 .. Len(s) /\ j \in s[i].jobs
            BY <1>5, <2>2
        <3>2. i \in 1 .. Len(js) /\ s[i].jobs = {js[i]}
            BY <3>1 DEF OneEach
        <3> QED
            BY <3>1, <3>2
    <2>3. ASSUME NEW i \in 1 .. Len(js), js[i] = j
          PROVE  i \in 1 .. Len(u) /\ u[i].op \in JobOps /\ j \in u[i].jobs
        <3>1. i \in 1 .. Len(s) /\ s[i].op \in JobOps /\ j \in s[i].jobs
            <4>1. i \in 1 .. Len(s) /\ s[i].op \in JobOps /\ s[i].jobs = {js[i]}
                BY <2>3 DEF OneEach
            <4> QED
                BY <2>3, <4>1
        <3> QED
            BY <1>1, <3>1
    <2> QED
        BY <2>1, <2>2, <2>3
<1>12. \A j : SendsName(t, j) => SendsName(u, j)
    BY <1>1 DEF SendsName
<1> QED
    BY <1>1, <1>10, <1>11, <1>12 DEF u

(***************************************************************************)
(* sendWait sends one command or none.                                     *)
(***************************************************************************)
LEMMA WaitCommands == Wait \in Seq(Command) /\ Trailer(Wait)
<1>1. CASE MinWaitEnabled
    <2>1. Wait = <<Cmd("wait", {})>>
        BY <1>1 DEF Wait
    <2>2. Cmd("wait", {}) \in Command /\ Cmd("wait", {}).op = "wait"
        BY DEF Cmd, Command
    <2> HIDE DEF Cmd
    <2> DEFINE m == Cmd("wait", {})
    <2> HIDE DEF m
    <2>3. <<m>> \in Seq({m}) /\ Len(<<m>>) = 1 /\ <<m>>[1] = m
        BY SMT
    <2> QED
        BY <2>1, <2>2, <2>3, SMT DEF m, Trailer
<1>2. CASE ~MinWaitEnabled
    <2>1. Wait = <<>>
        BY <1>2 DEF Wait
    <2> QED
        BY <1>2, <2>1, EmptyLen, SMT DEF Trailer
<1> QED
    BY <1>1, <1>2

(***************************************************************************)
(* The second pipeline of BulkEnqueue sends the scripts that failed, and   *)
(* nothing else.                                                           *)
(***************************************************************************)
LEMMA SecondPipeline ==
    ASSUME NEW c \in Calls, NEW f \in Seq(Jobs), Pipeline(c, <<>>, f)
    PROVE  /\ SecondCommands(f) \in Seq(Command)
           /\ Pipeline(c, SecondCommands(f), <<>>)
           /\ \A j : Sends(SecondCommands(f), <<>>, j) <=> Sends(<<>>, f, j)
<1> DEFINE s == [i \in DOMAIN f |-> Cmd("eval", {f[i]})]
<1>1. /\ s \in Seq(Command) /\ Len(s) = Len(f)
      /\ \A i \in 1 .. Len(s) : s[i].op = "eval" /\ s[i].jobs = {f[i]}
    <2>1. \A j \in Jobs : Cmd("eval", {j}) \in Command /\ Cmd("eval", {j}).op = "eval" /\ Cmd("eval", {j}).jobs = {j}
        BY DEF Cmd, Command
    <2>2. DOMAIN f = 1 .. Len(f) /\ Len(f) \in Nat /\ \A i \in 1 .. Len(f) : f[i] \in Jobs
        BY SMT
    <2>3. s \in [1 .. Len(f) -> Command]
        BY <2>1, <2>2
    <2>4. s \in Seq(Command) /\ Len(s) = Len(f)
        BY <2>2, <2>3, SMT
    <2> QED
        BY <2>1, <2>2, <2>4
<1>2. /\ \A i \in 1 .. Len(f) : f[i] \in Own(c) /\ KeyOf[f[i]] # NoKey
      /\ \A i, k \in 1 .. Len(f) : f[i] = f[k] => i = k
    BY DEF Pipeline
<1>3. SecondCommands(f) = s \o Wait
    BY DEF SecondCommands
<1>4. \A j : Sends(<<>>, f, j) <=> \E i \in 1 .. Len(f) : f[i] = j
    BY EmptyLen DEF Sends
<1> HIDE DEF s
<1>5. OneEach(c, s, f)
    BY <1>1, <1>2 DEF JobOps, OneEach
<1> QED
    <2>1. /\ s \o Wait \in Seq(Command)
          /\ Pipeline(c, s \o Wait, <<>>)
          /\ \A j : Sends(s \o Wait, <<>>, j) <=> \E i \in 1 .. Len(f) : f[i] = j
        BY <1>1, <1>5, WaitCommands, JobsPipeline
    <2> QED
        BY <1>3, <1>4, <2>1

-----------------------------------------------------------------------------
(***************************************************************************)
(* What a call sends at first: each of its jobs, and the names that are    *)
(* not in the cache.                                                       *)
(***************************************************************************)
LEMMA CommandsPipeline ==
    ASSUME NEW c \in Calls
    PROVE  /\ Commands(c) \in Seq(Command)
           /\ Pipeline(c, Commands(c), <<>>)
           /\ \A j \in Own(c) : Sends(Commands(c), <<>>, j)
           /\ \A j \in Own(c) : NameOf[j] \in cache \/ SendsName(Commands(c), j)
<1> DEFINE js == Params[c]
<1>1. /\ js \in Seq(Jobs) /\ Len(js) \in Nat /\ DOMAIN js = 1 .. Len(js)
      /\ \A i \in 1 .. Len(js) : js[i] \in Jobs
      /\ \A i, k \in 1 .. Len(js) : js[i] = js[k] => i = k
    BY CallsAssumption, SMT
<1>2. \A j : j \in Own(c) <=> \E i \in 1 .. Len(js) : js[i] = j
    BY <1>1 DEF Own, Range
<1>3. KindOf[c] \in {"plain", "unique", "bulk"} /\ KeyOf \in [Jobs -> Keys \cup {NoKey}]
    BY CallsAssumption
<1>4. CASE KindOf[c] # "bulk"
    <2> DEFINE j == js[1]
    <2>1. /\ Len(js) = 1
          /\ KindOf[c] = "plain" => KeyOf[j] = NoKey
          /\ KindOf[c] = "unique" => KeyOf[j] # NoKey
        BY <1>4, CallsAssumption
    <2>2. j \in Jobs /\ \A i : i \in Own(c) <=> i = j
        BY <1>1, <1>2, <2>1, SMT
    <2> HIDE DEF js, j
    <2> DEFINE push == Cmd("push", {j})
               known == Cmd("known", {j})
               eval == Cmd("eval", {j})
               wait == Cmd("wait", {})
    <2>3. /\ push \in Command /\ push.op = "push" /\ push.jobs = {j}
          /\ known \in Command /\ known.op = "known" /\ known.jobs = {j}
          /\ eval \in Command /\ eval.op = "eval" /\ eval.jobs = {j}
          /\ wait \in Command /\ wait.op = "wait"
        BY <2>2 DEF Cmd, Command
    <2>4. /\ KindOf[c] = "plain" => Commands(c) = <<push>> \o Wait \o <<known>>
          /\ KindOf[c] = "unique" => Commands(c) = <<known, eval>> \o Wait
        BY <1>4 DEF Commands, EnqueueCommands, EnqueueUniqueCommands, j, js
    <2>5. /\ Wait \in Seq(Command) /\ Len(Wait) \in 0 .. 1 /\ (MinWaitEnabled => Len(Wait) = 1)
          /\ \A i \in 1 .. Len(Wait) : Wait[i].op = "wait"
        <3>1. Wait \in Seq(Command)
            BY WaitCommands
        <3>2. CASE MinWaitEnabled
            <4>1. Wait = <<wait>>
                BY <3>2 DEF Wait
            <4> HIDE DEF wait
            <4> QED
                BY <2>3, <3>1, <4>1, SMT
        <3>3. CASE ~MinWaitEnabled
            BY <3>1, <3>3, EmptyLen, SMT DEF Wait
        <3> QED
            BY <3>2, <3>3
    <2> HIDE DEF push, known, eval, wait
    <2>6. CASE KindOf[c] = "plain"
        <3> DEFINE u == <<push>> \o Wait
                   v == u \o <<known>>
        <3>1. /\ <<push>> \in Seq(Command) /\ Len(<<push>>) = 1 /\ <<push>>[1] = push
              /\ <<known>> \in Seq(Command) /\ Len(<<known>>) = 1 /\ <<known>>[1] = known
            BY <2>3, SMT
        <3>2. /\ u \in Seq(Command) /\ Len(u) = 1 + Len(Wait) /\ u[1] = push
              /\ \A i \in 1 .. Len(Wait) : u[1 + i] = Wait[i]
            BY <2>5, <3>1, Concatenation, SMT
        <3> HIDE DEF u
        <3>3. /\ v \in Seq(Command) /\ Len(v) = Len(u) + 1 /\ v[Len(u) + 1] = known
              /\ \A i \in 1 .. Len(u) : v[i] = u[i]
            BY <3>1, <3>2, Concatenation, SMT
        <3> HIDE DEF v
        <3>4. /\ Len(v) \in 2 .. 3 /\ v[1] = push /\ v[Len(v)] = known
              /\ Len(v) = 3 => v[2].op = "wait"
              /\ MinWaitEnabled => Len(v) = 3
            BY <2>5, <3>2, <3>3, SMT
        <3>5. Pipeline(c, v, <<>>)
            <4>1. /\ v[1].op = "push" /\ v[1].jobs = {j} /\ j \in Own(c)
                  /\ \A i \in 2 .. Len(v) : v[i].op \in {"wait", "known"}
                BY <2>2, <2>3, <3>4, SMT
            <4> QED
                BY <3>4, <4>1, EmptyLen, SMT DEF Pipeline, JobOps
        <3>6. Sends(v, <<>>, j) /\ SendsName(v, j)
            BY <2>3, <3>4, SMT DEF Sends, SendsName, JobOps, NameOps
        <3>7. Commands(c) = v
            BY <2>4, <2>6 DEF u, v
        <3> QED
            BY <2>2, <3>3, <3>5, <3>6, <3>7
    <2>7. CASE KindOf[c] = "unique"
        <3> DEFINE v == <<known, eval>> \o Wait
        <3>1. /\ <<known, eval>> \in Seq(Command) /\ Len(<<known, eval>>) = 2
              /\ <<known, eval>>[1] = known /\ <<known, eval>>[2] = eval
            BY <2>3, SMT
        <3>2. /\ v \in Seq(Command) /\ Len(v) = 2 + Len(Wait) /\ v[1] = known /\ v[2] = eval
              /\ \A i \in 1 .. Len(Wait) : v[2 + i] = Wait[i]
            BY <2>5, <3>1, Concatenation, SMT
        <3> HIDE DEF v
        <3>4. /\ Len(v) \in 2 .. 3 /\ v[1] = known /\ v[2] = eval
              /\ Len(v) = 3 => v[3].op = "wait"
              /\ MinWaitEnabled => Len(v) = 3
            BY <2>5, <3>2, SMTT(60)
        <3>5. Pipeline(c, v, <<>>)
            BY <2>1, <2>2, <2>3, <2>7, <3>4, EmptyLen, SMTT(60) DEF Pipeline, JobOps
        <3>6. Sends(v, <<>>, j) /\ SendsName(v, j)
            BY <2>3, <3>4, SMT DEF Sends, SendsName, JobOps, NameOps
        <3>7. Commands(c) = v
            BY <2>4, <2>7 DEF v
        <3> QED
            BY <2>2, <3>2, <3>5, <3>6, <3>7
    <2> QED
        BY <1>3, <1>4, <2>6, <2>7
<1>5. CASE KindOf[c] = "bulk"
    <2> DEFINE s == [i \in DOMAIN js |-> BulkPush(js[i])]
               k == BulkKnown(Range(js))
    <2>1. \A j \in Jobs : /\ BulkPush(j) \in Command /\ BulkPush(j).op \in JobOps /\ BulkPush(j).jobs = {j}
                          /\ BulkPush(j).op # "push" => KeyOf[j] # NoKey
        BY DEF BulkPush, Cmd, Command, JobOps
    <2>2. Commands(c) = (s \o k) \o Wait
        BY <1>5 DEF Commands, BulkCommands
    <2>3. s \in [1 .. Len(js) -> Command] /\ \A i \in 1 .. Len(js) : s[i] = BulkPush(js[i])
        BY <1>1, <2>1
    <2> DEFINE unknown == {j \in Own(c) : NameOf[j] \notin cache}
               sadd == Cmd("sadd", unknown)
    <2>4. k = IF unknown = {} THEN <<>> ELSE <<sadd>>
        BY DEF BulkKnown, Own
    <2>5. unknown \subseteq Jobs
        BY <1>1, <1>2, SMT
    <2>6. sadd \in Command /\ sadd.op = "sadd" /\ sadd.jobs = unknown
        BY <2>5 DEF Cmd, Command
    <2> HIDE DEF s, k, js, unknown, sadd
    <2>7. s \in Seq(Command) /\ Len(s) = Len(js)
        BY <1>1, <2>3, SMT
    <2>8. OneEach(c, s, js)
        BY <1>1, <1>2, <2>1, <2>3, <2>7, SMTT(60) DEF OneEach
    <2>9. k \in Seq(Command) /\ \A i \in 1 .. Len(k) : k[i].op = "sadd"
        BY <2>4, <2>6, SMT
    <2>10. unknown # {} => Len(k) = 1 /\ k[1] = sadd
        BY <2>4
    <2>11. (s \o k) \o Wait = s \o (k \o Wait)
        BY <2>7, <2>9, WaitCommands, SMT
    <2> DEFINE t == k \o Wait
    <2>12. /\ t \in Seq(Command) /\ Len(t) = Len(k) + Len(Wait) /\ Len(k) \in Nat /\ Len(Wait) \in Nat
           /\ \A i \in 1 .. Len(k) : i \in 1 .. Len(t) /\ t[i] = k[i]
           /\ \A i \in 1 .. Len(Wait) : Len(k) + i \in 1 .. Len(t) /\ t[Len(k) + i] = Wait[i]
           /\ \A i \in 1 .. Len(t) : \/ i \in 1 .. Len(k) /\ t[i] = k[i]
                                     \/ i - Len(k) \in 1 .. Len(Wait) /\ t[i] = Wait[i - Len(k)]
        BY <2>9, WaitCommands, Concatenation, SMT
    <2> HIDE DEF t
    <2>13. Trailer(t)
        <3>1. \A i \in 1 .. Len(t) : t[i].op \in {"sadd", "wait"}
            BY <2>9, <2>12, WaitCommands DEF Trailer
        <3>2. MinWaitEnabled => Len(t) > 0 /\ t[Len(t)].op = "wait"
            BY <2>12, WaitCommands, SMT DEF Trailer
        <3> QED
            BY <3>1, <3>2 DEF Trailer
    <2>14. /\ s \o t \in Seq(Command) /\ Pipeline(c, s \o t, <<>>)
           /\ \A j : Sends(s \o t, <<>>, j) <=> \E i \in 1 .. Len(js) : js[i] = j
           /\ \A j : SendsName(t, j) => SendsName(s \o t, j)
        BY <1>1, <2>7, <2>8, <2>12, <2>13, JobsPipeline, SMTT(60)
    <2>15. \A j \in Own(c) : NameOf[j] \in cache \/ SendsName(t, j)
        <3> SUFFICES ASSUME NEW j \in Own(c), NameOf[j] \notin cache PROVE SendsName(t, j)
            OBVIOUS
        <3>1. j \in unknown
            BY DEF unknown
        <3>2. 1 \in 1 .. Len(k) /\ k[1] = sadd
            BY <2>10, <3>1, SMT
        <3>3. 1 \in 1 .. Len(t) /\ t[1] = sadd
            BY <2>12, <3>2
        <3> QED
            BY <2>6, <3>1, <3>3 DEF SendsName, NameOps
    <2>16. Commands(c) = s \o t
        BY <2>2, <2>11 DEF t
    <2> HIDE DEF Commands
    <2> QED
        BY <1>2, <2>14, <2>15, <2>16
<1> QED
    BY <1>4, <1>5

-----------------------------------------------------------------------------
(***************************************************************************)
(* A command taken from the front: what is still sent after it.            *)
(***************************************************************************)
LEMMA TailSends ==
    ASSUME NEW c \in Calls, NEW s \in Seq(Command), NEW f \in Seq(Jobs), s # <<>>, Pipeline(c, s, f)
    PROVE  /\ s[1].op \notin JobOps => \A j : Sends(Tail(s), f, j) <=> Sends(s, f, j)
           /\ s[1].op \in JobOps => \A j : /\ Sends(Tail(s), f, j) <=> Sends(s, f, j) /\ j \notin s[1].jobs
                                           /\ j \in s[1].jobs => Sends(s, f, j)
           /\ s[1].op # "wait" => (Waits(Tail(s)) <=> Waits(s))
           /\ MinWaitEnabled /\ s[1].op \in JobOps => Waits(Tail(s))
           /\ s[1].op \notin NameOps => \A j : SendsName(Tail(s), j) <=> SendsName(s, j)
           /\ \A j : SendsName(s, j) <=> (s[1].op \in NameOps /\ j \in s[1].jobs) \/ SendsName(Tail(s), j)
<1>1. /\ Len(Tail(s)) = Len(s) - 1 /\ Len(s) \in Nat /\ 1 \in 1 .. Len(s)
      /\ \A i \in 1 .. Len(Tail(s)) : Tail(s)[i] = s[i + 1] /\ i + 1 \in 2 .. Len(s)
      /\ \A i \in 2 .. Len(s) : i - 1 \in 1 .. Len(Tail(s)) /\ Tail(s)[i - 1] = s[i]
      /\ \A i \in 1 .. Len(s) : i = 1 \/ i \in 2 .. Len(s)
      /\ \A i \in 2 .. Len(s) : i \in 1 .. Len(s) /\ i # 1
    BY SMT
<1>2. \A j : (\E i \in 1 .. Len(Tail(s)) : Tail(s)[i].op \in JobOps /\ j \in Tail(s)[i].jobs)
             <=> \E i \in 2 .. Len(s) : s[i].op \in JobOps /\ j \in s[i].jobs
    BY <1>1
<1>3. \A j : Sends(s, f, j) <=> \/ s[1].op \in JobOps /\ j \in s[1].jobs
                                \/ Sends(Tail(s), f, j)
    BY <1>1, <1>2 DEF Sends
<1>4. ASSUME s[1].op \in JobOps, NEW j \in s[1].jobs PROVE ~ Sends(Tail(s), f, j)
    <2>1. s[1].jobs = {j}
        BY <1>1, <1>4, SMT DEF Pipeline
    <2>2. \A i \in 2 .. Len(s) : ~(s[i].op \in JobOps /\ j \in s[i].jobs)
        <3> SUFFICES ASSUME NEW i \in 2 .. Len(s), s[i].op \in JobOps, j \in s[i].jobs PROVE FALSE
            OBVIOUS
        <3>1. s[i].jobs = {j}
            BY <1>1, SMT DEF Pipeline
        <3>2. i \in 1 .. Len(s) /\ i # 1 /\ s[i].jobs = s[1].jobs
            BY <1>1, <2>1, <3>1
        <3> QED
            BY <1>1, <1>4, <3>2 DEF Pipeline
    <2>3. \A i \in 1 .. Len(f) : f[i] # j
        BY <1>1, <1>4, SMT DEF Pipeline
    <2> QED
        BY <1>2, <2>2, <2>3 DEF Sends
<1>5. \A j : SendsName(s, j) <=> \/ s[1].op \in NameOps /\ j \in s[1].jobs
                                 \/ SendsName(Tail(s), j)
    BY <1>1 DEF SendsName
<1>6. Waits(s) <=> s[1].op = "wait" \/ Waits(Tail(s))
    BY <1>1, ZenonT(60) DEF Waits
<1>7. MinWaitEnabled /\ s[1].op \in JobOps => Waits(Tail(s))
    <2> SUFFICES ASSUME MinWaitEnabled, s[1].op \in JobOps PROVE Waits(Tail(s))
        OBVIOUS
    <2>1. PICK k \in 2 .. Len(s) : s[k].op = "wait"
        BY <1>1, SMT DEF Pipeline
    <2> QED
        BY <1>1, <2>1 DEF Waits
<1> QED
    BY <1>3, <1>4, <1>5, <1>6, <1>7

(***************************************************************************)
(* A hash that Redis does not know leaves the job to be sent again.        *)
(***************************************************************************)
LEMMA FailedSends ==
    ASSUME NEW c \in Calls, NEW s \in Seq(Command), NEW f \in Seq(Jobs), s # <<>>, Pipeline(c, s, f),
           s[1].op = "sha", NEW i \in s[1].jobs, i \in Jobs
    PROVE  \A j : Sends(Tail(s), Append(f, i), j) <=> Sends(s, f, j)
<1>1. /\ Len(Append(f, i)) = Len(f) + 1 /\ Len(f) \in Nat
      /\ \A k \in 1 .. Len(f) : Append(f, i)[k] = f[k] /\ k \in 1 .. Len(Append(f, i))
      /\ Append(f, i)[Len(f) + 1] = i /\ Len(f) + 1 \in 1 .. Len(Append(f, i))
      /\ \A k \in 1 .. Len(Append(f, i)) : k \in 1 .. Len(f) \/ k = Len(f) + 1
    BY SMT
<1>2. \A j : Sends(Tail(s), Append(f, i), j) <=> Sends(Tail(s), f, j) \/ j = i
    BY <1>1 DEF Sends
<1>3. s[1].jobs = {i} /\ s[1].op \in JobOps
    BY SMT DEF Pipeline, JobOps
<1>4. \A j : /\ Sends(Tail(s), f, j) <=> Sends(s, f, j) /\ j \notin s[1].jobs
             /\ j \in s[1].jobs => Sends(s, f, j)
    BY <1>3, TailSends
<1> QED
    BY <1>2, <1>3, <1>4

-----------------------------------------------------------------------------
(* What is in Redis. *)

(***************************************************************************)
(* Something is in Redis if the replicas have it or a later write put it   *)
(* there.                                                                  *)
(***************************************************************************)
LEMMA InStore ==
    ASSUME CallsTypeOK
    PROVE  /\ \A j : j \in Pushed <=> \/ j \in stored.jobs
                                      \/ \E i \in 1 .. Len(pending) : j \in pending[i].write.jobs
           /\ \A n : n \in KnownJobs <=> \/ n \in stored.names
                                         \/ \E i \in 1 .. Len(pending) : n \in pending[i].write.names
           /\ \A k : k \in UniqueKeys <=> \/ k \in stored.keys
                                          \/ \E i \in 1 .. Len(pending) : k \in pending[i].write.keys
<1>1. DOMAIN pending = 1 .. Len(pending)
    BY SMT DEF CallsTypeOK
<1> QED
    BY <1>1 DEF Pushed, KnownJobs, UniqueKeys

\* The writes that put the key there will be replicated when those of the call are.
KeyBefore(c, k) ==
    \/ k \in stored.keys
    \/ \E i, l \in 1 .. Len(pending) : i < l /\ k \in pending[i].write.keys /\ pending[l].by = c

\* Only the call itself writes its jobs.
OwnWrites ==
    \A i \in 1 .. Len(pending) : \A c \in Calls : \A j \in Own(c) :
        j \in pending[i].write.jobs => pending[i].by = c

(***************************************************************************)
(* Redis executes a command.                                               *)
(***************************************************************************)
LEMMA Executed ==
    ASSUME CallsTypeOK, NEW c \in Calls, NEW w \in WriteSet, Execute(c, w)
    PROVE  /\ \A j : j \in Pushed' <=> j \in Pushed \/ j \in w.jobs
           /\ \A n : n \in KnownJobs' <=> n \in KnownJobs \/ n \in w.names
           /\ \A k : k \in UniqueKeys' <=> k \in UniqueKeys \/ k \in w.keys
           /\ \A d, k : KeyBefore(d, k) => KeyBefore(d, k)'
           /\ \A k \in UniqueKeys : KeyBefore(c, k)'
           /\ (OwnWrites /\ \A d \in Calls : \A j \in Own(d) : j \in w.jobs => d = c) => OwnWrites'
<1> DEFINE n == Len(pending)
<1>1. /\ pending \in Seq([by : Calls, write : WriteSet]) /\ n \in Nat
      /\ pending' = Append(pending, [by |-> c, write |-> w]) /\ stored' = stored
    BY SMT DEF CallsTypeOK, Execute
<1>2. /\ Len(pending') = n + 1 /\ \A i \in 1 .. n : pending'[i] = pending[i]
      /\ pending'[n + 1].by = c /\ pending'[n + 1].write = w
    BY <1>1, SMT
<1>3. /\ \A i \in 1 .. n + 1 : i \in 1 .. n \/ i = n + 1
      /\ \A i \in 1 .. n : i \in 1 .. n + 1 /\ i < n + 1
      /\ n + 1 \in 1 .. n + 1
    BY <1>1, SMT
<1> HIDE DEF n
<1>4. /\ \A j : j \in Pushed <=> j \in stored.jobs \/ \E i \in 1 .. n : j \in pending[i].write.jobs
      /\ \A m : m \in KnownJobs <=> m \in stored.names \/ \E i \in 1 .. n : m \in pending[i].write.names
      /\ \A k : k \in UniqueKeys <=> k \in stored.keys \/ \E i \in 1 .. n : k \in pending[i].write.keys
    BY InStore DEF n
<1>5. /\ \A j : j \in Pushed' <=> \/ j \in stored.jobs
                                  \/ \E i \in 1 .. n + 1 : j \in pending'[i].write.jobs
      /\ \A m : m \in KnownJobs' <=> \/ m \in stored.names
                                     \/ \E i \in 1 .. n + 1 : m \in pending'[i].write.names
      /\ \A k : k \in UniqueKeys' <=> \/ k \in stored.keys
                                      \/ \E i \in 1 .. n + 1 : k \in pending'[i].write.keys
    <2>1. DOMAIN pending' = 1 .. n + 1
        BY <1>1, <1>2, SMT
    <2> QED
        BY <1>1, <2>1 DEF Pushed, KnownJobs, UniqueKeys
<1>6. \A j : j \in Pushed' <=> j \in Pushed \/ j \in w.jobs
    BY <1>2, <1>3, <1>4, <1>5
<1>7. \A m : m \in KnownJobs' <=> m \in KnownJobs \/ m \in w.names
    BY <1>2, <1>3, <1>4, <1>5
<1>8. \A k : k \in UniqueKeys' <=> k \in UniqueKeys \/ k \in w.keys
    BY <1>2, <1>3, <1>4, <1>5
<1>9. \A d, k : KeyBefore(d, k) => KeyBefore(d, k)'
    BY <1>1, <1>2, <1>3 DEF KeyBefore, n
<1>10. \A k \in UniqueKeys : KeyBefore(c, k)'
    BY <1>1, <1>2, <1>3, <1>4, SMTT(60) DEF KeyBefore
<1>11. ASSUME OwnWrites, \A d \in Calls : \A j \in Own(d) : j \in w.jobs => d = c PROVE OwnWrites'
    <2>1. ASSUME NEW i \in 1 .. n + 1, NEW d \in Calls, NEW j \in Own(d), j \in pending'[i].write.jobs
          PROVE  pending'[i].by = d
        BY <1>2, <1>3, <1>11, <2>1 DEF OwnWrites, n
    <2> QED
        BY <1>2, <2>1 DEF OwnWrites, Own
<1> QED
    BY <1>6, <1>7, <1>8, <1>9, <1>10, <1>11

(***************************************************************************)
(* The replicas catch up by one write: nothing appears or disappears.      *)
(***************************************************************************)
LEMMA CaughtUp ==
    ASSUME CallsTypeOK, Replicate
    PROVE  /\ \A j : j \in Pushed' <=> j \in Pushed
           /\ \A n : n \in KnownJobs' <=> n \in KnownJobs
           /\ \A k : k \in UniqueKeys' <=> k \in UniqueKeys
           /\ stored.jobs \subseteq stored'.jobs /\ stored.keys \subseteq stored'.keys
           /\ \A d, k : KeyBefore(d, k) => KeyBefore(d, k)'
           /\ OwnWrites => OwnWrites'
<1> DEFINE n == Len(pending)
<1>1. /\ pending \in Seq([by : Calls, write : WriteSet]) /\ n \in Nat /\ n >= 1
      /\ pending' = Tail(pending) /\ Head(pending) = pending[1]
      /\ stored' = Merge(stored, pending[1].write)
    BY SMT DEF CallsTypeOK, Replicate
<1>2. /\ Len(pending') = n - 1 /\ \A i \in 1 .. n - 1 : pending'[i] = pending[i + 1]
      /\ DOMAIN pending' = 1 .. n - 1
    BY <1>1, SMT
<1>3. /\ \A i \in 1 .. n : i = 1 \/ (i - 1 \in 1 .. n - 1 /\ pending'[i - 1] = pending[i])
      /\ \A i \in 1 .. n - 1 : i + 1 \in 1 .. n
      /\ 1 \in 1 .. n
    BY <1>1, <1>2, SMT
<1>m. /\ \A i \in 1 .. n : i = 1 \/ \E k \in 1 .. n - 1 : pending'[k] = pending[i]
      /\ \A k \in 1 .. n - 1 : \E i \in 1 .. n : pending'[k] = pending[i]
    BY <1>2, <1>3
<1>4. /\ stored'.jobs = stored.jobs \cup pending[1].write.jobs
      /\ stored'.names = stored.names \cup pending[1].write.names
      /\ stored'.keys = stored.keys \cup pending[1].write.keys
    BY <1>1 DEF Merge, Write
<1> HIDE DEF n
<1>5. /\ \A j : j \in Pushed <=> j \in stored.jobs \/ \E i \in 1 .. n : j \in pending[i].write.jobs
      /\ \A m : m \in KnownJobs <=> m \in stored.names \/ \E i \in 1 .. n : m \in pending[i].write.names
      /\ \A k : k \in UniqueKeys <=> k \in stored.keys \/ \E i \in 1 .. n : k \in pending[i].write.keys
    BY InStore DEF n
<1>6. /\ \A j : j \in Pushed' <=> \/ j \in stored'.jobs
                                  \/ \E i \in 1 .. n - 1 : j \in pending'[i].write.jobs
      /\ \A m : m \in KnownJobs' <=> \/ m \in stored'.names
                                     \/ \E i \in 1 .. n - 1 : m \in pending'[i].write.names
      /\ \A k : k \in UniqueKeys' <=> \/ k \in stored'.keys
                                      \/ \E i \in 1 .. n - 1 : k \in pending'[i].write.keys
    BY <1>2 DEF Pushed, KnownJobs, UniqueKeys
<1>7. \A j : j \in Pushed' <=> j \in Pushed
    BY <1>3, <1>4, <1>5, <1>6, <1>m, SMT
<1>8. \A m : m \in KnownJobs' <=> m \in KnownJobs
    BY <1>3, <1>4, <1>5, <1>6, <1>m, SMT
<1>9. \A k : k \in UniqueKeys' <=> k \in UniqueKeys
    BY <1>3, <1>4, <1>5, <1>6, <1>m, SMT
<1>10. ASSUME NEW d, NEW k, KeyBefore(d, k) PROVE KeyBefore(d, k)'
    <2>1. CASE k \in stored.keys
        BY <1>4, <2>1 DEF KeyBefore
    <2>2. CASE \E i, l \in 1 .. n : i < l /\ k \in pending[i].write.keys /\ pending[l].by = d
        <3>1. PICK i \in 1 .. n, l \in 1 .. n : i < l /\ k \in pending[i].write.keys /\ pending[l].by = d
            BY <2>2
        <3>2. CASE i = 1
            BY <1>4, <3>1, <3>2 DEF KeyBefore
        <3>3. CASE i # 1
            <4>1. /\ i - 1 \in 1 .. n - 1 /\ pending'[i - 1] = pending[i]
                  /\ l - 1 \in 1 .. n - 1 /\ pending'[l - 1] = pending[l] /\ i - 1 < l - 1
                <5>1. l # 1 /\ i - 1 < l - 1
                    BY <3>1, <3>3, SMT
                <5> QED
                    BY <1>3, <3>3, <5>1
            <4>2. i - 1 \in 1 .. Len(pending') /\ l - 1 \in 1 .. Len(pending')
                BY <1>2, <4>1
            <4> QED
                BY <3>1, <4>1, <4>2 DEF KeyBefore
        <3> QED
            BY <3>2, <3>3
    <2> QED
        BY <1>10, <2>1, <2>2 DEF KeyBefore, n
<1>11. OwnWrites => OwnWrites'
    <2> SUFFICES ASSUME OwnWrites, NEW k \in 1 .. n - 1, NEW c \in Calls, NEW j \in Own(c),
                        j \in pending'[k].write.jobs
                 PROVE  pending'[k].by = c
        BY <1>2 DEF OwnWrites, Own
    <2>1. PICK i \in 1 .. n : pending'[k] = pending[i]
        BY <1>m
    <2> QED
        BY <2>1 DEF OwnWrites, n
<1> QED
    BY <1>4, <1>7, <1>8, <1>9, <1>10, <1>11

(***************************************************************************)
(* After a failover nothing is in Redis that was not there, and what the   *)
(* replicas had is.                                                        *)
(***************************************************************************)
LEMMA FailedOver ==
    ASSUME CallsTypeOK, Failover
    PROVE  /\ \A j : j \in Pushed' => j \in Pushed
           /\ stored' = stored
           /\ \A j \in stored.jobs : j \in Pushed'
           /\ \A k \in stored.keys : k \in UniqueKeys'
           /\ OwnWrites => OwnWrites'
<1>1. PICK n \in 0 .. Len(pending) : pending' = SubSeq(pending, 1, n)
    BY DEF Failover
<1>2. pending \in Seq([by : Calls, write : WriteSet]) /\ Len(pending) \in Nat
    BY SMT DEF CallsTypeOK
<1>3. /\ Len(pending') = n /\ DOMAIN pending' = 1 .. n
      /\ \A i \in 1 .. n : pending'[i] = pending[i] /\ i \in 1 .. Len(pending)
    BY <1>1, <1>2, SMT
<1>4. stored' = stored
    BY DEF Failover
<1>5. /\ \A j : j \in Pushed' <=> j \in stored.jobs \/ \E i \in 1 .. n : j \in pending'[i].write.jobs
      /\ \A k : k \in UniqueKeys' <=> k \in stored.keys \/ \E i \in 1 .. n : k \in pending'[i].write.keys
    BY <1>3, <1>4 DEF Pushed, UniqueKeys
<1>6. \A j : j \in Pushed' => j \in Pushed
    BY <1>3, <1>5, InStore
<1>7. OwnWrites => OwnWrites'
    BY <1>3 DEF OwnWrites, Own
<1> QED
    BY <1>4, <1>5, <1>6, <1>7

-----------------------------------------------------------------------------
(* What the steps do. *)

(***************************************************************************)
(* A call that does not run has nothing to send.                           *)
(***************************************************************************)
Orderly ==
    \A c \in Calls : /\ cpc[c] # "busy" => todo[c] = <<>> /\ failed[c] = <<>>
                     /\ Pipeline(c, todo[c], failed[c])

(***************************************************************************)
(* The jobs of different calls are different.                              *)
(***************************************************************************)
LEMMA OwnJobs ==
    /\ \A c \in Calls : Own(c) \subseteq Jobs
    /\ \A c, d \in Calls : \A j \in Own(c) : j \in Own(d) => c = d
<1>1. Params \in [Calls -> Seq(Jobs)]
    BY CallsAssumption
<1>2. ASSUME NEW c \in Calls, NEW j \in Own(c) PROVE \E i \in DOMAIN Params[c] : Params[c][i] = j
    BY <1>2 DEF Own, Range
<1>3. \A c \in Calls : Own(c) \subseteq Jobs
    BY <1>1, <1>2, SMT
<1>4. \A c, d \in Calls : \A i \in DOMAIN Params[c], k \in DOMAIN Params[d] :
            Params[c][i] = Params[d][k] => c = d
    BY CallsAssumption
<1>5. \A c, d \in Calls : \A j \in Own(c) : j \in Own(d) => c = d
    <2> SUFFICES ASSUME NEW c \in Calls, NEW d \in Calls, NEW j \in Own(c), j \in Own(d) PROVE c = d
        OBVIOUS
    <2>1. PICK i \in DOMAIN Params[c] : Params[c][i] = j
        BY <1>2
    <2>2. PICK k \in DOMAIN Params[d] : Params[d][k] = j
        BY <1>2
    <2> QED
        BY <1>4, <2>1, <2>2
<1> QED
    BY <1>3, <1>5

(***************************************************************************)
(* The next command of a call.                                             *)
(***************************************************************************)
LEMMA NextCommand ==
    ASSUME CallsTypeOK, Orderly, NEW c \in Calls, NEW op, At(c, op)
    PROVE  /\ todo[c] \in Seq(Command) /\ todo[c] # <<>> /\ failed[c] \in Seq(Jobs)
           /\ Pipeline(c, todo[c], failed[c])
           /\ todo[c][1].op = op /\ Given(c) = todo[c][1].jobs /\ Given(c) \subseteq Jobs
           /\ op \in JobOps => \E j \in Own(c) : Given(c) = {j} /\ (op # "push" => KeyOf[j] \in Keys)
<1>1. /\ todo[c] \in Seq(Command) /\ todo[c] # <<>> /\ failed[c] \in Seq(Jobs)
      /\ Head(todo[c]) = todo[c][1] /\ Head(todo[c]).op = op
      /\ 1 \in 1 .. Len(todo[c]) /\ todo[c][1] \in Command
    BY SMT DEF CallsTypeOK, At
<1>2. Given(c) = todo[c][1].jobs /\ Given(c) \subseteq Jobs
    BY <1>1 DEF Given, Command
<1>3. Pipeline(c, todo[c], failed[c])
    BY DEF Orderly
<1>4. ASSUME op \in JobOps PROVE \E j \in Own(c) : Given(c) = {j} /\ (op # "push" => KeyOf[j] \in Keys)
    <2>1. PICK j \in Own(c) : Given(c) = {j} /\ (op # "push" => KeyOf[j] # NoKey)
        BY <1>1, <1>2, <1>3, <1>4, SMTT(60) DEF Pipeline
    <2>2. j \in Jobs /\ KeyOf \in [Jobs -> Keys \cup {NoKey}]
        BY OwnJobs, CallsAssumption
    <2> QED
        BY <2>1, <2>2
<1> QED
    BY <1>1, <1>2, <1>3, <1>4

(***************************************************************************)
(* The steps of a call, as far as its jobs and their names go: it begins,  *)
(* Redis executes a command for a job, it has to send the script of a job  *)
(* again, it makes sure of names, it waits, it fails, it returns, or it    *)
(* begins the second pipeline.                                             *)
(***************************************************************************)
OthersStay(c) ==
    \A d \in Calls : d # c => cpc'[d] = cpc[d] /\ todo'[d] = todo[d] /\ failed'[d] = failed[d]

RedisStays == UNCHANGED <<stored, pending, skipped>>

Begins(c) ==
    /\ cpc[c] = "idle" /\ cpc'[c] = "busy"
    /\ todo'[c] = Commands(c) /\ failed'[c] = failed[c]
    /\ RedisStays /\ cache' = cache

Proceeds(c) ==
    /\ cpc[c] = "busy" /\ cpc'[c] = "busy"
    /\ todo[c] # <<>> /\ todo'[c] = Tail(todo[c])

Enqueues(c, j) ==
    /\ Proceeds(c) /\ todo[c][1].op \in JobOps /\ todo[c][1].jobs = {j} /\ j \in Own(c)
    /\ failed'[c] = failed[c] /\ cache' = cache
    /\ \E w \in WriteSet :
        /\ Execute(c, w)
        /\ \/ w.jobs = {j} /\ skipped' = skipped
           \/ w.jobs = {} /\ skipped' = skipped \cup {j} /\ KeyOf[j] \in UniqueKeys

Defers(c, j) ==
    /\ Proceeds(c) /\ todo[c][1].op = "sha" /\ todo[c][1].jobs = {j} /\ j \in Own(c)
    /\ failed'[c] = Append(failed[c], j)
    /\ RedisStays /\ cache' = cache

MakesKnown(c) ==
    /\ Proceeds(c) /\ todo[c][1].op \in NameOps
    /\ failed'[c] = failed[c] /\ skipped' = skipped
    /\ \/ RedisStays /\ cache' = cache /\ \A j \in todo[c][1].jobs : NameOf[j] \in cache
       \/ \E w \in WriteSet :
            /\ Execute(c, w) /\ w.jobs = {} /\ cache' = cache \cup w.names
            /\ w.names = {NameOf[j] : j \in todo[c][1].jobs}

HasWaited(c) ==
    /\ Proceeds(c) /\ todo[c][1].op = "wait" /\ Replicated(c)
    /\ failed'[c] = failed[c]
    /\ RedisStays /\ cache' = cache

Fails(c) ==
    /\ cpc'[c] = "error" /\ todo'[c] = <<>> /\ failed'[c] = <<>>
    /\ RedisStays /\ cache' = cache

Returns(c) ==
    /\ cpc[c] = "busy" /\ todo[c] = <<>> /\ failed[c] = <<>>
    /\ cpc'[c] = "ok" /\ todo'[c] = <<>> /\ failed'[c] = <<>>
    /\ RedisStays /\ cache' = cache

SendsAgain(c) ==
    /\ cpc[c] = "busy" /\ cpc'[c] = "busy" /\ todo[c] = <<>>
    /\ todo'[c] = SecondCommands(failed[c]) /\ failed'[c] = <<>>
    /\ RedisStays /\ cache' = cache

(***************************************************************************)
(* There are no other steps of a call.                                     *)
(***************************************************************************)
LEMMA CallSteps ==
    ASSUME CallsTypeOK, Orderly, NEW c \in Calls, CallNext(c)
    PROVE  /\ OthersStay(c) /\ failovers' = failovers
           /\ \/ Begins(c) \/ MakesKnown(c) \/ HasWaited(c) \/ Fails(c) \/ Returns(c) \/ SendsAgain(c)
              \/ \E j \in Own(c) : Enqueues(c, j) \/ Defers(c, j)
<1>1. cpc \in [Calls -> {"idle", "busy", "ok", "error"}] /\ DOMAIN todo = Calls /\ DOMAIN failed = Calls
    BY DEF CallsTypeOK
<1>2. CASE CallEnqueue(c)
    <2>1. OthersStay(c) /\ failovers' = failovers /\ Begins(c)
        BY <1>1, <1>2 DEF CallEnqueue, OthersStay, Begins, RedisStays, serverVars, boundVars
    <2> QED
        BY <2>1
<1>3. CASE Push(c)
    <2>1. At(c, "push")
        BY <1>3 DEF Push
    <2>2. PICK j \in Own(c) : Given(c) = {j} /\ Given(c) = todo[c][1].jobs /\ todo[c][1].op = "push"
        BY <2>1, NextCommand DEF JobOps
    <2>3. OthersStay(c) /\ failovers' = failovers /\ Proceeds(c) /\ failed' = failed /\ cache' = cache
        BY <1>1, <1>3 DEF Push, Done, At, OthersStay, Proceeds, boundVars
    <2>4. /\ Write({j}, {}, {}) \in WriteSet /\ Write({j}, {}, {}).jobs = {j}
          /\ Execute(c, Write({j}, {}, {})) /\ skipped' = skipped
        BY <1>3, <2>2, OwnJobs DEF Push, Write, WriteSet
    <2>5. Enqueues(c, j)
        BY <2>2, <2>3, <2>4 DEF Enqueues, JobOps
    <2> QED
        BY <2>3, <2>5
<1>4. CASE AddToKnownJobs(c) \/ BulkSadd(c)
    <2> DEFINE names == {NameOf[j] : j \in Given(c)}
    <2>1. At(c, "known") \/ At(c, "sadd")
        BY <1>4 DEF AddToKnownJobs, BulkSadd
    <2>2. Given(c) = todo[c][1].jobs /\ Given(c) \subseteq Jobs /\ todo[c][1].op \in NameOps
        BY <2>1, NextCommand DEF NameOps
    <2>3. OthersStay(c) /\ failovers' = failovers /\ Proceeds(c) /\ failed' = failed /\ skipped' = skipped
        BY <1>1, <1>4 DEF AddToKnownJobs, BulkSadd, Done, At, OthersStay, Proceeds, boundVars
    <2>4. names \subseteq Names
        BY <2>2, CallsAssumption, SMT
    <2>5. Write({}, names, {}) \in WriteSet /\ Write({}, names, {}).jobs = {} /\ Write({}, names, {}).names = names
        BY <2>4 DEF Write, WriteSet
    <2>6. \/ names \subseteq cache /\ UNCHANGED <<stored, pending, cache>>
          \/ Execute(c, Write({}, names, {})) /\ cache' = cache \cup names
        BY <1>4 DEF AddToKnownJobs, BulkSadd
    <2>7. MakesKnown(c)
        <3>1. CASE names \subseteq cache /\ UNCHANGED <<stored, pending, cache>>
            BY <2>2, <2>3, <3>1 DEF MakesKnown, RedisStays
        <3>2. CASE Execute(c, Write({}, names, {})) /\ cache' = cache \cup names
            BY <2>2, <2>3, <2>5, <3>2 DEF MakesKnown
        <3> QED
            BY <2>6, <3>1, <3>2
    <2> QED
        BY <2>3, <2>7
<1>5. CASE SendHash(c) \/ Eval(c)
    <2>1. (SendHash(c) /\ At(c, "sha")) \/ (Eval(c) /\ At(c, "eval"))
        BY <1>5 DEF SendHash, Eval
    <2>2. PICK j \in Own(c) : /\ Given(c) = {j} /\ KeyOf[j] \in Keys /\ Given(c) = todo[c][1].jobs
                              /\ todo[c][1].op \in JobOps
        BY <2>1, NextCommand, SMT DEF JobOps
    <2>3. OthersStay(c) /\ failovers' = failovers /\ Proceeds(c) /\ cache' = cache
        <3>1. OthersStay(c)
            BY <1>1, <1>5 DEF SendHash, Eval, Done, OthersStay
        <3> QED
            BY <1>1, <1>5, <3>1 DEF SendHash, Eval, Done, At, Proceeds, boundVars
    <2>4. CASE LuaEnqueueUnique(c) /\ failed' = failed
        <3>1. \/ Execute(c, Write({}, {}, {})) /\ skipped' = skipped \cup {j} /\ KeyOf[j] \in UniqueKeys
              \/ Execute(c, Write({j}, {}, {KeyOf[j]})) /\ skipped' = skipped
            BY <2>2, <2>4 DEF LuaEnqueueUnique
        <3>2. /\ Write({}, {}, {}) \in WriteSet /\ Write({}, {}, {}).jobs = {}
              /\ Write({j}, {}, {KeyOf[j]}) \in WriteSet /\ Write({j}, {}, {KeyOf[j]}).jobs = {j}
            BY <2>2, OwnJobs DEF Write, WriteSet
        <3>3. Enqueues(c, j)
            <4>1. \E w \in WriteSet :
                    /\ Execute(c, w)
                    /\ \/ w.jobs = {j} /\ skipped' = skipped
                       \/ w.jobs = {} /\ skipped' = skipped \cup {j} /\ KeyOf[j] \in UniqueKeys
                BY <3>1, <3>2
            <4> QED
                BY <2>2, <2>3, <2>4, <4>1 DEF Enqueues
        <3> QED
            BY <2>3, <3>3
    <2>5. CASE SendHash(c) /\ ~loaded
        <3>1. At(c, "sha") /\ todo[c][1].op = "sha"
            BY <2>5, NextCommand DEF SendHash
        <3>2. failed' = [failed EXCEPT ![c] = Append(@, j)] /\ RedisStays
            BY <2>2, <2>5 DEF SendHash, RedisStays
        <3>3. Defers(c, j)
            BY <1>1, <2>2, <2>3, <3>1, <3>2 DEF Defers
        <3> QED
            BY <2>3, <3>3
    <2> QED
        BY <1>5, <2>4, <2>5 DEF SendHash, Eval
<1>6. CASE ReceiveWait(c)
    <2>1. At(c, "wait") /\ todo[c][1].op = "wait"
        BY <1>6, NextCommand DEF ReceiveWait
    <2>2. failovers' = failovers /\ RedisStays /\ cache' = cache
        BY <1>6 DEF ReceiveWait, RedisStays, serverVars, boundVars
    <2>3. CASE Replicated(c)
        <3>1. OthersStay(c) /\ HasWaited(c)
            BY <1>1, <1>6, <2>1, <2>2, <2>3 DEF ReceiveWait, At, Done, OthersStay, HasWaited, Proceeds
        <3> QED
            BY <2>2, <3>1
    <2>4. CASE ~Replicated(c)
        <3>1. OthersStay(c) /\ Fails(c)
            BY <1>1, <1>6, <2>1, <2>2, <2>4 DEF ReceiveWait, Ends, OthersStay, Fails
        <3> QED
            BY <2>2, <3>1
    <2> QED
        BY <2>3, <2>4
<1>7. CASE Return(c)
    <2>1. OthersStay(c) /\ failovers' = failovers /\ Returns(c)
        BY <1>1, <1>7 DEF Return, Ends, OthersStay, Returns, RedisStays, serverVars, boundVars
    <2> QED
        BY <2>1
<1>8. CASE SecondRound(c)
    <2>1. OthersStay(c) /\ failovers' = failovers /\ SendsAgain(c)
        BY <1>1, <1>8 DEF SecondRound, OthersStay, SendsAgain, RedisStays, serverVars, boundVars
    <2> QED
        BY <2>1
<1>9. CASE CallFails(c)
    <2>1. OthersStay(c) /\ failovers' = failovers /\ Fails(c)
        BY <1>1, <1>9 DEF CallFails, Ends, OthersStay, Fails, RedisStays, serverVars
    <2> QED
        BY <2>1
<1> QED
    BY <1>2, <1>3, <1>4, <1>5, <1>6, <1>7, <1>8, <1>9 DEF CallNext

-----------------------------------------------------------------------------
(* Type correctness. *)

(***************************************************************************)
(* The parts of a sequence have its type.                                  *)
(***************************************************************************)
LEMMA SequenceParts ==
    ASSUME NEW S, NEW s \in Seq(S)
    PROVE  /\ s # <<>> => Head(s) \in S /\ Tail(s) \in Seq(S)
           /\ \A n \in 0 .. Len(s) : SubSeq(s, 1, n) \in Seq(S)
BY SMT

(***************************************************************************)
(* Before the first call there is nothing.                                 *)
(***************************************************************************)
LEMMA CallsTypeInit == CallsInit => CallsTypeOK /\ Orderly
<1> SUFFICES ASSUME CallsInit PROVE CallsTypeOK /\ Orderly
    OBVIOUS
<1>1. CallsTypeOK
    <2>1. stored \in WriteSet /\ pending \in Seq([by : Calls, write : WriteSet])
        BY SMT DEF CallsInit, Write, WriteSet
    <2>2. /\ cpc \in [Calls -> {"idle", "busy", "ok", "error"}]
          /\ todo \in [Calls -> Seq(Command)] /\ failed \in [Calls -> Seq(Jobs)]
        BY SMT DEF CallsInit
    <2>3. faults \in 0 .. MaxFaults /\ expiries \in 0 .. MaxExpiries
        BY CallsAssumption, SMT DEF CallsInit
    <2> QED
        BY <2>1, <2>2, <2>3 DEF CallsInit, CallsTypeOK
<1>2. Orderly
    BY EmptyLen, SMT DEF CallsInit, Orderly, Pipeline
<1> QED
    BY <1>1, <1>2

(***************************************************************************)
(* A command that Redis executes.                                          *)
(***************************************************************************)
LEMMA ExecuteType ==
    ASSUME CallsTypeOK, NEW c \in Calls, NEW w \in WriteSet, Execute(c, w)
    PROVE  stored' \in WriteSet /\ pending' \in Seq([by : Calls, write : WriteSet])
BY SMT DEF CallsTypeOK, Execute

(***************************************************************************)
(* Every step keeps the state well-typed.                                  *)
(***************************************************************************)
LEMMA CallsTypeNext ==
    ASSUME CallsTypeOK, Orderly, [CallsNext]_enqueueVars
    PROVE  CallsTypeOK'
<1>1. ASSUME NEW c \in Calls, CallNext(c) PROVE CallsTypeOK'
    <2>1. /\ loaded' \in BOOLEAN /\ faults' \in 0 .. MaxFaults /\ expiries' \in 0 .. MaxExpiries
          /\ failovers' \in BOOLEAN /\ cpc' \in [Calls -> {"idle", "busy", "ok", "error"}]
        <3>1. loaded' \in BOOLEAN
            BY <1>1 DEF CallsTypeOK, CallNext, CallEnqueue, Push, AddToKnownJobs, BulkSadd, SendHash, Eval,
                ReceiveWait, Return, SecondRound, CallFails, serverVars
        <3>2. faults' = faults \/ (faults < MaxFaults /\ faults' = faults + 1)
            BY <1>1 DEF CallNext, CallEnqueue, Push, AddToKnownJobs, BulkSadd, SendHash, Eval,
                ReceiveWait, Return, SecondRound, CallFails, boundVars
        <3>3. faults' \in 0 .. MaxFaults
            BY <3>2, CallsAssumption, SMT DEF CallsTypeOK
        <3>4. expiries' = expiries /\ failovers' = failovers
            BY <1>1 DEF CallNext, CallEnqueue, Push, AddToKnownJobs, BulkSadd, SendHash, Eval,
                ReceiveWait, Return, SecondRound, CallFails, boundVars
        <3>5. \/ cpc' = cpc \/ cpc' = [cpc EXCEPT ![c] = "busy"]
              \/ cpc' = [cpc EXCEPT ![c] = "ok"] \/ cpc' = [cpc EXCEPT ![c] = "error"]
            BY <1>1 DEF CallNext, CallEnqueue, Push, AddToKnownJobs, BulkSadd, SendHash, Eval,
                ReceiveWait, Return, SecondRound, CallFails, Ends
        <3>6. cpc' \in [Calls -> {"idle", "busy", "ok", "error"}]
            <4>1. cpc \in [Calls -> {"idle", "busy", "ok", "error"}]
                BY DEF CallsTypeOK
            <4> QED
                BY <3>5, <4>1
        <3> QED
            BY <3>1, <3>3, <3>4, <3>6 DEF CallsTypeOK
    <2>2. /\ \E s : todo' = [todo EXCEPT ![c] = s]
          /\ \E f : failed' = [failed EXCEPT ![c] = f]
        <3>1. todo' = [todo EXCEPT ![c] = todo'[c]] /\ failed' = [failed EXCEPT ![c] = failed'[c]]
            BY <1>1 DEF CallsTypeOK, CallNext, CallEnqueue, Push, AddToKnownJobs, BulkSadd, SendHash, Eval,
                ReceiveWait, Return, SecondRound, CallFails, Ends, Done
        <3> QED
            BY <3>1
    <2>3. /\ todo'[c] \in Seq(Command) /\ failed'[c] \in Seq(Jobs) /\ skipped' \subseteq Jobs
          /\ cache' \subseteq Names /\ stored' \in WriteSet
          /\ pending' \in Seq([by : Calls, write : WriteSet])
        <3>1. /\ todo[c] \in Seq(Command) /\ failed[c] \in Seq(Jobs) /\ skipped \subseteq Jobs
              /\ cache \subseteq Names /\ stored \in WriteSet
              /\ pending \in Seq([by : Calls, write : WriteSet])
              /\ <<>> \in Seq(Command) /\ <<>> \in Seq(Jobs)
            BY SMT DEF CallsTypeOK
        <3>2. todo[c] # <<>> => Tail(todo[c]) \in Seq(Command)
            BY <3>1, SMT
        <3>3. CASE Begins(c)
            BY <3>1, <3>3, CommandsPipeline DEF Begins, RedisStays
        <3>4. CASE MakesKnown(c)
            <4>1. cache' \subseteq Names /\ stored' \in WriteSet /\ pending' \in Seq([by : Calls, write : WriteSet])
                <5>1. CASE RedisStays /\ cache' = cache
                    BY <3>1, <5>1 DEF RedisStays
                <5>2. ASSUME NEW w \in WriteSet, Execute(c, w), cache' = cache \cup w.names
                      PROVE  cache' \subseteq Names /\ stored' \in WriteSet
                             /\ pending' \in Seq([by : Calls, write : WriteSet])
                    <6>1. w.names \subseteq Names
                        BY <5>2 DEF WriteSet
                    <6> QED
                        BY <3>1, <5>2, <6>1, ExecuteType
                <5> QED
                    BY <3>4, <5>1, <5>2 DEF MakesKnown
            <4> QED
                BY <3>1, <3>2, <3>4, <4>1 DEF MakesKnown, Proceeds
        <3>5. CASE HasWaited(c)
            BY <3>1, <3>2, <3>5 DEF HasWaited, Proceeds, RedisStays
        <3>6. CASE Fails(c)
            BY <3>1, <3>6 DEF Fails, RedisStays
        <3>7. CASE Returns(c)
            BY <3>1, <3>7 DEF Returns, RedisStays
        <3>8. CASE SendsAgain(c)
            <4>1. Pipeline(c, <<>>, failed[c])
                BY <3>8 DEF SendsAgain, Orderly
            <4>2. SecondCommands(failed[c]) \in Seq(Command)
                BY <3>1, <4>1, SecondPipeline
            <4> QED
                BY <3>1, <3>8, <4>2 DEF SendsAgain, RedisStays
        <3>9. ASSUME NEW j \in Own(c), Enqueues(c, j) \/ Defers(c, j)
              PROVE  /\ todo'[c] \in Seq(Command) /\ failed'[c] \in Seq(Jobs) /\ skipped' \subseteq Jobs
                     /\ cache' \subseteq Names /\ stored' \in WriteSet
                     /\ pending' \in Seq([by : Calls, write : WriteSet])
            <4>1. j \in Jobs
                BY OwnJobs
            <4>2. CASE Enqueues(c, j)
                <5>1. PICK w \in WriteSet : Execute(c, w) /\ (skipped' = skipped \/ skipped' = skipped \cup {j})
                    BY <4>2 DEF Enqueues
                <5>2. stored' \in WriteSet /\ pending' \in Seq([by : Calls, write : WriteSet])
                    BY <5>1, ExecuteType
                <5> QED
                    BY <3>1, <3>2, <4>1, <4>2, <5>1, <5>2 DEF Enqueues, Proceeds
            <4>3. CASE Defers(c, j)
                BY <3>1, <3>2, <4>1, <4>3, SMT DEF Defers, Proceeds, RedisStays
            <4> QED
                BY <3>9, <4>2, <4>3
        <3> QED
            BY <1>1, <3>3, <3>4, <3>5, <3>6, <3>7, <3>8, <3>9, CallSteps
    <2>4. todo' \in [Calls -> Seq(Command)] /\ failed' \in [Calls -> Seq(Jobs)]
        <3>1. todo \in [Calls -> Seq(Command)] /\ failed \in [Calls -> Seq(Jobs)]
            BY DEF CallsTypeOK
        <3>2. PICK s : todo' = [todo EXCEPT ![c] = s]
            BY <2>2
        <3>3. PICK f : failed' = [failed EXCEPT ![c] = f]
            BY <2>2
        <3> QED
            BY <2>3, <3>1, <3>2, <3>3
    <2> QED
        BY <2>1, <2>3, <2>4 DEF CallsTypeOK
<1>2. CASE Replicate
    <2>1. pending \in Seq([by : Calls, write : WriteSet]) /\ pending # <<>> /\ stored \in WriteSet
        BY <1>2 DEF CallsTypeOK, Replicate
    <2> DEFINE R == [by : Calls, write : WriteSet]
    <2>2. Head(pending).write \in WriteSet /\ Tail(pending) \in Seq(R)
        <3>1. Head(pending) \in R /\ Tail(pending) \in Seq(R)
            BY <2>1, SequenceParts
        <3> QED
            BY <3>1
    <2>3. Merge(stored, Head(pending).write) \in WriteSet
        BY <2>1, <2>2 DEF Merge, Write, WriteSet
    <2> QED
        BY <1>2, <2>2, <2>3 DEF CallsTypeOK, Replicate, callVars, boundVars
<1>3. CASE Failover
    <2>1. PICK n \in 0 .. Len(pending) : pending' = SubSeq(pending, 1, n)
        BY <1>3 DEF Failover
    <2>2. pending' \in Seq([by : Calls, write : WriteSet])
        <3>1. pending \in Seq([by : Calls, write : WriteSet])
            BY DEF CallsTypeOK
        <3> QED
            BY <2>1, <3>1, SequenceParts
    <2>3. faults' \in 0 .. MaxFaults
        BY <1>3, CallsAssumption, SMT DEF Failover, CallsTypeOK
    <2>4. todo' \in [Calls -> Seq(Command)] /\ failed' \in [Calls -> Seq(Jobs)]
          /\ cpc' \in [Calls -> {"idle", "busy", "ok", "error"}]
        BY <1>3, SMT DEF Failover, CallsTypeOK
    <2>5. loaded' \in BOOLEAN /\ failovers' \in BOOLEAN
        BY <1>3 DEF Failover, CallsTypeOK
    <2> QED
        BY <1>3, <2>2, <2>3, <2>4, <2>5 DEF CallsTypeOK, Failover
<1>4. CASE ScriptFlush
    <2>1. faults' \in 0 .. MaxFaults
        BY <1>4, CallsAssumption, SMT DEF ScriptFlush, CallsTypeOK
    <2> QED
        BY <1>4, <2>1 DEF CallsTypeOK, ScriptFlush, callVars
<1>5. CASE CacheExpires
    BY <1>5, CallsAssumption, SMT DEF CallsTypeOK, CacheExpires, callVars, serverVars
<1>6. CASE UNCHANGED enqueueVars
    BY <1>6 DEF CallsTypeOK, enqueueVars, serverVars, callVars, boundVars
<1> QED
    BY <1>1, <1>2, <1>3, <1>4, <1>5, <1>6 DEF CallsNext

(***************************************************************************)
(* A call that does not notice a failover has no scripts to send again.    *)
(***************************************************************************)
LEMMA Unnoticed ==
    ASSUME CallsTypeOK, Orderly, NEW c \in Calls, ~Notices(c)
    PROVE  /\ failed[c] = <<>>
           /\ cpc[c] = "busy" => /\ \A j : ~Sends(todo[c], failed[c], j)
                                 /\ ~Waits(todo[c])
<1>1. todo[c] \in Seq(Command) /\ failed[c] \in Seq(Jobs) /\ Pipeline(c, todo[c], failed[c])
    BY DEF CallsTypeOK, Orderly
<1>2. CASE cpc[c] # "busy"
    BY <1>2 DEF Orderly
<1>3. CASE cpc[c] = "busy" /\ todo[c] \o failed[c] = <<>>
    <2>1. Len(todo[c]) = 0 /\ Len(failed[c]) = 0
        <3>1. /\ Len(todo[c]) \in Nat /\ Len(failed[c]) \in Nat
              /\ Len(todo[c] \o failed[c]) = Len(todo[c]) + Len(failed[c])
            BY <1>1, SMT
        <3> QED
            BY <1>3, <3>1, EmptyLen, SMT
    <2>2. failed[c] = <<>> /\ 1 .. Len(todo[c]) = {} /\ 1 .. Len(failed[c]) = {}
        BY <1>1, <2>1, SMT
    <2> QED
        BY <2>2 DEF Sends, Waits
<1>4. CASE cpc[c] = "busy" /\ At(c, "known") /\ Len(todo[c]) = 1
    <2>1. todo[c][1].op = "known"
        BY <1>4, NextCommand
    <2>2. Len(failed[c]) = 0
        BY <1>1, <1>4, <2>1, SMT DEF Pipeline
    <2>3. failed[c] = <<>> /\ 1 .. Len(failed[c]) = {}
        BY <1>1, <2>2, SMT
    <2>4. \A i \in 1 .. Len(todo[c]) : todo[c][i].op \notin JobOps /\ todo[c][i].op # "wait"
        BY <1>4, <2>1, SMT DEF JobOps
    <2> QED
        BY <2>3, <2>4 DEF Sends, Waits
<1> QED
    BY <1>2, <1>3, <1>4 DEF Notices

(***************************************************************************)
(* Every step leaves each call with a pipeline of its own jobs.            *)
(***************************************************************************)
LEMMA OrderlyNext ==
    ASSUME CallsTypeOK, Orderly, [CallsNext]_enqueueVars
    PROVE  Orderly'
<1>1. ASSUME NEW c \in Calls, CallNext(c) PROVE Orderly'
    <2>1. todo[c] \in Seq(Command) /\ failed[c] \in Seq(Jobs) /\ Pipeline(c, todo[c], failed[c])
        BY DEF CallsTypeOK, Orderly
    <2>2. Pipeline(c, <<>>, <<>>)
        BY EmptyLen DEF Pipeline
    <2>3. todo[c] # <<>> => Pipeline(c, Tail(todo[c]), failed[c])
        BY <2>1, TailPipeline
    <2>4. /\ cpc'[c] # "busy" => todo'[c] = <<>> /\ failed'[c] = <<>>
          /\ Pipeline(c, todo'[c], failed'[c])
        <3>1. CASE Begins(c)
            <4>1. failed'[c] = <<>>
                BY <3>1 DEF Begins, Orderly
            <4> QED
                BY <3>1, <4>1, CommandsPipeline DEF Begins
        <3>2. CASE MakesKnown(c) \/ HasWaited(c)
            BY <2>3, <3>2 DEF MakesKnown, HasWaited, Proceeds
        <3>3. CASE Fails(c) \/ Returns(c)
            BY <2>2, <3>3 DEF Fails, Returns
        <3>4. CASE SendsAgain(c)
            BY <2>1, <3>4, SecondPipeline DEF SendsAgain
        <3>5. ASSUME NEW j \in Own(c), Enqueues(c, j) \/ Defers(c, j)
              PROVE  /\ cpc'[c] # "busy" => todo'[c] = <<>> /\ failed'[c] = <<>>
                     /\ Pipeline(c, todo'[c], failed'[c])
            <4>1. CASE Enqueues(c, j)
                BY <2>3, <4>1 DEF Enqueues, Proceeds
            <4>2. CASE Defers(c, j)
                <5>1. /\ todo[c] # <<>> /\ todo[c][1].op = "sha" /\ j \in todo[c][1].jobs /\ j \in Jobs
                      /\ cpc'[c] = "busy" /\ todo'[c] = Tail(todo[c]) /\ failed'[c] = Append(failed[c], j)
                    BY <4>2, OwnJobs DEF Defers, Proceeds
                <5> QED
                    BY <2>1, <5>1, FailedPipeline
            <4> QED
                BY <3>5, <4>1, <4>2
        <3> QED
            BY <1>1, <3>1, <3>2, <3>3, <3>4, <3>5, CallSteps
    <2>5. OthersStay(c)
        BY <1>1, CallSteps
    <2>6. ASSUME NEW d \in Calls PROVE /\ cpc'[d] # "busy" => todo'[d] = <<>> /\ failed'[d] = <<>>
                                       /\ Pipeline(d, todo'[d], failed'[d])
        <3>1. CASE d = c
            BY <2>4, <3>1
        <3>2. CASE d # c
            BY <2>5, <3>2 DEF OthersStay, Orderly
        <3> QED
            BY <3>1, <3>2
    <2> QED
        BY <2>6 DEF Orderly, Pipeline, Own
<1>2. CASE Replicate \/ ScriptFlush \/ CacheExpires \/ UNCHANGED enqueueVars
    <2>1. cpc' = cpc /\ todo' = todo /\ failed' = failed
        BY <1>2 DEF Replicate, ScriptFlush, CacheExpires, enqueueVars, callVars
    <2>2. ASSUME NEW d \in Calls PROVE /\ cpc'[d] # "busy" => todo'[d] = <<>> /\ failed'[d] = <<>>
                                       /\ Pipeline(d, todo'[d], failed'[d])
        BY <2>1 DEF Orderly
    <2> QED
        BY <2>2 DEF Orderly, Pipeline, Own
<1>3. CASE Failover
    <2>1. ASSUME NEW d \in Calls PROVE /\ cpc'[d] # "busy" => todo'[d] = <<>> /\ failed'[d] = <<>>
                                       /\ Pipeline(d, todo'[d], failed'[d])
        <3>1. /\ cpc'[d] = IF Notices(d) THEN "error" ELSE cpc[d]
              /\ todo'[d] = IF Notices(d) THEN <<>> ELSE todo[d]
              /\ failed'[d] = <<>>
            BY <1>3 DEF Failover
        <3>2. CASE Notices(d)
            BY <3>1, <3>2, EmptyLen DEF Pipeline
        <3>3. CASE ~Notices(d)
            <4>1. failed[d] = <<>>
                BY <3>3, Unnoticed
            <4> QED
                BY <3>1, <3>3, <4>1 DEF Orderly
        <3> QED
            BY <3>2, <3>3
    <2> QED
        BY <2>1 DEF Orderly, Pipeline, Own
<1> QED
    BY <1>1, <1>2, <1>3 DEF CallsNext

-----------------------------------------------------------------------------
(* The jobs of a call. *)

\* Nothing has been done about the job.
Fresh(j) == j \notin skipped /\ j \notin Pushed

\* What AckedJobsAreThere says of a job.
InRedis(j) ==
    IF j \in skipped THEN KeyOf[j] \in UniqueKeys /\ j \notin Pushed ELSE j \in Pushed

\* A failover does not change it.
Lasting(j) ==
    IF j \in skipped THEN KeyOf[j] \in stored.keys /\ j \notin Pushed ELSE j \in stored.jobs

\* A failover does not change it, or the call has still to wait for it: the
\* last write of the call is not before the one that put the key there.
Kept(c, j, s) ==
    /\ InRedis(j)
    /\ MinWaitEnabled => \/ Lasting(j)
                         \/ Waits(s) /\ (j \in skipped => KeyBefore(c, KeyOf[j]))

(***************************************************************************)
(* A job is fresh until the call has sent it, also when it has to send the *)
(* script again, and then it is kept, unless the call ends with an error.  *)
(***************************************************************************)
JobKept(c, j) ==
    /\ (cpc[c] = "idle" \/ Sends(todo[c], failed[c], j)) => Fresh(j)
    /\ ((MinWaitEnabled \/ ~failovers) /\ cpc[c] \in {"busy", "ok"} /\ ~Sends(todo[c], failed[c], j))
            => Kept(c, j, todo[c])

JobsKept == OwnWrites /\ \A c \in Calls : \A j \in Own(c) : JobKept(c, j)

\* A step that does nothing about the job.
Undisturbed(c, j) ==
    /\ j \in skipped' <=> j \in skipped
    /\ j \in Pushed' <=> j \in Pushed
    /\ KeyOf[j] \in UniqueKeys => KeyOf[j] \in UniqueKeys'
    /\ stored.jobs \subseteq stored'.jobs /\ stored.keys \subseteq stored'.keys
    /\ KeyBefore(c, KeyOf[j]) => KeyBefore(c, KeyOf[j])'

(***************************************************************************)
(* After such a step the job is as fresh, or as safe, as it was.           *)
(***************************************************************************)
LEMMA UndisturbedKeeps ==
    ASSUME NEW c \in Calls, NEW j \in Own(c), Undisturbed(c, j)
    PROVE  /\ Fresh(j) => Fresh(j)'
           /\ InRedis(j) => InRedis(j)'
           /\ Lasting(j) => Lasting(j)'
BY DEF Undisturbed, Fresh, InRedis, Lasting

(***************************************************************************)
(* The next state of a job, put together from its parts.                   *)
(***************************************************************************)
LEMMA JobKeptNext ==
    ASSUME NEW c \in Calls, NEW j \in Own(c),
           (cpc'[c] = "idle" \/ Sends(todo'[c], failed'[c], j)) => Fresh(j)',
           ((MinWaitEnabled \/ ~failovers') /\ cpc'[c] \in {"busy", "ok"} /\ ~Sends(todo'[c], failed'[c], j))
                => /\ InRedis(j)'
                   /\ MinWaitEnabled => \/ Lasting(j)'
                                        \/ Waits(todo'[c]) /\ (j \in skipped' => KeyBefore(c, KeyOf[j])')
    PROVE  JobKept(c, j)'
BY DEF JobKept, Kept, Sends, Waits

(***************************************************************************)
(* A step that does nothing about a job, and after which the call is to    *)
(* send it if it was before, and to wait if it was before.                 *)
(***************************************************************************)
LEMMA JobStays ==
    ASSUME NEW c \in Calls, NEW j \in Own(c), JobKept(c, j), Undisturbed(c, j), failovers' = failovers,
           Sends(todo'[c], failed'[c], j) <=> Sends(todo[c], failed[c], j),
           Waits(todo[c]) => Waits(todo'[c]),
           cpc'[c] = "idle" => cpc[c] = "idle",
           cpc'[c] \in {"busy", "ok"} => cpc[c] \in {"busy", "ok"}
    PROVE  JobKept(c, j)'
<1>1. /\ Fresh(j) => Fresh(j)'
      /\ InRedis(j) => InRedis(j)'
      /\ Lasting(j) => Lasting(j)'
      /\ KeyBefore(c, KeyOf[j]) => KeyBefore(c, KeyOf[j])'
      /\ j \in skipped' <=> j \in skipped
    BY UndisturbedKeeps DEF Undisturbed
<1>2. (cpc'[c] = "idle" \/ Sends(todo'[c], failed'[c], j)) => Fresh(j)'
    BY <1>1 DEF JobKept
<1>3. ASSUME MinWaitEnabled \/ ~failovers', cpc'[c] \in {"busy", "ok"}, ~Sends(todo'[c], failed'[c], j)
      PROVE  /\ InRedis(j)'
             /\ MinWaitEnabled => \/ Lasting(j)'
                                  \/ Waits(todo'[c]) /\ (j \in skipped' => KeyBefore(c, KeyOf[j])')
    <2>1. Kept(c, j, todo[c])
        BY <1>3 DEF JobKept
    <2> QED
        BY <1>1, <2>1 DEF Kept
<1> QED
    BY <1>2, <1>3, JobKeptNext

(***************************************************************************)
(* A step of a call does nothing about a job, except that Redis executes   *)
(* the command that sends it.                                              *)
(***************************************************************************)
LEMMA OtherJobs ==
    ASSUME CallsTypeOK, Orderly, OwnWrites, NEW c \in Calls, CallNext(c)
    PROVE  /\ \A d \in Calls : \A j \in Own(d) : Enqueues(c, j) \/ Undisturbed(d, j)
           /\ OwnWrites'
<1>1. CASE RedisStays
    <2>1. stored' = stored /\ pending' = pending /\ skipped' = skipped
        BY <1>1 DEF RedisStays
    <2>2. Pushed' = Pushed /\ UniqueKeys' = UniqueKeys
        BY <2>1 DEF Pushed, UniqueKeys
    <2> QED
        BY <2>1, <2>2 DEF Undisturbed, KeyBefore, OwnWrites, Own
<1>2. ASSUME NEW w \in WriteSet, Execute(c, w), NEW i \in Own(c), w.jobs \subseteq {i},
             skipped' = skipped \/ skipped' = skipped \cup {i}
      PROVE  /\ \A d \in Calls : \A j \in Own(d) : j = i \/ Undisturbed(d, j)
             /\ OwnWrites'
    <2>1. /\ \A j : j \in Pushed' <=> j \in Pushed \/ j \in w.jobs
          /\ \A k : k \in UniqueKeys' <=> k \in UniqueKeys \/ k \in w.keys
          /\ \A d, k : KeyBefore(d, k) => KeyBefore(d, k)'
          /\ (\A d \in Calls : \A j \in Own(d) : j \in w.jobs => d = c) => OwnWrites'
        BY <1>2, Executed
    <2>2. \A d \in Calls : \A j \in Own(d) : j \in w.jobs => d = c
        BY <1>2, OwnJobs
    <2>3. stored' = stored
        BY <1>2 DEF Execute
    <2>4. \A d \in Calls : \A j \in Own(d) : j # i => j \notin w.jobs /\ (j \in skipped' <=> j \in skipped)
        BY <1>2, SMT
    <2> QED
        BY <2>1, <2>2, <2>3, <2>4 DEF Undisturbed
<1>3. CASE MakesKnown(c) /\ ~RedisStays
    <2>1. PICK w \in WriteSet : Execute(c, w) /\ w.jobs = {} /\ skipped' = skipped
        BY <1>3 DEF MakesKnown
    <2>2. /\ \A j : j \in Pushed' <=> j \in Pushed \/ j \in w.jobs
          /\ \A k : k \in UniqueKeys' <=> k \in UniqueKeys \/ k \in w.keys
          /\ \A d, k : KeyBefore(d, k) => KeyBefore(d, k)'
          /\ (\A d \in Calls : \A j \in Own(d) : j \in w.jobs => d = c) => OwnWrites'
        BY <2>1, Executed
    <2>3. stored' = stored
        BY <2>1 DEF Execute
    <2>4. \A j : j \notin w.jobs
        BY <2>1
    <2> QED
        BY <2>1, <2>2, <2>3, <2>4 DEF Undisturbed
<1>4. ASSUME NEW i \in Own(c), Enqueues(c, i)
      PROVE  /\ \A d \in Calls : \A j \in Own(d) : j = i \/ Undisturbed(d, j)
             /\ OwnWrites'
    <2>1. PICK w \in WriteSet : /\ Execute(c, w) /\ (w.jobs = {i} \/ w.jobs = {})
                                /\ (skipped' = skipped \/ skipped' = skipped \cup {i})
        BY <1>4 DEF Enqueues
    <2>2. w.jobs \subseteq {i}
        BY <2>1
    <2> QED
        BY <1>2, <2>1, <2>2
<1>5. \/ RedisStays \/ MakesKnown(c) \/ \E i \in Own(c) : Enqueues(c, i)
    BY CallSteps DEF Begins, Defers, HasWaited, Fails, Returns, SendsAgain
<1> QED
    BY <1>1, <1>3, <1>4, <1>5

(***************************************************************************)
(* Redis executes the command that sends the job: it was fresh, and now it *)
(* is in Redis or skipped, and the call has still to wait.                 *)
(***************************************************************************)
LEMMA SentJob ==
    ASSUME CallsTypeOK, Orderly, NEW c \in Calls, NEW j \in Own(c), JobKept(c, j), Enqueues(c, j)
    PROVE  JobKept(c, j)'
<1>1. todo[c] \in Seq(Command) /\ failed[c] \in Seq(Jobs) /\ Pipeline(c, todo[c], failed[c])
    BY DEF CallsTypeOK, Orderly
<1>2. /\ cpc'[c] = "busy" /\ todo[c] # <<>> /\ todo'[c] = Tail(todo[c]) /\ failed'[c] = failed[c]
      /\ todo[c][1].op \in JobOps /\ j \in todo[c][1].jobs
    BY DEF Enqueues, Proceeds
<1>3. /\ ~Sends(todo'[c], failed'[c], j) /\ Sends(todo[c], failed[c], j)
      /\ MinWaitEnabled => Waits(todo'[c])
    BY <1>1, <1>2, TailSends, SMTT(60)
<1>4. j \notin skipped /\ j \notin Pushed
    BY <1>3 DEF JobKept, Fresh
<1>5. PICK w \in WriteSet : /\ Execute(c, w)
                            /\ \/ w.jobs = {j} /\ skipped' = skipped
                               \/ w.jobs = {} /\ skipped' = skipped \cup {j} /\ KeyOf[j] \in UniqueKeys
    BY DEF Enqueues
<1>6. /\ \A i : i \in Pushed' <=> i \in Pushed \/ i \in w.jobs
      /\ \A k : k \in UniqueKeys' <=> k \in UniqueKeys \/ k \in w.keys
      /\ \A k \in UniqueKeys : KeyBefore(c, k)'
    BY <1>5, Executed
<1>7. InRedis(j)' /\ (j \in skipped' => KeyBefore(c, KeyOf[j])')
    <2>1. CASE w.jobs = {j} /\ skipped' = skipped
        <3>1. j \notin skipped' /\ j \in Pushed'
            BY <1>4, <1>6, <2>1
        <3> QED
            BY <3>1 DEF InRedis
    <2>2. CASE w.jobs = {} /\ skipped' = skipped \cup {j} /\ KeyOf[j] \in UniqueKeys
        <3>1. j \in skipped' /\ j \notin Pushed' /\ KeyOf[j] \in UniqueKeys' /\ KeyBefore(c, KeyOf[j])'
            BY <1>4, <1>6, <2>2
        <3> QED
            BY <3>1 DEF InRedis
    <2> QED
        BY <1>5, <2>1, <2>2
<1>8. cpc'[c] # "idle"
    BY <1>2
<1> QED
    BY <1>3, <1>7, <1>8, JobKeptNext

(***************************************************************************)
(* WAIT has returned with enough replicas: what the call has done lasts.   *)
(***************************************************************************)
LEMMA WaitedJob ==
    ASSUME CallsTypeOK, OwnWrites, NEW c \in Calls, NEW j \in Own(c), Replicated(c), InRedis(j),
           j \in skipped => KeyBefore(c, KeyOf[j])
    PROVE  Lasting(j)
<1>1. \A i \in 1 .. Len(pending) : pending[i].by # c
    BY SMT DEF CallsTypeOK, Replicated
<1>2. CASE j \in skipped
    BY <1>1, <1>2 DEF KeyBefore, InRedis, Lasting
<1>3. CASE j \notin skipped
    BY <1>1, <1>3, InStore DEF OwnWrites, InRedis, Lasting
<1> QED
    BY <1>2, <1>3

(***************************************************************************)
(* A step of the call of a job.                                            *)
(***************************************************************************)
LEMMA OwnStep ==
    ASSUME CallsTypeOK, Orderly, OwnWrites, NEW c \in Calls, NEW j \in Own(c), JobKept(c, j), CallNext(c)
    PROVE  JobKept(c, j)'
<1>1. todo[c] \in Seq(Command) /\ failed[c] \in Seq(Jobs) /\ Pipeline(c, todo[c], failed[c])
    BY DEF CallsTypeOK, Orderly
<1>2. Enqueues(c, j) \/ Undisturbed(c, j)
    BY OtherJobs
<1>3. failovers' = failovers
    BY CallSteps
<1>4. CASE Enqueues(c, j)
    BY <1>4, SentJob
<1>5. ASSUME ~Enqueues(c, j), Begins(c) PROVE JobKept(c, j)'
    <2>1. /\ cpc[c] = "idle" /\ cpc'[c] = "busy" /\ todo'[c] = Commands(c) /\ failed'[c] = <<>>
        BY <1>5 DEF Begins, Orderly
    <2>2. Sends(todo'[c], failed'[c], j)
        BY <2>1, CommandsPipeline
    <2>3. Fresh(j)'
        BY <1>2, <1>5, <2>1, UndisturbedKeeps DEF JobKept
    <2> QED
        BY <2>2, <2>3, JobKeptNext
<1>6. ASSUME ~Enqueues(c, j), MakesKnown(c) PROVE JobKept(c, j)'
    <2>1. /\ cpc[c] = "busy" /\ cpc'[c] = "busy" /\ todo[c] # <<>> /\ todo'[c] = Tail(todo[c])
          /\ failed'[c] = failed[c] /\ todo[c][1].op \notin JobOps /\ todo[c][1].op # "wait"
        BY <1>6 DEF MakesKnown, Proceeds, NameOps, JobOps
    <2>2. /\ Sends(todo'[c], failed'[c], j) <=> Sends(todo[c], failed[c], j)
          /\ Waits(todo[c]) => Waits(todo'[c])
        BY <1>1, <2>1, TailSends, SMTT(60)
    <2>3. cpc'[c] # "idle" /\ cpc[c] \in {"busy", "ok"}
        BY <2>1
    <2> QED
        BY <1>2, <1>3, <1>6, <2>2, <2>3, JobStays
<1>7. ASSUME ~Enqueues(c, j), HasWaited(c) PROVE JobKept(c, j)'
    <2>1. /\ cpc[c] = "busy" /\ cpc'[c] = "busy" /\ todo[c] # <<>> /\ todo'[c] = Tail(todo[c])
          /\ failed'[c] = failed[c] /\ todo[c][1].op \notin JobOps /\ Replicated(c)
        BY <1>7 DEF HasWaited, Proceeds, JobOps
    <2>2. Sends(todo'[c], failed'[c], j) <=> Sends(todo[c], failed[c], j)
        BY <1>1, <2>1, TailSends, SMTT(60)
    <2>3. /\ Fresh(j) => Fresh(j)'
          /\ InRedis(j) => InRedis(j)'
          /\ Lasting(j) => Lasting(j)'
        BY <1>2, <1>7, UndisturbedKeeps
    <2>4. ASSUME MinWaitEnabled \/ ~failovers', ~Sends(todo'[c], failed'[c], j)
          PROVE  InRedis(j)' /\ (MinWaitEnabled => Lasting(j)')
        <3>1. cpc[c] \in {"busy", "ok"}
            BY <2>1
        <3>2. Kept(c, j, todo[c])
            BY <1>3, <2>2, <2>4, <3>1 DEF JobKept
        <3>3. MinWaitEnabled => Lasting(j)
            BY <2>1, <3>2, WaitedJob DEF Kept
        <3> QED
            BY <2>3, <3>2, <3>3 DEF Kept
    <2>5. (cpc'[c] = "idle" \/ Sends(todo'[c], failed'[c], j)) => Fresh(j)'
        <3>1. cpc'[c] # "idle"
            BY <2>1
        <3> QED
            BY <2>2, <2>3, <3>1 DEF JobKept
    <2> QED
        BY <2>4, <2>5, JobKeptNext
<1>8. ASSUME ~Enqueues(c, j), Fails(c) PROVE JobKept(c, j)'
    <2>1. cpc'[c] = "error" /\ ~Sends(todo'[c], failed'[c], j)
        BY <1>8, EmptyLen DEF Fails, Sends
    <2>2. cpc'[c] # "idle" /\ cpc'[c] \notin {"busy", "ok"}
        BY <2>1
    <2> QED
        BY <2>1, <2>2, JobKeptNext
<1>9. ASSUME ~Enqueues(c, j), Returns(c) PROVE JobKept(c, j)'
    <2>1. /\ cpc[c] = "busy" /\ cpc'[c] = "ok" /\ todo'[c] = todo[c] /\ failed'[c] = failed[c]
        BY <1>9 DEF Returns
    <2>2. cpc'[c] # "idle" /\ cpc[c] \in {"busy", "ok"}
        BY <2>1
    <2> QED
        BY <1>2, <1>3, <1>9, <2>1, <2>2, JobStays
<1>10. ASSUME ~Enqueues(c, j), SendsAgain(c) PROVE JobKept(c, j)'
    <2>1. /\ cpc[c] = "busy" /\ cpc'[c] = "busy" /\ todo[c] = <<>>
          /\ todo'[c] = SecondCommands(failed[c]) /\ failed'[c] = <<>>
        BY <1>10 DEF SendsAgain
    <2>2. Sends(todo'[c], failed'[c], j) <=> Sends(todo[c], failed[c], j)
        BY <1>1, <2>1, SecondPipeline
    <2>3. ~Waits(todo[c])
        BY <2>1, EmptyLen DEF Waits
    <2>4. cpc'[c] # "idle" /\ cpc[c] \in {"busy", "ok"}
        BY <2>1
    <2> QED
        BY <1>2, <1>3, <1>10, <2>2, <2>3, <2>4, JobStays
<1>11. ASSUME ~Enqueues(c, j), NEW i \in Own(c), Enqueues(c, i) PROVE JobKept(c, j)'
    <2>1. /\ cpc[c] = "busy" /\ cpc'[c] = "busy" /\ todo[c] # <<>> /\ todo'[c] = Tail(todo[c])
          /\ failed'[c] = failed[c] /\ todo[c][1].op \in JobOps /\ todo[c][1].jobs = {i}
        BY <1>11 DEF Enqueues, Proceeds
    <2>2. j \notin todo[c][1].jobs /\ todo[c][1].op # "wait"
        <3>1. i # j
            BY <1>11
        <3> QED
            BY <2>1, <3>1 DEF JobOps
    <2>3. /\ Sends(todo'[c], failed'[c], j) <=> Sends(todo[c], failed[c], j)
          /\ Waits(todo[c]) => Waits(todo'[c])
        BY <1>1, <2>1, <2>2, TailSends, SMTT(60)
    <2>4. cpc'[c] # "idle" /\ cpc[c] \in {"busy", "ok"}
        BY <2>1
    <2> QED
        BY <1>2, <1>3, <1>11, <2>3, <2>4, JobStays
<1>12. ASSUME ~Enqueues(c, j), NEW i \in Own(c), Defers(c, i) PROVE JobKept(c, j)'
    <2>1. /\ cpc[c] = "busy" /\ cpc'[c] = "busy" /\ todo[c] # <<>> /\ todo'[c] = Tail(todo[c])
          /\ failed'[c] = Append(failed[c], i) /\ todo[c][1].op = "sha" /\ i \in todo[c][1].jobs /\ i \in Jobs
        BY <1>12, OwnJobs DEF Defers, Proceeds
    <2>2. /\ Sends(todo'[c], failed'[c], j) <=> Sends(todo[c], failed[c], j)
          /\ Waits(todo[c]) => Waits(todo'[c])
        <3>1. \A l : Sends(Tail(todo[c]), Append(failed[c], i), l) <=> Sends(todo[c], failed[c], l)
            BY <1>1, <2>1, FailedSends
        <3>2. Waits(Tail(todo[c])) <=> Waits(todo[c])
            BY <1>1, <2>1, TailSends
        <3> QED
            BY <2>1, <3>1, <3>2
    <2>3. cpc'[c] # "idle" /\ cpc[c] \in {"busy", "ok"}
        BY <2>1
    <2> QED
        BY <1>2, <1>3, <1>12, <2>2, <2>3, JobStays
<1> QED
    BY <1>4, <1>5, <1>6, <1>7, <1>8, <1>9, <1>10, <1>11, <1>12, CallSteps

(***************************************************************************)
(* Before the first call every job is fresh.                               *)
(***************************************************************************)
LEMMA JobsKeptInit == CallsInit => JobsKept
<1> SUFFICES ASSUME CallsInit PROVE JobsKept
    OBVIOUS
<1>1. pending = <<>> /\ stored.jobs = {} /\ skipped = {}
    BY DEF CallsInit, Write
<1>2. 1 .. Len(pending) = {} /\ DOMAIN pending = {}
    BY <1>1, SMT
<1>3. \A j : j \notin Pushed /\ j \notin skipped
    BY <1>1, <1>2 DEF Pushed
<1>4. \A c \in Calls : cpc[c] = "idle"
    BY DEF CallsInit
<1>5. \A c \in Calls : cpc[c] \notin {"busy", "ok"}
    BY <1>4
<1> QED
    BY <1>2, <1>3, <1>5 DEF JobsKept, OwnWrites, JobKept, Fresh

(***************************************************************************)
(* A failover: a job of a call that does not notice it is lasting.         *)
(***************************************************************************)
LEMMA FailoverJob ==
    ASSUME CallsTypeOK, Orderly, NEW c \in Calls, NEW j \in Own(c), JobKept(c, j), Failover
    PROVE  JobKept(c, j)'
<1>1. /\ cpc'[c] = IF Notices(c) THEN "error" ELSE cpc[c]
      /\ todo'[c] = IF Notices(c) THEN <<>> ELSE todo[c]
      /\ failed'[c] = <<>> /\ skipped' = skipped /\ failovers' = TRUE
    BY DEF Failover
<1>2. CASE Notices(c)
    <2>1. cpc'[c] = "error" /\ todo'[c] = <<>> /\ failed'[c] = <<>>
        BY <1>1, <1>2
    <2>2. ~Sends(todo'[c], failed'[c], j)
        BY <2>1, EmptyLen DEF Sends
    <2>3. cpc'[c] # "idle" /\ cpc'[c] \notin {"busy", "ok"}
        BY <2>1
    <2> QED
        BY <2>2, <2>3, JobKeptNext
<1>3. CASE ~Notices(c)
    <2>1. cpc'[c] = cpc[c] /\ todo'[c] = todo[c] /\ failed'[c] = failed[c]
        BY <1>1, <1>3, Unnoticed
    <2>2. /\ j \in Pushed' => j \in Pushed
          /\ stored' = stored
          /\ j \in stored.jobs => j \in Pushed'
          /\ KeyOf[j] \in stored.keys => KeyOf[j] \in UniqueKeys'
        BY FailedOver
    <2>3. /\ Fresh(j) => Fresh(j)'
          /\ Lasting(j) => Lasting(j)' /\ InRedis(j)'
        BY <1>1, <2>2 DEF Fresh, Lasting, InRedis
    <2>4. ASSUME MinWaitEnabled, cpc[c] \in {"busy", "ok"}, ~Sends(todo[c], failed[c], j)
          PROVE  Lasting(j)
        <3>1. Kept(c, j, todo[c])
            BY <2>4 DEF JobKept
        <3>2. ~Waits(todo[c])
            <4>1. CASE cpc[c] = "busy"
                BY <1>3, <4>1, Unnoticed
            <4>2. CASE cpc[c] # "busy"
                <5>1. todo[c] = <<>>
                    BY <4>2 DEF Orderly
                <5> QED
                    BY <5>1, EmptyLen DEF Waits
            <4> QED
                BY <4>1, <4>2
        <3> QED
            BY <2>4, <3>1, <3>2 DEF Kept
    <2>5. (cpc'[c] = "idle" \/ Sends(todo'[c], failed'[c], j)) => Fresh(j)'
        BY <2>1, <2>3 DEF JobKept
    <2>6. ASSUME MinWaitEnabled \/ ~failovers', cpc'[c] \in {"busy", "ok"}, ~Sends(todo'[c], failed'[c], j)
          PROVE  InRedis(j)' /\ Lasting(j)'
        <3>1. MinWaitEnabled
            BY <1>1, <2>6
        <3>2. cpc[c] \in {"busy", "ok"} /\ ~Sends(todo[c], failed[c], j)
            BY <2>1, <2>6
        <3> QED
            BY <2>3, <2>4, <3>1, <3>2
    <2> QED
        BY <2>5, <2>6, JobKeptNext
<1> QED
    BY <1>2, <1>3

(***************************************************************************)
(* Every step keeps what has been done about every job.                    *)
(***************************************************************************)
LEMMA JobsKeptNext ==
    ASSUME CallsTypeOK, Orderly, JobsKept, [CallsNext]_enqueueVars
    PROVE  JobsKept'
<1>1. OwnWrites /\ \A c \in Calls : \A j \in Own(c) : JobKept(c, j)
    BY DEF JobsKept
<1>2. ASSUME NEW c \in Calls, CallNext(c) PROVE OwnWrites' /\ \A d \in Calls : \A j \in Own(d) : JobKept(d, j)'
    <2>1. OwnWrites'
        BY <1>1, <1>2, OtherJobs
    <2>2. ASSUME NEW d \in Calls, NEW j \in Own(d) PROVE JobKept(d, j)'
        <3>1. JobKept(d, j)
            BY <1>1
        <3>2. CASE d = c
            BY <1>1, <1>2, <3>1, <3>2, OwnStep
        <3>3. CASE d # c
            <4>1. j \notin Own(c)
                BY <3>3, OwnJobs
            <4>2. Enqueues(c, j) \/ Undisturbed(d, j)
                BY <1>1, <1>2, OtherJobs
            <4>3. Undisturbed(d, j)
                BY <4>1, <4>2 DEF Enqueues
            <4>4. cpc'[d] = cpc[d] /\ todo'[d] = todo[d] /\ failed'[d] = failed[d] /\ failovers' = failovers
                BY <1>2, <3>3, CallSteps DEF OthersStay
            <4> QED
                BY <3>1, <4>3, <4>4, JobStays
        <3> QED
            BY <3>2, <3>3
    <2> QED
        BY <2>1, <2>2
<1>3. CASE Replicate
    <2>1. /\ cpc' = cpc /\ todo' = todo /\ failed' = failed /\ failovers' = failovers /\ skipped' = skipped
        BY <1>3 DEF Replicate, callVars, boundVars
    <2>2. /\ \A j : j \in Pushed' <=> j \in Pushed
          /\ \A k : k \in UniqueKeys' <=> k \in UniqueKeys
          /\ stored.jobs \subseteq stored'.jobs /\ stored.keys \subseteq stored'.keys
          /\ \A d, k : KeyBefore(d, k) => KeyBefore(d, k)'
          /\ OwnWrites'
        BY <1>1, <1>3, CaughtUp
    <2>3. ASSUME NEW d \in Calls, NEW j \in Own(d) PROVE JobKept(d, j)'
        <3>1. Undisturbed(d, j)
            BY <2>1, <2>2 DEF Undisturbed
        <3> QED
            BY <1>1, <2>1, <3>1, JobStays
    <2> QED
        BY <2>2, <2>3 DEF JobsKept, Own
<1>4. CASE Failover
    <2>1. OwnWrites'
        BY <1>1, <1>4, FailedOver
    <2>2. ASSUME NEW d \in Calls, NEW j \in Own(d) PROVE JobKept(d, j)'
        BY <1>1, <1>4, FailoverJob
    <2> QED
        BY <2>1, <2>2 DEF JobsKept, Own
<1>5. CASE ScriptFlush \/ CacheExpires \/ UNCHANGED enqueueVars
    <2>1. /\ cpc' = cpc /\ todo' = todo /\ failed' = failed /\ failovers' = failovers /\ skipped' = skipped
          /\ stored' = stored /\ pending' = pending
        BY <1>5 DEF ScriptFlush, CacheExpires, enqueueVars, callVars, serverVars, boundVars
    <2>2. Pushed' = Pushed /\ UniqueKeys' = UniqueKeys
        BY <2>1 DEF Pushed, UniqueKeys
    <2>3. OwnWrites'
        BY <1>1, <2>1 DEF OwnWrites, Own
    <2>4. ASSUME NEW d \in Calls, NEW j \in Own(d) PROVE JobKept(d, j)'
        <3>1. Undisturbed(d, j)
            BY <2>1, <2>2 DEF Undisturbed, KeyBefore
        <3> QED
            BY <1>1, <2>1, <3>1, JobStays
    <2> QED
        BY <2>3, <2>4 DEF JobsKept, Own
<1>6. (OwnWrites' /\ \A d \in Calls : \A j \in Own(d) : JobKept(d, j)') => JobsKept'
    BY DEF JobsKept, Own
<1> QED
    BY <1>2, <1>3, <1>4, <1>5, <1>6 DEF CallsNext

-----------------------------------------------------------------------------
(* The names of the jobs of a call. *)

(***************************************************************************)
(* As long as there is no failover, a name in the cache is in known_jobs,  *)
(* and so is the name of a job of a call that runs or has returned, unless *)
(* the call has still to send it.                                          *)
(***************************************************************************)
NamesKept ==
    ~failovers =>
        /\ cache \subseteq KnownJobs
        /\ \A c \in Calls : cpc[c] \in {"busy", "ok"} =>
              \A j \in Own(c) : NameOf[j] \in KnownJobs \/ SendsName(todo[c], j)

(***************************************************************************)
(* A name that a call no longer sends has become known.                    *)
(***************************************************************************)
LEMMA NamesOfCall ==
    ASSUME CallsTypeOK, Orderly, NamesKept, ~failovers, NEW c \in Calls, CallNext(c)
    PROVE  /\ \A n \in KnownJobs : n \in KnownJobs'
           /\ cache' \subseteq KnownJobs'
           /\ cpc'[c] \in {"busy", "ok"} =>
                \A j \in Own(c) : NameOf[j] \in KnownJobs' \/ SendsName(todo'[c], j)
<1>1. todo[c] \in Seq(Command) /\ failed[c] \in Seq(Jobs) /\ Pipeline(c, todo[c], failed[c])
    BY DEF CallsTypeOK, Orderly
<1>2. /\ cache \subseteq KnownJobs
      /\ cpc[c] \in {"busy", "ok"} => \A j \in Own(c) : NameOf[j] \in KnownJobs \/ SendsName(todo[c], j)
    BY DEF NamesKept
<1>3. RedisStays => KnownJobs' = KnownJobs
    BY DEF RedisStays, KnownJobs
<1>4. CASE Begins(c)
    BY <1>2, <1>3, <1>4, CommandsPipeline DEF Begins
<1>5. CASE HasWaited(c) \/ \E i \in Own(c) : Defers(c, i)
    <2>1. /\ cpc[c] \in {"busy", "ok"} /\ todo[c] # <<>> /\ todo'[c] = Tail(todo[c]) /\ todo[c][1].op \notin NameOps
          /\ RedisStays /\ cache' = cache
        BY <1>5 DEF HasWaited, Defers, Proceeds, NameOps
    <2>2. \A j : SendsName(Tail(todo[c]), j) <=> SendsName(todo[c], j)
        BY <1>1, <2>1, TailSends
    <2> QED
        BY <1>2, <1>3, <2>1, <2>2
<1>6. CASE Fails(c)
    BY <1>2, <1>3, <1>6 DEF Fails
<1>7. CASE Returns(c)
    BY <1>2, <1>3, <1>7 DEF Returns
<1>8. CASE SendsAgain(c)
    <2>1. cpc[c] \in {"busy", "ok"} /\ todo[c] = <<>> /\ RedisStays /\ cache' = cache
        BY <1>8 DEF SendsAgain
    <2>2. \A j : ~SendsName(todo[c], j)
        BY <2>1, EmptyLen DEF SendsName
    <2> QED
        BY <1>2, <1>3, <2>1, <2>2
<1>9. ASSUME NEW i \in Own(c), Enqueues(c, i)
      PROVE  /\ \A n \in KnownJobs : n \in KnownJobs'
             /\ cache' \subseteq KnownJobs'
             /\ \A j \in Own(c) : NameOf[j] \in KnownJobs' \/ SendsName(todo'[c], j)
    <2>1. /\ cpc[c] \in {"busy", "ok"} /\ todo[c] # <<>> /\ todo'[c] = Tail(todo[c]) /\ todo[c][1].op \notin NameOps
          /\ cache' = cache
        BY <1>9 DEF Enqueues, Proceeds, NameOps, JobOps
    <2>2. \A j : SendsName(Tail(todo[c]), j) <=> SendsName(todo[c], j)
        BY <1>1, <2>1, TailSends
    <2>3. PICK w \in WriteSet : Execute(c, w)
        BY <1>9 DEF Enqueues
    <2>4. \A n \in KnownJobs : n \in KnownJobs'
        BY <2>3, Executed
    <2> QED
        BY <1>2, <2>1, <2>2, <2>4
<1>10. CASE MakesKnown(c)
    <2>1. /\ cpc[c] \in {"busy", "ok"} /\ todo[c] # <<>> /\ todo'[c] = Tail(todo[c])
        BY <1>10 DEF MakesKnown, Proceeds
    <2>2. \A j : SendsName(todo[c], j) => j \in todo[c][1].jobs \/ SendsName(todo'[c], j)
        BY <1>1, <2>1, TailSends, SMTT(60)
    <2>3. /\ \A n \in KnownJobs : n \in KnownJobs'
          /\ cache' \subseteq KnownJobs'
          /\ \A j \in todo[c][1].jobs : NameOf[j] \in KnownJobs'
        <3>1. CASE RedisStays /\ cache' = cache /\ \A j \in todo[c][1].jobs : NameOf[j] \in cache
            BY <1>2, <1>3, <3>1
        <3>2. ASSUME NEW w \in WriteSet, Execute(c, w), cache' = cache \cup w.names,
                     w.names = {NameOf[j] : j \in todo[c][1].jobs}
              PROVE  /\ \A n \in KnownJobs : n \in KnownJobs'
                     /\ cache' \subseteq KnownJobs'
                     /\ \A j \in todo[c][1].jobs : NameOf[j] \in KnownJobs'
            <4>1. \A n : n \in KnownJobs' <=> n \in KnownJobs \/ n \in w.names
                BY <3>2, Executed
            <4> QED
                BY <1>2, <3>2, <4>1
        <3> QED
            BY <1>10, <3>1, <3>2 DEF MakesKnown
    <2> QED
        BY <1>2, <2>1, <2>2, <2>3
<1> QED
    BY <1>4, <1>5, <1>6, <1>7, <1>8, <1>9, <1>10, CallSteps

(***************************************************************************)
(* Every step keeps the names.                                             *)
(***************************************************************************)
LEMMA NamesKeptNext ==
    ASSUME CallsTypeOK, Orderly, NamesKept, [CallsNext]_enqueueVars
    PROVE  NamesKept'
<1> SUFFICES ASSUME ~failovers'
             PROVE  /\ cache' \subseteq KnownJobs'
                    /\ \A d \in Calls : cpc'[d] \in {"busy", "ok"} =>
                          \A j \in Own(d) : NameOf[j] \in KnownJobs' \/ SendsName(todo'[d], j)
    BY DEF NamesKept, SendsName, Own
<1>1. ASSUME NEW c \in Calls, CallNext(c)
      PROVE  /\ cache' \subseteq KnownJobs'
             /\ \A d \in Calls : cpc'[d] \in {"busy", "ok"} =>
                   \A j \in Own(d) : NameOf[j] \in KnownJobs' \/ SendsName(todo'[d], j)
    <2>1. ~failovers /\ OthersStay(c)
        BY <1>1, CallSteps
    <2>2. /\ \A n \in KnownJobs : n \in KnownJobs'
          /\ cache' \subseteq KnownJobs'
          /\ cpc'[c] \in {"busy", "ok"} =>
                \A j \in Own(c) : NameOf[j] \in KnownJobs' \/ SendsName(todo'[c], j)
        BY <1>1, <2>1, NamesOfCall
    <2>3. ASSUME NEW d \in Calls, d # c, cpc'[d] \in {"busy", "ok"}
          PROVE  \A j \in Own(d) : NameOf[j] \in KnownJobs' \/ SendsName(todo'[d], j)
        <3>1. cpc'[d] = cpc[d] /\ todo'[d] = todo[d]
            BY <2>1, <2>3 DEF OthersStay
        <3> QED
            BY <2>1, <2>2, <2>3, <3>1 DEF NamesKept
    <2> QED
        BY <2>2, <2>3
<1>2. CASE Replicate \/ ScriptFlush \/ CacheExpires \/ UNCHANGED enqueueVars
    <2>1. cpc' = cpc /\ todo' = todo /\ failovers' = failovers /\ cache' \subseteq cache
        BY <1>2 DEF Replicate, ScriptFlush, CacheExpires, enqueueVars, callVars, boundVars
    <2>2. \A n : n \in KnownJobs' <=> n \in KnownJobs
        <3>1. CASE Replicate
            BY <3>1, CaughtUp
        <3>2. CASE stored' = stored /\ pending' = pending
            BY <3>2 DEF KnownJobs
        <3> QED
            BY <1>2, <3>1, <3>2 DEF ScriptFlush, CacheExpires, enqueueVars, serverVars
    <2> QED
        BY <2>1, <2>2 DEF NamesKept
<1>3. CASE Failover
    <2>1. failovers' = TRUE
        BY <1>3 DEF Failover
    <2> QED
        BY <2>1
<1> QED
    BY <1>1, <1>2, <1>3 DEF CallsNext

-----------------------------------------------------------------------------
(* The theorems. *)

CallsInv == CallsTypeOK /\ Orderly /\ JobsKept /\ NamesKept

(***************************************************************************)
(* The inductive invariant of the calls: their pipelines, what has been    *)
(* done about every job of theirs, and which names are known.              *)
(***************************************************************************)
LEMMA AlwaysCallsInv == CallsSpec => []CallsInv
<1>1. CallsInit => CallsInv
    <2> SUFFICES ASSUME CallsInit PROVE CallsInv
        OBVIOUS
    <2>1. CallsTypeOK /\ Orderly /\ JobsKept
        BY CallsTypeInit, JobsKeptInit
    <2>2. cache = {} /\ \A c \in Calls : cpc[c] \notin {"busy", "ok"}
        BY DEF CallsInit
    <2> QED
        BY <2>1, <2>2 DEF CallsInv, NamesKept
<1>2. CallsInv /\ [CallsNext]_enqueueVars => CallsInv'
    <2> SUFFICES ASSUME CallsInv, [CallsNext]_enqueueVars PROVE CallsInv'
        OBVIOUS
    <2>1. CallsTypeOK /\ Orderly /\ JobsKept /\ NamesKept
        BY DEF CallsInv
    <2>2. CallsTypeOK' /\ Orderly' /\ JobsKept' /\ NamesKept'
        BY <2>1, CallsTypeNext, OrderlyNext, JobsKeptNext, NamesKeptNext
    <2> QED
        BY <2>2 DEF CallsInv
<1> QED
    BY <1>1, <1>2, PTL DEF CallsSpec

(***************************************************************************)
(* Every variable of the calls always has its type.                        *)
(***************************************************************************)
THEOREM CallsTypeCorrect == CallsSpec => []CallsTypeOK
<1>1. CallsInv => CallsTypeOK
    BY DEF CallsInv
<1> QED
    BY <1>1, AlwaysCallsInv, PTL

(***************************************************************************)
(* A job of a call that has returned without error is in Redis, or it was  *)
(* skipped for a key that is there, for any number of calls of any kind,   *)
(* any sharing of names and keys and any number of lost replies, flushed   *)
(* scripts and expired cache entries, and with MinWaitReplicas any number  *)
(* of failovers, in the middle of any pipeline.                            *)
(***************************************************************************)
THEOREM AckedJobsStay == CallsSpec => []AckedJobsAreThere
<1>1. CallsInv => AckedJobsAreThere
    <2> SUFFICES ASSUME CallsInv, MinWaitEnabled \/ ~failovers,
                        NEW c \in Calls, cpc[c] = "ok", NEW j \in Range(Params[c])
                 PROVE  InRedis(j)
        BY DEF AckedJobsAreThere, InRedis
    <2>1. j \in Own(c) /\ JobKept(c, j)
        BY DEF CallsInv, JobsKept, Own
    <2>2. ~Sends(todo[c], failed[c], j)
        <3>1. todo[c] = <<>> /\ failed[c] = <<>>
            BY DEF CallsInv, Orderly
        <3> QED
            BY <3>1, EmptyLen DEF Sends
    <2>3. cpc[c] \in {"busy", "ok"}
        OBVIOUS
    <2> QED
        BY <2>1, <2>2, <2>3 DEF JobKept, Kept
<1> QED
    BY <1>1, AlwaysCallsInv, PTL

(***************************************************************************)
(* As long as there is no failover the name of every job of such a call is *)
(* in known_jobs, whichever call has put it into the cache.                *)
(***************************************************************************)
THEOREM AckedNamesStay == CallsSpec => []AckedNamesAreKnown
<1>1. CallsInv => AckedNamesAreKnown
    <2> SUFFICES ASSUME CallsInv, ~failovers, NEW c \in Calls, cpc[c] = "ok", NEW j \in Range(Params[c])
                 PROVE  NameOf[j] \in KnownJobs
        BY DEF AckedNamesAreKnown
    <2>1. ~SendsName(todo[c], j)
        <3>1. todo[c] = <<>>
            BY DEF CallsInv, Orderly
        <3> QED
            BY <3>1, EmptyLen DEF SendsName
    <2>2. cpc[c] \in {"busy", "ok"} /\ j \in Own(c)
        BY DEF Own
    <2> QED
        BY <2>1, <2>2 DEF CallsInv, NamesKept
<1> QED
    BY <1>1, AlwaysCallsInv, PTL
=============================================================================
