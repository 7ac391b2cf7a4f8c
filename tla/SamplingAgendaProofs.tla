-------------------------- MODULE SamplingAgendaProofs --------------------------
(****************************************************************************)
(* For any number of threads, workers and phrases: when a lookup returns,   *)
(* its statistics are complete and at rest, and the sample is as large as   *)
(* was asked for.                                                           *)
(****************************************************************************)
EXTENDS SamplingAgenda, FiniteSetTheorems, SequenceTheorems, TLAPS

-----------------------------------------------------------------------------
(* The inductive invariant *)

JobType == [phrase : Phrases, ctr : Nat, workers : Nat, good : Nat, added : Nat,
            inProgress : Nat]

Occ(j) == job[j].phrase.occ

\* Between register_worker and release.
Registered(j) ==
  {w \in Workers : wjob[w] = j /\ wpc[w] \in {"next", "count", "add", "release"}}

\* With an occurrence that is not yet in the statistics.
Counting(j) == {w \in Workers : wjob[w] = j /\ wpc[w] = "count"}

Hands ==
  /\ ~started => \A w \in Workers : wpc[w] = "none"
  /\ \A w \in Workers :
       /\ wpc[w] \in {"register", "next", "count", "add", "release"} => wjob[w] \in Jobs
       /\ wpc[w] = "count" => wocc[w] \in 1..Len(Occ(wjob[w]))
  /\ \A c \in Clients : cpc[c] \in {"wait", "asleep", "read"} => cjob[c] \in Jobs

\* inProgress is the number of those who may still change the statistics: the
\* workers that have registered, and the agenda as long as it may send one.
Counted ==
  \A j \in Jobs :
    job[j].inProgress = Cardinality(Registered(j)) + (IF j \in joblist THEN 1 ELSE 0)

\* The agenda drops only what is done.
OnlyDoneDropped == \A j \in Jobs : j \notin joblist => Done(j)

\* A good sample has given phrase pairs, or will when its worker goes on.
GoodIsAdded ==
  \A j \in Jobs : job[j].good >= 1 =>
    job[j].added >= 1 \/ \E w \in Workers : wjob[w] = j /\ wpc[w] = "add"

\* What is sampled and what may still be is enough.
Known(j) == job[j].phrase.raw = Len(Occ(j)) /\ \A i \in 1..Len(Occ(j)) : Occ(j)[i]
Wanted(j) == IF job[j].phrase.max = 0 \/ job[j].phrase.max > Len(Occ(j))
             THEN Len(Occ(j)) ELSE job[j].phrase.max
EnoughLeft ==
  \A j \in Jobs : Known(j) =>
    job[j].good + Cardinality(Counting(j)) + (Len(Occ(j)) - job[j].ctr) >= Wanted(j)

\* Nobody has anything to add to the statistics of j, and who comes to j finds
\* nothing to do.
AtRest(j) ==
  /\ j \notin joblist /\ Done(j)
  /\ \A w \in Workers : wjob[w] = j => wpc[w] \notin {"count", "add"}
LookupsAtRest == \A c \in Clients : cpc[c] = "read" => AtRest(cjob[c])

IInv == TypeOK /\ Hands /\ Counted /\ OnlyDoneDropped /\ GoodIsAdded /\ EnoughLeft
          /\ LookupsAtRest

-----------------------------------------------------------------------------
(* What is known of a job, and of the sets of workers at it *)

LEMMA JobFacts ==
  ASSUME TypeOK, NEW j \in Jobs
  PROVE  /\ job \in Seq(JobType) /\ Jobs = 1..Len(job) /\ Len(job) \in Nat
         /\ job[j] \in JobType /\ job[j].ctr <= Len(Occ(j))
         /\ Occ(j) \in Seq(BOOLEAN) /\ Len(Occ(j)) \in Nat
         /\ job[j].phrase.max \in Nat /\ job[j].phrase.raw \in Nat
<1>1. job \in Seq(JobType) /\ Jobs = 1..Len(job) /\ Len(job) \in Nat
  BY LenProperties DEF TypeOK, JobType, Jobs
<1>2. job[j] \in JobType
  BY <1>1, ElementOfSeq
<1>3. job[j].phrase \in Phrases /\ job[j].ctr <= Len(Occ(j))
  BY <1>2 DEF JobType, TypeOK, Occ
<1>4. Occ(j) \in Seq(BOOLEAN) /\ job[j].phrase.max \in Nat /\ job[j].phrase.raw \in Nat
  BY <1>3, AgendaAssumption DEF Occ
<1>5. Len(Occ(j)) \in Nat
  BY <1>4, LenProperties
<1> QED BY <1>1, <1>2, <1>3, <1>4, <1>5

LEMMA SetFacts ==
  ASSUME NEW j
  PROVE  /\ IsFiniteSet(Registered(j)) /\ Cardinality(Registered(j)) \in Nat
         /\ IsFiniteSet(Counting(j)) /\ Cardinality(Counting(j)) \in Nat
<1>1. Registered(j) \in SUBSET Workers /\ Counting(j) \in SUBSET Workers
  BY DEF Registered, Counting
<1>2. IsFiniteSet(Registered(j)) /\ IsFiniteSet(Counting(j))
  BY <1>1, AgendaAssumption, FS_Subset
<1> QED BY <1>2, FS_CardinalityType

\* A step that changes one job, but not its phrase.
LEMMA OneJob ==
  ASSUME TypeOK, NEW j \in Jobs, NEW r \in JobType, r.phrase = job[j].phrase,
         r.ctr <= Len(Occ(j)), job' = [job EXCEPT ![j] = r]
  PROVE  /\ job' \in Seq(JobType) /\ Jobs' = Jobs /\ job'[j] = r
         /\ \A i \in Jobs : i # j => job'[i] = job[i]
         /\ \A i \in Jobs : job'[i].phrase = job[i].phrase
         /\ \A i \in Jobs : job'[i].ctr <= Len(job'[i].phrase.occ)
<1>1. job \in Seq(JobType) /\ Jobs = 1..Len(job) /\ Len(job) \in Nat
  BY JobFacts
<1>2. /\ job' \in Seq(JobType) /\ Len(job') = Len(job)
      /\ \A i \in 1..Len(job) : job'[i] = IF i = j THEN r ELSE job[i]
  BY <1>1, ExceptSeq
<1>3. Jobs' = Jobs
  BY <1>1, <1>2, LenProperties DEF Jobs
<1>4. \A i \in Jobs : job[i].ctr <= Len(job[i].phrase.occ)
  BY DEF TypeOK
<1> QED BY <1>1, <1>2, <1>3, <1>4 DEF Occ

-----------------------------------------------------------------------------
(* Steps that leave the jobs alone *)

LEMMA InitIInv ==
  ASSUME Init
  PROVE  IInv
<1>1. Jobs = {} /\ job \in Seq(JobType)
  BY EmptySeq DEF Init, Jobs
<1>2. TypeOK
  BY <1>1 DEF Init, TypeOK, Nobody, NoJob, JobType
<1> QED
  BY <1>1, <1>2 DEF Init, IInv, Hands, Counted, OnlyDoneDropped, GoodIsAdded, EnoughLeft,
                    LookupsAtRest

\* A worker may go to and fro between the states in which it has no job, and
\* from one registered state without a sample to another.
LEMMA JobsUnchanged ==
  ASSUME IInv, job' = job, joblist' = joblist, wjob' = wjob, wocc' = wocc,
         ~started' => ~started /\ wpc' = wpc,
         \A w \in Workers :
            /\ wpc'[w] \in {"next", "release"} <=> wpc[w] \in {"next", "release"}
            /\ wpc'[w] = "register" <=> wpc[w] = "register"
            /\ wpc'[w] = "count" <=> wpc[w] = "count"
            /\ wpc'[w] = "add" <=> wpc[w] = "add",
         \A c \in Clients : cpc'[c] \in {"wait", "asleep", "read"} => cjob'[c] \in Jobs
  PROVE  /\ Hands' /\ Counted' /\ OnlyDoneDropped' /\ GoodIsAdded' /\ EnoughLeft'
         /\ \A j \in Jobs : AtRest(j)' <=> AtRest(j)
<1>1. Jobs' = Jobs
  BY DEF Jobs
<1>2. \A j : Registered(j)' = Registered(j) /\ Counting(j)' = Counting(j)
  BY DEF Registered, Counting
<1>3. Hands'
  BY <1>1 DEF IInv, Hands, Occ
<1>4. Counted'
  BY <1>1, <1>2 DEF IInv, Counted
<1>5. OnlyDoneDropped'
  BY <1>1 DEF IInv, OnlyDoneDropped, Done, AtStop
<1>6. GoodIsAdded'
  BY <1>1 DEF IInv, GoodIsAdded
<1>7. EnoughLeft'
  BY <1>1, <1>2 DEF IInv, EnoughLeft, Known, Wanted, Occ
<1>8. \A j \in Jobs : AtRest(j)' <=> AtRest(j)
  BY <1>1 DEF AtRest, Done, AtStop
<1> QED BY <1>3, <1>4, <1>5, <1>6, <1>7, <1>8

LEMMA PrepareStep ==
  ASSUME IInv, NEW c \in Clients, Prepare(c)
  PROVE  IInv'
<1>1. /\ started' = TRUE /\ guard' = c /\ missed' = missed
      /\ wpc' = IF started THEN wpc ELSE [w \in Workers |-> "get"]
      /\ cpc' = [cpc EXCEPT ![c] = "add"]
      /\ job' = job /\ joblist' = joblist /\ wjob' = wjob /\ wocc' = wocc /\ cjob' = cjob
  BY DEF Prepare
<1>2. TypeOK'
  BY <1>1 DEF IInv, TypeOK, Jobs
<1>3. \A w \in Workers : wpc'[w] = wpc[w] \/ (wpc[w] = "none" /\ wpc'[w] = "get")
  BY <1>1 DEF IInv, Hands
<1>4. \A d \in Clients : cpc'[d] \in {"wait", "asleep", "read"} => cpc'[d] = cpc[d]
  BY <1>1 DEF IInv, TypeOK
<1>5. /\ Hands' /\ Counted' /\ OnlyDoneDropped' /\ GoodIsAdded' /\ EnoughLeft'
      /\ \A j \in Jobs : AtRest(j)' <=> AtRest(j)
  <2>1. \A d \in Clients : cpc'[d] \in {"wait", "asleep", "read"} => cjob'[d] \in Jobs
    BY <1>1, <1>4 DEF IInv, Hands
  <2>2. \A w \in Workers :
            /\ wpc'[w] \in {"next", "release"} <=> wpc[w] \in {"next", "release"}
            /\ wpc'[w] = "register" <=> wpc[w] = "register"
            /\ wpc'[w] = "count" <=> wpc[w] = "count"
            /\ wpc'[w] = "add" <=> wpc[w] = "add"
    BY <1>3
  <2> QED BY <1>1, <2>1, <2>2, JobsUnchanged
<1>6. LookupsAtRest'
  BY <1>1, <1>4, <1>5 DEF IInv, LookupsAtRest, Hands
<1> QED BY <1>2, <1>5, <1>6 DEF IInv

\* Going to sleep, waking up and going on with the next phrase.
LEMMA WaitingStep ==
  ASSUME IInv, NEW c \in Clients, Sleep(c) \/ SpuriousWake(c) \/ Expanded(c)
  PROVE  IInv'
<1>1. /\ started' = started /\ guard' = guard /\ missed' = missed
      /\ wpc' = wpc /\ job' = job /\ joblist' = joblist /\ wjob' = wjob /\ wocc' = wocc
  BY DEF Sleep, SpuriousWake, Expanded, workerVars
<1>2. TypeOK'
  BY <1>1 DEF IInv, TypeOK, Jobs, Sleep, SpuriousWake, Expanded
<1>3. \A d \in Clients : cpc'[d] \in {"wait", "asleep", "read"} =>
        cjob'[d] = cjob[d] /\ cpc[d] \in {"wait", "asleep", "read"}
  BY DEF IInv, TypeOK, Sleep, SpuriousWake, Expanded
<1>4. \A d \in Clients : cpc'[d] = "read" => cpc[d] = "read"
  BY DEF IInv, TypeOK, Sleep, SpuriousWake, Expanded
<1>5. /\ Hands' /\ Counted' /\ OnlyDoneDropped' /\ GoodIsAdded' /\ EnoughLeft'
      /\ \A j \in Jobs : AtRest(j)' <=> AtRest(j)
  <2>1. \A d \in Clients : cpc'[d] \in {"wait", "asleep", "read"} => cjob'[d] \in Jobs
    BY <1>3 DEF IInv, Hands
  <2> QED BY <1>1, <2>1, JobsUnchanged
<1>6. LookupsAtRest'
  BY <1>3, <1>4, <1>5 DEF IInv, LookupsAtRest, Hands
<1> QED BY <1>2, <1>5, <1>6 DEF IInv

\* Nobody is left who counts: the agenda has dropped the job, because it was
\* done, and no worker is registered.
LEMMA ReturnStep ==
  ASSUME IInv, NEW c \in Clients, Return(c)
  PROVE  IInv'
<1>1. /\ started' = started /\ guard' = guard /\ missed' = missed
      /\ wpc' = wpc /\ job' = job /\ joblist' = joblist /\ wjob' = wjob /\ wocc' = wocc
      /\ cjob' = cjob /\ cpc' = [cpc EXCEPT ![c] = "read"] /\ cpc[c] = "wait"
      /\ cjob[c] \in Jobs /\ job[cjob[c]].inProgress = 0
  BY DEF Return, workerVars, IInv, Hands
<1>2. TypeOK'
  BY <1>1 DEF IInv, TypeOK, Jobs
<1>3. \A d \in Clients : cpc'[d] \in {"wait", "asleep", "read"} =>
        cpc[d] \in {"wait", "asleep", "read"}
  BY <1>1 DEF IInv, TypeOK
<1>4. /\ Hands' /\ Counted' /\ OnlyDoneDropped' /\ GoodIsAdded' /\ EnoughLeft'
      /\ \A j \in Jobs : AtRest(j)' <=> AtRest(j)
  <2>1. \A d \in Clients : cpc'[d] \in {"wait", "asleep", "read"} => cjob'[d] \in Jobs
    BY <1>1, <1>3 DEF IInv, Hands
  <2> QED BY <1>1, <2>1, JobsUnchanged
<1>5. AtRest(cjob[c])
  <2>1. cjob[c] \notin joblist /\ Cardinality(Registered(cjob[c])) = 0
    BY <1>1, SetFacts DEF IInv, Counted
  <2>2. Registered(cjob[c]) = {}
    BY <2>1, SetFacts, FS_EmptySet
  <2>3. Done(cjob[c])
    BY <1>1, <2>1 DEF IInv, OnlyDoneDropped
  <2> QED BY <2>1, <2>2, <2>3 DEF AtRest, Registered
<1>6. LookupsAtRest'
  <2>1. \A d \in Clients : cpc'[d] = "read" => d = c \/ cpc[d] = "read"
    BY <1>1 DEF IInv, TypeOK
  <2> QED BY <1>1, <1>4, <1>5, <2>1 DEF IInv, LookupsAtRest, Hands
<1> QED BY <1>2, <1>4, <1>6 DEF IInv

LEMMA NoMoreSamplesStep ==
  ASSUME IInv, NEW w \in Workers, NoMoreSamples(w) \/ ThreadEnds(w)
  PROVE  IInv'
<1>1. /\ started' = started /\ guard' = guard /\ missed' = missed
      /\ job' = job /\ joblist' = joblist /\ wjob' = wjob /\ wocc' = wocc
      /\ cjob' = cjob /\ cpc' = cpc
  BY DEF NoMoreSamples, ThreadEnds, clientVars
<1>2. TypeOK'
  BY <1>1 DEF IInv, TypeOK, Jobs, NoMoreSamples, ThreadEnds, Left
<1>3. /\ \A v \in Workers :
            /\ wpc'[v] \in {"next", "release"} <=> wpc[v] \in {"next", "release"}
            /\ wpc'[v] = "register" <=> wpc[v] = "register"
            /\ wpc'[v] = "count" <=> wpc[v] = "count"
            /\ wpc'[v] = "add" <=> wpc[v] = "add"
      /\ started
  BY DEF IInv, TypeOK, Hands, NoMoreSamples, ThreadEnds, Left
<1>4. /\ Hands' /\ Counted' /\ OnlyDoneDropped' /\ GoodIsAdded' /\ EnoughLeft'
      /\ \A j \in Jobs : AtRest(j)' <=> AtRest(j)
  <2>1. \A d \in Clients : cpc'[d] \in {"wait", "asleep", "read"} => cjob'[d] \in Jobs
    BY <1>1 DEF IInv, Hands
  <2> QED BY <1>1, <1>3, <2>1, JobsUnchanged
<1>5. LookupsAtRest'
  BY <1>1, <1>4 DEF IInv, LookupsAtRest, Hands
<1> QED BY <1>2, <1>4, <1>5 DEF IInv

-----------------------------------------------------------------------------
(* Steps that add jobs and hand them out *)

LEMMA AddJobStep ==
  ASSUME IInv, NEW c \in Clients, NEW p \in Phrases, NEW isLookup \in BOOLEAN,
         AddJob(c, p, isLookup)
  PROVE  IInv'
<1>0. job \in Seq(JobType) /\ Jobs = 1..Len(job) /\ Len(job) \in Nat
  BY LenProperties DEF IInv, TypeOK, JobType, Jobs
<1> PICK n \in Nat : n = Len(job) + 1
  BY <1>0
<1>1. NewJob(p) \in JobType
  BY DEF NewJob, JobType
<1>2. /\ job' = Append(job, NewJob(p)) /\ job' \in Seq(JobType) /\ Len(job') = n
      /\ job'[n] = NewJob(p) /\ \A i \in Jobs : job'[i] = job[i]
      /\ Jobs' = Jobs \cup {n} /\ n \notin Jobs /\ n \in Nat /\ n # 0
  <2>1. job' = Append(job, NewJob(p))
    BY DEF AddJob
  <2>2. /\ job' \in Seq(JobType) /\ Len(job') = n /\ job'[n] = NewJob(p)
        /\ \A i \in Jobs : job'[i] = job[i]
    BY <1>0, <1>1, <2>1, AppendProperties
  <2>3. Jobs' = 1..n
    BY <2>2, LenProperties DEF Jobs
  <2> QED BY <1>0, <2>1, <2>2, <2>3
<1>3. /\ joblist' = joblist \cup {n}
      /\ started' = started /\ wjob' = wjob /\ wocc' = wocc /\ guard' = Nobody
      /\ missed' \in BOOLEAN
      /\ \A w \in Workers : wpc'[w] = wpc[w] \/ (wpc[w] = "ended" /\ wpc'[w] = "get")
      /\ wpc' \in [Workers -> {"none", "get", "register", "next", "count", "add", "release",
                               Left, "ended"}]
  BY <1>2 DEF AddJob, Restarted, IInv, TypeOK
<1>4. /\ cpc' \in [Clients -> {"idle", "add", "wait", "asleep", "read"}]
      /\ cjob' \in [Clients -> Jobs' \cup {NoJob}]
      /\ \A d \in Clients : d # c => cpc'[d] = cpc[d] /\ cjob'[d] = cjob[d]
      /\ cpc'[c] = "wait" => cjob'[c] = n
      /\ cpc'[c] \in {"wait", "idle"}
  BY <1>2 DEF AddJob, IInv, TypeOK
<1>5. TypeOK'
  <2>1. \A i \in Jobs' : job'[i].ctr <= Len(job'[i].phrase.occ)
    <3>1. \A i \in Jobs : job[i].ctr <= Len(job[i].phrase.occ)
      BY DEF IInv, TypeOK
    <3>2. job'[n].ctr = 0 /\ job'[n].phrase = p
      BY <1>2 DEF NewJob
    <3>3. Len(p.occ) \in Nat
      BY AgendaAssumption, LenProperties
    <3>4. job'[n].ctr <= Len(job'[n].phrase.occ)
      BY <3>2, <3>3
    <3>5. \A i \in Jobs : job'[i].ctr <= Len(job'[i].phrase.occ)
      BY <1>2, <3>1
    <3> QED BY <1>2, <3>4, <3>5
  <2> QED BY <1>2, <1>3, <1>4, <2>1 DEF IInv, TypeOK, JobType
<1>6. \A w \in Workers : wjob[w] \in Jobs \cup {NoJob} /\ wjob[w] # n
  BY <1>2 DEF IInv, TypeOK, NoJob
<1>7. Hands'
  <2>1. \A w \in Workers :
           /\ wpc'[w] \in {"register", "next", "count", "add", "release"} => wpc[w] = wpc'[w]
           /\ wpc'[w] = "count" => wpc[w] = "count"
           /\ ~started => wpc'[w] = "none"
    BY <1>3 DEF IInv, Hands
  <2>2. \A w \in Workers : wpc[w] = "count" => Occ(wjob[w])' = Occ(wjob[w])
    BY <1>2, <1>3 DEF IInv, Hands, Occ
  <2>3. \A d \in Clients : cpc'[d] \in {"wait", "asleep", "read"} => cjob'[d] \in Jobs'
    BY <1>2, <1>4 DEF IInv, Hands
  <2> QED BY <1>2, <1>3, <2>1, <2>2, <2>3 DEF IInv, Hands
<1>8. /\ \A j \in Jobs : Registered(j)' = Registered(j) /\ Counting(j)' = Counting(j)
      /\ Registered(n)' = {} /\ Counting(n)' = {}
  BY <1>3, <1>6 DEF Registered, Counting
<1>9. Counted'
  <2>1. \A j \in Jobs : j \in joblist' <=> j \in joblist
    BY <1>2, <1>3
  <2>2. job'[n].inProgress = 1 /\ n \in joblist' /\ Cardinality({}) = 0
    BY <1>2, <1>3, FS_EmptySet DEF NewJob
  <2>3. Cardinality(Registered(n)') = 0
    BY <1>8, <2>2
  <2>4. \A j \in Jobs :
          job'[j].inProgress = Cardinality(Registered(j)') + (IF j \in joblist' THEN 1 ELSE 0)
    <3> SUFFICES ASSUME NEW j \in Jobs
                 PROVE  job'[j].inProgress =
                          Cardinality(Registered(j)') + (IF j \in joblist' THEN 1 ELSE 0)
      OBVIOUS
    <3>1. job[j].inProgress = Cardinality(Registered(j)) + (IF j \in joblist THEN 1 ELSE 0)
      BY DEF IInv, Counted
    <3>2. Registered(j)' = Registered(j)
      BY <1>8
    <3> QED BY <1>2, <2>1, <3>1, <3>2
  <2>5. job'[n].inProgress = Cardinality(Registered(n)') + (IF n \in joblist' THEN 1 ELSE 0)
    BY <2>2, <2>3
  <2> QED BY <1>2, <2>4, <2>5 DEF Counted
<1>10. OnlyDoneDropped'
  BY <1>2, <1>3 DEF IInv, OnlyDoneDropped, Done, AtStop
<1>11. GoodIsAdded'
  <2>1. job'[n].good = 0
    BY <1>2 DEF NewJob
  <2>2. \A w \in Workers : wpc[w] = "add" => wpc'[w] = "add"
    BY <1>3
  <2> SUFFICES ASSUME NEW j \in Jobs', job'[j].good >= 1
               PROVE  job'[j].added >= 1 \/ \E w \in Workers : wjob'[w] = j /\ wpc'[w] = "add"
    BY DEF GoodIsAdded
  <2>3. j \in Jobs /\ job'[j] = job[j]
    <3>1. j \in Jobs \cup {n} /\ j # n
      BY <1>2, <2>1
    <3> QED BY <1>2, <3>1
  <2>4. job[j].added >= 1 \/ \E w \in Workers : wjob[w] = j /\ wpc[w] = "add"
    BY <2>3 DEF IInv, GoodIsAdded
  <2> QED BY <1>3, <2>2, <2>3, <2>4
<1>12. EnoughLeft'
  <2>1. job'[n].good = 0 /\ job'[n].ctr = 0 /\ job'[n].phrase = p /\ Cardinality({}) = 0
    BY <1>2, FS_EmptySet DEF NewJob
  <2>2. Len(p.occ) \in Nat /\ p.max \in Nat
    BY AgendaAssumption, LenProperties
  <2>3. Len(Occ(n)') - 0 >= Wanted(n)'
    BY <2>1, <2>2 DEF Wanted, Occ
  <2>4. job'[n].good + Cardinality(Counting(n)') + (Len(Occ(n)') - job'[n].ctr) >= Wanted(n)'
    <3>1. Cardinality(Counting(n)') = 0
      BY <1>8, <2>1
    <3>2. Len(Occ(n)') \in Nat /\ Wanted(n)' \in Nat
      BY <2>1, <2>2 DEF Wanted, Occ
    <3> QED BY <2>1, <2>3, <3>1, <3>2
  <2>5. \A j \in Jobs : /\ Known(j)' <=> Known(j)
                        /\ Wanted(j)' = Wanted(j) /\ Occ(j)' = Occ(j)
    BY <1>2 DEF Known, Wanted, Occ
  <2> QED BY <1>2, <1>8, <2>4, <2>5 DEF IInv, EnoughLeft
<1>13. LookupsAtRest'
  <2>1. \A j \in Jobs : AtRest(j) => AtRest(j)'
    BY <1>2, <1>3 DEF AtRest, Done, AtStop
  <2>2. \A d \in Clients : cpc'[d] = "read" => cpc[d] = "read" /\ cjob'[d] = cjob[d]
    BY <1>4
  <2> QED BY <2>1, <2>2 DEF IInv, LookupsAtRest, Hands
<1> QED BY <1>5, <1>7, <1>9, <1>10, <1>11, <1>12, <1>13 DEF IInv

\* Dropping jobs takes the agenda out of their counts.
LEMMA Dropping ==
  ASSUME IInv
  PROVE  LET new == Released(Dropped) IN
         /\ new \in Seq(JobType) /\ Len(new) = Len(job) /\ DOMAIN new = Jobs
         /\ \A i \in Jobs : new[i] \in JobType
                            /\ new[i].phrase = job[i].phrase /\ new[i].ctr = job[i].ctr
             /\ new[i].good = job[i].good /\ new[i].added = job[i].added
                            /\ new[i].inProgress =
                                 Cardinality(Registered(i)) + (IF i \in joblist \ Dropped THEN 1 ELSE 0)
<1> DEFINE new == Released(Dropped)
<1>1. job \in Seq(JobType) /\ Jobs = 1..Len(job) /\ Len(job) \in Nat
  BY LenProperties DEF IInv, TypeOK, JobType, Jobs
<1>2. Dropped \subseteq joblist /\ joblist \subseteq Jobs
  BY DEF Dropped, IInv, TypeOK
<1>3. ASSUME NEW i \in Jobs
      PROVE  /\ new[i] \in JobType
             /\ new[i].phrase = job[i].phrase /\ new[i].ctr = job[i].ctr
             /\ new[i].good = job[i].good /\ new[i].added = job[i].added
             /\ new[i].inProgress =
                  Cardinality(Registered(i)) + (IF i \in joblist \ Dropped THEN 1 ELSE 0)
  <2>1. job[i] \in JobType
    BY JobFacts DEF IInv
  <2>2. job[i].inProgress = Cardinality(Registered(i)) + (IF i \in joblist THEN 1 ELSE 0)
    BY DEF IInv, Counted
  <2>3. Cardinality(Registered(i)) \in Nat
    BY SetFacts
  <2>4. CASE i \in Dropped
    <3>1. new[i] = [job[i] EXCEPT !.inProgress = @ - 1]
      BY <2>4 DEF Released
    <3>2. job[i].inProgress - 1 = Cardinality(Registered(i))
      BY <1>2, <2>2, <2>3, <2>4
    <3>3. new[i] = [job[i] EXCEPT !.inProgress = Cardinality(Registered(i))]
      BY <3>1, <3>2
    <3> HIDE DEF new
    <3>4. /\ new[i].inProgress = Cardinality(Registered(i)) /\ new[i] \in JobType
          /\ new[i].phrase = job[i].phrase /\ new[i].ctr = job[i].ctr
          /\ new[i].good = job[i].good /\ new[i].added = job[i].added
      BY <2>1, <2>3, <3>3 DEF JobType
    <3> QED BY <2>3, <2>4, <3>4
  <2>5. CASE i \notin Dropped
    <3>1. new[i] = job[i]
      BY <2>5 DEF Released
    <3> QED BY <2>1, <2>2, <2>5, <3>1 DEF JobType
  <2> QED BY <2>4, <2>5
<1>4. new = [i \in 1..Len(job) |-> new[i]]
  BY <1>1 DEF Released
<1>5. new \in [1..Len(job) -> JobType]
  BY <1>1, <1>3, <1>4
<1>6. new \in Seq(JobType) /\ Len(new) = Len(job) /\ DOMAIN new = Jobs
  BY <1>1, <1>5
<1> QED BY <1>3, <1>6

\* Waking lookups up starts none and ends none.
LEMMA Waking ==
  ASSUME IInv, NEW js, cpc' = Woken(js)
  PROVE  /\ cpc' \in [Clients -> {"idle", "add", "wait", "asleep", "read"}]
         /\ \A c \in Clients : cpc'[c] \in {"wait", "asleep", "read"} =>
                                 cpc[c] \in {"wait", "asleep", "read"}
         /\ \A c \in Clients : cpc'[c] = "read" => cpc[c] = "read"
BY DEF IInv, TypeOK, Woken

\* get_job, with what it gives the worker, a job j or nothing.
LEMMA HandingOut ==
  ASSUME IInv, NEW w \in Workers, NEW j \in Jobs \cup {NoJob},
         wpc[w] = "get",
         \/ j \in Jobs /\ wpc' = [wpc EXCEPT ![w] = "register"]
                       /\ wjob' = [wjob EXCEPT ![w] = j]
         \/ wpc' = [wpc EXCEPT ![w] = Left] /\ wjob' = wjob,
         job' \in Seq(JobType), Jobs' = Jobs,
         \A i \in Jobs : /\ job'[i].phrase = job[i].phrase /\ job'[i].ctr = job[i].ctr
                         /\ job'[i].good = job[i].good /\ job'[i].added = job[i].added,
         \A i \in Jobs : job'[i].inProgress =
              Cardinality(Registered(i)) + (IF i \in joblist \ Dropped THEN 1 ELSE 0),
         cpc' = Woken(Dropped), joblist' = joblist \ Dropped,
         UNCHANGED <<started, guard, cjob, wocc, missed>>
  PROVE  IInv'
<1>1. /\ \A i \in Jobs : Registered(i)' = Registered(i) /\ Counting(i)' = Counting(i)
      /\ \A v \in Workers : /\ wpc'[v] = "add" <=> wpc[v] = "add"
                            /\ wpc'[v] = "count" <=> wpc[v] = "count"
                            /\ v # w => wpc'[v] = wpc[v] /\ wjob'[v] = wjob[v]
      /\ wpc'[w] \in {"register", Left}
  BY DEF IInv, TypeOK, Registered, Counting, Left
<1>2. TypeOK'
  <2>1. \A i \in Jobs : job'[i].ctr <= Len(job'[i].phrase.occ)
    BY DEF IInv, TypeOK
  <2>2. wjob' \in [Workers -> Jobs \cup {NoJob}] /\ wpc' \in [Workers ->
          {"none", "get", "register", "next", "count", "add", "release", Left, "ended"}]
    BY DEF IInv, TypeOK
  <2> QED BY <2>1, <2>2, Waking DEF IInv, TypeOK, JobType
<1>3. Hands'
  <2>1. started
    BY DEF IInv, Hands
  <2>2. \A v \in Workers : wpc'[v] \in {"register", "next", "count", "add", "release"} =>
          wjob'[v] \in Jobs
    BY <1>1 DEF IInv, TypeOK, Hands, Left
  <2>3. \A v \in Workers : wpc'[v] = "count" => wocc'[v] \in 1..Len(job'[wjob'[v]].phrase.occ)
    <3> SUFFICES ASSUME NEW v \in Workers, wpc'[v] = "count"
                 PROVE  wocc'[v] \in 1..Len(job'[wjob'[v]].phrase.occ)
      OBVIOUS
    <3>1. v # w /\ wpc[v] = "count" /\ wjob'[v] = wjob[v] /\ wjob[v] \in Jobs
      BY <1>1 DEF IInv, Hands, Left
    <3> QED BY <3>1 DEF IInv, Hands, Occ
  <2>4. \A c \in Clients : cpc'[c] \in {"wait", "asleep", "read"} => cjob'[c] \in Jobs
    BY Waking DEF IInv, Hands
  <2> QED BY <2>1, <2>2, <2>3, <2>4 DEF Hands, Occ
<1>4. Counted'
  BY <1>1 DEF Counted
<1>5. OnlyDoneDropped'
  BY DEF IInv, OnlyDoneDropped, Dropped, Done, AtStop
<1>6. GoodIsAdded'
  <2> SUFFICES ASSUME NEW i \in Jobs, job'[i].good >= 1
               PROVE  job'[i].added >= 1 \/ \E v \in Workers : wjob'[v] = i /\ wpc'[v] = "add"
    BY DEF GoodIsAdded
  <2>1. job[i].added >= 1 \/ \E v \in Workers : wjob[v] = i /\ wpc[v] = "add"
    BY DEF IInv, GoodIsAdded
  <2> QED BY <1>1, <2>1
<1>7. EnoughLeft'
  <2>1. \A i \in Jobs : /\ Known(i)' <=> Known(i)
                        /\ Wanted(i)' = Wanted(i) /\ Occ(i)' = Occ(i)
    BY DEF Known, Wanted, Occ
  <2> QED BY <1>1, <2>1 DEF IInv, EnoughLeft
<1>8. LookupsAtRest'
  <2>1. \A i \in Jobs : AtRest(i) => AtRest(i)'
    BY <1>1 DEF AtRest, Done, AtStop, Left
  <2> QED BY <2>1, Waking DEF IInv, LookupsAtRest, Hands
<1> QED BY <1>2, <1>3, <1>4, <1>5, <1>6, <1>7, <1>8 DEF IInv

LEMMA GetJobStep ==
  ASSUME IInv, NEW w \in Workers, GetJob(w)
  PROVE  IInv'
<1> DEFINE new == Released(Dropped)
<1>1. PICK j \in joblist : /\ job' = [new EXCEPT ![j].workers = @ + 1]
                           /\ wjob' = [wjob EXCEPT ![w] = j]
  BY DEF GetJob
<1>2. j \in Jobs /\ Jobs = 1..Len(job)
  BY LenProperties DEF IInv, TypeOK, Jobs
<1>3. /\ new \in Seq(JobType) /\ Len(new) = Len(job)
      /\ \A i \in Jobs : new[i] \in JobType
                         /\ new[i].phrase = job[i].phrase /\ new[i].ctr = job[i].ctr
                         /\ new[i].good = job[i].good /\ new[i].added = job[i].added
                         /\ new[i].inProgress =
                              Cardinality(Registered(i)) + (IF i \in joblist \ Dropped THEN 1 ELSE 0)
  BY Dropping
<1> HIDE DEF new
<1> DEFINE r == [new[j] EXCEPT !.workers = @ + 1]
<1>6. /\ r \in JobType /\ r.phrase = new[j].phrase /\ r.ctr = new[j].ctr
      /\ r.good = new[j].good /\ r.added = new[j].added /\ r.inProgress = new[j].inProgress
  <2>1. new[j] \in JobType
    BY <1>2, <1>3
  <2> QED BY <2>1 DEF JobType
<1>7. job' = [new EXCEPT ![j] = r]
  BY <1>1
<1> HIDE DEF r
<1>8. /\ job' \in Seq(JobType) /\ Len(job') = Len(job)
      /\ \A i \in Jobs : job'[i] = IF i = j THEN r ELSE new[i]
  BY <1>2, <1>3, <1>6, <1>7, ExceptSeq
<1>9. Jobs' = Jobs
  BY <1>2, <1>8, LenProperties DEF Jobs
<1>10. /\ \A i \in Jobs : /\ job'[i].phrase = job[i].phrase /\ job'[i].ctr = job[i].ctr
                          /\ job'[i].good = job[i].good /\ job'[i].added = job[i].added
       /\ \A i \in Jobs : job'[i].inProgress =
              Cardinality(Registered(i)) + (IF i \in joblist \ Dropped THEN 1 ELSE 0)
  BY <1>3, <1>6, <1>8
<1>11. /\ wpc[w] = "get" /\ wpc' = [wpc EXCEPT ![w] = "register"]
       /\ cpc' = Woken(Dropped) /\ joblist' = joblist \ Dropped
       /\ UNCHANGED <<started, guard, cjob, wocc, missed>>
  BY DEF GetJob
<1> QED BY <1>1, <1>2, <1>8, <1>9, <1>10, <1>11, HandingOut

LEMMA FindNoJobStep ==
  ASSUME IInv, NEW w \in Workers, FindNoJob(w)
  PROVE  IInv'
<1>1. /\ job' \in Seq(JobType) /\ Len(job') = Len(job)
      /\ \A i \in Jobs : job'[i] \in JobType
                         /\ job'[i].phrase = job[i].phrase /\ job'[i].ctr = job[i].ctr
                         /\ job'[i].good = job[i].good /\ job'[i].added = job[i].added
                         /\ job'[i].inProgress =
                              Cardinality(Registered(i)) + (IF i \in joblist \ Dropped THEN 1 ELSE 0)
  BY Dropping DEF FindNoJob
<1>2. Jobs' = Jobs
  BY <1>1, LenProperties DEF IInv, TypeOK, Jobs
<1>3. /\ wpc[w] = "get" /\ wpc' = [wpc EXCEPT ![w] = Left] /\ wjob' = wjob
      /\ cpc' = Woken(Dropped) /\ joblist' = joblist \ Dropped
      /\ UNCHANGED <<started, guard, cjob, wocc, missed>>
  BY DEF FindNoJob
<1> QED BY <1>1, <1>2, <1>3, HandingOut

-----------------------------------------------------------------------------
(* Steps of a worker at its job *)

\* A worker goes on with its job j, whose statistics become r.
LEMMA AtJob ==
  ASSUME IInv, NEW w \in Workers, NEW j \in Jobs, wjob[w] = j,
         wpc[w] \in {"register", "next", "count", "add"},
         NEW to \in {"next", "count", "add", "release"},
         NEW n \in Nat, to = "count" => n \in 1..Len(Occ(j)),
         NEW r \in JobType, r.phrase = job[j].phrase,
         job[j].ctr <= r.ctr, r.ctr <= Len(Occ(j)), job[j].good <= r.good,
         r.inProgress = job[j].inProgress + (IF wpc[w] = "register" THEN 1 ELSE 0),
         \/ r.good >= 1 => r.added >= 1 \/ to = "add"
         \/ r.good = job[j].good /\ r.added = job[j].added /\ wpc[w] # "add",
         Known(j) =>
           r.good + (Cardinality(Counting(j)) + (IF to = "count" THEN 1 ELSE 0)
                                              - (IF wpc[w] = "count" THEN 1 ELSE 0))
             + (Len(Occ(j)) - r.ctr) >= Wanted(j),
         wpc[w] = "count" => to # "count",
         AtRest(j) => to \notin {"count", "add"},
         job' = [job EXCEPT ![j] = r], wpc' = [wpc EXCEPT ![w] = to],
         wocc' = [wocc EXCEPT ![w] = n],
         UNCHANGED <<started, clientVars, wjob, joblist, missed>>
  PROVE  IInv'
<1>1. /\ UNCHANGED <<started, guard, cpc, cjob, wjob, joblist, missed>>
      /\ wpc'[w] = to /\ wocc'[w] = n
      /\ \A v \in Workers : v # w => wpc'[v] = wpc[v] /\ wocc'[v] = wocc[v]
      /\ wocc' \in [Workers -> Nat]
      /\ wpc' \in [Workers -> {"none", "get", "register", "next", "count", "add", "release",
                               Left, "ended"}]
  BY DEF clientVars, IInv, TypeOK
<1>2. job[j] \in JobType /\ Len(Occ(j)) \in Nat
  BY JobFacts DEF IInv
<1>3. /\ job' \in Seq(JobType) /\ Jobs' = Jobs /\ job'[j] = r
      /\ \A i \in Jobs : i # j => job'[i] = job[i]
      /\ \A i \in Jobs : job'[i].phrase = job[i].phrase
      /\ \A i \in Jobs : job'[i].ctr <= Len(job'[i].phrase.occ)
  BY OneJob DEF IInv
<1>4. TypeOK'
  BY <1>1, <1>3 DEF IInv, TypeOK, JobType
<1>5. Hands'
  <2>1. started
    BY DEF IInv, Hands
  <2>2. \A v \in Workers : wpc'[v] \in {"register", "next", "count", "add", "release"} =>
          wjob'[v] \in Jobs
    BY <1>1 DEF IInv, Hands
  <2>3. \A v \in Workers : wpc'[v] = "count" =>
          wocc'[v] \in 1..Len(job'[wjob'[v]].phrase.occ)
    <3> SUFFICES ASSUME NEW v \in Workers, wpc'[v] = "count"
                 PROVE  wocc'[v] \in 1..Len(job'[wjob[v]].phrase.occ)
      BY <1>1
    <3>1. CASE v = w
      BY <1>1, <1>3, <3>1 DEF Occ
    <3>2. CASE v # w
      <4>1. wpc[v] = "count" /\ wjob[v] \in Jobs /\ wocc[v] \in 1..Len(Occ(wjob[v]))
        BY <1>1, <3>2 DEF IInv, Hands
      <4> QED BY <1>1, <1>3, <3>2, <4>1 DEF Occ
    <3> QED BY <3>1, <3>2
  <2> QED BY <1>1, <1>3, <2>1, <2>2, <2>3 DEF IInv, Hands, Occ
<1>6. Counted'
  <2>1. \A i \in Jobs \ {j} : Registered(i)' = Registered(i)
    BY <1>1 DEF Registered
  <2>2. Cardinality(Registered(j)') =
          Cardinality(Registered(j)) + (IF wpc[w] = "register" THEN 1 ELSE 0)
    <3>1. CASE wpc[w] = "register"
      <4>1. Registered(j)' = Registered(j) \cup {w} /\ w \notin Registered(j)
        BY <1>1, <3>1 DEF Registered
      <4> QED BY <3>1, <4>1, SetFacts, FS_AddElement
    <3>2. CASE wpc[w] # "register"
      <4>1. Registered(j)' = Registered(j)
        BY <1>1, <3>2 DEF Registered
      <4> QED BY <3>2, <4>1, SetFacts
    <3> QED BY <3>1, <3>2
  <2>3. \A i \in Jobs :
          job[i].inProgress = Cardinality(Registered(i)) + (IF i \in joblist THEN 1 ELSE 0)
    BY DEF IInv, Counted
  <2>4. job'[j].inProgress = Cardinality(Registered(j)') + (IF j \in joblist THEN 1 ELSE 0)
    <3>1. Cardinality(Registered(j)) \in Nat
      BY SetFacts
    <3>2. job[j].inProgress = Cardinality(Registered(j)) + (IF j \in joblist THEN 1 ELSE 0)
      BY <2>3
    <3> QED BY <1>3, <2>2, <3>1, <3>2
  <2>5. \A i \in Jobs \ {j} :
          job'[i].inProgress = Cardinality(Registered(i)') + (IF i \in joblist THEN 1 ELSE 0)
    BY <1>3, <2>1, <2>3
  <2> QED BY <1>1, <1>3, <2>4, <2>5 DEF Counted
<1>7. /\ \A i \in Jobs : Done(i) => Done(i)'
      /\ OnlyDoneDropped'
  <2>1. \A i \in Jobs \ {j} : Done(i) => Done(i)'
    BY <1>3 DEF Done, AtStop
  <2>2. Done(j) => Done(j)'
    <3>1. job[j].good \in Nat /\ r.good \in Nat /\ job[j].ctr \in Nat /\ r.ctr \in Nat
          /\ job[j].phrase.max \in Nat
      BY <1>2, JobFacts DEF JobType, IInv
    <3> QED BY <1>2, <1>3, <3>1 DEF Done, AtStop, Occ
  <2> QED BY <1>1, <1>3, <2>1, <2>2 DEF IInv, OnlyDoneDropped
<1>8. GoodIsAdded'
  <2> SUFFICES ASSUME NEW i \in Jobs, job'[i].good >= 1
               PROVE  job'[i].added >= 1 \/ \E v \in Workers : wjob'[v] = i /\ wpc'[v] = "add"
    BY <1>3 DEF GoodIsAdded
  <2>1. job[i].good >= 1 =>
          job[i].added >= 1 \/ \E v \in Workers : wjob[v] = i /\ wpc[v] = "add"
    BY DEF IInv, GoodIsAdded
  <2>2. CASE i # j
    BY <1>1, <1>3, <2>1, <2>2
  <2>3. CASE i = j /\ (r.added >= 1 \/ to = "add")
    BY <1>1, <1>3, <2>3
  <2>4. CASE i = j /\ r.good = job[j].good /\ r.added = job[j].added /\ wpc[w] # "add"
    BY <1>1, <1>3, <2>1, <2>4
  <2> QED BY <1>3, <2>2, <2>3, <2>4
<1>9. EnoughLeft'
  <2>1. \A i \in Jobs : /\ Known(i)' <=> Known(i)
                        /\ Wanted(i)' = Wanted(i) /\ Occ(i)' = Occ(i)
    BY <1>3 DEF Known, Wanted, Occ
  <2>2. \A i \in Jobs \ {j} : Counting(i)' = Counting(i)
    BY <1>1 DEF Counting
  <2>3. Cardinality(Counting(j)') = Cardinality(Counting(j)) + (IF to = "count" THEN 1 ELSE 0)
                                      - (IF wpc[w] = "count" THEN 1 ELSE 0)
    <3>1. CASE wpc[w] = "count"
      <4>1. Counting(j)' = Counting(j) \ {w} /\ w \in Counting(j)
        BY <1>1, <3>1 DEF Counting
      <4>2. IsFiniteSet(Counting(j))
        BY SetFacts
      <4>3. Cardinality(Counting(j) \ {w}) = Cardinality(Counting(j)) - 1
        BY <4>1, <4>2, FS_RemoveElement, Zenon
      <4> QED BY <3>1, <4>1, <4>3, SetFacts
    <3>2. CASE wpc[w] # "count" /\ to = "count"
      <4>1. Counting(j)' = Counting(j) \cup {w} /\ w \notin Counting(j)
        BY <1>1, <3>2 DEF Counting
      <4>2. IsFiniteSet(Counting(j))
        BY SetFacts
      <4>3. Cardinality(Counting(j) \cup {w}) = Cardinality(Counting(j)) + 1
        BY <4>1, <4>2, FS_AddElement, Zenon
      <4> QED BY <3>2, <4>1, <4>3, SetFacts
    <3>3. CASE wpc[w] # "count" /\ to # "count"
      <4>1. Counting(j)' = Counting(j)
        BY <1>1, <3>3 DEF Counting
      <4> QED BY <3>3, <4>1, SetFacts
    <3> QED BY <3>1, <3>2, <3>3
  <2> SUFFICES ASSUME NEW i \in Jobs, Known(i)
               PROVE  job'[i].good + Cardinality(Counting(i)') + (Len(Occ(i)) - job'[i].ctr)
                        >= Wanted(i)
    BY <1>3, <2>1 DEF EnoughLeft
  <2>4. CASE i = j
    BY <1>3, <2>3, <2>4
  <2>5. CASE i # j
    BY <1>3, <2>2, <2>5 DEF IInv, EnoughLeft
  <2> QED BY <2>4, <2>5
<1>10. LookupsAtRest'
  <2>1. \A i \in Jobs : AtRest(i) => AtRest(i)'
    <3> SUFFICES ASSUME NEW i \in Jobs, AtRest(i)
                 PROVE  AtRest(i)'
      OBVIOUS
    <3>1. \A v \in Workers : wjob[v] = i => wpc'[v] \notin {"count", "add"}
      BY <1>1 DEF AtRest
    <3> QED BY <1>1, <1>7, <3>1 DEF AtRest
  <2> QED BY <1>1, <2>1 DEF IInv, LookupsAtRest, Hands
<1> QED BY <1>4, <1>5, <1>6, <1>7, <1>8, <1>9, <1>10 DEF IInv

LEMMA RegisterStep ==
  ASSUME IInv, NEW w \in Workers, Register(w)
  PROVE  IInv'
<1>1. PICK j \in Jobs : j = wjob[w]
  BY DEF IInv, Hands, Register
<1>2. job[j] \in JobType /\ job[j].ctr <= Len(Occ(j))
  BY JobFacts DEF IInv
<1> DEFINE r == [job[j] EXCEPT !.inProgress = @ + 1]
<1>3. /\ r \in JobType
      /\ r.phrase = job[j].phrase /\ r.ctr = job[j].ctr /\ r.good = job[j].good
      /\ r.added = job[j].added /\ r.inProgress = job[j].inProgress + 1
  BY <1>2 DEF JobType
<1>4. /\ job' = [job EXCEPT ![j] = r] /\ wpc[w] = "register"
      /\ wpc' = [wpc EXCEPT ![w] = "next"] /\ wocc' = wocc
      /\ UNCHANGED <<started, clientVars, wjob, joblist, missed>>
  BY <1>1 DEF Register
<1> HIDE DEF r
<1>5. wocc[w] \in Nat /\ wocc' = [wocc EXCEPT ![w] = wocc[w]]
  BY <1>4 DEF IInv, TypeOK
<1>6. job[j].ctr \in Nat /\ job[j].good \in Nat
  BY <1>2 DEF JobType
<1>7. Known(j) => r.good + (Cardinality(Counting(j)) + 0 - 0) + (Len(Occ(j)) - r.ctr) >= Wanted(j)
  <2>1. Cardinality(Counting(j)) \in Nat
    BY SetFacts
  <2> QED BY <1>3, <2>1 DEF IInv, EnoughLeft
<1>8. job[j].ctr <= r.ctr /\ r.ctr <= Len(Occ(j)) /\ job[j].good <= r.good
  BY <1>2, <1>3, <1>6
<1> QED BY <1>1, <1>2, <1>3, <1>4, <1>5, <1>6, <1>7, <1>8, AtJob

\* An occurrence that is taken for a sample, or that is not needed, is no loss.
LEMMA NoLoss ==
  ASSUME NEW good \in Nat, NEW counting \in Nat, NEW len \in Nat, NEW ctr \in Nat,
         NEW n \in Nat, NEW wanted \in Nat, NEW one \in {0, 1}, n = ctr + 1, n <= len,
         \/ one = 1 /\ good + counting + (len - ctr) >= wanted
         \/ good + (len - n) >= wanted
  PROVE  good + (counting + one - 0) + (len - n) >= wanted
OBVIOUS

\* A flip is lost only when the good occurrences already reach the limit, the
\* random number added: the occurrences left then still cover what is wanted.
LEMMA LostFlip ==
  ASSUME NEW good \in Nat, NEW len \in Nat, NEW wanted \in Nat, NEW max \in Nat,
         NEW n \in Nat, n <= len, NEW k \in 0..(IF len > n THEN len - n - 1 ELSE 0),
         max # 0 => wanted <= max, max # 0, ~(k + good < max)
  PROVE  good + (len - n) >= wanted
<1>1. k \in Nat /\ k + n <= len
  OBVIOUS
<1>2. k + good >= wanted
  BY <1>1
<1> QED BY <1>1, <1>2

LEMMA EnoughAlready ==
  ASSUME NEW good \in Nat, NEW len \in Nat, NEW wanted \in Nat, NEW n \in Nat,
         n <= len, good >= wanted
  PROVE  good + (len - n) >= wanted
OBVIOUS

LEMMA NextSampleStep ==
  ASSUME IInv, NEW w \in Workers, NextSample(w)
  PROVE  IInv'
<1>1. PICK j \in Jobs : j = wjob[w]
  BY DEF IInv, Hands, NextSample
<1>2. PICK to \in Sampled(j) : wpc' = [wpc EXCEPT ![w] = to]
  BY <1>1 DEF NextSample
<1>3. /\ job[j] \in JobType /\ Len(Occ(j)) \in Nat /\ job[j].ctr < Len(Occ(j))
      /\ job[j].ctr \in Nat /\ job[j].good \in Nat /\ job[j].added \in Nat
      /\ job[j].phrase.max \in Nat /\ job[j].phrase.raw \in Nat
  <2>1. /\ job[j] \in JobType /\ Len(Occ(j)) \in Nat /\ job[j].ctr <= Len(Occ(j))
        /\ job[j].phrase.max \in Nat /\ job[j].phrase.raw \in Nat
    BY JobFacts DEF IInv
  <2>2. job[j].ctr # Len(Occ(j))
    BY <1>1 DEF NextSample, AtStop, Occ
  <2>3. job[j].ctr \in Nat /\ job[j].good \in Nat /\ job[j].added \in Nat
    BY <2>1 DEF JobType
  <2> QED BY <2>1, <2>2, <2>3
<1> PICK n \in Nat : n = job[j].ctr + 1
  BY <1>3
<1> DEFINE r == [job[j] EXCEPT !.ctr = @ + 1]
<1>4. n \in Nat /\ n \in 1..Len(Occ(j)) /\ n = job[j].ctr + 1 /\ n <= Len(Occ(j))
  BY <1>3
<1>5. /\ r \in JobType
      /\ r.phrase = job[j].phrase /\ r.ctr = n /\ r.good = job[j].good
      /\ r.added = job[j].added /\ r.inProgress = job[j].inProgress + 0
  BY <1>3 DEF JobType
<1>6. /\ job' = [job EXCEPT ![j] = r] /\ wpc[w] = "next"
      /\ wocc' = [wocc EXCEPT ![w] = n]
      /\ UNCHANGED <<started, clientVars, wjob, joblist, missed>>
  BY <1>1 DEF NextSample
<1> HIDE DEF r
<1>7. to \in {"next", "count", "add", "release"} /\ to # "add"
  BY DEF Sampled
<1>8. Cardinality(Counting(j)) \in Nat
  BY SetFacts
<1>9. Known(j) =>
        r.good + (Cardinality(Counting(j)) + (IF to = "count" THEN 1 ELSE 0) - 0)
          + (Len(Occ(j)) - r.ctr) >= Wanted(j)
  <2> SUFFICES ASSUME Known(j)
               PROVE  job[j].good
                        + (Cardinality(Counting(j)) + (IF to = "count" THEN 1 ELSE 0) - 0)
                        + (Len(Occ(j)) - n) >= Wanted(j)
    BY <1>5
  <2>1. /\ job[j].good + Cardinality(Counting(j)) + (Len(Occ(j)) - job[j].ctr) >= Wanted(j)
        /\ job[j].phrase.raw = Len(Occ(j))
    BY DEF IInv, EnoughLeft, Known
  <2>2. job[j].phrase.max # 0 => Wanted(j) <= job[j].phrase.max
    BY <1>3 DEF Wanted
  <2>3. Wanted(j) \in Nat
    BY <1>3 DEF Wanted
  <2>4. ASSUME to = "release"
        PROVE  job[j].good + (Len(Occ(j)) - n) >= Wanted(j)
    <3>1. job[j].phrase.max # 0 /\ job[j].good >= job[j].phrase.max
      BY <2>4 DEF Sampled
    <3>2. job[j].good >= Wanted(j)
      BY <1>3, <2>2, <2>3, <3>1
    <3> QED BY <1>3, <1>4, <2>3, <3>2, EnoughAlready
  <2>5. ASSUME to = "next"
        PROVE  job[j].good + (Len(Occ(j)) - n) >= Wanted(j)
    <3>1. job[j].phrase.max # 0
      BY <2>5 DEF Sampled
    <3>2. PICK taken \in FlipCoin(j, n) : ~taken
      BY <1>4, <2>5 DEF Sampled
    <3>3. PICK k \in 0..(IF Len(Occ(j)) > n THEN Len(Occ(j)) - n - 1 ELSE 0) :
            taken = (k + job[j].good < job[j].phrase.max)
      BY <1>3, <1>4, <2>1, <3>2 DEF FlipCoin, Occ
    <3>4. ~(k + job[j].good < job[j].phrase.max)
      BY <3>2, <3>3, Zenon
    <3> QED BY <1>3, <1>4, <2>2, <2>3, <3>1, <3>3, <3>4, LostFlip
  <2> DEFINE one == IF to = "count" THEN 1 ELSE 0
  <2>6. \/ one = 1 /\ job[j].good + Cardinality(Counting(j)) + (Len(Occ(j)) - job[j].ctr) >= Wanted(j)
        \/ job[j].good + (Len(Occ(j)) - n) >= Wanted(j)
    BY <1>7, <2>1, <2>4, <2>5
  <2>7. one \in {0, 1}
    OBVIOUS
  <2> HIDE DEF one
  <2>8. job[j].good + (Cardinality(Counting(j)) + one - 0) + (Len(Occ(j)) - n) >= Wanted(j)
    BY <1>3, <1>4, <1>8, <2>3, <2>6, <2>7, NoLoss
  <2> QED BY <2>8 DEF one
<1>10. AtRest(j) => to \notin {"count", "add"}
  <2> SUFFICES ASSUME AtRest(j)
               PROVE  to = "release"
    OBVIOUS
  <2>1. job[j].phrase.max > 0 /\ job[j].good >= job[j].phrase.max
    BY <1>3 DEF AtRest, Done, AtStop, Occ
  <2>2. job[j].added >= 1
    BY <1>3, <2>1 DEF AtRest, IInv, GoodIsAdded
  <2> QED BY <1>3, <2>1, <2>2 DEF Sampled
<1>11. job[j].ctr <= r.ctr /\ r.ctr <= Len(Occ(j)) /\ job[j].good <= r.good
  BY <1>3, <1>4, <1>5
<1> QED BY <1>1, <1>2, <1>3, <1>4, <1>5, <1>6, <1>7, <1>9, <1>10, <1>11, AtJob

LEMMA CountSampleStep ==
  ASSUME IInv, NEW w \in Workers, CountSample(w)
  PROVE  IInv'
<1>1. PICK j \in Jobs : j = wjob[w]
  BY DEF IInv, Hands, CountSample
<1>2. /\ job[j] \in JobType /\ Occ(j) \in Seq(BOOLEAN) /\ job[j].ctr <= Len(Occ(j))
      /\ Len(Occ(j)) \in Nat
  BY JobFacts DEF IInv
<1>3. wpc[w] = "count" /\ wocc[w] \in 1..Len(Occ(j)) /\ Occ(j)[wocc[w]] \in BOOLEAN
  BY <1>1, <1>2, ElementOfSeq DEF IInv, Hands, CountSample
<1> DEFINE one == IF Occ(j)[wocc[w]] THEN 1 ELSE 0
           to  == IF Occ(j)[wocc[w]] THEN "add" ELSE "next"
           r   == [job[j] EXCEPT !.good = @ + one]
<1>4. one \in {0, 1} /\ to \in {"add", "next"} /\ (one = 1 => to = "add")
  BY <1>3
<1>5. /\ job' = [job EXCEPT ![j] = r]
      /\ wpc' = [wpc EXCEPT ![w] = to] /\ wocc' = wocc
      /\ UNCHANGED <<started, clientVars, wjob, joblist, missed>>
  BY <1>1 DEF CountSample, Occ
<1>6. Known(j) => one = 1
  BY <1>3 DEF Known
<1> HIDE DEF one, to
<1>7. /\ r \in JobType
      /\ r.phrase = job[j].phrase /\ r.ctr = job[j].ctr /\ r.good = job[j].good + one
      /\ r.added = job[j].added /\ r.inProgress = job[j].inProgress + 0
      /\ job[j].good \in Nat /\ job[j].ctr \in Nat
  BY <1>2, <1>4 DEF JobType
<1> HIDE DEF r
<1>8. wocc[w] \in Nat /\ wocc' = [wocc EXCEPT ![w] = wocc[w]]
  BY <1>3, <1>5 DEF IInv, TypeOK
<1>9. Known(j) => r.good + (Cardinality(Counting(j)) + 0 - 1) + (Len(Occ(j)) - r.ctr) >= Wanted(j)
  <2>1. Cardinality(Counting(j)) \in Nat
    BY SetFacts
  <2>2. Known(j) => job[j].good + Cardinality(Counting(j)) + (Len(Occ(j)) - job[j].ctr)
                       >= Wanted(j)
    BY DEF IInv, EnoughLeft
  <2>3. Known(j) => r.good = job[j].good + 1 /\ r.ctr = job[j].ctr
    BY <1>6, <1>7
  <2>4. Wanted(j) \in Nat
    BY <1>2, JobFacts DEF Wanted, IInv
  <2>5. job[j].good \in Nat /\ Len(Occ(j)) - job[j].ctr \in Int
    BY <1>2, <1>7, JobFacts DEF IInv
  <2>6. PICK g \in Nat, c \in Nat, left \in Int, wanted \in Nat :
          /\ g = job[j].good /\ c = Cardinality(Counting(j)) /\ wanted = Wanted(j)
          /\ left = Len(Occ(j)) - job[j].ctr
    BY <2>1, <2>4, <2>5, Zenon
  <2>7. g + c + left >= wanted => (g + 1) + (c + 0 - 1) + left >= wanted
    OBVIOUS
  <2> QED BY <2>2, <2>3, <2>6, <2>7
<1>10. ~AtRest(j)
  BY <1>1, <1>3 DEF AtRest
<1>11. \/ r.good >= 1 => r.added >= 1 \/ to = "add"
       \/ r.good = job[j].good /\ r.added = job[j].added /\ wpc[w] # "add"
  BY <1>3, <1>4, <1>7
<1>12. job[j].ctr <= r.ctr /\ r.ctr <= Len(Occ(j)) /\ job[j].good <= r.good
  BY <1>2, <1>4, <1>7
<1> QED BY <1>1, <1>3, <1>4, <1>5, <1>7, <1>8, <1>9, <1>10, <1>11, <1>12, AtJob

LEMMA AddStep ==
  ASSUME IInv, NEW w \in Workers, Add(w)
  PROVE  IInv'
<1>1. PICK j \in Jobs : j = wjob[w]
  BY DEF IInv, Hands, Add
<1>2. job[j] \in JobType /\ job[j].ctr <= Len(Occ(j))
  BY JobFacts DEF IInv
<1> DEFINE r == [job[j] EXCEPT !.added = @ + 1]
<1>3. /\ r \in JobType
      /\ r.phrase = job[j].phrase /\ r.ctr = job[j].ctr /\ r.good = job[j].good
      /\ r.added >= 1 /\ r.inProgress = job[j].inProgress + 0
      /\ job[j].ctr \in Nat /\ job[j].good \in Nat
  BY <1>2 DEF JobType
<1>4. /\ job' = [job EXCEPT ![j] = r] /\ wpc[w] = "add"
      /\ wpc' = [wpc EXCEPT ![w] = "next"] /\ wocc' = wocc
      /\ UNCHANGED <<started, clientVars, wjob, joblist, missed>>
  BY <1>1 DEF Add
<1> HIDE DEF r
<1>5. wocc[w] \in Nat /\ wocc' = [wocc EXCEPT ![w] = wocc[w]]
  BY <1>4 DEF IInv, TypeOK
<1>6. Known(j) => r.good + (Cardinality(Counting(j)) + 0 - 0) + (Len(Occ(j)) - r.ctr) >= Wanted(j)
  <2>1. Cardinality(Counting(j)) \in Nat
    BY SetFacts
  <2> QED BY <1>3, <2>1 DEF IInv, EnoughLeft
<1>7. job[j].ctr <= r.ctr /\ r.ctr <= Len(Occ(j)) /\ job[j].good <= r.good
  BY <1>2, <1>3
<1> QED BY <1>1, <1>3, <1>4, <1>5, <1>6, <1>7, AtJob

LEMMA ReleaseStep ==
  ASSUME IInv, NEW w \in Workers, Release(w)
  PROVE  IInv'
<1>1. PICK j \in Jobs : j = wjob[w]
  BY DEF IInv, Hands, Release
<1>2. /\ job[j] \in JobType /\ job[j].ctr <= Len(Occ(j)) /\ Len(Occ(j)) \in Nat
      /\ Jobs = 1..Len(job)
  BY JobFacts DEF IInv
<1>3. /\ job' = Released({j}) /\ cpc' = Woken({j}) /\ wpc[w] = "release"
      /\ wpc' = [wpc EXCEPT ![w] = "get"] /\ wjob' = [wjob EXCEPT ![w] = NoJob]
      /\ UNCHANGED <<started, guard, cjob, wocc, joblist, missed>>
  BY <1>1 DEF Release
<1>4. NoJob \notin Jobs
  BY <1>2 DEF NoJob
<1>5. /\ wpc'[w] = "get" /\ wjob'[w] = NoJob
      /\ \A v \in Workers : v # w => wpc'[v] = wpc[v] /\ wjob'[v] = wjob[v]
      /\ wjob' \in [Workers -> Jobs \cup {NoJob}]
      /\ wpc' \in [Workers -> {"none", "get", "register", "next", "count", "add", "release",
                               Left, "ended"}]
  BY <1>3 DEF IInv, TypeOK
<1>6. /\ Registered(j)' = Registered(j) \ {w} /\ w \in Registered(j)
      /\ \A i \in Jobs : i # j => Registered(i)' = Registered(i)
      /\ \A i \in Jobs : Counting(i)' = Counting(i)
  BY <1>1, <1>3, <1>4, <1>5 DEF Registered, Counting
<1>7. /\ Cardinality(Registered(j)') = Cardinality(Registered(j)) - 1
      /\ Cardinality(Registered(j)') \in Nat /\ Cardinality(Registered(j)) \in Nat
  <2>1. Cardinality(Registered(j)') = Cardinality(Registered(j)) - 1
    BY <1>6, SetFacts, FS_RemoveElement
  <2>2. IsFiniteSet(Registered(j)')
    BY <1>6, SetFacts, FS_RemoveElement
  <2> QED BY <2>1, <2>2, SetFacts, FS_CardinalityType
<1>8. \A i \in Jobs :
        job[i].inProgress = Cardinality(Registered(i)) + (IF i \in joblist THEN 1 ELSE 0)
  BY DEF IInv, Counted
<1>9. job[j].inProgress - 1 \in Nat
  BY <1>7, <1>8
<1> DEFINE r == [job[j] EXCEPT !.inProgress = @ - 1]
<1>10. /\ r \in JobType
       /\ r.phrase = job[j].phrase /\ r.ctr = job[j].ctr /\ r.good = job[j].good
       /\ r.added = job[j].added /\ r.inProgress = job[j].inProgress - 1
  BY <1>2, <1>9 DEF JobType
<1>11. job' = [job EXCEPT ![j] = r]
  <2>1. job = [i \in Jobs |-> job[i]]
    BY DEF IInv, TypeOK, Jobs
  <2> QED BY <1>3, <2>1 DEF Released
<1> HIDE DEF r
<1>12. /\ job' \in Seq(JobType) /\ Jobs' = Jobs /\ job'[j] = r
       /\ \A i \in Jobs : i # j => job'[i] = job[i]
       /\ \A i \in Jobs : job'[i].phrase = job[i].phrase
       /\ \A i \in Jobs : job'[i].ctr <= Len(job'[i].phrase.occ)
  BY <1>2, <1>10, <1>11, OneJob DEF IInv
<1>13. \A i \in Jobs : /\ job'[i].ctr = job[i].ctr /\ job'[i].good = job[i].good
                       /\ job'[i].added = job[i].added
  BY <1>10, <1>12
<1>14. TypeOK'
  BY <1>3, <1>5, <1>12, Waking DEF IInv, TypeOK, JobType
<1>15. Hands'
  <2>1. started
    BY <1>3 DEF IInv, Hands
  <2>2. \A v \in Workers : wpc'[v] \in {"register", "next", "count", "add", "release"} =>
          wjob'[v] \in Jobs
    BY <1>5 DEF IInv, Hands
  <2>3. \A v \in Workers : wpc'[v] = "count" => wocc'[v] \in 1..Len(job'[wjob'[v]].phrase.occ)
    <3> SUFFICES ASSUME NEW v \in Workers, wpc'[v] = "count"
                 PROVE  wocc'[v] \in 1..Len(job'[wjob'[v]].phrase.occ)
      OBVIOUS
    <3>1. v # w /\ wpc[v] = "count" /\ wjob'[v] = wjob[v] /\ wjob[v] \in Jobs
      BY <1>5 DEF IInv, Hands
    <3> QED BY <1>3, <1>12, <3>1 DEF IInv, Hands, Occ
  <2>4. \A c \in Clients : cpc'[c] \in {"wait", "asleep", "read"} => cjob'[c] \in Jobs
    BY <1>3, Waking DEF IInv, Hands
  <2> QED BY <1>3, <1>12, <2>1, <2>2, <2>3, <2>4 DEF Hands, Occ
<1>16. Counted'
  <2>1. job'[j].inProgress = Cardinality(Registered(j)') + (IF j \in joblist THEN 1 ELSE 0)
    BY <1>7, <1>8, <1>10, <1>12
  <2>2. \A i \in Jobs \ {j} :
          job'[i].inProgress = Cardinality(Registered(i)') + (IF i \in joblist THEN 1 ELSE 0)
    BY <1>6, <1>8, <1>12
  <2> QED BY <1>3, <1>12, <2>1, <2>2 DEF Counted
<1>17. OnlyDoneDropped'
  BY <1>3, <1>12, <1>13 DEF IInv, OnlyDoneDropped, Done, AtStop
<1>18. GoodIsAdded'
  <2> SUFFICES ASSUME NEW i \in Jobs, job'[i].good >= 1
               PROVE  job'[i].added >= 1 \/ \E v \in Workers : wjob'[v] = i /\ wpc'[v] = "add"
    BY <1>12 DEF GoodIsAdded
  <2>1. job[i].added >= 1 \/ \E v \in Workers : wjob[v] = i /\ wpc[v] = "add"
    BY <1>13 DEF IInv, GoodIsAdded
  <2> QED BY <1>3, <1>5, <1>13, <2>1
<1>19. EnoughLeft'
  <2>1. \A i \in Jobs : /\ Known(i)' <=> Known(i)
                        /\ Wanted(i)' = Wanted(i) /\ Occ(i)' = Occ(i)
    BY <1>12 DEF Known, Wanted, Occ
  <2> QED BY <1>6, <1>12, <1>13, <2>1 DEF IInv, EnoughLeft
<1>20. LookupsAtRest'
  <2>1. \A i \in Jobs : AtRest(i) => AtRest(i)'
    BY <1>3, <1>4, <1>5, <1>12, <1>13 DEF AtRest, Done, AtStop
  <2> QED BY <1>3, <2>1, Waking DEF IInv, LookupsAtRest, Hands
<1> QED BY <1>14, <1>15, <1>16, <1>17, <1>18, <1>19, <1>20 DEF IInv

-----------------------------------------------------------------------------
(* The invariant *)

LEMMA StepIInv ==
  ASSUME IInv, [Next]_vars
  PROVE  IInv'
<1>1. ASSUME NEW c \in Clients, Prepare(c) \/ ClientStep(c) \/ SpuriousWake(c)
      PROVE  IInv'
  BY <1>1, PrepareStep, AddJobStep, WaitingStep, ReturnStep DEF ClientStep
<1>2. ASSUME NEW w \in Workers, WorkerStep(w) \/ ThreadEnds(w)
      PROVE  IInv'
  BY <1>2, GetJobStep, FindNoJobStep, RegisterStep, NextSampleStep, NoMoreSamplesStep,
     CountSampleStep, AddStep, ReleaseStep DEF WorkerStep
<1>3. ASSUME UNCHANGED vars
      PROVE  IInv'
  <2>1. UNCHANGED <<started, guard, cpc, cjob, wpc, wjob, wocc, joblist, job, missed>>
    BY <1>3 DEF vars, clientVars, workerVars
  <2>2. TypeOK'
    BY <2>1 DEF IInv, TypeOK, Jobs
  <2>3. /\ Hands' /\ Counted' /\ OnlyDoneDropped' /\ GoodIsAdded' /\ EnoughLeft'
        /\ \A j \in Jobs : AtRest(j)' <=> AtRest(j)
    <3>1. \A c \in Clients : cpc'[c] \in {"wait", "asleep", "read"} => cjob'[c] \in Jobs
      BY <2>1 DEF IInv, Hands
    <3> QED BY <2>1, <3>1, JobsUnchanged
  <2>4. LookupsAtRest'
    BY <2>1, <2>3 DEF IInv, LookupsAtRest, Hands
  <2> QED BY <2>2, <2>3, <2>4 DEF IInv
<1> QED BY <1>1, <1>2, <1>3 DEF Next, Quiet

LEMMA Invariance == Spec => []IInv
<1>1. Init => IInv
  BY InitIInv
<1>2. IInv /\ [Next]_vars => IInv'
  BY StepIInv
<1> QED BY <1>1, <1>2, PTL DEF Spec

-----------------------------------------------------------------------------
(* Theorems *)

\* Clients, workers, the agenda and the statistics stay in their types; above all
\* in_progress never falls below 0 (release is called once for each that counts),
\* and no job is read beyond its last occurrence.
THEOREM TypeCorrect == Spec => []TypeOK
<1>1. IInv => TypeOK
  BY DEF IInv
<1> QED BY <1>1, Invariance, PTL

\* A lookup (Bitext::lookup) comes back only when the sampling of its phrase is
\* finished, and while its caller reads the statistics no worker changes them.
THEOREM CompleteWhenRead == Spec => []StatsComplete
<1>1. IInv => StatsComplete
  BY DEF IInv, LookupsAtRest, AtRest, StatsComplete
<1> QED BY <1>1, Invariance, PTL

\* If all occurrences are good ones and their number is known, whatever the coins
\* of flip_coin show and however many workers share the job, the sample of a lookup
\* that comes back is as large as was asked for.
THEOREM FullWhenRead == Spec => []SampleIsFull
<1>1. IInv => SampleIsFull
  <2> SUFFICES ASSUME IInv, NEW c \in Clients, cpc[c] = "read",
                      NEW j \in Jobs, j = cjob[c], Known(j)
               PROVE  job[j].good >= Wanted(j)
    BY DEF SampleIsFull, IInv, Hands, Known, Wanted, Occ
  <2>1. /\ job[j] \in JobType /\ Len(Occ(j)) \in Nat /\ job[j].phrase.max \in Nat
    BY JobFacts DEF IInv
  <2>2. job[j].good \in Nat /\ job[j].ctr \in Nat
    BY <2>1 DEF JobType
  <2>3. Wanted(j) \in Nat /\ (job[j].phrase.max > 0 => Wanted(j) <= job[j].phrase.max)
    BY <2>1 DEF Wanted
  <2>4. AtRest(j)
    BY DEF IInv, LookupsAtRest
  <2>5. CASE job[j].phrase.max > 0 /\ job[j].good >= job[j].phrase.max
    BY <2>1, <2>2, <2>3, <2>5
  <2>6. CASE job[j].ctr = Len(Occ(j))
    <3>1. Counting(j) = {} /\ Cardinality({}) = 0
      BY <2>4, FS_EmptySet DEF AtRest, Counting
    <3>2. job[j].good + Cardinality(Counting(j)) + (Len(Occ(j)) - job[j].ctr) >= Wanted(j)
      BY DEF IInv, EnoughLeft
    <3> QED BY <2>1, <2>2, <2>3, <2>6, <3>1, <3>2
  <2> QED BY <2>4, <2>5, <2>6 DEF AtRest, Done, AtStop, Occ
<1> QED BY <1>1, Invariance, PTL
=============================================================================
