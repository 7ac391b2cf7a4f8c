---------------------------- MODULE SamplingAgenda ----------------------------
(****************************************************************************)
(* The sampling of phrase pairs in mmsapt (moses/TranslationModel/UG/mm):   *)
(* Bitext::prep2 and lookup, called by the threads of the decoder, the      *)
(* agenda of jobs they fill and the workers that do the sampling.           *)
(*                                                                          *)
(* A worker ends when it finds the agenda empty; a job that comes to an     *)
(* empty agenda starts those that have ended anew.  The statistics of a job *)
(* count who still has to do with them: the agenda, until it drops the job, *)
(* and the workers at it.  A lookup waits until that is nobody.             *)
(*                                                                          *)
(* A phrase is the list of its occurrences in the corpus: of each, whether  *)
(* a target phrase can be found for it.  One critical section is one step.  *)
(* Left out: the cache of prep2, which rare phrases do not use, sampling    *)
(* with a bias, agendas without workers (m_num_workers <= 1), where the     *)
(* caller does the work, and ~agenda, which the program runs at its exit.   *)
(* add_workers is called once: doomed stays 0.                              *)
(****************************************************************************)
EXTENDS Integers, Sequences, FiniteSets

CONSTANTS
  Clients,      \* the threads of the decoder
  Workers,      \* the places in the agenda's list of workers
  Phrases,      \* [occ : Seq(BOOLEAN), raw : Nat, max : Nat]
  PerJob,       \* how many workers are given one job, 4 in get_job
  MaxJobs       \* bound: the jobs that are added

ASSUME AgendaAssumption ==
  /\ IsFiniteSet(Workers) /\ Workers # {}
  /\ PerJob \in Nat \ {0} /\ MaxJobs \in Nat
  /\ \A p \in Phrases : /\ p.occ \in Seq(BOOLEAN) /\ p.occ # <<>>
                        /\ p.raw \in Nat \ {0}  \* approxOccurrenceCount()
                        /\ p.max \in Nat        \* max_samples; 0: all

VARIABLES
  started,      \* the agenda is there, with its workers
  guard,        \* m_lock of the Bitext: who has it, or Nobody
  cpc, cjob,    \* clients: where each is, the job of its lookup
  wpc, wjob,    \* workers: where each is, the job it is at
  wocc,         \* the occurrence each has taken for a sample
  joblist,      \* a list in the code: jobs are added at its end, so it is in their order
  job,          \* every job ever added, in order, see NewJob
  missed        \* history: a job came when every worker had left and none had ended

clientVars == <<guard, cpc, cjob>>
workerVars == <<wpc, wjob, wocc>>
vars == <<started, clientVars, workerVars, joblist, job, missed>>

Nobody == "nobody"
NoJob == 0
Jobs == DOMAIN job

-----------------------------------------------------------------------------
(* Jobs and their statistics *)

NewJob(p) == [phrase |-> p, ctr |-> 0, workers |-> 0, good |-> 0, added |-> 0,
              inProgress |-> 1]

AtStop(j) == job[j].ctr = Len(job[j].phrase.occ)

\* job::done
Done(j) == \/ job[j].phrase.max > 0 /\ job[j].good >= job[j].phrase.max
           \/ AtStop(j)

\* pstats::release, once for each job in js: the last to go wakes the lookup.
Released(js) == [j \in Jobs |-> IF j \in js THEN [job[j] EXCEPT !.inProgress = @ - 1]
                                ELSE job[j]]
Woken(js) == [c \in Clients |->
                IF cpc[c] = "asleep" /\ cjob[c] \in js /\ job[cjob[c]].inProgress = 1
                THEN "wait" ELSE cpc[c]]

Init ==
  /\ started = FALSE
  /\ guard = Nobody
  /\ cpc = [c \in Clients |-> "idle"] /\ cjob = [c \in Clients |-> NoJob]
  /\ wpc = [w \in Workers |-> "none"] /\ wjob = [w \in Workers |-> NoJob]
  /\ wocc = [w \in Workers |-> 0]
  /\ joblist = {} /\ job = <<>> /\ missed = FALSE

-----------------------------------------------------------------------------
(* Clients *)

\* prep2 takes the lock of the Bitext, and creates the agenda at the first call.
Prepare(c) ==
  /\ cpc[c] = "idle" /\ guard = Nobody /\ Len(job) < MaxJobs
  /\ guard' = c
  /\ started' = TRUE
  /\ wpc' = IF started THEN wpc ELSE [w \in Workers |-> "get"]
  /\ cpc' = [cpc EXCEPT ![c] = "add"]
  /\ UNCHANGED <<cjob, wjob, wocc, joblist, job, missed>>

Left == "left"      \* the function of the thread has returned

\* timed_join(0) on the workers of an agenda that was empty: who starts anew.
Restarted == [w \in Workers |-> IF wpc[w] = "ended" THEN "get" ELSE wpc[w]]
NobodyLooks == \A w \in Workers : wpc[w] = Left

\* Mistake (not the code): the agenda is not counted.
AddJobUncounted(c, p, isLookup) ==
  /\ cpc[c] = "add"
  /\ job' = Append(job, [NewJob(p) EXCEPT !.inProgress = 0])
  /\ joblist' = joblist \cup {Len(job')}
  /\ wpc' = IF joblist = {} THEN Restarted ELSE wpc
  /\ missed' = (missed \/ (joblist = {} /\ NobodyLooks))
  /\ guard' = Nobody
  /\ cpc' = [cpc EXCEPT ![c] = IF isLookup THEN "wait" ELSE "idle"]
  /\ cjob' = [cjob EXCEPT ![c] = IF isLookup THEN Len(job') ELSE NoJob]
  /\ UNCHANGED <<started, wjob, wocc>>

\* Mistake (not the code): workers that have ended are not started anew.
AddJobToTheLiving(c, p, isLookup) ==
  /\ cpc[c] = "add"
  /\ job' = Append(job, NewJob(p))
  /\ joblist' = joblist \cup {Len(job')}
  /\ missed' = (missed \/ (joblist = {} /\ NobodyLooks))
  /\ guard' = Nobody
  /\ cpc' = [cpc EXCEPT ![c] = IF isLookup THEN "wait" ELSE "idle"]
  /\ cjob' = [cjob EXCEPT ![c] = IF isLookup THEN Len(job') ELSE NoJob]
  /\ UNCHANGED <<started, workerVars>>

\* add_job: timed_join waits for no time at all, and only a thread that has ended
\* by then is replaced; one that is about to end is taken for a worker.  prep2
\* returns, and lookup goes on to wait.
AddJob(c, p, isLookup) ==
  /\ cpc[c] = "add"
  /\ job' = Append(job, NewJob(p))
  /\ joblist' = joblist \cup {Len(job')}
  /\ wpc' = IF joblist = {} THEN Restarted ELSE wpc
  /\ missed' = (missed \/ (joblist = {} /\ NobodyLooks))
  /\ guard' = Nobody
  /\ cpc' = [cpc EXCEPT ![c] = IF isLookup THEN "wait" ELSE "idle"]
  /\ cjob' = [cjob EXCEPT ![c] = IF isLookup THEN Len(job') ELSE NoJob]
  /\ UNCHANGED <<started, wjob, wocc>>

\* while (ret->in_progress) ret->ready.wait(lock)
Sleep(c) ==
  /\ cpc[c] = "wait" /\ job[cjob[c]].inProgress # 0
  /\ cpc' = [cpc EXCEPT ![c] = "asleep"]
  /\ UNCHANGED <<started, guard, cjob, workerVars, joblist, job, missed>>

SpuriousWake(c) ==
  /\ cpc[c] = "asleep"
  /\ cpc' = [cpc EXCEPT ![c] = "wait"]
  /\ UNCHANGED <<started, guard, cjob, workerVars, joblist, job, missed>>

\* lookup returns: its caller reads the statistics without a lock.
Return(c) ==
  /\ cpc[c] = "wait" /\ job[cjob[c]].inProgress = 0
  /\ cpc' = [cpc EXCEPT ![c] = "read"]
  /\ UNCHANGED <<started, guard, cjob, workerVars, joblist, job, missed>>

\* The caller has made phrase pairs of them.
Expanded(c) ==
  /\ cpc[c] = "read"
  /\ cpc' = [cpc EXCEPT ![c] = "idle"]
  /\ cjob' = [cjob EXCEPT ![c] = NoJob]
  /\ UNCHANGED <<started, guard, workerVars, joblist, job, missed>>

-----------------------------------------------------------------------------
(* Workers *)

\* The jobs that are not done and have less than PerJob workers.
Open == {j \in joblist : ~Done(j) /\ job[j].workers < PerJob}

\* The loop of get_job drops what is done on its way to the first open job.
Dropped == {j \in joblist : Done(j) /\ \A o \in Open : j < o}

IsFirst(j, js) == j \in js /\ \A i \in js : j <= i

\* ret is j: the first open job, or else the first of those that are left.
Chosen(j) == IsFirst(j, IF Open # {} THEN Open ELSE joblist \ Dropped)

\* get_job finds something to do.
GetJob(w) ==
  /\ wpc[w] = "get"
  /\ \E j \in joblist :
       /\ Chosen(j)
       /\ job' = [Released(Dropped) EXCEPT ![j].workers = @ + 1]
       /\ wjob' = [wjob EXCEPT ![w] = j]
  /\ cpc' = Woken(Dropped)
  /\ joblist' = joblist \ Dropped
  /\ wpc' = [wpc EXCEPT ![w] = "register"]
  /\ UNCHANGED <<started, guard, cjob, wocc, missed>>

\* get_job finds nothing, and the worker ends.
FindNoJob(w) ==
  /\ wpc[w] = "get" /\ joblist = Dropped
  /\ job' = Released(Dropped)
  /\ cpc' = Woken(Dropped)
  /\ joblist' = {}
  /\ wpc' = [wpc EXCEPT ![w] = Left]
  /\ UNCHANGED <<started, guard, cjob, wjob, wocc, missed>>

ThreadEnds(w) ==
  /\ wpc[w] = Left
  /\ wpc' = [wpc EXCEPT ![w] = "ended"]
  /\ UNCHANGED <<started, clientVars, wjob, wocc, joblist, job, missed>>

Register(w) ==
  /\ wpc[w] = "register"
  /\ job' = [job EXCEPT ![wjob[w]].inProgress = @ + 1]
  /\ wpc' = [wpc EXCEPT ![w] = "next"]
  /\ UNCHANGED <<started, clientVars, wjob, wocc, joblist, missed>>

\* Mistake (not the code): the coin is not told how many occurrences are left.
FlipFairCoin(j, n) == {TRUE, FALSE}

\* flip_coin, after occurrence number n: what the random number may decide.
FlipCoin(j, n) ==
  LET p == job[j].phrase
      total == IF p.raw > n THEN p.raw ELSE n
  IN  {r + job[j].good < p.max : r \in 0..(IF total > n THEN total - n - 1 ELSE 0)}

\* nextSample: one more occurrence, if it is wanted.
Sampled(j) ==
  LET n == job[j].ctr + 1
      enough == job[j].good >= job[j].phrase.max /\ job[j].added >= 1
  IN  IF job[j].phrase.max = 0 THEN {"count"}
      ELSE IF enough THEN {"release"}
      ELSE {IF taken THEN "count" ELSE "next" : taken \in FlipCoin(j, n)}

\* One round of the loop of nextSample.  It keeps nothing from one round to the
\* next but what is in the job, so that rounds of two workers may mix.
NextSample(w) ==
  /\ wpc[w] = "next" /\ ~AtStop(wjob[w])
  /\ \E next \in Sampled(wjob[w]) : wpc' = [wpc EXCEPT ![w] = next]
  /\ job' = [job EXCEPT ![wjob[w]].ctr = @ + 1]
  /\ wocc' = [wocc EXCEPT ![w] = job[wjob[w]].ctr + 1]
  /\ UNCHANGED <<started, clientVars, wjob, joblist, missed>>

NoMoreSamples(w) ==
  /\ wpc[w] = "next" /\ AtStop(wjob[w])
  /\ wpc' = [wpc EXCEPT ![w] = "release"]
  /\ UNCHANGED <<started, clientVars, wjob, wocc, joblist, job, missed>>

\* count_sample: an occurrence without a target phrase is not a good one.
CountSample(w) ==
  /\ wpc[w] = "count"
  /\ LET good == job[wjob[w]].phrase.occ[wocc[w]]
     IN  /\ job' = [job EXCEPT ![wjob[w]].good = @ + (IF good THEN 1 ELSE 0)]
         /\ wpc' = [wpc EXCEPT ![w] = IF good THEN "add" ELSE "next"]
  /\ UNCHANGED <<started, clientVars, wjob, wocc, joblist, missed>>

\* pstats::add, of the target phrases of one occurrence.
Add(w) ==
  /\ wpc[w] = "add"
  /\ job' = [job EXCEPT ![wjob[w]].added = @ + 1]
  /\ wpc' = [wpc EXCEPT ![w] = "next"]
  /\ UNCHANGED <<started, clientVars, wjob, wocc, joblist, missed>>

Release(w) ==
  /\ wpc[w] = "release"
  /\ job' = Released({wjob[w]})
  /\ cpc' = Woken({wjob[w]})
  /\ wpc' = [wpc EXCEPT ![w] = "get"]
  /\ wjob' = [wjob EXCEPT ![w] = NoJob]
  /\ UNCHANGED <<started, guard, cjob, wocc, joblist, missed>>

-----------------------------------------------------------------------------
ClientStep(c) ==
  \/ \E p \in Phrases, isLookup \in BOOLEAN : AddJob(c, p, isLookup)
  \/ Sleep(c) \/ Return(c) \/ Expanded(c)

WorkerStep(w) ==
  \/ GetJob(w) \/ FindNoJob(w) \/ Register(w) \/ NextSample(w) \/ NoMoreSamples(w)
  \/ CountSample(w) \/ Add(w) \/ Release(w)

\* The decoder has no more phrases, and the agenda is empty.
Quiet ==
  /\ Len(job) = MaxJobs /\ \A c \in Clients : cpc[c] = "idle"
  /\ \A w \in Workers : wpc[w] = "ended"
  /\ UNCHANGED vars

Next ==
  \/ \E c \in Clients : Prepare(c) \/ ClientStep(c) \/ SpuriousWake(c)
  \/ \E w \in Workers : WorkerStep(w) \/ ThreadEnds(w)
  \/ Quiet

Spec == Init /\ [][Next]_vars

\* Threads run; phrases need not come.
FairSpec ==
  /\ Spec
  /\ \A c \in Clients : WF_vars(ClientStep(c))
  /\ \A w \in Workers : WF_vars(WorkerStep(w)) /\ WF_vars(ThreadEnds(w))

-----------------------------------------------------------------------------
(* Properties *)

TypeOK ==
  /\ started \in BOOLEAN /\ missed \in BOOLEAN
  /\ guard \in Clients \cup {Nobody}
  /\ cpc \in [Clients -> {"idle", "add", "wait", "asleep", "read"}]
  /\ wpc \in [Workers -> {"none", "get", "register", "next", "count", "add", "release",
                          Left, "ended"}]
  /\ job \in Seq([phrase : Phrases, ctr : Nat, workers : Nat, good : Nat, added : Nat,
                  inProgress : Nat])
  /\ \A j \in Jobs : job[j].ctr <= Len(job[j].phrase.occ)
  /\ cjob \in [Clients -> Jobs \cup {NoJob}]
  /\ wjob \in [Workers -> Jobs \cup {NoJob}]
  /\ wocc \in [Workers -> Nat]
  /\ joblist \subseteq Jobs

\* "lookup ... waits until the sampling is finished before it returns": while
\* its caller reads the statistics, every occurrence wanted has been sampled and
\* no worker, not even one that was given the job but has yet to register, will
\* change them.
StatsComplete ==
  \A c \in Clients : cpc[c] = "read" =>
    /\ Done(cjob[c])
    /\ \A w \in Workers : wjob[w] = cjob[c] => wpc[w] \notin {"count", "add"}

\* If all occurrences are good ones, and their number is not estimated, the
\* sample is as large as was asked for, however the coins fell.
SampleIsFull ==
  \A c \in Clients : cpc[c] = "read" =>
    LET p == job[cjob[c]].phrase
        n == Len(p.occ)
    IN  p.raw = n /\ (\A i \in 1..n : p.occ[i]) =>
          job[cjob[c]].good >= (IF p.max = 0 \/ p.max > n THEN n ELSE p.max)

\* Every lookup comes back: a job that is added finds a worker, or starts one, and
\* the last to go wakes the lookup, unless the job comes between the return of the
\* last worker from get_job and the end of the first of their threads.
LookupReturns == \A c \in Clients : cpc[c] = "wait" ~> (cpc[c] = "read" \/ missed)
=============================================================================
