--------------------------- MODULE ThreadPoolProofs ---------------------------
(****************************************************************************)
(* What TLAPS proves about ThreadPool, for any number of workers, clients   *)
(* and tasks, any queue limit and any use of the two modes of Stop.         *)
(****************************************************************************)
EXTENDS ThreadPool, TLAPS

-----------------------------------------------------------------------------
(* Sequences. *)

\* Appending to the queue appends to the sequence of all accepted tasks.
LEMMA ConcatAppend ==
  ASSUME NEW S, NEW s \in Seq(S), NEW t \in Seq(S), NEW x \in S
  PROVE  s \o Append(t, x) = Append(s \o t, x)
OBVIOUS

\* Moving the head of the queue to the popped tasks keeps their concatenation.
LEMMA ConcatPop ==
  ASSUME NEW S, NEW s \in Seq(S), NEW t \in Seq(S), t # <<>>
  PROVE  /\ Head(t) \in S /\ Tail(t) \in Seq(S) /\ Append(s, Head(t)) \in Seq(S)
         /\ Len(Tail(t)) = Len(t) - 1
         /\ Append(s, Head(t)) \o Tail(t) = s \o t
OBVIOUS

\* The elements of a sequence after an Append.
LEMMA RangeAppend ==
  ASSUME NEW S, NEW s \in Seq(S), NEW x \in S
  PROVE  RangeOf(Append(s, x)) = RangeOf(s) \cup {x}
BY DEF RangeOf

-----------------------------------------------------------------------------
(* Type correctness. *)

LEMMA NotifiedType ==
  ASSUME TypeOK
  PROVE  /\ NeededNotified \in [Workers -> WorkerStates]
         /\ AvailableNotified \in [Clients -> ClientStates]
BY DEF TypeOK, NeededNotified, AvailableNotified, WorkerStates, ClientStates,
       SubmitStates, StopStates

-----------------------------------------------------------------------------
(* The inductive invariant.                                                 *)

\* A worker holds a task exactly while it runs it.
HoldsTask == \A w \in Workers : wtask[w] # None <=> wpc[w] = "run"

\* A client carries a task exactly while its Submit waits; the task has not
\* been pushed yet, and no other client carries it.
Pending ==
  /\ \A c \in Clients : ctask[c] # None <=> cpc[c] \in SubmitStates
  /\ \A c \in Clients : ctask[c] \notin RangeOf(accepted)
  /\ \A c, d \in Clients : ctask[c] = ctask[d] /\ ctask[c] # None => c = d

\* No task was accepted twice.
Distinct ==
  \A i, j \in 1..Len(accepted) : accepted[i] = accepted[j] => i = j

IInv ==
  /\ TypeOK
  /\ HoldsTask
  /\ Pending
  /\ Distinct
  /\ FirstInFirstOut
  /\ PoppedOnce
  /\ QueueLimitHolds

LEMMA InitIInv ==
  ASSUME Init
  PROVE  IInv
<1>1. RangeOf(<<>>) = {}
  BY DEF RangeOf
<1>2. TypeOK
  <2>1. stopped \in BOOLEAN /\ stopping \in BOOLEAN /\ saw \in [Workers -> BOOLEAN]
    BY DEF Init
  <2>2. wpc \in [Workers -> WorkerStates] /\ cpc \in [Clients -> ClientStates]
    BY DEF Init, WorkerStates, ClientStates
  <2>3. wtask \in [Workers -> Tasks \cup {None}] /\ ctask \in [Clients -> Tasks \cup {None}]
    BY DEF Init
  <2>4. /\ tasks \in Seq(Tasks) /\ accepted \in Seq(Tasks)
        /\ started \in Seq(Tasks) /\ finished \subseteq Tasks
    BY DEF Init
  <2> QED BY <2>1, <2>2, <2>3, <2>4 DEF TypeOK
<1>3. HoldsTask /\ Pending /\ Distinct
  BY <1>1 DEF Init, HoldsTask, Pending, Distinct, SubmitStates
<1>4. FirstInFirstOut
  BY DEF Init, FirstInFirstOut
<1>5. PoppedOnce
  BY <1>1 DEF Init, PoppedOnce, InHand
<1>6. QueueLimitHolds
  BY PoolAssumption DEF Init, QueueLimitHolds
<1> QED BY <1>2, <1>3, <1>4, <1>5, <1>6 DEF IInv

-----------------------------------------------------------------------------
(* One lemma per action that moves a task; the others only move a thread.   *)

\* A worker takes the head of the queue.
LEMMA PopKeeps ==
  ASSUME IInv, NEW w \in Workers, PopTask(w)
  PROVE  IInv'
<1> DEFINE t == Head(tasks)
<1>1. /\ t \in Tasks /\ Tail(tasks) \in Seq(Tasks)
      /\ Append(started, t) \in Seq(Tasks)
      /\ Len(Tail(tasks)) = Len(tasks) - 1
      /\ Append(started, t) \o Tail(tasks) = started \o tasks
  BY ConcatPop DEF IInv, TypeOK, PopTask
<1>2. wtask[w] = None
  BY DEF IInv, HoldsTask, TypeOK, PopTask, MayLook
<1>3. t \notin RangeOf(started)
  <2>1. SUFFICES ASSUME NEW i \in 1..Len(started), started[i] = t
                 PROVE  FALSE
    BY DEF RangeOf
  <2>2. /\ accepted = started \o tasks
        /\ started \in Seq(Tasks) /\ tasks \in Seq(Tasks) /\ tasks # <<>>
    BY DEF IInv, TypeOK, FirstInFirstOut, PopTask
  <2> DEFINE j == Len(started) + 1
  <2>3. /\ i \in 1..Len(accepted) /\ j \in 1..Len(accepted) /\ i # j
        /\ accepted[i] = started[i] /\ accepted[j] = t
    BY <2>2
  <2> QED BY <2>1, <2>3 DEF IInv, Distinct
<1>4. TypeOK'
  BY <1>1 DEF IInv, TypeOK, PopTask, clientVars, WorkerStates
<1>5. HoldsTask'
  BY <1>1, PoolAssumption DEF IInv, TypeOK, HoldsTask, PopTask
<1>6. Pending' /\ Distinct'
  BY DEF IInv, Pending, Distinct, RangeOf, PopTask, clientVars
<1>7. FirstInFirstOut'
  BY <1>1 DEF IInv, FirstInFirstOut, PopTask
<1>8. PoppedOnce'
  <2>1. RangeOf(started)' = RangeOf(started) \cup {t}
    BY <1>1, RangeAppend DEF IInv, TypeOK, PopTask
  <2>2. InHand' = InHand \cup {t}
    BY <1>1, <1>2, PoolAssumption DEF IInv, TypeOK, InHand, PopTask
  <2>3. t \notin InHand /\ t \notin finished
    BY <1>3 DEF IInv, PoppedOnce
  <2>4. \A u, v \in Workers : wtask'[u] = wtask'[v] /\ wtask'[u] # None => u = v
    BY <2>3, <1>1, PoolAssumption DEF IInv, PoppedOnce, TypeOK, InHand, PopTask
  <2> QED BY <2>1, <2>2, <2>3, <2>4 DEF IInv, PoppedOnce, PopTask
<1>9. QueueLimitHolds'
  BY <1>1, PoolAssumption DEF IInv, TypeOK, QueueLimitHolds, PopTask
<1> QED BY <1>4, <1>5, <1>6, <1>7, <1>8, <1>9 DEF IInv

\* A worker has run its task.
LEMMA FinishKeeps ==
  ASSUME IInv, NEW w \in Workers, FinishRun(w)
  PROVE  IInv'
<1>1. wtask[w] \in Tasks
  BY DEF IInv, TypeOK, HoldsTask, FinishRun
<1>2. TypeOK'
  BY <1>1 DEF IInv, TypeOK, FinishRun, queueVars, clientVars, WorkerStates
<1>3. HoldsTask'
  BY DEF IInv, TypeOK, HoldsTask, FinishRun
<1>4. Pending' /\ Distinct' /\ FirstInFirstOut' /\ QueueLimitHolds'
  BY DEF IInv, Pending, Distinct, FirstInFirstOut, QueueLimitHolds, RangeOf,
         FinishRun, queueVars, clientVars
<1>5. PoppedOnce'
  <2>1. InHand' = InHand \ {wtask[w]}
    BY <1>1, PoolAssumption DEF IInv, TypeOK, PoppedOnce, InHand, FinishRun
  <2>2. wtask[w] \in InHand
    BY <1>1, PoolAssumption DEF InHand
  <2>3. \A u, v \in Workers : wtask'[u] = wtask'[v] /\ wtask'[u] # None => u = v
    BY DEF IInv, TypeOK, PoppedOnce, FinishRun
  <2>4. RangeOf(started)' = RangeOf(started)
    BY DEF FinishRun
  <2> QED BY <2>1, <2>2, <2>3, <2>4 DEF IInv, PoppedOnce, FinishRun
<1> QED BY <1>2, <1>3, <1>4, <1>5 DEF IInv

\* What Push does, whichever Submit calls it: the task is new and the queue is
\* not full.
LEMMA PushKeeps ==
  ASSUME IInv, NEW t \in Tasks, Push(t), ~QueueFull, t \notin RangeOf(accepted)
  PROVE  /\ (accepted \in Seq(Tasks) /\ tasks \in Seq(Tasks))'
         /\ RangeOf(accepted') = RangeOf(accepted) \cup {t}
         /\ Distinct' /\ FirstInFirstOut' /\ QueueLimitHolds'
         /\ HoldsTask' /\ PoppedOnce'
         /\ wpc' \in [Workers -> WorkerStates]
<1>1. (accepted \in Seq(Tasks) /\ tasks \in Seq(Tasks))'
  BY DEF IInv, TypeOK, Push
<1>2. RangeOf(accepted') = RangeOf(accepted) \cup {t}
  BY RangeAppend DEF IInv, TypeOK, Push
<1>3. Distinct'
  <2>1. /\ accepted \in Seq(Tasks) /\ accepted' = Append(accepted, t)
        /\ \A i \in 1..Len(accepted) : accepted[i] # t
    BY DEF IInv, TypeOK, Push, RangeOf
  <2>2. SUFFICES ASSUME NEW i \in 1..Len(accepted'), NEW j \in 1..Len(accepted'),
                        accepted'[i] = accepted'[j], i # j
                 PROVE  FALSE
    BY DEF Distinct
  <2>3. Len(accepted') = Len(accepted) + 1 /\ Len(accepted) \in Nat
    BY <2>1
  <2>4. CASE i = Len(accepted')
    BY <2>1, <2>2, <2>3, <2>4
  <2>5. CASE j = Len(accepted')
    BY <2>1, <2>2, <2>3, <2>5
  <2>6. CASE i \in 1..Len(accepted) /\ j \in 1..Len(accepted)
    BY <2>1, <2>2, <2>6 DEF IInv, Distinct
  <2>7. \/ i = Len(accepted') \/ j = Len(accepted')
        \/ i \in 1..Len(accepted) /\ j \in 1..Len(accepted)
    BY <2>2, <2>3
  <2> QED BY <2>4, <2>5, <2>6, <2>7
<1>4. FirstInFirstOut'
  <2>1. started \in Seq(Tasks) /\ tasks \in Seq(Tasks) /\ accepted = started \o tasks
    BY DEF IInv, TypeOK, FirstInFirstOut
  <2>2. started \o Append(tasks, t) = Append(started \o tasks, t)
    BY <2>1, ConcatAppend
  <2> QED BY <2>1, <2>2 DEF FirstInFirstOut, Push
<1>5. QueueLimitHolds'
  BY PoolAssumption DEF IInv, TypeOK, QueueLimitHolds, QueueFull, Push
<1>6. wpc' = NeededNotified
  BY DEF Push
<1>7. HoldsTask'
  BY <1>6 DEF IInv, HoldsTask, TypeOK, NeededNotified, Push
<1>8. PoppedOnce'
  BY DEF IInv, PoppedOnce, InHand, RangeOf, Push
<1> QED BY <1>1, <1>2, <1>3, <1>4, <1>5, <1>6, <1>7, <1>8, NotifiedType DEF IInv

\* A step that leaves the queue, the tasks in hand and the histories alone keeps
\* what the invariant says of them.
LEMMA TasksStay ==
  ASSUME IInv, UNCHANGED <<tasks, wtask, history>>,
         \A w \in Workers : wpc[w] = "run" <=> wpc'[w] = "run"
  PROVE  /\ HoldsTask' /\ Distinct' /\ FirstInFirstOut'
         /\ PoppedOnce' /\ QueueLimitHolds'
<1>1. HoldsTask'
  BY DEF IInv, HoldsTask
<1>2. Distinct' /\ FirstInFirstOut' /\ QueueLimitHolds'
  BY DEF IInv, Distinct, FirstInFirstOut, QueueLimitHolds, history
<1>3. PoppedOnce'
  <2>1. InHand' = InHand /\ RangeOf(started)' = RangeOf(started)
    BY DEF InHand, history
  <2> QED BY <2>1 DEF IInv, PoppedOnce, history
<1> QED BY <1>1, <1>2, <1>3

\* The steps that move threads and no task.
LEMMA ThreadMoveKeeps ==
  ASSUME IInv, TypeOK', UNCHANGED <<tasks, wtask, ctask, history>>,
         \A w \in Workers : wpc[w] = "run" <=> wpc'[w] = "run",
         \A c \in Clients : cpc[c] \in SubmitStates <=> cpc'[c] \in SubmitStates
  PROVE  IInv'
<1>1. Pending'
  BY DEF IInv, Pending, RangeOf, history
<1> QED BY <1>1, TasksStay DEF IInv

\* Submit accepts a task at once.
LEMMA SubmitKeeps ==
  ASSUME IInv, NEW c \in Clients, NEW t \in Tasks, Submit(c, t)
  PROVE  IInv'
<1>1. t \notin RangeOf(accepted) /\ ~QueueFull /\ Push(t) /\ UNCHANGED clientVars
  BY DEF Submit, Fresh
<1>2. TypeOK'
  BY <1>1, PushKeeps DEF IInv, TypeOK, Push, clientVars
<1>3. Pending'
  <2>1. \A d \in Clients : ctask[d] # t
    BY DEF Submit, Fresh
  <2> QED BY <1>1, <2>1, PushKeeps DEF IInv, Pending, clientVars
<1> QED BY <1>1, <1>2, <1>3, PushKeeps DEF IInv

\* Submit carries its task into the wait.
LEMMA BlockKeeps ==
  ASSUME IInv, NEW c \in Clients, NEW t \in Tasks, SubmitBlocks(c, t)
  PROVE  IInv'
<1>1. /\ t \notin RangeOf(accepted) /\ \A d \in Clients : ctask[d] # t
      /\ cpc' = [cpc EXCEPT ![c] = "blocked"] /\ ctask' = [ctask EXCEPT ![c] = t]
      /\ UNCHANGED <<queueVars, workerVars, history>>
  BY DEF SubmitBlocks, Fresh
<1>2. TypeOK'
  BY <1>1 DEF IInv, TypeOK, queueVars, workerVars, history, ClientStates, SubmitStates
<1>3. Pending'
  <2>1. t # None
    BY PoolAssumption
  <2> QED BY <1>1, <2>1 DEF IInv, TypeOK, Pending, RangeOf, history, SubmitStates
<1>4. /\ HoldsTask' /\ Distinct' /\ FirstInFirstOut'
      /\ PoppedOnce' /\ QueueLimitHolds'
  BY <1>1, TasksStay DEF queueVars, workerVars
<1> QED BY <1>2, <1>3, <1>4 DEF IInv

\* A woken Submit pushes the task it carries, or waits again.
LEMMA RetryKeeps ==
  ASSUME IInv, NEW c \in Clients, SubmitRetries(c)
  PROVE  IInv'
<1> DEFINE t == ctask[c]
<1>1. t \in Tasks /\ t \notin RangeOf(accepted)
  BY DEF IInv, TypeOK, Pending, SubmitRetries, SubmitStates
<1>2. CASE QueueFull
  <2>1. /\ cpc' = [cpc EXCEPT ![c] = "blocked"]
        /\ UNCHANGED <<queueVars, workerVars, ctask, history>>
    BY <1>2 DEF SubmitRetries
  <2>2. TypeOK'
    BY <2>1 DEF IInv, TypeOK, queueVars, workerVars, history, ClientStates, SubmitStates
  <2> QED BY <2>1, <2>2, ThreadMoveKeeps
       DEF IInv, TypeOK, queueVars, workerVars, SubmitStates, SubmitRetries
<1>3. CASE ~QueueFull
  <2>1. /\ Push(t) /\ cpc' = [cpc EXCEPT ![c] = "idle"]
        /\ ctask' = [ctask EXCEPT ![c] = None]
    BY <1>3 DEF SubmitRetries
  <2>2. TypeOK'
    BY <1>1, <1>3, <2>1, PushKeeps DEF IInv, TypeOK, Push, ClientStates
  <2>3. Pending'
    <3>1. \A d \in Clients : d # c => ctask[d] # t
      BY <1>1, PoolAssumption DEF IInv, Pending
    <3>2. RangeOf(accepted)' = RangeOf(accepted) \cup {t}
      BY <1>1, <1>3, <2>1, PushKeeps
    <3>3. None \notin RangeOf(accepted)'
      BY <2>2, PoolAssumption DEF TypeOK, RangeOf
    <3> QED BY <2>1, <3>1, <3>2, <3>3 DEF IInv, TypeOK, Pending, SubmitStates
  <2> QED BY <1>1, <1>3, <2>1, <2>2, <2>3, PushKeeps DEF IInv
<1> QED BY <1>2, <1>3


-----------------------------------------------------------------------------
(* The steps of one thread. *)

LEMMA WorkerKeeps ==
  ASSUME IInv, NEW w \in Workers, WorkerStep(w) \/ SpuriousWakeWorker(w)
  PROVE  IInv'
<1> USE DEF WorkerStates
<1>1. CASE WaitForTask(w)
  <2>1. TypeOK'
    BY <1>1 DEF IInv, TypeOK, WaitForTask, queueVars, clientVars, history
  <2> QED BY <1>1, <2>1, ThreadMoveKeeps
       DEF IInv, TypeOK, WaitForTask, queueVars, clientVars
<1>2. CASE PopTask(w)
  BY <1>2, PopKeeps
<1>3. CASE FindNothing(w)
  <2>1. TypeOK'
    BY <1>3 DEF IInv, TypeOK, FindNothing, queueVars, clientVars, history
  <2> QED BY <1>3, <2>1, ThreadMoveKeeps
       DEF IInv, TypeOK, FindNothing, MayLook, queueVars, clientVars
<1>4. CASE FinishRun(w)
  BY <1>4, FinishKeeps
<1>5. CASE NotifyAvailable(w)
  <2>1. TypeOK'
    BY <1>5, NotifiedType DEF IInv, TypeOK, NotifyAvailable, queueVars, history
  <2>2. \A c \in Clients : cpc[c] \in SubmitStates <=> cpc'[c] \in SubmitStates
    BY <1>5 DEF NotifyAvailable, AvailableNotified, SubmitStates
  <2> QED BY <1>5, <2>1, <2>2, ThreadMoveKeeps
       DEF IInv, TypeOK, NotifyAvailable, queueVars
<1>6. CASE TestStopped(w)
  <2>1. TypeOK'
    BY <1>6 DEF IInv, TypeOK, TestStopped, queueVars, clientVars, history
  <2> QED BY <1>6, <2>1, ThreadMoveKeeps
       DEF IInv, TypeOK, TestStopped, queueVars, clientVars
<1>7. CASE SpuriousWakeWorker(w)
  <2>1. TypeOK'
    BY <1>7 DEF IInv, TypeOK, SpuriousWakeWorker, queueVars, clientVars, history
  <2> QED BY <1>7, <2>1, ThreadMoveKeeps
       DEF IInv, TypeOK, SpuriousWakeWorker, queueVars, clientVars
<1> QED BY <1>1, <1>2, <1>3, <1>4, <1>5, <1>6, <1>7 DEF WorkerStep

LEMMA ClientKeeps ==
  ASSUME IInv, NEW c \in Clients,
         ClientStep(c) \/ ClientCall(c) \/ SpuriousWakeClient(c)
  PROVE  IInv'
<1> USE DEF ClientStates, SubmitStates, StopStates
<1>1. ASSUME NEW t \in Tasks, Submit(c, t)
      PROVE  IInv'
  BY <1>1, SubmitKeeps
<1>2. ASSUME NEW t \in Tasks, SubmitBlocks(c, t)
      PROVE  IInv'
  BY <1>2, BlockKeeps
<1>3. CASE SubmitRetries(c)
  BY <1>3, RetryKeeps
<1>4. ASSUME NEW mode \in StopModes, StopBegins(c, mode)
      PROVE  IInv'
  <2>1. stopping' \in BOOLEAN
    BY <1>4 DEF StopBegins
  <2>2. cpc' \in [Clients -> ClientStates]
    BY <1>4 DEF IInv, TypeOK, StopBegins
  <2>3. TypeOK'
    BY <1>4, <2>1, <2>2 DEF IInv, TypeOK, StopBegins, workerVars, history
  <2> QED BY <1>4, <2>3, ThreadMoveKeeps DEF IInv, TypeOK, StopBegins, workerVars
<1>5. CASE StopDrains(c)
  <2>1. TypeOK'
    BY <1>5 DEF IInv, TypeOK, StopDrains, queueVars, workerVars, history
  <2> QED BY <1>5, <2>1, ThreadMoveKeeps
       DEF IInv, TypeOK, StopDrains, queueVars, workerVars
<1>6. CASE StopCloses(c)
  <2>1. TypeOK'
    BY <1>6 DEF IInv, TypeOK, StopCloses, workerVars, history
  <2> QED BY <1>6, <2>1, ThreadMoveKeeps DEF IInv, TypeOK, StopCloses, workerVars
<1>7. CASE StopWakes(c)
  <2>1. TypeOK'
    BY <1>7, NotifiedType DEF IInv, TypeOK, StopWakes, queueVars, history
  <2>2. \A w \in Workers : wpc[w] = "run" <=> wpc'[w] = "run"
    BY <1>7 DEF StopWakes, NeededNotified
  <2> QED BY <1>7, <2>1, <2>2, ThreadMoveKeeps DEF IInv, TypeOK, StopWakes, queueVars
<1>8. CASE StopJoins(c)
  <2>1. TypeOK'
    BY <1>8 DEF IInv, TypeOK, StopJoins, queueVars, workerVars, history
  <2> QED BY <1>8, <2>1, ThreadMoveKeeps
       DEF IInv, TypeOK, StopJoins, queueVars, workerVars
<1>9. CASE SpuriousWakeClient(c)
  <2>1. TypeOK'
    BY <1>9 DEF IInv, TypeOK, SpuriousWakeClient, queueVars, workerVars, history
  <2> QED BY <1>9, <2>1, ThreadMoveKeeps
       DEF IInv, TypeOK, SpuriousWakeClient, queueVars, workerVars
<1> QED BY <1>1, <1>2, <1>3, <1>4, <1>5, <1>6, <1>7, <1>8, <1>9
     DEF ClientStep, ClientCall

LEMMA StepIInv ==
  ASSUME IInv, [Next]_vars
  PROVE  IInv'
<1>1. CASE UNCHANGED vars
  <2>1. TypeOK'
    BY <1>1 DEF IInv, TypeOK, vars, queueVars, workerVars, clientVars, history
  <2> QED BY <1>1, <2>1, ThreadMoveKeeps DEF vars, queueVars, workerVars, clientVars
<1>2. ASSUME NEW w \in Workers, WorkerStep(w) \/ SpuriousWakeWorker(w)
      PROVE  IInv'
  BY <1>2, WorkerKeeps
<1>3. ASSUME NEW c \in Clients, ClientStep(c) \/ ClientCall(c) \/ SpuriousWakeClient(c)
      PROVE  IInv'
  BY <1>3, ClientKeeps
<1> QED BY <1>1, <1>2, <1>3 DEF Next, AllReturned

-----------------------------------------------------------------------------
\* The invariant holds in every reachable state.
THEOREM Invariance == Spec => []IInv
BY InitIInv, StepIInv, PTL DEF Spec

\* Every variable of the pool keeps its type.
THEOREM TypeCorrect == Spec => []TypeOK
<1>1. IInv => TypeOK
  BY DEF IInv
<1> QED BY <1>1, Invariance, PTL

\* Execute hands tasks out in the order in which Submit accepted them, and loses
\* and repeats none, however many threads call either.
THEOREM HandedOutInOrder == Spec => []FirstInFirstOut
<1>1. IInv => FirstInFirstOut
  BY DEF IInv
<1> QED BY <1>1, Invariance, PTL

\* A popped task is run by one thread, once.
THEOREM RunOnce == Spec => []PoppedOnce
<1>1. IInv => PoppedOnce
  BY DEF IInv
<1> QED BY <1>1, Invariance, PTL

\* The queue stays within m_queueLimit for any number of blocked Submits.
THEOREM LimitHolds == Spec => []QueueLimitHolds
<1>1. IInv => QueueLimitHolds
  BY DEF IInv
<1> QED BY <1>1, Invariance, PTL

-----------------------------------------------------------------------------
(* Stop(true) called by the only thread that submits, as batch_run, mert and *)
(* BlockHashIndex use the pool.                                              *)

OneDrainingClient ==
  /\ \A c, d \in Clients : c = d
  /\ StopModes \subseteq {TRUE}

Closing == {"close", "wake", "join", "returned"}

\* Once the client is past the wait for the queue, the queue is empty for good;
\* and only that client sets m_stopped.
Drained ==
  /\ \A c \in Clients : cpc[c] \in Closing => tasks = <<>>
  /\ stopped => \E c \in Clients : cpc[c] \in Closing

LEMMA InitDrained ==
  ASSUME Init
  PROVE  Drained
BY DEF Init, Drained, Closing

LEMMA WorkerDrained ==
  ASSUME IInv, Drained, NEW w \in Workers, WorkerStep(w) \/ SpuriousWakeWorker(w)
  PROVE  Drained'
<1>1. CASE PopTask(w)
  BY <1>1 DEF Drained, PopTask, clientVars
<1>2. CASE NotifyAvailable(w)
  <2>1. \A c \in Clients : cpc[c] \in Closing <=> cpc'[c] \in Closing
    BY <1>2 DEF NotifyAvailable, AvailableNotified, Closing
  <2> QED BY <1>2, <2>1 DEF Drained, NotifyAvailable, queueVars
<1>3. CASE UNCHANGED <<queueVars, clientVars>>
  BY <1>3 DEF Drained, queueVars, clientVars
<1>4. \/ PopTask(w) \/ NotifyAvailable(w) \/ UNCHANGED <<queueVars, clientVars>>
  BY DEF WorkerStep, WaitForTask, FindNothing, FinishRun, TestStopped, SpuriousWakeWorker
<1> QED BY <1>1, <1>2, <1>3, <1>4

LEMMA ClientDrained ==
  ASSUME OneDrainingClient, IInv, Drained, NEW c \in Clients,
         ClientStep(c) \/ ClientCall(c) \/ SpuriousWakeClient(c)
  PROVE  Drained'
<1> USE DEF Closing
<1>1. \A d \in Clients : d = c
  BY DEF OneDrainingClient
<1>2. cpc \in [Clients -> ClientStates]
  BY DEF IInv, TypeOK
<1>3. stopped => cpc[c] \in Closing
  BY <1>1 DEF Drained
<1>4. ASSUME NEW t \in Tasks, Submit(c, t)
      PROVE  Drained'
  BY <1>1, <1>3, <1>4 DEF Drained, Submit, Push, clientVars
<1>5. ASSUME NEW t \in Tasks, SubmitBlocks(c, t)
      PROVE  Drained'
  BY <1>1, <1>2, <1>3, <1>5 DEF Drained, SubmitBlocks, queueVars
<1>6. CASE SubmitRetries(c)
  BY <1>1, <1>2, <1>3, <1>6 DEF Drained, SubmitRetries, Push, queueVars
<1>7. ASSUME NEW mode \in StopModes, StopBegins(c, mode)
      PROVE  Drained'
  <2>1. mode = TRUE
    BY <1>7 DEF OneDrainingClient
  <2>2. ~stopped /\ cpc[c] = "idle"
    BY <1>3, <1>7 DEF StopBegins
  <2>3. cpc' = [cpc EXCEPT ![c] = "drain"] /\ UNCHANGED <<tasks, stopped>>
    BY <1>7, <2>1, <2>2 DEF StopBegins
  <2> QED BY <1>1, <1>2, <2>2, <2>3 DEF Drained
<1>8. CASE StopDrains(c)
  BY <1>1, <1>2, <1>3, <1>8 DEF Drained, StopDrains, queueVars
<1>9. CASE StopCloses(c)
  BY <1>1, <1>2, <1>9 DEF Drained, StopCloses
<1>10. CASE StopWakes(c) \/ StopJoins(c)
  BY <1>1, <1>2, <1>10 DEF Drained, StopWakes, StopJoins, queueVars
<1>11. CASE SpuriousWakeClient(c)
  BY <1>1, <1>2, <1>3, <1>11 DEF Drained, SpuriousWakeClient, queueVars
<1> QED BY <1>4, <1>5, <1>6, <1>7, <1>8, <1>9, <1>10, <1>11 DEF ClientStep, ClientCall

\* Then no accepted task is left behind: when the call has joined the threads,
\* everything that was accepted has been run.
LEMMA DrainedIsComplete ==
  ASSUME IInv, Drained
  PROVE  StopCompletesQueuedJobs
<1>1. SUFFICES ASSUME NEW c \in Clients, cpc[c] = "returned",
                      \A w \in Workers : wpc[w] = "exited"
               PROVE  RangeOf(accepted) = finished
  BY DEF StopCompletesQueuedJobs
<1>2. tasks = <<>>
  BY <1>1 DEF Drained, Closing
<1>3. accepted = started
  BY <1>2 DEF IInv, TypeOK, FirstInFirstOut
<1>4. InHand = {}
  BY <1>1 DEF IInv, HoldsTask, InHand
<1> QED BY <1>3, <1>4 DEF IInv, PoppedOnce

LEMMA StepDrained ==
  ASSUME OneDrainingClient, IInv, Drained, [Next]_vars
  PROVE  Drained'
<1>1. CASE UNCHANGED vars
  BY <1>1 DEF Drained, vars, queueVars, clientVars
<1>2. ASSUME NEW w \in Workers, WorkerStep(w) \/ SpuriousWakeWorker(w)
      PROVE  Drained'
  BY <1>2, WorkerDrained
<1>3. ASSUME NEW c \in Clients, ClientStep(c) \/ ClientCall(c) \/ SpuriousWakeClient(c)
      PROVE  Drained'
  BY <1>3, ClientDrained
<1> QED BY <1>1, <1>2, <1>3 DEF Next, AllReturned

\* A sole client that stops the pool with Stop(true) gets every task it
\* submitted executed, for any number of workers and any queue limit.
THEOREM DrainingStopCompletes ==
  ASSUME OneDrainingClient
  PROVE  Spec => []StopCompletesQueuedJobs
BY StepDrained, InitDrained, Invariance, DrainedIsComplete, PTL DEF Spec

=============================================================================
