------------------------------ MODULE ThreadPool ------------------------------
(****************************************************************************)
(* Moses::ThreadPool (moses/ThreadPool.{h,cpp}): a fixed set of threads     *)
(* that execute the tasks of one bounded FIFO queue.                        *)
(*                                                                          *)
(* Every section of the code that holds m_mutex is one action: a wait on a  *)
(* condition variable ends one action and its wake-up, which takes the      *)
(* mutex again, starts another.  What runs without the mutex (the task      *)
(* itself, the notification after it, the test of m_stopped at the end of   *)
(* the loop) is an action of its own.                                       *)
(****************************************************************************)
EXTENDS Integers, Sequences, FiniteSets

CONSTANTS
  Workers,     \* the threads of m_threads
  Clients,     \* the threads that call Submit and Stop
  Tasks,       \* the tasks clients may submit
  None,        \* no task
  QueueLimit,  \* m_queueLimit; 0 means that Submit never blocks
  StopModes    \* the arguments of Stop: TRUE is processRemainingJobs

ASSUME PoolAssumption ==
  /\ None \notin Tasks
  /\ QueueLimit \in Nat
  /\ StopModes \subseteq BOOLEAN

VARIABLES
  tasks,       \* m_tasks
  stopped,     \* m_stopped
  stopping,    \* m_stopping
  wpc,         \* wpc[w]: where worker w is in Execute
  wtask,       \* wtask[w]: the local variable task of Execute
  saw,         \* saw[w]: the value m_stopped had when w last held the mutex
  cpc,         \* cpc[c]: where client c is in Submit or Stop
  ctask,       \* ctask[c]: the task that the Submit of c is waiting to push
  accepted,    \* history: the tasks pushed, in order
  started,     \* history: the tasks popped, in order
  finished     \* history: the tasks whose Run has returned

queueVars  == <<tasks, stopped, stopping>>
workerVars == <<wpc, wtask, saw>>
clientVars == <<cpc, ctask>>
history    == <<accepted, started, finished>>
vars == <<queueVars, workerVars, clientVars, history>>

WorkerStates == {"top", "waiting", "awake", "run", "notify", "test", "exited"}
SubmitStates == {"blocked", "retry"}
StopStates   == {"drain", "draining", "close", "wake", "join", "returned"}
ClientStates == {"idle"} \cup SubmitStates \cup StopStates

RangeOf(s) == {s[i] : i \in 1..Len(s)}

Init ==
  /\ tasks = <<>> /\ stopped = FALSE /\ stopping = FALSE
  /\ wpc = [w \in Workers |-> "top"]
  /\ wtask = [w \in Workers |-> None]
  /\ saw = [w \in Workers |-> FALSE]
  /\ cpc = [c \in Clients |-> "idle"]
  /\ ctask = [c \in Clients |-> None]
  /\ accepted = <<>> /\ started = <<>> /\ finished = {}

-----------------------------------------------------------------------------
(* Condition variables.  m_threadNeeded is waited on in Execute only,       *)
(* m_threadAvailable in Submit and in Stop.  A waiting thread may also wake *)
(* up without a notification, as Boost allows.                              *)

\* m_threadNeeded.notify_all()
NeededNotified ==
  [w \in Workers |-> IF wpc[w] = "waiting" THEN "awake" ELSE wpc[w]]

\* m_threadAvailable.notify_all()
AvailableNotified ==
  [c \in Clients |-> CASE cpc[c] = "blocked"  -> "retry"
                       [] cpc[c] = "draining" -> "drain"
                       [] OTHER               -> cpc[c]]

SpuriousWakeWorker(w) ==
  /\ wpc[w] = "waiting"
  /\ wpc' = [wpc EXCEPT ![w] = "awake"]
  /\ UNCHANGED <<queueVars, wtask, saw, clientVars, history>>

SpuriousWakeClient(c) ==
  /\ cpc[c] \in {"blocked", "draining"}
  /\ cpc' = [cpc EXCEPT ![c] = IF cpc[c] = "blocked" THEN "retry" ELSE "drain"]
  /\ UNCHANGED <<queueVars, workerVars, ctask, history>>

-----------------------------------------------------------------------------
(* Execute *)

\* The queue is empty and the pool is running: wait for m_threadNeeded.
WaitForTask(w) ==
  /\ wpc[w] = "top" /\ tasks = <<>> /\ ~stopped
  /\ wpc' = [wpc EXCEPT ![w] = "waiting"]
  /\ saw' = [saw EXCEPT ![w] = stopped]
  /\ UNCHANGED <<queueVars, wtask, clientVars, history>>

MayLook(w) == \/ wpc[w] = "awake"
              \/ wpc[w] = "top" /\ (tasks # <<>> \/ stopped)

\* Mistake (not the code): front() without pop().
PopTaskLeavesIt(w) ==
  /\ MayLook(w) /\ ~stopped /\ tasks # <<>>
  /\ wtask' = [wtask EXCEPT ![w] = Head(tasks)]
  /\ started' = Append(started, Head(tasks))
  /\ wpc' = [wpc EXCEPT ![w] = "run"]
  /\ saw' = [saw EXCEPT ![w] = stopped]
  /\ UNCHANGED <<queueVars, clientVars, accepted, finished>>

\* The mutex is held and the wait, if there was one, is over: pop a task.
PopTask(w) ==
  /\ MayLook(w) /\ ~stopped /\ tasks # <<>>
  /\ wtask' = [wtask EXCEPT ![w] = Head(tasks)]
  /\ tasks' = Tail(tasks)
  /\ started' = Append(started, Head(tasks))
  /\ wpc' = [wpc EXCEPT ![w] = "run"]
  /\ saw' = [saw EXCEPT ![w] = stopped]
  /\ UNCHANGED <<stopped, stopping, clientVars, accepted, finished>>

\* The wait is not in a loop: a worker may find nothing to do.
FindNothing(w) ==
  /\ MayLook(w) /\ (stopped \/ tasks = <<>>)
  /\ wpc' = [wpc EXCEPT ![w] = "notify"]
  /\ saw' = [saw EXCEPT ![w] = stopped]
  /\ UNCHANGED <<queueVars, wtask, clientVars, history>>

\* task->Run() returns.
FinishRun(w) ==
  /\ wpc[w] = "run"
  /\ finished' = finished \cup {wtask[w]}
  /\ wtask' = [wtask EXCEPT ![w] = None]
  /\ wpc' = [wpc EXCEPT ![w] = "notify"]
  /\ UNCHANGED <<queueVars, saw, clientVars, accepted, started>>

\* m_threadAvailable.notify_all(), with or without a task run before it.
NotifyAvailable(w) ==
  /\ wpc[w] = "notify"
  /\ wpc' = [wpc EXCEPT ![w] = "test"]
  /\ cpc' = AvailableNotified
  /\ UNCHANGED <<queueVars, wtask, saw, ctask, history>>

\* while (!m_stopped), read without the mutex: the value is the current one,
\* or the one of the last time this thread held the mutex.
TestStopped(w) ==
  /\ wpc[w] = "test"
  /\ \E seen \in {stopped, saw[w]} :
       wpc' = [wpc EXCEPT ![w] = IF seen THEN "exited" ELSE "top"]
  /\ UNCHANGED <<queueVars, wtask, saw, clientVars, history>>

-----------------------------------------------------------------------------
(* Submit *)

QueueFull == QueueLimit > 0 /\ Len(tasks) >= QueueLimit

\* m_tasks.push(task) and m_threadNeeded.notify_all(), in one section.
Push(t) ==
  /\ tasks' = Append(tasks, t)
  /\ accepted' = Append(accepted, t)
  /\ wpc' = NeededNotified
  /\ UNCHANGED <<stopped, stopping, wtask, saw, started, finished>>

Fresh(t) == t \notin RangeOf(accepted) /\ \A c \in Clients : ctask[c] # t

\* Submit returns at once.  A Submit that finds m_stopping throws and changes
\* nothing: it is not a step.
Submit(c, t) ==
  /\ cpc[c] = "idle" /\ Fresh(t) /\ ~stopping /\ ~QueueFull
  /\ Push(t)
  /\ UNCHANGED clientVars

\* The queue is full: wait for m_threadAvailable.
SubmitBlocks(c, t) ==
  /\ cpc[c] = "idle" /\ Fresh(t) /\ ~stopping /\ QueueFull
  /\ cpc' = [cpc EXCEPT ![c] = "blocked"]
  /\ ctask' = [ctask EXCEPT ![c] = t]
  /\ UNCHANGED <<queueVars, workerVars, history>>

\* Mistake (not the code): the limit is tested with "if", not with "while".
SubmitPushesAtOnce(c) ==
  /\ cpc[c] = "retry"
  /\ Push(ctask[c])
  /\ cpc' = [cpc EXCEPT ![c] = "idle"]
  /\ ctask' = [ctask EXCEPT ![c] = None]

\* The wait of Submit is over; m_stopping is not looked at again.
SubmitRetries(c) ==
  /\ cpc[c] = "retry"
  /\ IF QueueFull
       THEN /\ cpc' = [cpc EXCEPT ![c] = "blocked"]
            /\ UNCHANGED <<queueVars, workerVars, ctask, history>>
       ELSE /\ Push(ctask[c])
            /\ cpc' = [cpc EXCEPT ![c] = "idle"]
            /\ ctask' = [ctask EXCEPT ![c] = None]

-----------------------------------------------------------------------------
(* Stop *)

\* The first section: return if already stopped, else refuse new tasks.
StopBegins(c, processRemainingJobs) ==
  /\ cpc[c] = "idle"
  /\ stopping' = (stopping \/ ~stopped)
  /\ cpc' = [cpc EXCEPT ![c] = CASE stopped              -> "returned"
                                 [] processRemainingJobs -> "drain"
                                 [] OTHER                -> "close"]
  /\ UNCHANGED <<tasks, stopped, workerVars, ctask, history>>

\* Mistake (not the code): the queue is not waited for.
StopSkipsDraining(c) ==
  /\ cpc[c] = "drain"
  /\ cpc' = [cpc EXCEPT ![c] = "close"]
  /\ UNCHANGED <<queueVars, workerVars, ctask, history>>

\* The second section: wait for m_threadAvailable until the queue is empty.
StopDrains(c) ==
  /\ cpc[c] = "drain"
  /\ cpc' = [cpc EXCEPT ![c] =
               IF tasks # <<>> /\ ~stopped THEN "draining" ELSE "close"]
  /\ UNCHANGED <<queueVars, workerVars, ctask, history>>

\* The third section.
StopCloses(c) ==
  /\ cpc[c] = "close"
  /\ stopped' = TRUE
  /\ cpc' = [cpc EXCEPT ![c] = "wake"]
  /\ UNCHANGED <<tasks, stopping, workerVars, ctask, history>>

\* Mistake (not the code): notify_one() instead of notify_all().
StopWakesOne(c) ==
  /\ cpc[c] = "wake"
  /\ \/ (\A w \in Workers : wpc[w] # "waiting") /\ wpc' = wpc
     \/ \E w \in Workers : wpc[w] = "waiting" /\ wpc' = [wpc EXCEPT ![w] = "awake"]
  /\ cpc' = [cpc EXCEPT ![c] = "join"]
  /\ UNCHANGED <<queueVars, wtask, saw, ctask, history>>

\* m_threadNeeded.notify_all(), after the mutex has been released.
StopWakes(c) ==
  /\ cpc[c] = "wake"
  /\ wpc' = NeededNotified
  /\ cpc' = [cpc EXCEPT ![c] = "join"]
  /\ UNCHANGED <<queueVars, wtask, saw, ctask, history>>

\* m_threads.join_all()
StopJoins(c) ==
  /\ cpc[c] = "join"
  /\ \A w \in Workers : wpc[w] = "exited"
  /\ cpc' = [cpc EXCEPT ![c] = "returned"]
  /\ UNCHANGED <<queueVars, workerVars, ctask, history>>

-----------------------------------------------------------------------------
WorkerStep(w) ==
  \/ WaitForTask(w)
  \/ PopTask(w)
  \/ FindNothing(w)
  \/ FinishRun(w)
  \/ NotifyAvailable(w)
  \/ TestStopped(w)

\* What a client does once it is inside Submit or Stop.
ClientStep(c) ==
  \/ SubmitRetries(c)
  \/ StopDrains(c)
  \/ StopCloses(c)
  \/ StopWakes(c)
  \/ StopJoins(c)

\* The calls a client may make.
ClientCall(c) ==
  \/ \E t \in Tasks : Submit(c, t) \/ SubmitBlocks(c, t)
  \/ \E mode \in StopModes : StopBegins(c, mode)

\* Everything has returned: the only state in which nothing may happen.
AllReturned ==
  /\ \A c \in Clients : cpc[c] = "returned"
  /\ \A w \in Workers : wpc[w] = "exited"
  /\ UNCHANGED vars

Next ==
  \/ \E w \in Workers : WorkerStep(w) \/ SpuriousWakeWorker(w)
  \/ \E c \in Clients : ClientStep(c) \/ ClientCall(c) \/ SpuriousWakeClient(c)
  \/ AllReturned

Spec == Init /\ [][Next]_vars

\* Threads are scheduled, the mutex is handed to a thread that waits for it,
\* and every task terminates.  Clients need not call anything, and no thread
\* can count on a spurious wake-up.
Fairness ==
  /\ \A w \in Workers : WF_vars(WorkerStep(w))
  /\ \A c \in Clients : WF_vars(ClientStep(c))

FairSpec == Spec /\ Fairness

-----------------------------------------------------------------------------
TypeOK ==
  /\ tasks \in Seq(Tasks) /\ stopped \in BOOLEAN /\ stopping \in BOOLEAN
  /\ wpc \in [Workers -> WorkerStates]
  /\ wtask \in [Workers -> Tasks \cup {None}]
  /\ saw \in [Workers -> BOOLEAN]
  /\ cpc \in [Clients -> ClientStates]
  /\ ctask \in [Clients -> Tasks \cup {None}]
  /\ accepted \in Seq(Tasks) /\ started \in Seq(Tasks)
  /\ finished \subseteq Tasks

InHand == {wtask[w] : w \in Workers} \ {None}

\* Whatever the workers and the clients do, tasks are handed out in the order
\* in which Submit accepted them, and none is lost or handed out twice: the
\* tasks popped by Execute followed by the queue are the tasks accepted.
FirstInFirstOut == accepted = started \o tasks

\* A task that was popped is either being run, by one thread only, or has
\* been run: Execute never drops what it popped, nor runs it twice.
PoppedOnce ==
  /\ RangeOf(started) = InHand \cup finished
  /\ InHand \cap finished = {}
  /\ \A v, w \in Workers : wtask[v] = wtask[w] /\ wtask[v] # None => v = w

\* The queue never exceeds the limit, however many blocked Submits a single
\* notify_all wakes: SetQueueLimit promises a "maximum number of queued
\* threads (otherwise Submit blocks)".
QueueLimitHolds == QueueLimit > 0 => Len(tasks) <= QueueLimit

\* "Wait until all queued jobs have completed, and shut down the ThreadPool":
\* the header's promise of Stop.  When a Stop has returned, after it joined
\* the threads, every task that was accepted has been run.
StopCompletesQueuedJobs ==
  (\E c \in Clients : cpc[c] = "returned") /\ (\A w \in Workers : wpc[w] = "exited")
    => RangeOf(accepted) = finished

\* No call is left waiting: once Stop has set m_stopped every worker leaves
\* Execute and the call returns, and a Submit that blocked on a full queue gets
\* through, whatever the workers were doing when the conditions were notified.
CallsReturn ==
  \A c \in Clients : /\ cpc[c] \in StopStates ~> cpc[c] = "returned"
                     /\ cpc[c] \in SubmitStates ~> cpc[c] = "idle"

=============================================================================
