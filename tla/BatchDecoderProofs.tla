-------------------------- MODULE BatchDecoderProofs --------------------------
(* Proofs about batch_run for any input, any number of threads and whatever way they  *)
(* interleave: the main thread, the thread pool and the two output collectors         *)
(* together.  The pool comes with what is proved of it (ThreadPoolProofs): every step *)
(* of batch_run is a step of the pool or leaves it alone, so that the pool's          *)
(* invariant is a part of this one.  At the end are the proofs about a collector on   *)
(* its own.                                                                           *)
EXTENDS BatchDecoder, OutputCollector, FiniteSetTheorems, WellFoundedInduction, TLAPS

\* What is proved of the thread pool holds of the one of batch_run.
PoolP == INSTANCE ThreadPoolProofs WITH
  Clients <- {Main}, Tasks <- Lines, QueueLimit <- 0, StopModes <- {TRUE}

-----------------------------------------------------------------------------
(* The inductive invariant. *)

\* The lines ReadInput counts, of the first n.
Counts(x) == HasOL => input[x] = "translate"
Counted(n) == Cardinality({x \in 1..n : Counts(x)})


\* The last line Sentence::init has seen.
LineSeen == IF rpc = "init" THEN pos + 1 ELSE pos

\* The main thread: the tasks submitted are the lines read, in order; a line has the
\* number of counted lines before it for an id; m_learn is what the last line says.
ReaderInv ==
  /\ input \in Inputs /\ pos \in 0..Len(input)
  /\ rpc \in {"read", "init", "submit", "stop", "stopping"}
  /\ rpc = "init" => pos < Len(input)
  /\ rpc = "submit" => pos > 0
  /\ rpc \in {"stop", "stopping"} => pos = Len(input)
  /\ Len(accepted) = IF rpc = "submit" THEN pos - 1 ELSE pos
  /\ \A i \in 1..Len(accepted) : accepted[i] = i
  /\ rpc \in {"read", "init", "submit"} => currentLine = StartId + Counted(pos)
  /\ DOMAIN translationId = Lines
  /\ \A l \in 1..pos : translationId[l] = StartId + Counted(l - 1)
  /\ learn = (LineSeen > 0 /\ HasOL /\ input[LineSeen] = "postedit")

\* The main thread never waits in Submit; Stop has not begun, or returns when the
\* workers have left.
ClientInv ==
  /\ cpc[Main] \in {"idle", "drain", "draining", "close", "wake", "join", "returned"}
  /\ rpc # "stopping" => cpc[Main] = "idle"
  /\ cpc[Main] = "returned" => \A w \in Workers : wpc[w] = "exited"

Phases == {"decode", "learn", "test", "again", "best", "bestLoop", "nbest", "nbestLoop", "done"}

\* A worker without a task is ready for the next one.
WorkerInv ==
  /\ phase \in [Workers -> Phases]
  /\ \A w \in Workers : wpc[w] # "run" => phase[w] = "decode"

\* The ids of the lines read, the workers at p, and the lines whose tasks have come as
\* far as P.
IdsRead == [l \in 1..pos |-> translationId[l]]
At(p) == {w \in Workers : phase[w] = p}
Past(P) == {l \in 1..pos : \/ l \in finished
                           \/ \E w \in Workers : phase[w] \in P /\ wtask[w] = l}

\* A collector that expects next, holds held, has put out str and whose lock is with own:
\* the line put out as the i-th, or held back under i, has that id; the worker with the
\* lock is the one that looks for more; the id expected next is not held unless a
\* worker looks for more; and the id of every line in reported is put out or held,
\* be it with this line or with another one of the same id.
CollectorOk(ids, next, held, str, own, looking, reported) ==
  /\ next \in Nat /\ Len(str) = next /\ str \in Seq(Lines)
  /\ \A j \in 1..Len(str) : str[j] \in DOMAIN ids /\ ids[str[j]] = j - 1
  /\ \A i \in DOMAIN held : held[i] \in DOMAIN ids /\ ids[held[i]] = i
  /\ looking = IF own = None THEN {} ELSE {own}
  /\ own = None => next \notin DOMAIN held
  /\ \A l \in reported : l \in DOMAIN ids /\ (ids[l] < next \/ ids[l] \in DOMAIN held)

\* OutputNBest reports every line to its collector.
NBestReported == {l \in Past({"nbestLoop", "done"}) : HasNBest}
NBestInv == CollectorOk(IdsRead, nextNBest, heldNBest, nBestStream, nBestOwner,
                        At("nbestLoop"), NBestReported)

\* OutputBest may be mistaken about a line as long as post-edits are still to be read: it
\* is sure to report the lines with none after them.
Clear(l) == \A x \in l..Len(input) : input[x] = "translate"
BestReported == {l \in Past({"bestLoop", "nbest", "nbestLoop", "done"}) : HasOL /\ Clear(l)}
BestInv == CollectorOk(IdsRead, nextBest, heldBest, bestStream, bestOwner,
                       At("bestLoop"), BestReported)

IInv ==
  /\ PoolP!IInv /\ PoolP!Drained
  /\ ReaderInv /\ ClientInv /\ WorkerInv /\ NBestInv /\ BestInv

-----------------------------------------------------------------------------
(* Lines and their ids. *)

LEMMA InputTypes ==
  ASSUME input \in Inputs
  PROVE  /\ input \in Seq(LineKinds) /\ Len(input) \in Nat /\ Len(input) <= MaxLines
         /\ MaxLines \in Nat /\ StartId \in Nat
         /\ Cardinality({l \in 1..Len(input) : input[l] = "translate"}) = NumTranslate
BY BatchAssumption

LEMMA CountedIs ==
  /\ \A n \in Nat : Counted(n) \in Nat /\ IsFiniteSet({x \in 1..n : Counts(x)})
  /\ \A m, n \in Nat : m <= n => Counted(m) <= Counted(n)
  /\ \A n \in Nat : Counted(n + 1) = IF Counts(n + 1) THEN Counted(n) + 1 ELSE Counted(n)
  /\ Counted(0) = 0
<1> DEFINE C(n) == {x \in 1..n : Counts(x)}
<1>1. ASSUME NEW n \in Nat PROVE IsFiniteSet(C(n)) /\ Cardinality(C(n)) \in Nat
  <2>1. IsFiniteSet(1..n)
    BY FS_Interval
  <2>2. C(n) \subseteq 1..n
    OBVIOUS
  <2> HIDE DEF C
  <2> QED BY <2>1, <2>2, FS_Subset, FS_CardinalityType
<1>2. ASSUME NEW m \in Nat, NEW n \in Nat, m <= n PROVE Cardinality(C(m)) <= Cardinality(C(n))
  <2>1. C(m) \subseteq C(n)
    BY <1>2
  <2> HIDE DEF C
  <2> QED BY <1>1, <2>1, FS_Subset
<1>3. ASSUME NEW n \in Nat
      PROVE  Cardinality(C(n + 1)) = IF Counts(n + 1) THEN Cardinality(C(n)) + 1
                                                     ELSE Cardinality(C(n))
  <2>1. CASE Counts(n + 1)
    <3>1. C(n + 1) = C(n) \cup {n + 1} /\ n + 1 \notin C(n)
      BY <2>1
    <3>2. Cardinality(C(n) \cup {n + 1}) = Cardinality(C(n)) + 1
      <4> HIDE DEF C
      <4> QED BY <1>1, <3>1, FS_AddElement
    <3> QED BY <2>1, <3>1, <3>2
  <2>2. CASE ~Counts(n + 1)
    <3>1. C(n + 1) = C(n)
      BY <2>2
    <3> QED BY <2>2, <3>1
  <2> QED BY <2>1, <2>2
<1>4. C(0) = {}
  OBVIOUS
<1>5. Cardinality(C(0)) = 0
  <2> HIDE DEF C
  <2> QED BY <1>4, FS_EmptySet
<1> QED BY <1>1, <1>2, <1>3, <1>5 DEF Counted

-----------------------------------------------------------------------------
(* The thread pool of batch_run is a thread pool with one client. *)

LEMMA PoolConstants ==
  Pool!PoolAssumption /\ PoolP!PoolAssumption /\ PoolP!OneDrainingClient
BY BatchAssumption DEF Pool!PoolAssumption, PoolP!PoolAssumption, PoolP!OneDrainingClient, Lines

LEMMA PoolTypes ==
  ASSUME PoolP!IInv, ReaderInv
  PROVE  /\ wpc \in [Workers -> {"top", "waiting", "awake", "run", "notify", "test", "exited"}]
         /\ wtask \in [Workers -> Lines \cup {None}]
         /\ DOMAIN cpc = {Main} /\ accepted \in Seq(Lines)
         /\ finished \subseteq 1..pos
         /\ \A w \in Workers : wpc[w] = "run" =>
              wtask[w] \in 1..pos /\ wtask[w] \in Lines /\ wtask[w] \notin finished
         /\ pos \in Nat /\ 1..pos \subseteq Lines
<1>1. PoolP!TypeOK
  BY DEF PoolP!IInv
<1>2. /\ wpc \in [Workers -> {"top", "waiting", "awake", "run", "notify", "test", "exited"}]
      /\ wtask \in [Workers -> Lines \cup {None}]
      /\ DOMAIN cpc = {Main} /\ accepted \in Seq(Lines) /\ started \in Seq(Lines)
      /\ tasks \in Seq(Lines)
  BY <1>1 DEF PoolP!TypeOK, PoolP!WorkerStates
<1>3. pos \in Nat /\ 1..pos \subseteq Lines
  BY InputTypes DEF ReaderInv, Lines
<1>4. PoolP!RangeOf(accepted) \subseteq 1..pos
  <2>1. Len(accepted) <= pos /\ \A i \in 1..Len(accepted) : accepted[i] = i
    BY <1>3 DEF ReaderInv
  <2>2. Len(accepted) \in Nat
    BY <1>2
  <2> QED BY <1>3, <2>1, <2>2 DEF PoolP!RangeOf
<1>5. PoolP!RangeOf(started) \subseteq PoolP!RangeOf(accepted)
  <2>1. accepted = started \o tasks
    BY DEF PoolP!IInv, PoolP!FirstInFirstOut
  <2>2. ASSUME NEW i \in 1..Len(started)
        PROVE  i \in 1..Len(accepted) /\ accepted[i] = started[i]
    BY <1>2, <2>1
  <2> QED BY <2>2 DEF PoolP!RangeOf
<1>6. PoolP!RangeOf(started) = PoolP!InHand \cup finished /\ PoolP!InHand \cap finished = {}
  BY DEF PoolP!IInv, PoolP!PoppedOnce
<1>7. ASSUME NEW w \in Workers, wpc[w] = "run" PROVE wtask[w] \in PoolP!InHand
  BY <1>7 DEF PoolP!IInv, PoolP!HoldsTask, PoolP!InHand
<1> QED BY <1>2, <1>3, <1>4, <1>5, <1>6, <1>7

\* The steps of TranslationTask::Run: before anything is put out, and all but the last.
Decides(w) == Decode(w) \/ Learn(w) \/ TestLearning(w) \/ DecodeAgain(w) \/ EndDecoding(w)
InRun(w) == Decides(w) \/ OutputBest(w) \/ BestLoop(w) \/ OutputNBest(w) \/ NBestLoop(w)

LEMMA RunFrame ==
  ASSUME NEW w \in Workers, InRun(w)
  PROVE  /\ wpc[w] = "run"
         /\ UNCHANGED <<poolVars, readerVars, olVars, wpc, wtask, accepted, finished, cpc, input,
                        pos, rpc, translationId>>
<1>1. wpc[w] = "run" /\ UNCHANGED <<poolVars, readerVars, olVars>>
  BY DEF InRun, Decides, Decode, Learn, TestLearning, DecodeAgain, EndDecoding, OutputBest,
     BestLoop, OutputNBest, NBestLoop, Running, RunUnchanged
<1> QED BY <1>1 DEF poolVars, readerVars

\* Every step is a step of the pool or leaves it alone.
LEMMA PoolStep ==
  ASSUME ReaderInv, [Next]_vars
  PROVE  [PoolP!Next]_(PoolP!vars)
<1> USE DEF PoolP!Next, PoolP!vars, PoolP!queueVars, PoolP!workerVars, PoolP!clientVars,
            PoolP!history, Pool!vars, Pool!queueVars, Pool!workerVars, Pool!clientVars,
            Pool!history, poolVars
<1>1. CASE UNCHANGED vars
  BY <1>1 DEF vars
<1>2. CASE SentenceInit \/ ReadInput \/ ReadEnd
  BY <1>2 DEF SentenceInit, ReadInput, ReadEnd
<1>3. CASE SubmitTask
  <2>1. pos \in Lines /\ Pool!Submit(Main, pos)
    BY <1>3, InputTypes DEF SubmitTask, ReaderInv, Lines
  <2>2. PoolP!Submit(Main, pos)
    BY <2>1 DEF Pool!Submit, PoolP!Submit, Pool!Fresh, PoolP!Fresh, Pool!RangeOf, PoolP!RangeOf,
       Pool!QueueFull, PoolP!QueueFull, Pool!Push, PoolP!Push,
       Pool!NeededNotified, PoolP!NeededNotified
  <2> QED BY <2>1, <2>2 DEF PoolP!ClientCall
<1>4. CASE StopPool
  <2>1. PoolP!StopBegins(Main, TRUE)
    BY <1>4 DEF StopPool, Pool!StopBegins, PoolP!StopBegins
  <2> QED BY <2>1 DEF PoolP!ClientCall
<1>5. CASE InStop
  <2>1. \/ PoolP!ClientStep(Main)
        \/ PoolP!SpuriousWakeClient(Main)
        \/ PoolP!AllReturned
    BY <1>5 DEF InStop, Pool!ClientStep, PoolP!ClientStep,
       Pool!SpuriousWakeClient, PoolP!SpuriousWakeClient, Pool!AllReturned, PoolP!AllReturned,
       Pool!SubmitRetries, PoolP!SubmitRetries, Pool!StopDrains, PoolP!StopDrains,
       Pool!StopCloses, PoolP!StopCloses, Pool!StopWakes, PoolP!StopWakes,
       Pool!StopJoins, PoolP!StopJoins, Pool!Push, PoolP!Push,
       Pool!QueueFull, PoolP!QueueFull, Pool!NeededNotified, PoolP!NeededNotified
  <2> QED BY <2>1
<1>6. ASSUME NEW w \in Workers, InPool(w)
      PROVE  PoolP!WorkerStep(w)
  BY <1>6 DEF InPool, PoolP!WorkerStep, Pool!WaitForTask, PoolP!WaitForTask,
     Pool!PopTask, PoolP!PopTask, Pool!FindNothing, PoolP!FindNothing,
     Pool!NotifyAvailable, PoolP!NotifyAvailable, Pool!TestStopped, PoolP!TestStopped,
     Pool!MayLook, PoolP!MayLook, Pool!AvailableNotified, PoolP!AvailableNotified
<1>7. ASSUME NEW w \in Workers, EndTask(w)
      PROVE  PoolP!WorkerStep(w)
  BY <1>7 DEF EndTask, PoolP!WorkerStep, Pool!FinishRun, PoolP!FinishRun
<1>8. ASSUME NEW w \in Workers, Spurious(w)
      PROVE  PoolP!SpuriousWakeWorker(w)
  BY <1>8 DEF Spurious, Pool!SpuriousWakeWorker, PoolP!SpuriousWakeWorker
<1>9. ASSUME NEW w \in Workers, InRun(w)
      PROVE  UNCHANGED poolVars
  BY <1>9, RunFrame
<1>10. \/ UNCHANGED vars
       \/ SentenceInit \/ ReadInput \/ ReadEnd \/ SubmitTask \/ StopPool \/ InStop
       \/ \E w \in Workers : InPool(w) \/ EndTask(w) \/ Spurious(w)
       \/ \E w \in Workers : InRun(w)
  BY DEF Next, MainStep, WorkerStep, InRun, Decides
<1> HIDE DEF PoolP!Next, PoolP!vars, PoolP!queueVars, PoolP!workerVars, PoolP!clientVars,
             PoolP!history, Pool!vars, Pool!queueVars, Pool!workerVars, Pool!clientVars,
             Pool!history, poolVars
<1>11. ASSUME NEW w \in Workers, PoolP!WorkerStep(w) \/ PoolP!SpuriousWakeWorker(w)
       PROVE  PoolP!Next
  BY <1>11 DEF PoolP!Next
<1>12. ASSUME UNCHANGED poolVars PROVE UNCHANGED PoolP!vars
  BY <1>12 DEF PoolP!vars, PoolP!queueVars, PoolP!workerVars, PoolP!clientVars,
             PoolP!history, poolVars
<1> QED BY <1>1, <1>2, <1>3, <1>4, <1>5, <1>6, <1>7, <1>8, <1>9, <1>10, <1>11, <1>12

\* What a step of the pool does to the threads: one that runs a task goes on with it,
\* one that has left does not come back.
PoolMoves ==
  /\ finished' = finished
  /\ \A w \in Workers :
       /\ wpc[w] = "run" => wpc'[w] = "run" /\ wtask'[w] = wtask[w]
       /\ wpc[w] = "exited" => wpc'[w] = "exited"

LEMMA NotifiedMoves ==
  ASSUME PoolP!IInv, ReaderInv, wpc' = Pool!NeededNotified, wtask' = wtask, finished' = finished
  PROVE  PoolMoves
BY PoolTypes DEF PoolMoves, Pool!NeededNotified

LEMMA InPoolMoves ==
  ASSUME PoolP!IInv, ReaderInv, ClientInv, NEW w \in Workers, InPool(w) \/ Spurious(w)
  PROVE  /\ PoolMoves /\ accepted' = accepted /\ ClientInv'
         /\ UNCHANGED <<bestVars, nBestVars, readerVars, olVars, runVars>>
<1>1. wpc \in [Workers -> {"top", "waiting", "awake", "run", "notify", "test", "exited"}]
      /\ wtask \in [Workers -> Lines \cup {None}] /\ DOMAIN cpc = {Main}
  BY PoolTypes
<1>2. UNCHANGED <<bestVars, nBestVars, readerVars, olVars, runVars>> /\ rpc' = rpc
  BY DEF InPool, Spurious, readerVars
<1>3. PoolMoves /\ accepted' = accepted
  BY <1>1 DEF InPool, Spurious, PoolMoves, Pool!WaitForTask, Pool!PopTask, Pool!FindNothing,
     Pool!NotifyAvailable, Pool!TestStopped, Pool!SpuriousWakeWorker, Pool!MayLook,
     Pool!queueVars, Pool!history
<1>4. cpc'[Main] = cpc[Main] \/ (cpc[Main] = "draining" /\ cpc'[Main] = "drain")
  BY DEF InPool, Spurious, Pool!WaitForTask, Pool!PopTask, Pool!FindNothing,
     Pool!NotifyAvailable, Pool!TestStopped, Pool!SpuriousWakeWorker,
     Pool!AvailableNotified, Pool!clientVars, ClientInv
<1> QED BY <1>2, <1>3, <1>4 DEF ClientInv, PoolMoves

LEMMA InStopMoves ==
  ASSUME PoolP!IInv, ReaderInv, ClientInv, InStop
  PROVE  /\ PoolMoves /\ accepted' = accepted /\ ClientInv'
         /\ UNCHANGED <<bestVars, nBestVars, readerVars, olVars, runVars>>
<1>1. wpc \in [Workers -> {"top", "waiting", "awake", "run", "notify", "test", "exited"}]
      /\ wtask \in [Workers -> Lines \cup {None}] /\ DOMAIN cpc = {Main}
  BY PoolTypes
<1>2. UNCHANGED <<bestVars, nBestVars, readerVars, olVars, runVars>> /\ rpc' = rpc
  BY DEF InStop, readerVars
<1>3. CASE Pool!AllReturned
  BY <1>2, <1>3 DEF Pool!AllReturned, Pool!vars, Pool!queueVars, Pool!workerVars,
     Pool!clientVars, Pool!history, PoolMoves, ClientInv
<1>4. CASE Pool!StopDrains(Main) \/ Pool!SpuriousWakeClient(Main)
  <2>1. PoolMoves /\ accepted' = accepted
    BY <1>4 DEF PoolMoves, Pool!StopDrains, Pool!SpuriousWakeClient, Pool!queueVars,
       Pool!workerVars, Pool!history
  <2>2. cpc[Main] \in {"drain", "draining"} /\ cpc'[Main] \in {"drain", "draining", "close"}
    BY <1>1, <1>4 DEF Pool!StopDrains, Pool!SpuriousWakeClient, ClientInv
  <2> QED BY <1>2, <2>1, <2>2 DEF ClientInv
<1>5. CASE Pool!StopCloses(Main)
  <2>1. PoolMoves /\ accepted' = accepted
    BY <1>5 DEF PoolMoves, Pool!StopCloses, Pool!workerVars, Pool!history
  <2>2. cpc[Main] = "close" /\ cpc'[Main] = "wake"
    BY <1>1, <1>5 DEF Pool!StopCloses
  <2> QED BY <1>2, <2>1, <2>2 DEF ClientInv
<1>6. CASE Pool!StopWakes(Main)
  <2>1. PoolMoves /\ accepted' = accepted
    BY <1>6, NotifiedMoves DEF Pool!StopWakes, Pool!history
  <2>2. cpc[Main] = "wake" /\ cpc'[Main] = "join"
    BY <1>1, <1>6 DEF Pool!StopWakes
  <2> QED BY <1>2, <2>1, <2>2 DEF ClientInv
<1>7. CASE Pool!StopJoins(Main)
  <2>1. PoolMoves /\ accepted' = accepted /\ wpc' = wpc
    BY <1>7 DEF PoolMoves, Pool!StopJoins, Pool!workerVars, Pool!history
  <2>2. cpc[Main] = "join" /\ cpc'[Main] = "returned" /\ \A w \in Workers : wpc[w] = "exited"
    BY <1>1, <1>7 DEF Pool!StopJoins
  <2> QED BY <1>2, <2>1, <2>2 DEF ClientInv
<1>8. ~Pool!SubmitRetries(Main)
  BY DEF ClientInv, Pool!SubmitRetries
<1> QED BY <1>3, <1>4, <1>5, <1>6, <1>7, <1>8, <1>2 DEF InStop, Pool!ClientStep

LEMMA SubmitMoves ==
  ASSUME PoolP!IInv, ReaderInv, ClientInv, SubmitTask
  PROVE  /\ PoolMoves /\ accepted' = Append(accepted, pos) /\ ClientInv'
         /\ rpc = "submit" /\ rpc' = "read"
         /\ UNCHANGED <<bestVars, nBestVars, input, pos, currentLine, translationId, olVars,
                        runVars>>
<1>1. Pool!Submit(Main, pos) /\ rpc = "submit" /\ rpc' = "read"
      /\ UNCHANGED <<bestVars, nBestVars, input, pos, currentLine, translationId, olVars,
                     runVars>>
  BY DEF SubmitTask
<1>2. /\ accepted' = Append(accepted, pos) /\ wpc' = Pool!NeededNotified
      /\ wtask' = wtask /\ finished' = finished /\ cpc' = cpc
  BY <1>1 DEF Pool!Submit, Pool!Push, Pool!clientVars
<1>3. PoolMoves
  BY <1>2, NotifiedMoves
<1> QED BY <1>1, <1>2, <1>3 DEF ClientInv

LEMMA StopMoves ==
  ASSUME PoolP!IInv, PoolP!Drained, ReaderInv, ClientInv, StopPool
  PROVE  /\ PoolMoves /\ accepted' = accepted /\ ClientInv'
         /\ rpc = "stop" /\ rpc' = "stopping"
         /\ UNCHANGED <<bestVars, nBestVars, input, pos, currentLine, translationId, olVars,
                        runVars>>
<1>1. Pool!StopBegins(Main, TRUE) /\ rpc = "stop" /\ rpc' = "stopping"
      /\ UNCHANGED <<bestVars, nBestVars, input, pos, currentLine, translationId, olVars,
                     runVars>>
  BY DEF StopPool
<1>2. DOMAIN cpc = {Main} /\ cpc[Main] = "idle"
  BY <1>1, PoolTypes DEF ClientInv
<1>3. ~stopped
  BY <1>2 DEF PoolP!Drained, PoolP!Closing
<1>4. PoolMoves /\ accepted' = accepted
  BY <1>1 DEF Pool!StopBegins, PoolMoves, Pool!workerVars, Pool!history
<1>5. cpc'[Main] = "drain"
  BY <1>1, <1>2, <1>3 DEF Pool!StopBegins
<1> QED BY <1>1, <1>4, <1>5 DEF ClientInv

-----------------------------------------------------------------------------
(* The main thread. *)

LEMMA ReaderKept ==
  ASSUME ReaderInv, UNCHANGED <<readerVars, olVars, accepted>>
  PROVE  ReaderInv'
<1>1. UNCHANGED <<input, pos, rpc, currentLine, translationId, learn, postedited, accepted>>
  BY DEF readerVars, olVars
<1>2. \A n : Counted(n)' = Counted(n)
  BY <1>1 DEF Counted, Counts
<1> QED BY <1>1, <1>2 DEF ReaderInv, LineSeen

LEMMA SubmitReader ==
  ASSUME PoolP!IInv, ReaderInv, ClientInv, SubmitTask
  PROVE  ReaderInv'
<1>1. /\ accepted' = Append(accepted, pos) /\ rpc = "submit" /\ rpc' = "read"
      /\ UNCHANGED <<input, pos, currentLine, translationId, learn, postedited>>
  BY SubmitMoves DEF olVars
<1>2. \A n : Counted(n)' = Counted(n)
  BY <1>1 DEF Counted, Counts
<1>3. accepted \in Seq(Lines) /\ pos \in Nat
  BY PoolTypes
<1>4. Len(accepted) = pos - 1 /\ pos > 0 /\ \A i \in 1..Len(accepted) : accepted[i] = i
  BY <1>1 DEF ReaderInv
<1>5. Len(accepted') = pos /\ \A i \in 1..Len(accepted') : accepted'[i] = i
  BY <1>1, <1>3, <1>4
<1> QED BY <1>1, <1>2, <1>5 DEF ReaderInv, LineSeen

LEMMA InitReader ==
  ASSUME ReaderInv, SentenceInit
  PROVE  ReaderInv'
<1>1. /\ rpc = "read" /\ pos < Len(input) /\ rpc' = "init"
      /\ UNCHANGED <<input, pos, currentLine, translationId, accepted>>
  BY DEF SentenceInit, poolVars
<1>2. \A n : Counted(n)' = Counted(n)
  BY <1>1 DEF Counted, Counts
<1>3. LineSeen' = pos + 1 /\ LineSeen' > 0
  BY <1>1, InputTypes DEF ReaderInv, LineSeen
<1>4. learn' = (LineSeen' > 0 /\ HasOL /\ input'[LineSeen'] = "postedit")
  <2>1. learn' = (HasOL /\ input[pos + 1] = "postedit")
    BY DEF SentenceInit
  <2> QED BY <1>1, <1>3, <2>1, Zenon
<1> QED BY <1>1, <1>2, <1>4 DEF ReaderInv

LEMMA ReadReader ==
  ASSUME ReaderInv, ReadInput
  PROVE  ReaderInv' /\ \A l \in 1..pos : translationId'[l] = translationId[l]
<1>1. /\ rpc = "init" /\ pos < Len(input) /\ pos' = pos + 1 /\ rpc' = "submit"
      /\ translationId' = [translationId EXCEPT ![pos'] = currentLine]
      /\ currentLine' = IF LineCounted(learn) THEN currentLine + 1 ELSE currentLine
      /\ input' = input /\ accepted' = accepted /\ learn' = learn
  BY DEF ReadInput, poolVars, ReaderInv
<1>2. \A n : Counted(n)' = Counted(n)
  BY <1>1 DEF Counted, Counts
<1>3. /\ pos \in Nat /\ pos' \in 1..Len(input) /\ pos' \in Lines /\ Len(input) \in Nat
      /\ input[pos'] \in LineKinds
  <2>1. pos \in Nat /\ Len(input) \in Nat /\ Len(input) <= MaxLines /\ input \in Seq(LineKinds)
    BY InputTypes DEF ReaderInv
  <2>2. pos' \in 1..Len(input)
    BY <1>1, <2>1
  <2>3. pos' \in Lines
    BY <2>1, <2>2, InputTypes DEF Lines, ReaderInv
  <2>4. input[pos'] \in LineKinds
    BY <2>1, <2>2
  <2> QED BY <2>1, <2>2, <2>3, <2>4
<1>4. currentLine = StartId + Counted(pos) /\ StartId \in Nat /\ Counted(pos) \in Nat
  BY <1>1, <1>3, InputTypes, CountedIs DEF ReaderInv
<1>5. Counted(pos') = IF Counts(pos') THEN Counted(pos) + 1 ELSE Counted(pos)
  BY <1>1, <1>3, CountedIs
<1>6. learn' = (LineSeen' > 0 /\ HasOL /\ input'[LineSeen'] = "postedit")
  <2>1. LineSeen' = LineSeen
    BY <1>1 DEF LineSeen
  <2>2. learn = (LineSeen > 0 /\ HasOL /\ input[LineSeen] = "postedit")
    BY DEF ReaderInv
  <2> QED BY <1>1, <2>1, <2>2, Zenon
<1>7. LineCounted(learn) <=> Counts(pos')
  <2>1. LineSeen = pos' /\ pos' > 0
    BY <1>1, <1>3 DEF LineSeen
  <2>2. learn <=> HasOL /\ input[pos'] = "postedit"
    BY <2>1, Zenon DEF ReaderInv
  <2> QED BY <1>3, <2>2 DEF LineCounted, Counts, LineKinds
<1>8. currentLine' = StartId + Counted(pos')
  BY <1>1, <1>4, <1>5, <1>7
<1>9. \A l \in 1..pos : translationId'[l] = translationId[l]
  BY <1>1, <1>3 DEF ReaderInv
<1>10. \A l \in 1..pos' : translationId'[l] = StartId + Counted(l - 1)
  <2>1. SUFFICES ASSUME NEW l \in 1..pos' PROVE translationId'[l] = StartId + Counted(l - 1)
    OBVIOUS
  <2>2. CASE l = pos'
    <3>1. l - 1 = pos
      BY <1>1, <1>3, <2>2
    <3> QED BY <1>1, <1>3, <1>4, <2>2, <3>1 DEF ReaderInv
  <2>3. CASE l # pos'
    <3>1. l \in 1..pos
      BY <1>1, <1>3, <2>3
    <3> QED BY <1>9, <3>1 DEF ReaderInv
  <2> QED BY <2>2, <2>3
<1>11. pos' > 0 /\ Len(accepted') = pos' - 1 /\ \A i \in 1..Len(accepted') : accepted'[i] = i
  BY <1>1, <1>3 DEF ReaderInv
<1>12. DOMAIN translationId' = Lines /\ pos' \in 0..Len(input) /\ input \in Inputs
  BY <1>1, <1>3 DEF ReaderInv
<1> QED BY <1>1, <1>2, <1>6, <1>8, <1>9, <1>10, <1>11, <1>12 DEF ReaderInv

LEMMA EndReader ==
  ASSUME ReaderInv, ReadEnd
  PROVE  ReaderInv'
<1>1. /\ rpc = "read" /\ pos = Len(input) /\ rpc' = "stop"
      /\ UNCHANGED <<input, pos, translationId, learn, postedited, accepted>>
  BY DEF ReadEnd, poolVars, olVars
<1>2. \A n : Counted(n)' = Counted(n)
  BY <1>1 DEF Counted, Counts
<1> QED BY <1>1, <1>2 DEF ReaderInv, LineSeen

LEMMA StopReader ==
  ASSUME PoolP!IInv, PoolP!Drained, ReaderInv, ClientInv, StopPool
  PROVE  ReaderInv'
<1>1. /\ accepted' = accepted /\ rpc = "stop" /\ rpc' = "stopping"
      /\ UNCHANGED <<input, pos, currentLine, translationId, learn, postedited>>
  BY StopMoves DEF olVars
<1>2. \A n : Counted(n)' = Counted(n)
  BY <1>1 DEF Counted, Counts
<1> QED BY <1>1, <1>2 DEF ReaderInv, LineSeen

-----------------------------------------------------------------------------
(* A collector, whatever its lines are. *)

\* Lines that are read and lines that are no longer asked for do not matter.
LEMMA CollectorKept ==
  ASSUME NEW ids, NEW next, NEW held, NEW str, NEW own, NEW looking, NEW reported,
         CollectorOk(ids, next, held, str, own, looking, reported),
         NEW ids2, DOMAIN ids \subseteq DOMAIN ids2, \A l \in DOMAIN ids : ids2[l] = ids[l],
         NEW reported2, reported2 \subseteq reported
  PROVE  CollectorOk(ids2, next, held, str, own, looking, reported2)
BY DEF CollectorOk

\* The stream grows by the line expected.
LEMMA StreamGrows ==
  ASSUME NEW ids, NEW next \in Nat, NEW str \in Seq(Lines), Len(str) = next,
         \A j \in 1..Len(str) : str[j] \in DOMAIN ids /\ ids[str[j]] = j - 1,
         NEW l \in Lines, l \in DOMAIN ids, ids[l] = next
  PROVE  /\ next + 1 \in Nat /\ Len(Append(str, l)) = next + 1 /\ Append(str, l) \in Seq(Lines)
         /\ \A j \in 1..Len(Append(str, l)) :
              Append(str, l)[j] \in DOMAIN ids /\ ids[Append(str, l)[j]] = j - 1
<1>1. next + 1 \in Nat /\ Len(Append(str, l)) = next + 1 /\ Append(str, l) \in Seq(Lines)
  OBVIOUS
<1>2. ASSUME NEW j \in 1..(next + 1)
      PROVE  Append(str, l)[j] \in DOMAIN ids /\ ids[Append(str, l)[j]] = j - 1
  <2>1. CASE j = next + 1
    <3>1. Append(str, l)[j] = l /\ j - 1 = next
      BY <2>1
    <3> QED BY <3>1
  <2>2. CASE j # next + 1
    <3>1. j \in 1..Len(str) /\ Append(str, l)[j] = str[j]
      BY <2>2
    <3> QED BY <3>1
  <2> QED BY <2>1, <2>2
<1> QED BY <1>1, <1>2

\* Write of the line expected.
LEMMA CollectorWrites ==
  ASSUME NEW ids \in [1..pos -> Nat], NEW next, NEW held, NEW str, NEW looking, NEW reported,
         CollectorOk(ids, next, held, str, None, looking, reported),
         NEW l \in Lines, l \in DOMAIN ids, ids[l] = next, NEW w \in Workers,
         NEW reported2, reported2 \subseteq reported \cup {l}
  PROVE  CollectorOk(ids, next + 1, held, Append(str, l), w, {w}, reported2)
<1>1. w # None
  BY BatchAssumption
<1>2. /\ next + 1 \in Nat /\ Len(Append(str, l)) = next + 1 /\ Append(str, l) \in Seq(Lines)
      /\ \A j \in 1..Len(Append(str, l)) :
           Append(str, l)[j] \in DOMAIN ids /\ ids[Append(str, l)[j]] = j - 1
  BY StreamGrows DEF CollectorOk
<1>3. ASSUME NEW m \in reported2
      PROVE  m \in DOMAIN ids /\ (ids[m] < next + 1 \/ ids[m] \in DOMAIN held)
  <2>1. next \in Nat
    BY DEF CollectorOk
  <2>2. CASE m = l
    BY <2>1, <2>2
  <2>3. CASE m # l
    <3>1. m \in DOMAIN ids /\ (ids[m] < next \/ ids[m] \in DOMAIN held)
      BY <1>3, <2>3 DEF CollectorOk
    <3>2. ids[m] \in Nat
      BY <3>1
    <3> QED BY <2>1, <3>1, <3>2
  <2> QED BY <2>2, <2>3
<1> QED BY <1>1, <1>2, <1>3 DEF CollectorOk

\* Write of another line.
LEMMA CollectorHolds ==
  ASSUME NEW ids, NEW next, NEW held, NEW str, NEW looking, NEW reported,
         CollectorOk(ids, next, held, str, None, looking, reported),
         NEW l, l \in DOMAIN ids, ids[l] # next,
         NEW held2,
         held2 = [i \in DOMAIN held \cup {ids[l]} |-> IF i = ids[l] THEN l ELSE held[i]],
         NEW reported2, reported2 \subseteq reported \cup {l}
  PROVE  CollectorOk(ids, next, held2, str, None, looking, reported2)
BY DEF CollectorOk

\* The loop of Write puts out a line held back.
LEMMA CollectorFlushes ==
  ASSUME NEW ids \in [1..pos -> Nat], 1..pos \subseteq Lines,
         NEW next, NEW held, NEW str, NEW w \in Workers, NEW looking, NEW reported,
         CollectorOk(ids, next, held, str, w, looking, reported), next \in DOMAIN held,
         NEW held2, DOMAIN held2 = DOMAIN held \ {next},
         \A i \in DOMAIN held2 : held2[i] = held[i]
  PROVE  CollectorOk(ids, next + 1, held2, Append(str, held[next]), w, looking, reported)
<1>1. w # None
  BY BatchAssumption
<1>2. held[next] \in DOMAIN ids /\ ids[held[next]] = next /\ held[next] \in Lines
  BY DEF CollectorOk
<1>3. /\ next + 1 \in Nat /\ Len(Append(str, held[next])) = next + 1
      /\ Append(str, held[next]) \in Seq(Lines)
      /\ \A j \in 1..Len(Append(str, held[next])) :
           Append(str, held[next])[j] \in DOMAIN ids /\ ids[Append(str, held[next])[j]] = j - 1
  BY <1>2, StreamGrows DEF CollectorOk
<1>4. ASSUME NEW m \in reported
      PROVE  m \in DOMAIN ids /\ (ids[m] < next + 1 \/ ids[m] \in DOMAIN held2)
  <2>1. m \in DOMAIN ids /\ (ids[m] < next \/ ids[m] \in DOMAIN held) /\ next \in Nat
    BY <1>4 DEF CollectorOk
  <2>2. ids[m] \in Nat
    BY <2>1
  <2>3. CASE ids[m] < next
    BY <2>1, <2>2, <2>3
  <2>4. CASE ids[m] = next
    BY <2>1, <2>4
  <2>5. CASE ids[m] # next /\ ids[m] \in DOMAIN held
    BY <2>1, <2>5
  <2> QED BY <2>1, <2>3, <2>4, <2>5
<1>5. \A i \in DOMAIN held2 : held2[i] \in DOMAIN ids /\ ids[held2[i]] = i
  BY DEF CollectorOk
<1>6. looking = {w}
  BY <1>1 DEF CollectorOk
<1> QED BY <1>1, <1>3, <1>4, <1>5, <1>6 DEF CollectorOk

\* Nothing held back is expected: Write returns.
LEMMA CollectorEnds ==
  ASSUME NEW ids, NEW next, NEW held, NEW str, NEW own, NEW looking, NEW reported,
         CollectorOk(ids, next, held, str, own, looking, reported), next \notin DOMAIN held
  PROVE  CollectorOk(ids, next, held, str, None, {}, reported)
BY DEF CollectorOk

-----------------------------------------------------------------------------
(* The two collectors of batch_run. *)

LEMMA IdsReadAre ==
  ASSUME PoolP!IInv, ReaderInv
  PROVE  /\ IdsRead \in [1..pos -> Nat] /\ 1..pos \subseteq Lines
         /\ \A w \in Workers : wpc[w] = "run" =>
              /\ wtask[w] \in 1..pos /\ wtask[w] \in Lines /\ wtask[w] \notin finished
              /\ IdOf(w) = IdsRead[wtask[w]]
<1>1. ASSUME NEW l \in 1..pos PROVE translationId[l] \in Nat
  <2>1. l - 1 \in Nat
    BY PoolTypes
  <2>2. Counted(l - 1) \in Nat /\ StartId \in Nat
    BY <2>1, CountedIs, BatchAssumption
  <2> QED BY <2>2 DEF ReaderInv
<1> QED BY <1>1, PoolTypes DEF IdsRead, IdOf

\* The steps of the main thread and those inside the pool leave the collectors alone.
LEMMA CollectorsKept ==
  ASSUME PoolP!IInv, ReaderInv, WorkerInv, NBestInv, BestInv, PoolMoves,
         UNCHANGED <<bestVars, nBestVars, phase, input>>,
         pos' \in Nat, pos <= pos', \A l \in 1..pos : translationId'[l] = translationId[l]
  PROVE  WorkerInv' /\ NBestInv' /\ BestInv'
<1>1. UNCHANGED <<nextNBest, heldNBest, nBestStream, nBestOwner, phase>>
      /\ UNCHANGED <<nextBest, heldBest, bestStream, bestOwner>>
  BY DEF bestVars, nBestVars
<1>2. WorkerInv'
  BY <1>1 DEF WorkerInv, PoolMoves
<1>3. pos \in Nat /\ finished \subseteq 1..pos
  BY PoolTypes
<1>4. DOMAIN IdsRead \subseteq DOMAIN IdsRead' /\ \A l \in DOMAIN IdsRead : IdsRead'[l] = IdsRead[l]
  BY <1>3 DEF IdsRead
<1>5. ASSUME NEW P, "decode" \notin P PROVE Past(P)' \subseteq Past(P)
  <2>1. SUFFICES ASSUME NEW l \in Past(P)' PROVE l \in Past(P)
    OBVIOUS
  <2>2. CASE l \in finished'
    BY <1>3, <2>2 DEF Past, PoolMoves
  <2>3. ASSUME NEW w \in Workers, phase'[w] \in P, wtask'[w] = l
        PROVE  l \in Past(P)
    <3>1. wpc[w] = "run" /\ phase[w] \in P
      BY <1>1, <1>5, <2>3 DEF WorkerInv
    <3>2. wtask[w] = l
      BY <2>3, <3>1 DEF PoolMoves
    <3> QED BY <3>1, <3>2, PoolTypes DEF Past
  <2> QED BY <2>1, <2>2, <2>3 DEF Past
<1>6. NBestReported' \subseteq NBestReported
  <2>1. Past({"nbestLoop", "done"})' \subseteq Past({"nbestLoop", "done"})
    BY <1>5
  <2> QED BY <2>1 DEF NBestReported
<1>7. BestReported' \subseteq BestReported
  <2>1. Past({"bestLoop", "nbest", "nbestLoop", "done"})'
          \subseteq Past({"bestLoop", "nbest", "nbestLoop", "done"})
    BY <1>5
  <2>2. \A l : Clear(l)' <=> Clear(l)
    BY DEF Clear
  <2> QED BY <2>1, <2>2 DEF BestReported
<1>8. \A p : At(p)' = At(p)
  BY <1>1 DEF At
<1>9. NBestInv'
  <2>1. CollectorOk(IdsRead', nextNBest, heldNBest, nBestStream, nBestOwner, At("nbestLoop"),
                    NBestReported')
    BY <1>4, <1>6, CollectorKept DEF NBestInv
  <2> QED BY <1>1, <1>8, <2>1 DEF NBestInv
<1>10. BestInv'
  <2>1. CollectorOk(IdsRead', nextBest, heldBest, bestStream, bestOwner, At("bestLoop"),
                    BestReported')
    BY <1>4, <1>7, CollectorKept DEF BestInv
  <2> QED BY <1>1, <1>8, <2>1 DEF BestInv
<1> QED BY <1>2, <1>9, <1>10

\* A worker goes on with its task to q.
LEMMA WorkerGoesOn ==
  ASSUME PoolP!IInv, ReaderInv, WorkerInv, NEW w \in Workers, InRun(w), NEW q \in Phases,
         phase' = [phase EXCEPT ![w] = q]
  PROVE  /\ WorkerInv' /\ IdsRead' = IdsRead
         /\ \A l : Clear(l)' <=> Clear(l)
         /\ \A P : q \notin P => Past(P)' \subseteq Past(P)
         /\ \A P : Past(P)' \subseteq Past(P) \cup {wtask[w]}
         /\ \A P : phase[w] \in P => Past(P)' \subseteq Past(P)
         /\ \A p : At(p)' = IF p = q THEN At(p) \cup {w} ELSE At(p) \ {w}
<1>1. wpc[w] = "run" /\ UNCHANGED <<wpc, wtask, finished, input, pos, translationId>>
  BY RunFrame
<1>2. WorkerInv'
  BY <1>1 DEF WorkerInv
<1>3. IdsRead' = IdsRead /\ \A l : Clear(l)' <=> Clear(l)
  BY <1>1 DEF IdsRead, Clear
<1>4. /\ \A P : q \notin P => Past(P)' \subseteq Past(P)
      /\ \A P : Past(P)' \subseteq Past(P) \cup {wtask[w]}
      /\ \A P : phase[w] \in P => Past(P)' \subseteq Past(P)
  BY <1>1 DEF Past, WorkerInv
<1>5. \A p : At(p)' = IF p = q THEN At(p) \cup {w} ELSE At(p) \ {w}
  BY DEF At, WorkerInv
<1> QED BY <1>2, <1>3, <1>4, <1>5

\* What a worker does between its outputs.
LEMMA NBestUnconcerned ==
  ASSUME PoolP!IInv, ReaderInv, WorkerInv, NBestInv, NEW w \in Workers, InRun(w),
         NEW q \in Phases, phase' = [phase EXCEPT ![w] = q],
         phase[w] \notin {"nbestLoop", "done"}, q \notin {"nbestLoop", "done"},
         UNCHANGED nBestVars
  PROVE  NBestInv'
<1>1. UNCHANGED <<nextNBest, heldNBest, nBestStream, nBestOwner>> /\ IdsRead' = IdsRead
  BY WorkerGoesOn DEF nBestVars
<1>2. At("nbestLoop")' = At("nbestLoop")
  <2>1. At("nbestLoop")' = At("nbestLoop") \ {w}
    BY WorkerGoesOn
  <2> QED BY <2>1 DEF At
<1>3. NBestReported' \subseteq NBestReported
  <2>1. Past({"nbestLoop", "done"})' \subseteq Past({"nbestLoop", "done"})
    BY WorkerGoesOn
  <2> QED BY <2>1 DEF NBestReported
<1>4. CollectorOk(IdsRead, nextNBest, heldNBest, nBestStream, nBestOwner, At("nbestLoop"),
                  NBestReported')
  BY <1>3, CollectorKept DEF NBestInv
<1> QED BY <1>1, <1>2, <1>4 DEF NBestInv

LEMMA BestUnconcerned ==
  ASSUME PoolP!IInv, ReaderInv, WorkerInv, BestInv, NEW w \in Workers, InRun(w),
         NEW q \in Phases, phase' = [phase EXCEPT ![w] = q],
         phase[w] # "bestLoop", q # "bestLoop", BestReported' \subseteq BestReported,
         UNCHANGED bestVars
  PROVE  BestInv'
<1>1. UNCHANGED <<nextBest, heldBest, bestStream, bestOwner>> /\ IdsRead' = IdsRead
  BY WorkerGoesOn DEF bestVars
<1>2. At("bestLoop")' = At("bestLoop")
  <2>1. At("bestLoop")' = At("bestLoop") \ {w}
    BY WorkerGoesOn
  <2> QED BY <2>1 DEF At
<1>3. CollectorOk(IdsRead, nextBest, heldBest, bestStream, bestOwner, At("bestLoop"),
                  BestReported')
  BY CollectorKept DEF BestInv
<1> QED BY <1>1, <1>2, <1>3 DEF BestInv

\* A list is reported: output if it is the one expected, held back otherwise.
LEMMA NBestReports ==
  ASSUME PoolP!IInv, ReaderInv, WorkerInv, NBestInv, NEW w \in Workers, OutputNBest(w)
  PROVE  WorkerInv' /\ NBestInv'
<1>0. InRun(w) /\ wpc[w] = "run" /\ phase[w] = "nbest"
  BY DEF InRun, OutputNBest, Running
<1>1. /\ IdsRead \in [1..pos -> Nat] /\ 1..pos \subseteq Lines
      /\ wtask[w] \in Lines /\ wtask[w] \in DOMAIN IdsRead /\ IdOf(w) = IdsRead[wtask[w]]
  BY <1>0, IdsReadAre
<1>2. CASE HasNBest /\ NBest!WriteExpected(w, IdOf(w), wtask[w])
           /\ phase' = [phase EXCEPT ![w] = "nbestLoop"]
  <2>1. /\ nBestOwner = None /\ IdOf(w) = nextNBest /\ nBestOwner' = w
        /\ nBestStream' = Append(nBestStream, wtask[w]) /\ nextNBest' = nextNBest + 1
        /\ heldNBest' = heldNBest
    BY <1>2 DEF NBest!WriteExpected
  <2>2. /\ WorkerInv' /\ IdsRead' = IdsRead
        /\ Past({"nbestLoop", "done"})' \subseteq Past({"nbestLoop", "done"}) \cup {wtask[w]}
        /\ At("nbestLoop")' = At("nbestLoop") \cup {w}
    BY <1>0, <1>2, WorkerGoesOn DEF Phases
  <2>3. At("nbestLoop")' = {w}
    BY <2>1, <2>2 DEF NBestInv, CollectorOk
  <2>4. NBestReported' \subseteq NBestReported \cup {wtask[w]}
    BY <2>2 DEF NBestReported
  <2>5. CollectorOk(IdsRead, nextNBest, heldNBest, nBestStream, None, At("nbestLoop"),
                    NBestReported)
    BY <2>1 DEF NBestInv
  <2>6. CollectorOk(IdsRead, nextNBest + 1, heldNBest, Append(nBestStream, wtask[w]), w, {w},
                    NBestReported')
    BY <1>1, <2>1, <2>4, <2>5, CollectorWrites
  <2> QED BY <2>1, <2>2, <2>3, <2>6 DEF NBestInv
<1>3. CASE HasNBest /\ NBest!HoldBack(w, IdOf(w), wtask[w])
           /\ phase' = [phase EXCEPT ![w] = "done"]
  <2>1. /\ nBestOwner = None /\ IdOf(w) # nextNBest
        /\ UNCHANGED <<nextNBest, nBestStream, nBestOwner>>
        /\ heldNBest' = [i \in DOMAIN heldNBest \cup {IdOf(w)} |->
                          IF i = IdOf(w) THEN wtask[w] ELSE heldNBest[i]]
    BY <1>3 DEF NBest!HoldBack
  <2>2. /\ WorkerInv' /\ IdsRead' = IdsRead
        /\ Past({"nbestLoop", "done"})' \subseteq Past({"nbestLoop", "done"}) \cup {wtask[w]}
        /\ At("nbestLoop")' = At("nbestLoop") \ {w}
    BY <1>0, <1>3, WorkerGoesOn DEF Phases
  <2>3. At("nbestLoop")' = At("nbestLoop")
    BY <1>0, <2>2 DEF At
  <2>4. NBestReported' \subseteq NBestReported \cup {wtask[w]}
    BY <2>2 DEF NBestReported
  <2>5. CollectorOk(IdsRead, nextNBest, heldNBest, nBestStream, None, At("nbestLoop"),
                    NBestReported)
    BY <2>1 DEF NBestInv
  <2>6. /\ IdsRead[wtask[w]] # nextNBest
        /\ heldNBest' = [i \in DOMAIN heldNBest \cup {IdsRead[wtask[w]]} |->
                          IF i = IdsRead[wtask[w]] THEN wtask[w] ELSE heldNBest[i]]
    BY <1>1, <2>1
  <2>7. CollectorOk(IdsRead, nextNBest, heldNBest', nBestStream, None, At("nbestLoop"),
                    NBestReported')
    BY <1>1, <2>4, <2>5, <2>6, CollectorHolds
  <2> QED BY <2>1, <2>2, <2>3, <2>7 DEF NBestInv
<1>4. CASE ~HasNBest /\ UNCHANGED nBestVars /\ phase' = [phase EXCEPT ![w] = "done"]
  <2>1. UNCHANGED <<nextNBest, heldNBest, nBestStream, nBestOwner>>
    BY <1>4 DEF nBestVars
  <2>2. WorkerInv' /\ IdsRead' = IdsRead /\ At("nbestLoop")' = At("nbestLoop") \ {w}
    BY <1>0, <1>4, WorkerGoesOn DEF Phases
  <2>3. At("nbestLoop")' = At("nbestLoop")
    BY <1>0, <2>2 DEF At
  <2>4. NBestReported' = NBestReported
    BY <1>4 DEF NBestReported
  <2> QED BY <2>1, <2>2, <2>3, <2>4 DEF NBestInv
<1> QED BY <1>2, <1>3, <1>4 DEF OutputNBest

\* The loop of Write: the lists that were held back for the one just output.
LEMMA NBestLoops ==
  ASSUME PoolP!IInv, ReaderInv, WorkerInv, NBestInv, NEW w \in Workers, NBestLoop(w)
  PROVE  WorkerInv' /\ NBestInv'
<1>0. InRun(w) /\ wpc[w] = "run" /\ phase[w] = "nbestLoop"
  BY DEF InRun, NBestLoop, Running
<1>1. IdsRead \in [1..pos -> Nat] /\ 1..pos \subseteq Lines
  BY IdsReadAre
<1>2. CASE NBest!Flush(w) /\ UNCHANGED phase
  <2>1. /\ nBestOwner = w /\ nBestOwner' = w /\ nextNBest \in DOMAIN heldNBest
        /\ nBestStream' = Append(nBestStream, heldNBest[nextNBest])
        /\ nextNBest' = nextNBest + 1
        /\ DOMAIN heldNBest' = DOMAIN heldNBest \ {nextNBest}
        /\ \A i \in DOMAIN heldNBest' : heldNBest'[i] = heldNBest[i]
    BY <1>2 DEF NBest!Flush
  <2>2. UNCHANGED <<phase, wpc, wtask, finished, pos, translationId>>
    BY <1>0, <1>2, RunFrame
  <2>3. /\ WorkerInv' /\ IdsRead' = IdsRead /\ At("nbestLoop")' = At("nbestLoop")
        /\ NBestReported' = NBestReported
    BY <2>2 DEF WorkerInv, IdsRead, At, NBestReported, Past
  <2>4. CollectorOk(IdsRead, nextNBest + 1, heldNBest', Append(nBestStream, heldNBest[nextNBest]),
                    w, At("nbestLoop"), NBestReported)
    BY <1>1, <2>1, CollectorFlushes DEF NBestInv
  <2> QED BY <2>1, <2>3, <2>4 DEF NBestInv
<1>3. CASE NBest!EndWrite(w) /\ phase' = [phase EXCEPT ![w] = "done"]
  <2>1. /\ nBestOwner = w /\ nextNBest \notin DOMAIN heldNBest /\ nBestOwner' = None
        /\ UNCHANGED <<nextNBest, heldNBest, nBestStream>>
    BY <1>3 DEF NBest!EndWrite
  <2>2. /\ WorkerInv' /\ IdsRead' = IdsRead
        /\ Past({"nbestLoop", "done"})' \subseteq Past({"nbestLoop", "done"})
        /\ At("nbestLoop")' = At("nbestLoop") \ {w}
    BY <1>0, <1>3, WorkerGoesOn DEF Phases
  <2>3. At("nbestLoop")' = {}
    BY <2>1, <2>2 DEF NBestInv, CollectorOk
  <2>4. NBestReported' \subseteq NBestReported
    BY <2>2 DEF NBestReported
  <2>5. CollectorOk(IdsRead, nextNBest, heldNBest, nBestStream, nBestOwner, At("nbestLoop"),
                    NBestReported')
    BY <2>4, CollectorKept DEF NBestInv
  <2>6. CollectorOk(IdsRead, nextNBest, heldNBest, nBestStream, None, {}, NBestReported')
    BY <2>1, <2>5, CollectorEnds
  <2> QED BY <2>1, <2>2, <2>3, <2>6 DEF NBestInv
<1> QED BY <1>2, <1>3 DEF NBestLoop

\* When the main thread has read as far as a line after which there is no post-edit, m_learn
\* is off: OutputBest reports the line.
LEMMA LearnIsOff ==
  ASSUME ReaderInv, HasOL, NEW l \in 1..pos, Clear(l)
  PROVE  ~learn
<1>1. pos \in Nat /\ pos <= Len(input) /\ Len(input) \in Nat /\ l \in Nat
  BY InputTypes DEF ReaderInv
<1>2. LineSeen \in l..Len(input)
  BY <1>1 DEF ReaderInv, LineSeen
<1>3. input[LineSeen] = "translate"
  BY <1>2 DEF Clear
<1>4. learn = (LineSeen > 0 /\ HasOL /\ input[LineSeen] = "postedit")
  BY DEF ReaderInv
<1>5. ~(input[LineSeen] = "postedit")
  BY <1>3
<1> QED BY <1>4, <1>5, Zenon

\* A translation is reported, or OutputBest takes the line for a post-edit.
LEMMA BestReports ==
  ASSUME PoolP!IInv, ReaderInv, WorkerInv, BestInv, NEW w \in Workers, OutputBest(w)
  PROVE  WorkerInv' /\ BestInv'
<1> DEFINE After == {"bestLoop", "nbest", "nbestLoop", "done"}
<1>0. InRun(w) /\ wpc[w] = "run" /\ phase[w] = "best"
  BY DEF InRun, OutputBest, Running
<1>1. /\ IdsRead \in [1..pos -> Nat] /\ 1..pos \subseteq Lines /\ wtask[w] \in 1..pos
      /\ wtask[w] \in Lines /\ wtask[w] \in DOMAIN IdsRead /\ IdOf(w) = IdsRead[wtask[w]]
  BY <1>0, IdsReadAre
<1>2. CASE Best!WriteExpected(w, IdOf(w), wtask[w]) /\ phase' = [phase EXCEPT ![w] = "bestLoop"]
  <2>1. /\ bestOwner = None /\ IdOf(w) = nextBest /\ bestOwner' = w
        /\ bestStream' = Append(bestStream, wtask[w]) /\ nextBest' = nextBest + 1
        /\ heldBest' = heldBest
    BY <1>2 DEF Best!WriteExpected
  <2>2. /\ WorkerInv' /\ IdsRead' = IdsRead /\ \A l : Clear(l)' <=> Clear(l)
        /\ Past(After)' \subseteq Past(After) \cup {wtask[w]}
        /\ At("bestLoop")' = At("bestLoop") \cup {w}
    BY <1>0, <1>2, WorkerGoesOn DEF Phases
  <2>3. At("bestLoop")' = {w}
    BY <2>1, <2>2 DEF BestInv, CollectorOk
  <2>4. BestReported' \subseteq BestReported \cup {wtask[w]}
    BY <2>2 DEF BestReported
  <2>5. CollectorOk(IdsRead, nextBest, heldBest, bestStream, None, At("bestLoop"), BestReported)
    BY <2>1 DEF BestInv
  <2>6. CollectorOk(IdsRead, nextBest + 1, heldBest, Append(bestStream, wtask[w]), w, {w},
                    BestReported')
    BY <1>1, <2>1, <2>4, <2>5, CollectorWrites
  <2> QED BY <2>1, <2>2, <2>3, <2>6 DEF BestInv
<1>3. CASE Best!HoldBack(w, IdOf(w), wtask[w]) /\ phase' = [phase EXCEPT ![w] = "nbest"]
  <2>1. /\ bestOwner = None /\ IdOf(w) # nextBest
        /\ UNCHANGED <<nextBest, bestStream, bestOwner>>
        /\ heldBest' = [i \in DOMAIN heldBest \cup {IdOf(w)} |->
                          IF i = IdOf(w) THEN wtask[w] ELSE heldBest[i]]
    BY <1>3 DEF Best!HoldBack
  <2>2. /\ WorkerInv' /\ IdsRead' = IdsRead /\ \A l : Clear(l)' <=> Clear(l)
        /\ Past(After)' \subseteq Past(After) \cup {wtask[w]}
        /\ At("bestLoop")' = At("bestLoop") \ {w}
    BY <1>0, <1>3, WorkerGoesOn DEF Phases
  <2>3. At("bestLoop")' = At("bestLoop")
    BY <1>0, <2>2 DEF At
  <2>4. BestReported' \subseteq BestReported \cup {wtask[w]}
    BY <2>2 DEF BestReported
  <2>5. CollectorOk(IdsRead, nextBest, heldBest, bestStream, None, At("bestLoop"), BestReported)
    BY <2>1 DEF BestInv
  <2>6. /\ IdsRead[wtask[w]] # nextBest
        /\ heldBest' = [i \in DOMAIN heldBest \cup {IdsRead[wtask[w]]} |->
                          IF i = IdsRead[wtask[w]] THEN wtask[w] ELSE heldBest[i]]
    BY <1>1, <2>1
  <2>7. CollectorOk(IdsRead, nextBest, heldBest', bestStream, None, At("bestLoop"), BestReported')
    BY <1>1, <2>4, <2>5, <2>6, CollectorHolds
  <2> QED BY <2>1, <2>2, <2>3, <2>7 DEF BestInv
<1>4. CASE ~(HasOL /\ ~learn) /\ UNCHANGED bestVars /\ phase' = [phase EXCEPT ![w] = "nbest"]
  <2>1. /\ WorkerInv' /\ \A l : Clear(l)' <=> Clear(l)
        /\ Past(After)' \subseteq Past(After) \cup {wtask[w]}
    BY <1>0, <1>4, WorkerGoesOn DEF Phases
  <2>2. ~(HasOL /\ Clear(wtask[w]))
    BY <1>1, <1>4, LearnIsOff
  <2>3. BestReported' \subseteq BestReported
    BY <2>1, <2>2 DEF BestReported
  <2> QED BY <1>0, <1>4, <2>1, <2>3, BestUnconcerned DEF Phases
<1>5. \/ /\ HasOL /\ ~learn
         /\ \/ /\ Best!WriteExpected(w, IdOf(w), wtask[w])
               /\ phase' = [phase EXCEPT ![w] = "bestLoop"]
            \/ /\ Best!HoldBack(w, IdOf(w), wtask[w])
               /\ phase' = [phase EXCEPT ![w] = "nbest"]
      \/ /\ ~(HasOL /\ ~learn) /\ UNCHANGED bestVars
         /\ phase' = [phase EXCEPT ![w] = "nbest"]
  BY Zenon DEF OutputBest
<1> QED BY <1>2, <1>3, <1>4, <1>5

LEMMA BestLoops ==
  ASSUME PoolP!IInv, ReaderInv, WorkerInv, BestInv, NEW w \in Workers, BestLoop(w)
  PROVE  WorkerInv' /\ BestInv'
<1>0. InRun(w) /\ wpc[w] = "run" /\ phase[w] = "bestLoop"
  BY DEF InRun, BestLoop, Running
<1>1. IdsRead \in [1..pos -> Nat] /\ 1..pos \subseteq Lines
  BY IdsReadAre
<1>2. CASE Best!Flush(w) /\ UNCHANGED phase
  <2>1. /\ bestOwner = w /\ bestOwner' = w /\ nextBest \in DOMAIN heldBest
        /\ bestStream' = Append(bestStream, heldBest[nextBest])
        /\ nextBest' = nextBest + 1
        /\ DOMAIN heldBest' = DOMAIN heldBest \ {nextBest}
        /\ \A i \in DOMAIN heldBest' : heldBest'[i] = heldBest[i]
    BY <1>2 DEF Best!Flush
  <2>2. UNCHANGED <<phase, wpc, wtask, finished, input, pos, translationId>>
    BY <1>0, <1>2, RunFrame
  <2>3. /\ WorkerInv' /\ IdsRead' = IdsRead /\ At("bestLoop")' = At("bestLoop")
        /\ BestReported' = BestReported
    BY <2>2 DEF WorkerInv, IdsRead, At, BestReported, Past, Clear
  <2>4. CollectorOk(IdsRead, nextBest + 1, heldBest', Append(bestStream, heldBest[nextBest]),
                    w, At("bestLoop"), BestReported)
    BY <1>1, <2>1, CollectorFlushes DEF BestInv
  <2> QED BY <2>1, <2>3, <2>4 DEF BestInv
<1>3. CASE Best!EndWrite(w) /\ phase' = [phase EXCEPT ![w] = "nbest"]
  <2>1. /\ bestOwner = w /\ nextBest \notin DOMAIN heldBest /\ bestOwner' = None
        /\ UNCHANGED <<nextBest, heldBest, bestStream>>
    BY <1>3 DEF Best!EndWrite
  <2>2. /\ WorkerInv' /\ IdsRead' = IdsRead /\ \A l : Clear(l)' <=> Clear(l)
        /\ Past({"bestLoop", "nbest", "nbestLoop", "done"})'
             \subseteq Past({"bestLoop", "nbest", "nbestLoop", "done"})
        /\ At("bestLoop")' = At("bestLoop") \ {w}
    BY <1>0, <1>3, WorkerGoesOn DEF Phases
  <2>3. At("bestLoop")' = {}
    BY <2>1, <2>2 DEF BestInv, CollectorOk
  <2>4. BestReported' \subseteq BestReported
    BY <2>2 DEF BestReported
  <2>5. CollectorOk(IdsRead, nextBest, heldBest, bestStream, bestOwner, At("bestLoop"),
                    BestReported')
    BY <2>4, CollectorKept DEF BestInv
  <2>6. CollectorOk(IdsRead, nextBest, heldBest, bestStream, None, {}, BestReported')
    BY <2>1, <2>5, CollectorEnds
  <2> QED BY <2>1, <2>2, <2>3, <2>6 DEF BestInv
<1> QED BY <1>2, <1>3 DEF BestLoop

\* The steps of a worker while it runs a task.
LEMMA RunKeeps ==
  ASSUME PoolP!IInv, ReaderInv, ClientInv, WorkerInv, NBestInv, BestInv,
         NEW w \in Workers, InRun(w)
  PROVE  ReaderInv' /\ ClientInv' /\ WorkerInv' /\ NBestInv' /\ BestInv'
<1>1. UNCHANGED <<readerVars, olVars, accepted, cpc, wpc, rpc>>
  BY RunFrame
<1>2. ReaderInv' /\ ClientInv'
  BY <1>1, ReaderKept DEF ClientInv
<1>3. CASE Decides(w)
  <2>1. /\ phase[w] \in {"decode", "learn", "test", "again"} /\ UNCHANGED <<bestVars, nBestVars>>
        /\ \E q \in {"learn", "test", "again", "best"} : phase' = [phase EXCEPT ![w] = q]
    BY <1>3 DEF Decides, Decode, Learn, TestLearning, DecodeAgain, EndDecoding, Running, LearnsOr
  <2>2. PICK q \in {"learn", "test", "again", "best"} : phase' = [phase EXCEPT ![w] = q]
    BY <2>1
  <2>3. q \in Phases /\ q \notin {"bestLoop", "nbest", "nbestLoop", "done"}
    BY DEF Phases
  <2>4. /\ WorkerInv' /\ \A l : Clear(l)' <=> Clear(l)
        /\ Past({"bestLoop", "nbest", "nbestLoop", "done"})'
             \subseteq Past({"bestLoop", "nbest", "nbestLoop", "done"})
    BY <2>2, <2>3, WorkerGoesOn
  <2>5. BestReported' \subseteq BestReported
    BY <2>4 DEF BestReported
  <2>6. NBestInv' /\ BestInv'
    BY <2>1, <2>2, <2>3, <2>5, NBestUnconcerned, BestUnconcerned
  <2> QED BY <1>2, <2>4, <2>6
<1>4. CASE OutputBest(w)
  <2>1. /\ phase[w] = "best" /\ UNCHANGED nBestVars
        /\ \E q \in {"bestLoop", "nbest"} : phase' = [phase EXCEPT ![w] = q]
    BY <1>4 DEF OutputBest, Running
  <2>2. PICK q \in {"bestLoop", "nbest"} : phase' = [phase EXCEPT ![w] = q]
    BY <2>1
  <2>3. q \in Phases /\ q \notin {"nbestLoop", "done"}
    BY DEF Phases
  <2>4. NBestInv'
    BY <2>1, <2>2, <2>3, NBestUnconcerned
  <2> QED BY <1>2, <1>4, <2>4, BestReports
<1>5. CASE BestLoop(w)
  <2>1. /\ phase[w] = "bestLoop" /\ UNCHANGED nBestVars
        /\ \/ phase' = [phase EXCEPT ![w] = "nbest"]
           \/ phase' = [phase EXCEPT ![w] = "bestLoop"]
    BY <1>5 DEF BestLoop, Running, WorkerInv
  <2>2. PICK q \in {"bestLoop", "nbest"} : phase' = [phase EXCEPT ![w] = q]
    BY <2>1
  <2>3. q \in Phases /\ q \notin {"nbestLoop", "done"}
    BY DEF Phases
  <2>4. NBestInv'
    BY <2>1, <2>2, <2>3, NBestUnconcerned
  <2> QED BY <1>2, <1>5, <2>4, BestLoops
<1>6. CASE OutputNBest(w) \/ NBestLoop(w)
  <2>1. /\ phase[w] \in {"nbest", "nbestLoop"} /\ UNCHANGED bestVars
        /\ \E q \in {"nbestLoop", "done"} : phase' = [phase EXCEPT ![w] = q]
    BY <1>6 DEF OutputNBest, NBestLoop, Running, WorkerInv
  <2>2. PICK q \in {"nbestLoop", "done"} : phase' = [phase EXCEPT ![w] = q]
    BY <2>1
  <2>3. q \in Phases /\ q # "bestLoop"
    BY DEF Phases
  <2>4. /\ \A l : Clear(l)' <=> Clear(l)
        /\ Past({"bestLoop", "nbest", "nbestLoop", "done"})'
             \subseteq Past({"bestLoop", "nbest", "nbestLoop", "done"})
    BY <2>1, <2>2, <2>3, WorkerGoesOn
  <2>5. BestReported' \subseteq BestReported
    BY <2>4 DEF BestReported
  <2>6. BestInv'
    BY <2>1, <2>2, <2>3, <2>5, BestUnconcerned
  <2> QED BY <1>2, <1>6, <2>6, NBestReports, NBestLoops
<1> QED BY <1>3, <1>4, <1>5, <1>6 DEF InRun

\* A task that has run was reported.
LEMMA EndKeeps ==
  ASSUME PoolP!IInv, ReaderInv, ClientInv, WorkerInv, NBestInv, BestInv,
         NEW w \in Workers, EndTask(w)
  PROVE  ReaderInv' /\ ClientInv' /\ WorkerInv' /\ NBestInv' /\ BestInv'
<1>1. /\ wpc[w] = "run" /\ phase[w] = "done" /\ phase \in [Workers -> Phases]
      /\ phase' = [phase EXCEPT ![w] = "decode"]
      /\ UNCHANGED <<bestVars, nBestVars, readerVars, olVars>>
      /\ finished' = finished \cup {wtask[w]}
      /\ \A v \in Workers : v # w => wpc'[v] = wpc[v] /\ wtask'[v] = wtask[v]
  BY PoolTypes DEF EndTask, Running, WorkerInv, Pool!FinishRun
<1>2. UNCHANGED <<nextNBest, heldNBest, nBestStream, nBestOwner, nextBest, heldBest, bestStream,
                  bestOwner, input, pos, rpc, translationId>>
  BY <1>1 DEF bestVars, nBestVars, readerVars
<1>3. WorkerInv'
  BY <1>1 DEF WorkerInv, Phases
<1>4. ReaderInv' /\ ClientInv'
  <2>1. UNCHANGED <<accepted, cpc>> /\ wpc' = [wpc EXCEPT ![w] = "notify"]
    BY DEF EndTask, Pool!FinishRun, Pool!clientVars
  <2>2. cpc[Main] # "returned"
    BY <1>1 DEF ClientInv
  <2> QED BY <1>1, <1>2, <2>1, <2>2, ReaderKept DEF ClientInv
<1>5. IdsRead' = IdsRead /\ \A l : Clear(l)' <=> Clear(l)
  BY <1>2 DEF IdsRead, Clear
<1>6. \A P : "decode" \notin P /\ "done" \in P => Past(P)' \subseteq Past(P)
  BY <1>1, <1>2 DEF Past
<1>7. \A p : p \notin {"decode", "done"} => At(p)' = At(p)
  BY <1>1 DEF At
<1>8. NBestInv'
  <2>1. Past({"nbestLoop", "done"})' \subseteq Past({"nbestLoop", "done"})
    BY <1>6
  <2>2. NBestReported' \subseteq NBestReported
    BY <2>1 DEF NBestReported
  <2>3. CollectorOk(IdsRead, nextNBest, heldNBest, nBestStream, nBestOwner, At("nbestLoop"),
                    NBestReported')
    BY <2>2, CollectorKept DEF NBestInv
  <2>4. At("nbestLoop")' = At("nbestLoop")
    BY <1>7
  <2> QED BY <1>2, <1>5, <2>3, <2>4 DEF NBestInv
<1>9. BestInv'
  <2>1. Past({"bestLoop", "nbest", "nbestLoop", "done"})'
          \subseteq Past({"bestLoop", "nbest", "nbestLoop", "done"})
    BY <1>6
  <2>2. BestReported' \subseteq BestReported
    BY <1>5, <2>1 DEF BestReported
  <2>3. CollectorOk(IdsRead, nextBest, heldBest, bestStream, bestOwner, At("bestLoop"),
                    BestReported')
    BY <2>2, CollectorKept DEF BestInv
  <2>4. At("bestLoop")' = At("bestLoop")
    BY <1>7
  <2> QED BY <1>2, <1>5, <2>3, <2>4 DEF BestInv
<1> QED BY <1>3, <1>4, <1>8, <1>9

-----------------------------------------------------------------------------
(* The invariant holds. *)

LEMMA InitIInv ==
  ASSUME Init
  PROVE  IInv
<1>1. PoolP!Init
  BY DEF Init, Pool!Init, PoolP!Init
<1>2. PoolP!IInv /\ PoolP!Drained
  BY <1>1, PoolConstants, PoolP!InitIInv, PoolP!InitDrained
<1>3. ReaderInv
  <2>1. Counted(0) = 0 /\ StartId \in Nat
    BY CountedIs, BatchAssumption
  <2>2. input \in Inputs /\ Len(input) \in Nat
    BY InputTypes DEF Init
  <2>3. accepted = <<>> /\ pos = 0 /\ rpc = "read" /\ currentLine = StartId /\ learn = FALSE
        /\ DOMAIN translationId = Lines
    BY DEF Init, Pool!Init
  <2>4. learn = (LineSeen > 0 /\ HasOL /\ input[LineSeen] = "postedit")
    <3>1. ~(LineSeen > 0)
      BY <2>3 DEF LineSeen
    <3>2. learn = FALSE
      BY <2>3
    <3> QED BY <3>1, <3>2, Zenon
  <2>5. Len(accepted) = 0 /\ 1..pos = {} /\ 1..Len(accepted) = {}
    BY <2>3
  <2> QED BY <2>1, <2>2, <2>3, <2>4, <2>5 DEF ReaderInv
<1>4. ClientInv
  BY DEF Init, Pool!Init, ClientInv
<1>5. WorkerInv
  BY DEF Init, WorkerInv, Phases
<1>6. /\ At("nbestLoop") = {} /\ At("bestLoop") = {} /\ NBestReported = {} /\ BestReported = {}
  BY DEF Init, Pool!Init, At, NBestReported, BestReported, Past
<1>7. NBestInv
  BY <1>6 DEF Init, NBest!CollectorInit, NBestInv, CollectorOk
<1>8. BestInv
  BY <1>6 DEF Init, Best!CollectorInit, BestInv, CollectorOk
<1> QED BY <1>2, <1>3, <1>4, <1>5, <1>7, <1>8 DEF IInv

LEMMA PoolKeeps ==
  ASSUME IInv, [Next]_vars
  PROVE  PoolP!IInv' /\ PoolP!Drained'
<1>1. [PoolP!Next]_(PoolP!vars)
  BY PoolStep DEF IInv
<1> QED BY <1>1, PoolConstants, PoolP!StepIInv, PoolP!StepDrained DEF IInv

LEMMA StepIInv ==
  ASSUME IInv, [Next]_vars
  PROVE  IInv'
<1> USE DEF IInv
<1>1. PoolP!IInv' /\ PoolP!Drained'
  BY PoolKeeps
<1>2. pos \in Nat
  BY PoolTypes
<1>3. SUFFICES ReaderInv' /\ ClientInv' /\ WorkerInv' /\ NBestInv' /\ BestInv'
  BY <1>1
<1>4. CASE UNCHANGED vars
  <2>1. UNCHANGED <<poolVars, bestVars, nBestVars, readerVars, olVars, phase>>
    BY <1>4 DEF vars, runVars
  <2>2. UNCHANGED <<accepted, finished, wpc, wtask, cpc, input, pos, translationId, rpc>>
    BY <2>1 DEF poolVars, readerVars
  <2>3. ReaderInv' /\ ClientInv' /\ PoolMoves
    BY <2>1, <2>2, ReaderKept DEF ClientInv, PoolMoves
  <2> QED BY <1>2, <2>1, <2>2, <2>3, CollectorsKept
<1>5. CASE SentenceInit
  <2>1. /\ UNCHANGED <<pos, input, translationId, bestVars, nBestVars, phase, finished, wpc,
                       wtask, cpc>>
        /\ rpc = "read" /\ rpc' = "init"
    BY <1>5 DEF SentenceInit, poolVars, runVars
  <2>2. PoolMoves /\ ClientInv'
    BY <2>1 DEF PoolMoves, ClientInv
  <2> QED BY <1>2, <1>5, <2>1, <2>2, CollectorsKept, InitReader
<1>6. CASE ReadInput
  <2>1. /\ pos' = pos + 1
        /\ UNCHANGED <<input, bestVars, nBestVars, phase, finished, wpc, wtask, cpc>>
        /\ rpc = "init" /\ rpc' = "submit"
    BY <1>6 DEF ReadInput, poolVars, runVars
  <2>2. ReaderInv' /\ \A l \in 1..pos : translationId'[l] = translationId[l]
    BY <1>6, ReadReader
  <2>3. PoolMoves /\ ClientInv'
    BY <2>1 DEF PoolMoves, ClientInv
  <2> QED BY <1>2, <2>1, <2>2, <2>3, CollectorsKept
<1>7. CASE ReadEnd
  <2>1. /\ UNCHANGED <<pos, input, translationId, bestVars, nBestVars, phase, finished, wpc,
                       wtask, cpc>>
        /\ rpc = "read" /\ rpc' = "stop"
    BY <1>7 DEF ReadEnd, poolVars, runVars
  <2>2. PoolMoves /\ ClientInv'
    BY <2>1 DEF PoolMoves, ClientInv
  <2> QED BY <1>2, <1>7, <2>1, <2>2, CollectorsKept, EndReader
<1>8. CASE SubmitTask
  <2>1. /\ PoolMoves /\ ClientInv'
        /\ UNCHANGED <<pos, input, translationId, bestVars, nBestVars, phase>>
    BY <1>8, SubmitMoves DEF runVars
  <2> QED BY <1>2, <1>8, <2>1, CollectorsKept, SubmitReader
<1>9. CASE StopPool
  <2>1. /\ PoolMoves /\ ClientInv'
        /\ UNCHANGED <<pos, input, translationId, bestVars, nBestVars, phase>>
    BY <1>9, StopMoves DEF runVars
  <2> QED BY <1>2, <1>9, <2>1, CollectorsKept, StopReader
<1>10. CASE InStop \/ \E w \in Workers : InPool(w) \/ Spurious(w)
  <2>1. /\ PoolMoves /\ ClientInv' /\ accepted' = accepted
        /\ UNCHANGED <<readerVars, olVars, bestVars, nBestVars, phase>>
    BY <1>10, InStopMoves, InPoolMoves DEF runVars
  <2>2. UNCHANGED <<pos, input, translationId>>
    BY <2>1 DEF readerVars
  <2> QED BY <1>2, <2>1, <2>2, CollectorsKept, ReaderKept
<1>11. CASE \E w \in Workers : InRun(w) \/ EndTask(w)
  BY <1>11, RunKeeps, EndKeeps
<1> QED BY <1>4, <1>5, <1>6, <1>7, <1>8, <1>9, <1>10, <1>11
        DEF Next, MainStep, WorkerStep, InRun, Decides

\* Whatever the pool, the main thread and the collectors do, the invariant holds.
THEOREM BatchInvariance == Spec => []IInv
BY InitIInv, StepIInv, PTL DEF Spec

-----------------------------------------------------------------------------
(* At the end all is output that must be. *)

LEMMA LeastNat ==
  ASSUME NEW S \in SUBSET Nat, S # {}
  PROVE  \E m \in S : \A n \in S : m <= n
<1>1. IsWellFoundedOn(OpToRel(<, Nat), Nat)
  BY NatLessThanWellFounded
<1>2. PICK m \in S : \A n \in S : <<n, m>> \notin OpToRel(<, Nat)
  BY <1>1, WFMin
<1>3. ASSUME NEW n \in S PROVE m <= n
  <2>1. m \in Nat /\ n \in Nat
    OBVIOUS
  <2>2. ~(n < m)
    BY <1>2, <2>1 DEF OpToRel
  <2> QED BY <2>1, <2>2
<1> QED BY <1>3

LEMMA IdsAre ==
  ASSUME ReaderInv, StartId = 0, NEW l \in 1..pos
  PROVE  translationId[l] = Counted(l - 1) /\ translationId[l] \in Nat /\ l \in Nat /\ l - 1 \in Nat
<1>1. pos \in Nat
  BY InputTypes DEF ReaderInv
<1>2. l \in Nat /\ l - 1 \in Nat
  BY <1>1
<1>3. Counted(l - 1) \in Nat
  BY <1>2, CountedIs
<1> QED BY <1>2, <1>3 DEF ReaderInv

\* The ids grow by at most one from line to line, so that if no line has the id expected
\* next, no line has a greater one.
LEMMA IdsWithoutGap ==
  ASSUME ReaderInv, StartId = 0, NEW next \in Nat,
         \A l \in 1..pos : translationId[l] # next, NEW l \in 1..pos
  PROVE  translationId[l] < next
<1> SUFFICES ASSUME ~(translationId[l] < next) PROVE FALSE
  OBVIOUS
<1> DEFINE S == {m \in 1..pos : translationId[m] > next}
<1>1. pos \in Nat
  BY InputTypes DEF ReaderInv
<1>2. translationId[l] > next
  BY IdsAre
<1>3. S \in SUBSET Nat /\ l \in S
  BY <1>1, <1>2
<1>4. PICK m \in S : \A n \in S : m <= n
  <2> HIDE DEF S
  <2> QED BY <1>3, LeastNat
<1>5. m \in 1..pos /\ m \in Nat /\ translationId[m] > next
  BY <1>1, <1>4
<1>6. CASE m = 1
  <2>1. translationId[1] = Counted(0)
    <3>1. 1 \in 1..pos /\ 1 - 1 = 0
      BY <1>5, <1>6
    <3> QED BY <3>1, IdsAre
  <2> QED BY <1>5, <1>6, <2>1, CountedIs
<1>7. CASE m # 1
  <2>0. m - 1 \notin S
    <3>1. ~(m <= m - 1)
      BY <1>5
    <3> HIDE DEF S
    <3> QED BY <1>4, <3>1
  <2>1. m - 1 \in 1..pos /\ m - 2 \in Nat /\ m - 2 + 1 = m - 1 /\ (m - 1) - 1 = m - 2
    BY <1>1, <1>5, <1>7
  <2>2. translationId[m - 1] = Counted(m - 2) /\ translationId[m] = Counted(m - 1)
        /\ translationId[m - 1] \in Nat /\ translationId[m] \in Nat
    BY <1>5, <2>1, IdsAre
  <2>3. Counted(m - 1) <= Counted(m - 2) + 1
    BY <2>1, <2>2, CountedIs
  <2>4. ~(translationId[m - 1] > next)
    BY <2>0, <2>1
  <2>5. translationId[m - 1] # next
    BY <2>1
  <2> QED BY <1>5, <2>2, <2>3, <2>4, <2>5
<1> QED BY <1>6, <1>7

\* A line to be translated that no post-edit precedes has an id of its own.
LEMMA IdIsOwn ==
  ASSUME ReaderInv, StartId = 0, NEW l \in 1..pos, input[l] = "translate",
         l > 1 => input[l - 1] = "translate",
         NEW x \in 1..pos, translationId[x] = translationId[l]
  PROVE  x = l
<1>1. /\ l \in Nat /\ x \in Nat /\ l - 1 \in Nat /\ x - 1 \in Nat
      /\ Counted(x - 1) = Counted(l - 1)
  BY IdsAre
<1>2. CASE x < l
  <2>1. l > 1 /\ l - 2 \in Nat /\ l - 2 + 1 = l - 1 /\ x - 1 <= l - 2
    BY <1>1, <1>2
  <2>2. Counts(l - 1)
    BY <2>1 DEF Counts
  <2>3. Counted(l - 1) = Counted(l - 2) + 1
    BY <2>1, <2>2, CountedIs
  <2>4. Counted(x - 1) <= Counted(l - 2) /\ Counted(l - 2) \in Nat
    BY <1>1, <2>1, CountedIs
  <2>5. Counted(x - 1) \in Nat
    BY <1>1, CountedIs
  <2> QED BY <1>1, <2>3, <2>4, <2>5
<1>3. CASE x > l
  <2>1. l - 1 + 1 = l /\ l <= x - 1
    BY <1>1, <1>3
  <2>2. Counts(l)
    BY DEF Counts
  <2>3. Counted(l) = Counted(l - 1) + 1
    BY <1>1, <2>1, <2>2, CountedIs
  <2>4. Counted(l) <= Counted(x - 1)
    BY <1>1, <2>1, CountedIs
  <2>5. Counted(l - 1) \in Nat
    BY <1>1, CountedIs
  <2> QED BY <1>1, <2>3, <2>4, <2>5
<1> QED BY <1>1, <1>2, <1>3

\* When Stop has returned, every line of the input was translated.
LEMMA ReturnedIsComplete ==
  ASSUME IInv, cpc[Main] = "returned"
  PROVE  /\ pos = Len(input) /\ finished = 1..pos
         /\ \A w \in Workers : phase[w] = "decode"
<1> USE DEF IInv
<1>1. rpc = "stopping" /\ \A w \in Workers : wpc[w] = "exited"
  BY DEF ClientInv
<1>2. pos = Len(input) /\ Len(accepted) = pos /\ pos \in Nat
  BY <1>1, PoolTypes DEF ReaderInv
<1>3. PoolP!StopCompletesQueuedJobs
  BY PoolP!DrainedIsComplete, PoolConstants
<1>4. PoolP!RangeOf(accepted) = finished
  BY <1>1, <1>3 DEF PoolP!StopCompletesQueuedJobs
<1>5. PoolP!RangeOf(accepted) = 1..pos
  <2>1. \A i \in 1..pos : accepted[i] = i
    BY <1>2 DEF ReaderInv
  <2> QED BY <1>2, <2>1 DEF PoolP!RangeOf
<1> QED BY <1>1, <1>2, <1>4, <1>5 DEF WorkerInv

\* At the end a collector expects an id that no line reported has.
LEMMA ExpectedByNone ==
  ASSUME NEW ids, NEW next, NEW held, NEW str, NEW own, NEW reported,
         CollectorOk(ids, next, held, str, own, {}, reported), NEW l \in reported
  PROVE  ids[l] # next
BY DEF CollectorOk

\* A line whose id is below the one expected is in the output, if the id is its own.
LEMMA BelowExpected ==
  ASSUME NEW ids, NEW next, NEW held, NEW str, NEW own, NEW looking, NEW reported,
         CollectorOk(ids, next, held, str, own, looking, reported),
         NEW l \in DOMAIN ids, ids[l] \in Nat, ids[l] < next,
         \A x \in DOMAIN ids : ids[x] = ids[l] => x = l
  PROVE  \E j \in 1..Len(str) : str[j] = l
<1>1. ids[l] + 1 \in 1..Len(str) /\ (ids[l] + 1) - 1 = ids[l]
  BY DEF CollectorOk
<1>2. str[ids[l] + 1] \in DOMAIN ids /\ ids[str[ids[l] + 1]] = ids[l]
  BY <1>1 DEF CollectorOk
<1> QED BY <1>1, <1>2

LEMMA NBestComplete ==
  ASSUME HasNBest, StartId = 0, IInv
  PROVE  EveryNBestOutput
<1> USE DEF IInv
<1>1. SUFFICES ASSUME cpc[Main] = "returned", NEW l \in 1..Len(input), input[l] = "translate",
                      l > 1 => input[l - 1] = "translate"
               PROVE  \E j \in 1..Len(nBestStream) : nBestStream[j] = l
  BY DEF EveryNBestOutput
<1>2. pos = Len(input) /\ finished = 1..pos /\ \A w \in Workers : phase[w] = "decode"
  BY <1>1, ReturnedIsComplete
<1>3. At("nbestLoop") = {} /\ NBestReported = 1..pos
  BY <1>2 DEF At, NBestReported, Past
<1>4. CollectorOk(IdsRead, nextNBest, heldNBest, nBestStream, nBestOwner, {}, 1..pos)
  BY <1>3 DEF NBestInv
<1>5. /\ nextNBest \in Nat /\ l \in DOMAIN IdsRead
      /\ \A m \in DOMAIN IdsRead : IdsRead[m] = translationId[m] /\ m \in 1..pos
  BY <1>2, <1>4 DEF CollectorOk, IdsRead
<1>6. \A m \in 1..pos : translationId[m] # nextNBest
  <2>1. \A m \in 1..pos : IdsRead[m] # nextNBest
    BY <1>4, ExpectedByNone
  <2> QED BY <2>1 DEF IdsRead
<1>7. translationId[l] < nextNBest /\ translationId[l] \in Nat
  BY <1>5, <1>6, IdsWithoutGap, IdsAre
<1>8. \A x \in DOMAIN IdsRead : IdsRead[x] = IdsRead[l] => x = l
  BY <1>1, <1>5, IdIsOwn
<1> QED BY <1>4, <1>5, <1>7, <1>8, BelowExpected

\* With an n-best list asked for, ids from 0 and any number of lines and threads: when Stop
\* has returned, the list of every line to be translated that does not follow a
\* post-edit is in the n-best file.
THEOREM NBestListsAreOutput ==
  ASSUME HasNBest, StartId = 0
  PROVE  Spec => []EveryNBestOutput
BY NBestComplete, BatchInvariance, PTL

\* Post-edits that come first have the id of the first line to be translated.
LEMMA FirstIdIsZero ==
  ASSUME ReaderInv, StartId = 0, HasOL, NEW m \in 1..pos,
         \A x \in 1..(m - 1) : input[x] # "translate"
  PROVE  translationId[m] = 0
<1>1. {x \in 1..(m - 1) : Counts(x)} = {}
  BY DEF Counts
<1>2. Counted(m - 1) = 0
  BY <1>1, FS_EmptySet DEF Counted
<1> QED BY <1>2, IdsAre

LEMMA TranslationsComplete ==
  ASSUME StartId = 0, IInv
  PROVE  EveryTranslationOutput
<1> USE DEF IInv
<1>1. SUFFICES ASSUME cpc[Main] = "returned", HasOL, PostEditsFirst,
                      NEW l \in 1..Len(input), input[l] = "translate",
                      l > 1 => input[l - 1] = "translate"
               PROVE  \E j \in 1..Len(bestStream) : bestStream[j] = l
  BY DEF EveryTranslationOutput
<1>2. /\ pos = Len(input) /\ pos \in Nat /\ finished = 1..pos
      /\ \A w \in Workers : phase[w] = "decode"
  BY <1>1, ReturnedIsComplete, PoolTypes
<1>3. ASSUME NEW m \in 1..pos, input[m] = "translate" PROVE Clear(m)
  <2>1. SUFFICES ASSUME NEW x \in m..Len(input) PROVE input[x] = "translate"
    BY DEF Clear
  <2>2. m \in Nat /\ x \in 1..Len(input) /\ (m < x \/ m = x)
    BY <1>2
  <2> QED BY <1>1, <1>2, <1>3, <2>2 DEF PostEditsFirst
<1>4. At("bestLoop") = {} /\ \A m \in 1..pos : input[m] = "translate" => m \in BestReported
  BY <1>1, <1>2, <1>3 DEF At, BestReported, Past
<1>5. CollectorOk(IdsRead, nextBest, heldBest, bestStream, bestOwner, {}, BestReported)
  BY <1>4 DEF BestInv
<1>6. /\ nextBest \in Nat /\ l \in DOMAIN IdsRead
      /\ \A m \in DOMAIN IdsRead : IdsRead[m] = translationId[m] /\ m \in 1..pos
  BY <1>2, <1>5 DEF CollectorOk, IdsRead
<1>7. ASSUME NEW m \in 1..pos, input[m] = "translate" PROVE translationId[m] # nextBest
  <2>1. IdsRead[m] # nextBest
    BY <1>4, <1>5, <1>7, ExpectedByNone
  <2> QED BY <2>1 DEF IdsRead
<1>8. PICK f \in 1..pos : /\ input[f] = "translate"
                          /\ \A x \in 1..(f - 1) : input[x] # "translate"
  <2> DEFINE S == {m \in 1..pos : input[m] = "translate"}
  <2>1. S \in SUBSET Nat /\ l \in S
    BY <1>1, <1>2
  <2>2. PICK f \in S : \A n \in S : f <= n
    <3> HIDE DEF S
    <3> QED BY <2>1, LeastNat
  <2>3. ASSUME NEW x \in 1..(f - 1) PROVE input[x] # "translate"
    <3>1. x \in 1..pos /\ ~(f <= x)
      BY <1>2
    <3> QED BY <2>2, <3>1
  <2> QED BY <2>2, <2>3
<1>9. \A m \in 1..pos : translationId[m] # nextBest
  <2>1. SUFFICES ASSUME NEW m \in 1..pos, input[m] # "translate"
                 PROVE  translationId[m] # nextBest
    BY <1>7
  <2>2. \A x \in 1..(m - 1) : input[x] # "translate"
    <3>1. SUFFICES ASSUME NEW x \in 1..(m - 1), input[x] = "translate" PROVE FALSE
      OBVIOUS
    <3>2. x \in 1..Len(input) /\ m \in 1..Len(input) /\ x < m
      BY <1>2
    <3> QED BY <1>1, <2>1, <3>1, <3>2 DEF PostEditsFirst
  <2>3. translationId[m] = 0
    BY <1>1, <2>2, FirstIdIsZero
  <2>4. translationId[f] = 0
    BY <1>1, <1>8, FirstIdIsZero
  <2> QED BY <1>7, <1>8, <2>3, <2>4
<1>10. translationId[l] < nextBest /\ translationId[l] \in Nat
  BY <1>6, <1>9, IdsWithoutGap, IdsAre
<1>11. \A x \in DOMAIN IdsRead : IdsRead[x] = IdsRead[l] => x = l
  BY <1>1, <1>6, IdIsOwn
<1> QED BY <1>5, <1>6, <1>10, <1>11, BelowExpected

\* With ids from 0, where the decoder first learns from post-edits and then translates: when
\* Stop has returned, every translation, but for the one that shares its id with the
\* post-edits, is in the output, for any input and number of threads and however far
\* the main thread reads ahead.
THEOREM TranslationsAreOutput ==
  ASSUME StartId = 0
  PROVE  Spec => []EveryTranslationOutput
BY TranslationsComplete, BatchInvariance, PTL

-----------------------------------------------------------------------------
(* Without post-edits the output is in order. *)

\* The output is lines 1, 2, 3, ... as far as it goes.
OutputIs ==
  /\ NumTranslate \in Nat /\ nextBest \in 0..NumTranslate
  /\ Out = [j \in 1..nextBest |-> j - 1]

LEMMA CardinalityUpTo ==
  ASSUME NEW n \in Nat
  PROVE  Cardinality(1..n) = n
<1>1. Cardinality(1..n) = IF 1 > n THEN 0 ELSE n - 1 + 1
  BY FS_Interval
<1> QED BY <1>1

LEMMA OutIs ==
  ASSUME StartId = 0, IInv, NoPostEdits
  PROVE  OutputIs
<1> USE DEF IInv
<1>1. /\ input \in Inputs /\ pos \in Nat /\ Len(input) \in Nat /\ pos <= Len(input)
      /\ \A l \in 1..Len(input) : input[l] = "translate"
  BY InputTypes DEF ReaderInv, NoPostEdits
<1>2. NumTranslate = Len(input)
  <2>1. {l \in 1..Len(input) : input[l] = "translate"} = 1..Len(input)
    BY <1>1
  <2> QED BY <1>1, <2>1, InputTypes, CardinalityUpTo
<1>3. ASSUME NEW l \in 1..pos PROVE IdsRead[l] = l - 1 /\ l \in Nat
  <2>1. l \in Nat /\ l - 1 \in Nat /\ l - 1 <= Len(input)
    BY <1>1
  <2>2. {x \in 1..(l - 1) : Counts(x)} = 1..(l - 1)
    BY <1>1, <2>1 DEF Counts
  <2>3. Counted(l - 1) = l - 1
    BY <2>1, <2>2, CardinalityUpTo DEF Counted
  <2> QED BY <2>1, <2>3, IdsAre DEF IdsRead
<1>4. /\ nextBest \in Nat /\ Len(bestStream) = nextBest /\ bestStream \in Seq(Lines)
      /\ \A j \in 1..nextBest : bestStream[j] \in 1..pos /\ IdsRead[bestStream[j]] = j - 1
  BY DEF BestInv, CollectorOk, IdsRead
<1>5. \A j \in 1..nextBest : bestStream[j] = j
  <2>1. SUFFICES ASSUME NEW j \in 1..nextBest PROVE bestStream[j] = j
    OBVIOUS
  <2>2. bestStream[j] \in 1..pos /\ IdsRead[bestStream[j]] = j - 1
    BY <1>4
  <2>3. IdsRead[bestStream[j]] = bestStream[j] - 1 /\ bestStream[j] \in Nat
    BY <1>3, <2>2
  <2> QED BY <2>2, <2>3
<1>6. nextBest <= pos
  <2>1. CASE nextBest = 0
    BY <1>1, <2>1
  <2>2. CASE nextBest # 0
    <3>1. nextBest \in 1..nextBest
      BY <1>4, <2>2
    <3> QED BY <1>4, <1>5, <3>1
  <2> QED BY <2>1, <2>2
<1>7. Out = [j \in 1..nextBest |-> j - 1]
  <2>1. DOMAIN bestStream = 1..nextBest
    BY <1>4
  <2> QED BY <1>5, <2>1 DEF Out
<1> QED BY <1>1, <1>2, <1>4, <1>6, <1>7 DEF OutputIs

\* A collector outputs one line at a time.
LEMMA OneAtATime ==
  ASSUME [Next]_vars
  PROVE  nextBest' \in {nextBest, nextBest + 1}
<1>1. CASE UNCHANGED bestVars
  BY <1>1 DEF bestVars
<1>2. ASSUME NEW w \in Workers, OutputBest(w) \/ BestLoop(w)
      PROVE  nextBest' \in {nextBest, nextBest + 1}
  BY <1>2 DEF OutputBest, BestLoop, bestVars, Best!WriteExpected, Best!HoldBack, Best!Flush,
     Best!EndWrite
<1>3. CASE SentenceInit \/ ReadInput \/ ReadEnd \/ SubmitTask \/ StopPool \/ InStop
  BY <1>1, <1>3 DEF SentenceInit, ReadInput, ReadEnd, SubmitTask, StopPool, InStop
<1>4. ASSUME NEW w \in Workers, Decides(w) \/ OutputNBest(w) \/ NBestLoop(w)
      PROVE  UNCHANGED bestVars
  BY <1>4 DEF Decides, Decode, Learn, TestLearning, DecodeAgain, EndDecoding, OutputNBest,
     NBestLoop
<1>5. ASSUME NEW w \in Workers, EndTask(w) \/ InPool(w) \/ Spurious(w)
      PROVE  UNCHANGED bestVars
  BY <1>5 DEF EndTask, InPool, Spurious
<1>6. CASE UNCHANGED vars
  BY <1>1, <1>6 DEF vars
<1> QED BY <1>1, <1>2, <1>3, <1>4, <1>5, <1>6 DEF Next, MainStep, WorkerStep, Decides

\* The input stays what it is.
LEMMA InputFixed ==
  ASSUME [Next]_vars
  PROVE  input' = input
<1>1. CASE UNCHANGED readerVars
  BY <1>1 DEF readerVars
<1>2. CASE SentenceInit \/ ReadInput \/ ReadEnd \/ SubmitTask \/ StopPool
  BY <1>2 DEF SentenceInit, ReadInput, ReadEnd, SubmitTask, StopPool
<1>3. CASE InStop
  BY <1>1, <1>3 DEF InStop
<1>4. ASSUME NEW w \in Workers, WorkerStep(w) \/ Spurious(w)
      PROVE  UNCHANGED readerVars
  <2>1. CASE Decode(w) \/ Learn(w) \/ TestLearning(w) \/ DecodeAgain(w) \/ EndDecoding(w)
    BY <2>1 DEF Decode, Learn, TestLearning, DecodeAgain, EndDecoding, RunUnchanged
  <2>2. CASE OutputBest(w) \/ BestLoop(w) \/ OutputNBest(w) \/ NBestLoop(w)
    BY <2>2 DEF OutputBest, BestLoop, OutputNBest, NBestLoop, RunUnchanged
  <2>3. CASE EndTask(w) \/ InPool(w) \/ Spurious(w)
    BY <2>3 DEF EndTask, InPool, Spurious
  <2> QED BY <1>4, <2>1, <2>2, <2>3 DEF WorkerStep
<1>5. CASE UNCHANGED vars
  BY <1>1, <1>5 DEF vars
<1> QED BY <1>1, <1>2, <1>3, <1>4, <1>5 DEF Next, MainStep

\* Whenever the input has no post-edits, and ids are from 0, the main thread, the pool and
\* the collector together make an in-order output: the translations appear in the order of the
\* input, each once, for any number of lines and threads.
THEOREM BatchImplementsInOrder ==
  ASSUME StartId = 0
  PROVE  Spec => OutputsInOrder
<1>1. Init => InOrder!Init
  <2>1. SUFFICES ASSUME Init PROVE InOrder!Init
    OBVIOUS
  <2>2. bestStream = <<>>
    BY <2>1 DEF Init, Best!CollectorInit
  <2> QED BY <2>2 DEF InOrder!Init, Out
<1>2. ASSUME NoPostEdits, IInv, IInv', [Next]_vars
      PROVE  [InOrder!Emit]_Out
  <2>1. NoPostEdits'
    BY <1>2, InputFixed DEF NoPostEdits
  <2>2. OutputIs /\ OutputIs'
    <3>1. OutputIs
      BY <1>2, OutIs
    <3>2. (IInv /\ NoPostEdits => OutputIs)'
      BY OutIs, PTL
    <3> QED BY <1>2, <2>1, <3>1, <3>2
  <2>3. CASE nextBest' = nextBest
    BY <2>2, <2>3 DEF OutputIs
  <2>4. CASE nextBest' = nextBest + 1
    <3>1. /\ nextBest \in Nat /\ nextBest + 1 <= NumTranslate /\ Len(Out) = nextBest
          /\ Out = [j \in 1..nextBest |-> j - 1] /\ Out' = [j \in 1..(nextBest + 1) |-> j - 1]
      BY <2>2, <2>4 DEF OutputIs
    <3>2. [j \in 1..(nextBest + 1) |-> j - 1] = Append([j \in 1..nextBest |-> j - 1], nextBest)
      BY <3>1
    <3>3. NumTranslate \in Nat
      BY <2>2 DEF OutputIs
    <3> QED BY <3>1, <3>2, <3>3 DEF InOrder!Emit
  <2> QED BY <1>2, <2>3, <2>4, OneAtATime
<1>3. IInv /\ IInv' /\ [Next]_vars => [NoPostEdits => [InOrder!Emit]_Out]_vars
  BY <1>2
<1> QED BY <1>1, <1>3, BatchInvariance, PTL DEF Spec, OutputsInOrder

-----------------------------------------------------------------------------
(* OutputCollector on its own: for any number of writing threads and any number of      *)
(* lines it implements the safety part of InOrderOutput.                                *)

\* The text held back under an id is the text of that id, and as many texts
\* were output as m_nextOutput counts.
TextsMatch ==
  /\ \A i \in DOMAIN outputs : outputs[i] = i
  /\ Len(stream) = nextOutput

CollectorInv == TypeOK /\ EachIdInOnePlace /\ TextsMatch /\ NothingHeldInVain

LEMMA InitCollector ==
  ASSUME CollectorAssumption, WriteInit
  PROVE  CollectorInv
BY DEF CollectorAssumption, WriteInit, CollectorInit, CollectorInv, TypeOK, EachIdInOnePlace, TextsMatch,
       NothingHeldInVain, Ids

\* The id of a step that outputs a text is the next one of the batch.
LEMMA OutputStep ==
  ASSUME CollectorAssumption, CollectorInv, nextOutput \in Ids, stream' = Append(stream, nextOutput)
  PROVE  StreamInOrder!Emit /\ stream' \in Seq(Ids) /\ Len(stream') = nextOutput + 1
BY DEF CollectorAssumption, CollectorInv, TypeOK, TextsMatch, Ids, StreamInOrder!Emit

LEMMA WriteStep ==
  ASSUME CollectorAssumption, CollectorInv, NEW w \in Writers, NEW id \in Ids, Write(w, id)
  PROVE  CollectorInv' /\ (StreamInOrder!Emit \/ UNCHANGED stream)
<1>1. CASE WriteExpected(w, id, id)
  <2>1. /\ nextOutput = id /\ nextOutput' = nextOutput + 1 /\ owner' = w
        /\ stream' = Append(stream, nextOutput)
        /\ outputs' = outputs /\ unwritten' = unwritten \ {nextOutput}
    BY <1>1 DEF Write, WriteExpected
  <2>2. StreamInOrder!Emit /\ stream' \in Seq(Ids) /\ Len(stream') = nextOutput + 1
    BY <2>1, OutputStep
  <2>3. TypeOK' /\ TextsMatch'
    BY <2>1, <2>2 DEF CollectorAssumption, CollectorInv, TypeOK, TextsMatch, Ids
  <2>4. EachIdInOnePlace'
    BY <1>1, <2>1
    DEF CollectorAssumption, CollectorInv, TypeOK, EachIdInOnePlace, Ids, Write
  <2>5. NothingHeldInVain'
    BY <2>1 DEF CollectorAssumption, NothingHeldInVain
  <2> QED BY <2>2, <2>3, <2>4, <2>5 DEF CollectorInv
<1>2. CASE HoldBack(w, id, id)
  <2>1. /\ id # nextOutput /\ id \in unwritten
        /\ DOMAIN outputs' = DOMAIN outputs \cup {id}
        /\ \A i \in DOMAIN outputs' : outputs'[i] = IF i = id THEN id ELSE outputs[i]
        /\ unwritten' = unwritten \ {id}
        /\ UNCHANGED <<nextOutput, stream, owner>>
    BY <1>2 DEF Write, HoldBack
  <2>2. TypeOK' /\ TextsMatch'
    BY <2>1 DEF CollectorInv, TypeOK, TextsMatch
  <2>3. EachIdInOnePlace'
    BY <2>1 DEF CollectorInv, TypeOK, EachIdInOnePlace
  <2>4. NothingHeldInVain'
    BY <1>2, <2>1 DEF CollectorInv, NothingHeldInVain, HoldBack
  <2> QED BY <2>1, <2>2, <2>3, <2>4 DEF CollectorInv
<1> QED BY <1>1, <1>2 DEF Write

LEMMA LoopStep ==
  ASSUME CollectorAssumption, CollectorInv, NEW w \in Writers, Loop(w)
  PROVE  CollectorInv' /\ (StreamInOrder!Emit \/ UNCHANGED stream)
<1>1. CASE Flush(w)
  <2>1. /\ nextOutput \in DOMAIN outputs /\ nextOutput' = nextOutput + 1
        /\ DOMAIN outputs' = DOMAIN outputs \ {nextOutput}
        /\ \A i \in DOMAIN outputs' : outputs'[i] = outputs[i]
        /\ UNCHANGED <<owner, unwritten>>
    BY <1>1 DEF Flush, Loop
  <2>2. nextOutput \in Ids /\ stream' = Append(stream, nextOutput)
    BY <1>1, <2>1 DEF CollectorInv, TypeOK, TextsMatch, Flush
  <2>3. StreamInOrder!Emit /\ stream' \in Seq(Ids) /\ Len(stream') = nextOutput + 1
    BY <2>2, OutputStep
  <2>4. TypeOK' /\ TextsMatch'
    BY <2>1, <2>2, <2>3 DEF CollectorAssumption, CollectorInv, TypeOK, TextsMatch, Ids
  <2>5. EachIdInOnePlace'
    BY <2>1, <2>2 DEF CollectorAssumption, CollectorInv, TypeOK, EachIdInOnePlace, Ids
  <2>6. NothingHeldInVain'
    BY <1>1, <2>1 DEF CollectorAssumption, NothingHeldInVain, Flush
  <2> QED BY <2>3, <2>4, <2>5, <2>6 DEF CollectorInv
<1>2. CASE EndWrite(w)
  BY <1>2
  DEF CollectorInv, TypeOK, EachIdInOnePlace, TextsMatch, NothingHeldInVain, EndWrite, Loop
<1> QED BY <1>1, <1>2 DEF Loop

LEMMA CollectorStep ==
  ASSUME CollectorAssumption, CollectorInv, [WriteNext]_writeVars
  PROVE  CollectorInv' /\ (StreamInOrder!Emit \/ UNCHANGED stream)
<1>1. CASE UNCHANGED writeVars
  BY <1>1
  DEF CollectorInv, TypeOK, EachIdInOnePlace, TextsMatch, NothingHeldInVain, writeVars, collectorVars
<1> QED BY <1>1, WriteStep, LoopStep DEF WriteNext, AllWritten

THEOREM CollectorInvariance ==
  ASSUME CollectorAssumption
  PROVE  WriteSpec => []CollectorInv
BY InitCollector, CollectorStep, PTL DEF WriteSpec

\* The variables of the collector have their types.
THEOREM CollectorTypeCorrect ==
  ASSUME CollectorAssumption
  PROVE  WriteSpec => []TypeOK
<1>1. CollectorInv => TypeOK
  BY DEF CollectorInv
<1> QED BY <1>1, CollectorInvariance, PTL

\* The place of every id: below m_nextOutput exactly when it is neither held
\* back nor still to come.
THEOREM CollectorKeepsIds ==
  ASSUME CollectorAssumption
  PROVE  WriteSpec => []EachIdInOnePlace
<1>1. CollectorInv => EachIdInOnePlace
  BY DEF CollectorInv
<1> QED BY <1>1, CollectorInvariance, PTL

\* Write leaves nothing behind that could be output: when the mutex is free, the
\* text expected next has not been passed to any Write.
THEOREM NothingWaitsInVain ==
  ASSUME CollectorAssumption
  PROVE  WriteSpec => []NothingHeldInVain
<1>1. CollectorInv => NothingHeldInVain
  BY DEF CollectorInv
<1> QED BY <1>1, CollectorInvariance, PTL

\* Whatever the order in which the threads finish, the stream is the
\* translations of lines 0, 1, 2, ... in that order.
THEOREM CollectorImplementsInOrder ==
  ASSUME CollectorAssumption
  PROVE  WriteSpec => StreamInOrder!Safety
<1>1. WriteInit => StreamInOrder!Init
  BY DEF WriteInit, CollectorInit, StreamInOrder!Init
<1>2. ASSUME CollectorAssumption, CollectorInv, [WriteNext]_writeVars
      PROVE  [StreamInOrder!Emit]_stream
  BY <1>2, CollectorStep
<1> QED BY <1>1, <1>2, CollectorInvariance, PTL DEF WriteSpec, StreamInOrder!Safety
=============================================================================

