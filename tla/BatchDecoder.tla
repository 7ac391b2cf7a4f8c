----------------------------- MODULE BatchDecoder -----------------------------
(****************************************************************************)
(* batch_run (moses/ExportInterface.cpp): the main thread reads the input   *)
(* line by line (IOWrapper::ReadInput) and submits one TranslationTask per  *)
(* line to the thread pool; the workers decode, learn and write through the *)
(* output collectors.  When the input ends the main thread calls Stop(true).*)
(*                                                                          *)
(* An input line is either to be translated or carries a post-edit          *)
(* ("source_#_post-edit"), from which the decoder learns and for which it   *)
(* outputs nothing.  Which of the two a line is, and its post-edit, are     *)
(* kept in the one OnlineLearningFeature: the main thread writes them when  *)
(* it reads a line, the workers read them when they get to a task.  Nothing *)
(* makes one wait for the other, so each access is a step of its own.       *)
(****************************************************************************)
EXTENDS Integers, Sequences, FiniteSets

CONSTANTS
  Workers,        \* the threads of the pool
  Main,           \* the thread of batch_run
  None,
  Inputs,         \* the inputs: sequences over LineKinds
  MaxLines,       \* bound: the length of the longest input
  HasOL,          \* an OnlineLearningFeature is configured
  HasNBest,       \* an n-best list is asked for
  StartId,        \* -start-translation-id
  MaxIterations,  \* maxIterations of the OnlineLearningFeature
  NumTranslate    \* the number of lines to be translated in each input

LineKinds == {"translate", "postedit"}

ASSUME BatchAssumption ==
  /\ MaxLines \in Nat /\ StartId \in Nat /\ MaxIterations \in Nat
  /\ HasOL \in BOOLEAN /\ HasNBest \in BOOLEAN
  /\ None \notin Workers \cup 1..MaxLines
  /\ \A input \in Inputs :
       /\ input \in Seq(LineKinds) /\ Len(input) \in 1..MaxLines
       /\ Cardinality({l \in 1..Len(input) : input[l] = "translate"}) = NumTranslate

Lines == 1..MaxLines

VARIABLES
  tasks, stopped, stopping, wpc, wtask, saw, cpc, ctask,
  accepted, started, finished,                     \* of the thread pool
  nextBest, heldBest, bestStream, bestOwner,       \* single best collector
  nextNBest, heldNBest, nBestStream, nBestOwner,   \* n-best collector
  input,          \* the input of this run
  pos,            \* the number of lines read
  rpc,            \* where the main thread is in batch_run
  currentLine,    \* m_currentLine of IOWrapper
  translationId,  \* translationId[l]: the id given to line l
  learn,          \* m_learn of OnlineLearningFeature
  postedited,     \* m_postedited: the line whose post-edit it holds
  phase,          \* phase[w]: where w is in TranslationTask::Run
  iterations,     \* iterations[w]: the local variable of Run, 0 before its loop
  learned         \* history: <<line decoded, line whose post-edit was used>>

Pool == INSTANCE ThreadPool WITH
  Clients <- {Main}, Tasks <- Lines, QueueLimit <- 0, StopModes <- {TRUE}

\* Only the actions on the collectors' own variables are used here.
Best == INSTANCE OutputCollector WITH
  Writers <- Workers, NoWriter <- None, NumLines <- 0, unwritten <- {},
  nextOutput <- nextBest, outputs <- heldBest, stream <- bestStream, owner <- bestOwner
NBest == INSTANCE OutputCollector WITH
  Writers <- Workers, NoWriter <- None, NumLines <- 0, unwritten <- {},
  nextOutput <- nextNBest, outputs <- heldNBest, stream <- nBestStream,
  owner <- nBestOwner

poolVars   == <<tasks, stopped, stopping, wpc, wtask, saw, cpc, ctask,
                accepted, started, finished>>
bestVars   == <<nextBest, heldBest, bestStream, bestOwner>>
nBestVars  == <<nextNBest, heldNBest, nBestStream, nBestOwner>>
readerVars == <<input, pos, rpc, currentLine, translationId>>
olVars     == <<learn, postedited>>
runVars    == <<phase, iterations, learned>>
vars == <<poolVars, bestVars, nBestVars, readerVars, olVars, runVars>>

Init ==
  /\ Pool!Init /\ Best!CollectorInit /\ NBest!CollectorInit
  /\ input \in Inputs
  /\ pos = 0 /\ rpc = "read"
  /\ currentLine = StartId
  /\ translationId = [l \in Lines |-> 0]
  /\ learn = FALSE /\ postedited = 0
  /\ phase = [w \in Workers |-> "decode"]
  /\ iterations = [w \in Workers |-> 0]
  /\ learned = {}

-----------------------------------------------------------------------------
(* The main thread. *)

\* ReadInput counts the line that was read unless it is a post-edit: the source
\* sentence, from which the marker has been cut off, is always one piece.
LineCounted(isLearning) == ~HasOL \/ ~isLearning

\* Mistake (not the code): a post-edit is counted like any other line.
ReadInputCountsPostEdits ==
  /\ rpc = "init"
  /\ pos' = pos + 1
  /\ postedited' = IF learn THEN pos' ELSE postedited
  /\ translationId' = [translationId EXCEPT ![pos'] = currentLine]
  /\ currentLine' = currentLine + 1
  /\ rpc' = "submit"
  /\ UNCHANGED <<poolVars, bestVars, nBestVars, input, learn, runVars>>

\* Sentence::init of the next line says whether to learn from it ...
SentenceInit ==
  /\ rpc = "read" /\ pos < Len(input)
  /\ learn' = (HasOL /\ input[pos + 1] = "postedit")
  /\ rpc' = "init"
  /\ UNCHANGED <<poolVars, bestVars, nBestVars, input, pos, currentLine, translationId,
                 postedited, runVars>>

\* ... and after that stores what follows the marker as the post-edit.  Then ReadInput
\* gives the line its id.
ReadInput ==
  /\ rpc = "init"
  /\ pos' = pos + 1
  /\ postedited' = IF learn THEN pos' ELSE postedited
  /\ translationId' = [translationId EXCEPT ![pos'] = currentLine]
  /\ currentLine' = IF LineCounted(learn) THEN currentLine + 1 ELSE currentLine
  /\ rpc' = "submit"
  /\ UNCHANGED <<poolVars, bestVars, nBestVars, input, learn, runVars>>

\* The read that meets the end of the input counts a line like any other.
ReadEnd ==
  /\ rpc = "read" /\ pos = Len(input)
  /\ currentLine' = IF LineCounted(learn) THEN currentLine + 1 ELSE currentLine
  /\ rpc' = "stop"
  /\ UNCHANGED <<poolVars, bestVars, nBestVars, input, pos, translationId, olVars, runVars>>

SubmitTask ==
  /\ rpc = "submit"
  /\ Pool!Submit(Main, pos)
  /\ rpc' = "read"
  /\ UNCHANGED <<bestVars, nBestVars, input, pos, currentLine, translationId, olVars, runVars>>

\* Mistake (not the code): Stop is called with its default argument.
StopPoolAtOnce ==
  /\ rpc = "stop"
  /\ Pool!StopBegins(Main, FALSE)
  /\ rpc' = "stopping"
  /\ UNCHANGED <<bestVars, nBestVars, input, pos, currentLine, translationId, olVars, runVars>>

\* pool.Stop(true): flush remaining jobs
StopPool ==
  /\ rpc = "stop"
  /\ Pool!StopBegins(Main, TRUE)
  /\ rpc' = "stopping"
  /\ UNCHANGED <<bestVars, nBestVars, input, pos, currentLine, translationId, olVars, runVars>>

\* Main waits inside Stop, or the process exits once Stop has returned.
InStop ==
  /\ \/ Pool!ClientStep(Main)
     \/ Pool!SpuriousWakeClient(Main)
     \/ Pool!AllReturned
  /\ UNCHANGED <<bestVars, nBestVars, readerVars, olVars, runVars>>

-----------------------------------------------------------------------------
(* TranslationTask::Run of the task in hand. *)

Running(w, p) == wpc[w] = "run" /\ phase[w] = p
IdOf(w) == translationId[wtask[w]]
RunUnchanged == UNCHANGED <<poolVars, readerVars, olVars>>

\* Manager::Decode looks at m_learn when its search is over.
LearnsOr(w, p) == phase' = [phase EXCEPT ![w] = IF HasOL /\ learn THEN "learn" ELSE p]

Decode(w) ==
  /\ Running(w, "decode")
  /\ LearnsOr(w, "test")
  /\ RunUnchanged /\ UNCHANGED <<bestVars, nBestVars, iterations, learned>>

\* RunOnlineLearning, with the post-edit that is there by then.
Learn(w) ==
  /\ Running(w, "learn")
  /\ learned' = learned \cup {<<wtask[w], postedited>>}
  /\ phase' = [phase EXCEPT ![w] = IF iterations[w] = 0 THEN "test" ELSE "again"]
  /\ RunUnchanged /\ UNCHANGED <<bestVars, nBestVars, iterations>>

\* Run looks at m_learn again: is there more to learn?
TestLearning(w) ==
  /\ Running(w, "test")
  /\ IF HasOL /\ learn
       THEN /\ phase' = [phase EXCEPT ![w] = "again"]
            /\ iterations' = [iterations EXCEPT ![w] = 1]
       ELSE /\ phase' = [phase EXCEPT ![w] = "best"]
            /\ UNCHANGED iterations
  /\ RunUnchanged /\ UNCHANGED <<bestVars, nBestVars, learned>>

\* The loss still falls: decode and learn again.
DecodeAgain(w) ==
  /\ Running(w, "again") /\ iterations[w] < MaxIterations
  /\ LearnsOr(w, "again")
  /\ iterations' = [iterations EXCEPT ![w] = @ + 1]
  /\ RunUnchanged /\ UNCHANGED <<bestVars, nBestVars, learned>>

\* The loss is small, or rises, or maxIterations is reached.
EndDecoding(w) ==
  /\ Running(w, "again")
  /\ phase' = [phase EXCEPT ![w] = "best"]
  /\ iterations' = [iterations EXCEPT ![w] = 0]
  /\ RunUnchanged /\ UNCHANGED <<bestVars, nBestVars, learned>>

\* Manager::OutputBest reports to the collector only if an online learning
\* feature is there and is not learning.
OutputBest(w) ==
  /\ Running(w, "best")
  /\ IF HasOL /\ ~learn
       THEN \/ /\ Best!WriteExpected(w, IdOf(w), wtask[w])
               /\ phase' = [phase EXCEPT ![w] = "bestLoop"]
            \/ /\ Best!HoldBack(w, IdOf(w), wtask[w])
               /\ phase' = [phase EXCEPT ![w] = "nbest"]
       ELSE /\ phase' = [phase EXCEPT ![w] = "nbest"]
            /\ UNCHANGED bestVars
  /\ RunUnchanged /\ UNCHANGED <<nBestVars, iterations, learned>>

BestLoop(w) ==
  /\ Running(w, "bestLoop")
  /\ \/ Best!Flush(w) /\ UNCHANGED phase
     \/ Best!EndWrite(w) /\ phase' = [phase EXCEPT ![w] = "nbest"]
  /\ RunUnchanged /\ UNCHANGED <<nBestVars, iterations, learned>>

\* Manager::OutputNBest reports to its collector whenever there is one.
OutputNBest(w) ==
  /\ Running(w, "nbest")
  /\ IF HasNBest
       THEN \/ /\ NBest!WriteExpected(w, IdOf(w), wtask[w])
               /\ phase' = [phase EXCEPT ![w] = "nbestLoop"]
            \/ /\ NBest!HoldBack(w, IdOf(w), wtask[w])
               /\ phase' = [phase EXCEPT ![w] = "done"]
       ELSE /\ phase' = [phase EXCEPT ![w] = "done"]
            /\ UNCHANGED nBestVars
  /\ RunUnchanged /\ UNCHANGED <<bestVars, iterations, learned>>

NBestLoop(w) ==
  /\ Running(w, "nbestLoop")
  /\ \/ NBest!Flush(w) /\ UNCHANGED phase
     \/ NBest!EndWrite(w) /\ phase' = [phase EXCEPT ![w] = "done"]
  /\ RunUnchanged /\ UNCHANGED <<bestVars, iterations, learned>>

\* Run returns to Execute.
EndTask(w) ==
  /\ Running(w, "done")
  /\ Pool!FinishRun(w)
  /\ phase' = [phase EXCEPT ![w] = "decode"]
  /\ UNCHANGED <<bestVars, nBestVars, readerVars, olVars, iterations, learned>>

\* The steps of Execute around a task.
InPool(w) ==
  /\ \/ Pool!WaitForTask(w)
     \/ Pool!PopTask(w)
     \/ Pool!FindNothing(w)
     \/ Pool!NotifyAvailable(w)
     \/ Pool!TestStopped(w)
  /\ UNCHANGED <<bestVars, nBestVars, readerVars, olVars, runVars>>

Spurious(w) ==
  /\ Pool!SpuriousWakeWorker(w)
  /\ UNCHANGED <<bestVars, nBestVars, readerVars, olVars, runVars>>

-----------------------------------------------------------------------------
MainStep == SentenceInit \/ ReadInput \/ ReadEnd \/ SubmitTask \/ StopPool \/ InStop

WorkerStep(w) ==
  \/ Decode(w) \/ Learn(w) \/ TestLearning(w) \/ DecodeAgain(w) \/ EndDecoding(w)
  \/ OutputBest(w) \/ BestLoop(w)
  \/ OutputNBest(w) \/ NBestLoop(w)
  \/ EndTask(w) \/ InPool(w)

Next ==
  \/ MainStep
  \/ \E w \in Workers : WorkerStep(w) \/ Spurious(w)

\* Threads are scheduled, and the search terminates.  A collector is locked for
\* one Write only, so that a thread that waits for it gets it.
Fairness ==
  /\ WF_vars(SentenceInit \/ ReadInput \/ ReadEnd \/ SubmitTask \/ StopPool)
  /\ WF_vars(Pool!ClientStep(Main) /\ InStop)
  /\ \A w \in Workers : WF_vars(WorkerStep(w))

Spec == Init /\ [][Next]_vars
FairSpec == Spec /\ Fairness

-----------------------------------------------------------------------------
\* When Stop(true) has "flushed the remaining jobs" and batch_run ends, the n-best
\* list of every line that was to be translated is in the n-best file (Manager::
\* OutputNBest).  A line that follows a post-edit is left out:
\* the post-edit, for which OutputNBest reports a list as well, has the same id,
\* and the list of the second to report is held back for ever.
EveryNBestOutput ==
  cpc[Main] = "returned" =>
    \A l \in 1..Len(input) :
      /\ input[l] = "translate"
      /\ l > 1 => input[l - 1] = "translate"
      => \E j \in 1..Len(nBestStream) : nBestStream[j] = l

\* Used to adapt the decoder first and translate then: no post-edit follows a line that
\* is to be translated.
PostEditsFirst ==
  \A k, l \in 1..Len(input) : k < l /\ input[k] = "translate" => input[l] = "translate"

\* Then m_learn says the right thing when a line to be translated is at Manager::
\* OutputBest, however far ahead the main thread has read and though the tasks of post-edits
\* may still be running: when Stop(true) has returned, the translation of every line is
\* in the output.  Only the first is left out: the post-edits share its id, and one
\* that is late takes itself for a line to be translated and may take the place.
EveryTranslationOutput ==
  cpc[Main] = "returned" /\ HasOL /\ PostEditsFirst =>
    \A l \in 1..Len(input) :
      /\ input[l] = "translate"
      /\ l > 1 => input[l - 1] = "translate"
      => \E j \in 1..Len(bestStream) : bestStream[j] = l

\* "Update the weights as I found a better oracle translation": better by the post-edit
\* of the line decoded.  A post-edited line is learned from with its own post-edit, and
\* a line to be translated is not learned from.
LearnsFromOwnPostEdit ==
  \A pair \in learned : pair[1] = pair[2] /\ input[pair[1]] = "postedit"

NoPostEdits == \A l \in 1..Len(input) : input[l] = "translate"
Out == [j \in DOMAIN bestStream |-> bestStream[j] - 1]
InOrder == INSTANCE InOrderOutput WITH NumLines <- NumTranslate, out <- Out

\* The lines of an input without post-edits are output one after the other, in order.
OutputsInOrder ==
  /\ NoPostEdits => InOrder!Init
  /\ [][NoPostEdits => [InOrder!Emit]_Out]_vars

\* Of an input without post-edits the decoder makes an in-order output: the main
\* thread, the pool and the collector together output one line after the other, up to
\* the last.
ImplementsInOrder == OutputsInOrder /\ (NoPostEdits => InOrder!Liveness)
=============================================================================
