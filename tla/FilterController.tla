--------------------------- MODULE FilterController ---------------------------
(****************************************************************************)
(* lm::Controller (lm/filter/thread.hh): the filter of language models with *)
(* several threads.  The main thread reads n-grams into batches, the threads*)
(* of one util::ThreadPool filter them, and the one thread of a second pool *)
(* puts the batches back in order, writes them and returns them to be       *)
(* filled again.                                                            *)
(*                                                                          *)
(* The three queues are util::PCQueues as long as there are batches; an     *)
(* operation on one is a step (see PCQueue for the steps inside).           *)
(****************************************************************************)
EXTENDS Integers, Sequences, FiniteSets

CONSTANTS
  Workers,     \* the threads of filter_
  QueueSize,   \* queue_size_, filter_main passes twice the number of threads
  BatchSize,   \* batch_size_
  Inputs,      \* the files: [arpa : BOOLEAN, sizes : Seq(Nat)]
  Passes(_)    \* whether an n-gram passes the filter

ASSUME FilterAssumption ==
  /\ QueueSize \in Nat \ {0} /\ BatchSize \in Nat \ {0}
  /\ IsFiniteSet(Workers) /\ Workers # {}
  /\ \A file \in Inputs : file.arpa \in BOOLEAN /\ file.sizes \in Seq(Nat)

VARIABLES
  input,               \* the file of this run
  mpc, sec, read,      \* main: where it is, the section, n-grams read of it
  local,               \* local_read_, its top first
  sequence,            \* sequence_
  toRead,              \* to_read_
  toFilter,            \* in_ of filter_
  toWrite,             \* in_ of output_
  wpc, wbatch,         \* FilterWorkers: where each is, the batch it has
  opc, ordering, base, \* OutputWorker: where it is, ordering_, base_sequence_
  numbered,            \* sequence_ of each batch
  lines, kept,         \* input_ and output_ of each batch
  poisons,             \* poisons that ~ThreadPool of filter_ has produced
  out                  \* what has been written, see SequentialFilter

mainVars   == <<input, mpc, sec, read, local, sequence, poisons>>
workerVars == <<wpc, wbatch>>
outputVars == <<opc, ordering, base>>
batchVars  == <<numbered, lines, kept>>
vars == <<mainVars, toRead, toFilter, toWrite, workerVars, outputVars, batchVars, out>>

Batches == 1..QueueSize
Null == 0     \* no batch, and the poison of the pools
Top == Head(local)

-----------------------------------------------------------------------------
(* The main thread *)

\* NewInput with b on top of the stack.
NewInput(b) ==
  /\ numbered' = [numbered EXCEPT ![b] = sequence]
  /\ lines' = [lines EXCEPT ![b] = <<>>]
  /\ sequence' = sequence + 1

\* The constructor ends with a NewInput.
Init ==
  /\ input \in Inputs
  /\ mpc = "section" /\ sec = 0 /\ read = 0
  /\ local = [n \in Batches |-> QueueSize + 1 - n]
  /\ sequence = 1
  /\ toRead = <<>> /\ toFilter = <<>> /\ toWrite = <<>>
  /\ wpc = [w \in Workers |-> "take"] /\ wbatch = [w \in Workers |-> Null]
  /\ opc = "take" /\ ordering = <<>> /\ base = 0
  /\ numbered = [b \in Batches |-> 0]
  /\ lines = [b \in Batches |-> <<>>] /\ kept = [b \in Batches |-> <<>>]
  /\ poisons = 0 /\ out = <<>>

\* ReadNGrams begins; the header goes straight to the output.
BeginLength ==
  /\ mpc = "section" /\ sec < Len(input.sizes)
  /\ sec' = sec + 1 /\ read' = 0 /\ mpc' = "lines"
  /\ out' = IF input.arpa THEN Append(out, <<sec', 0>>) ELSE out
  /\ UNCHANGED <<input, local, sequence, poisons, toRead, toFilter, toWrite,
                 workerVars, outputVars, batchVars>>

\* AddNGram, up to the FlushInput of a batch that has become full.
AddNGram ==
  /\ mpc = "lines" /\ read < input.sizes[sec]
  /\ read' = read + 1
  /\ lines' = [lines EXCEPT ![Top] = Append(@, <<sec, read'>>)]
  /\ mpc' = IF Len(lines'[Top]) = BatchSize THEN "full" ELSE "lines"
  /\ UNCHANGED <<input, sec, local, sequence, poisons, toRead, toFilter, toWrite,
                 workerVars, outputVars, numbered, kept, out>>

\* After the last n-gram DispatchARPAInput::EndLength calls Flush, which sends
\* a batch that is not empty; a file of counts has no sections to end.
EndOfSection ==
  /\ mpc = "lines" /\ read = input.sizes[sec]
  /\ mpc' = CASE ~input.arpa -> "section"
              [] input.arpa /\ lines[Top] = <<>> -> "drain"
              [] OTHER -> "last"
  /\ UNCHANGED <<input, sec, read, local, sequence, poisons, toRead, toFilter, toWrite,
                 workerVars, outputVars, batchVars, out>>

\* Mistake (not the code): the batch stays on the stack.
SendKeepsIt ==
  /\ mpc \in {"full", "last"} /\ Len(toFilter) < QueueSize
  /\ toFilter' = Append(toFilter, Top)
  /\ UNCHANGED local
  /\ IF mpc = "full"
     THEN mpc' = "lines" /\ NewInput(Top)
     ELSE mpc' = "drain" /\ UNCHANGED <<sequence, numbered, lines>>
  /\ UNCHANGED <<input, sec, read, poisons, toRead, toWrite, workerVars, outputVars, kept, out>>

\* FlushInput.  AddNGram goes on with the batch that is on top then.
Send ==
  /\ mpc \in {"full", "last"} /\ Len(toFilter) < QueueSize
  /\ toFilter' = Append(toFilter, Top)
  /\ local' = Tail(local)
  /\ CASE mpc = "last" -> mpc' = "drain" /\ UNCHANGED <<sequence, numbered, lines>>
       [] mpc = "full" /\ local' = <<>> -> mpc' = "none" /\ UNCHANGED <<sequence, numbered, lines>>
       [] OTHER -> mpc' = "lines" /\ NewInput(Head(local'))
  /\ UNCHANGED <<input, sec, read, poisons, toRead, toWrite, workerVars, outputVars, kept, out>>

\* FlushInput has left no batch: MoveRead waits for one.
MoveRead ==
  /\ mpc = "none" /\ toRead # <<>>
  /\ toRead' = Tail(toRead)
  /\ local' = <<Head(toRead)>>
  /\ mpc' = "lines" /\ NewInput(Head(toRead))
  /\ UNCHANGED <<input, sec, read, poisons, toFilter, toWrite, workerVars, outputVars, kept, out>>

\* Flush waits until it has all the batches again.
Drain ==
  /\ mpc = "drain" /\ Len(local) < QueueSize /\ toRead # <<>>
  /\ toRead' = Tail(toRead)
  /\ local' = <<Head(toRead)>> \o local
  /\ UNCHANGED <<input, mpc, sec, read, sequence, poisons, toFilter, toWrite,
                 workerVars, outputVars, batchVars, out>>

\* Mistake (not the code): the section ends when one batch is back.
EndLengthEarly ==
  /\ mpc = "drain" /\ local # <<>>
  /\ mpc' = "section" /\ NewInput(Top)
  /\ out' = Append(out, <<sec, read + 1>>)
  /\ UNCHANGED <<input, sec, read, local, poisons, toRead, toFilter, toWrite,
                 workerVars, outputVars, kept>>

\* ... gets a new one, and the section is ended on the output.
EndLength ==
  /\ mpc = "drain" /\ Len(local) = QueueSize
  /\ mpc' = "section" /\ NewInput(Top)
  /\ out' = Append(out, <<sec, read + 1>>)
  /\ UNCHANGED <<input, sec, read, local, poisons, toRead, toFilter, toWrite,
                 workerVars, outputVars, kept>>

-----------------------------------------------------------------------------
(* ~Controller: the pools are destroyed, filter_ before output_ *)

CloseStep(from, to) ==
  /\ mpc = from /\ mpc' = to
  /\ UNCHANGED <<input, sec, read, local, sequence, toRead, workerVars, outputVars,
                 batchVars, out>>

Finish ==
  /\ sec = Len(input.sizes) /\ CloseStep("section", "close")
  /\ UNCHANGED <<poisons, toFilter, toWrite>>

\* ~ThreadPool: one poison for each worker ...
PoisonFilter ==
  /\ poisons < Cardinality(Workers) /\ Len(toFilter) < QueueSize
  /\ toFilter' = Append(toFilter, Null) /\ poisons' = poisons + 1
  /\ CloseStep("close", IF poisons' = Cardinality(Workers) THEN "join" ELSE "close")
  /\ UNCHANGED toWrite

\* ... and all of them are joined.
JoinFilter ==
  /\ \A w \in Workers : wpc[w] = "done"
  /\ CloseStep("join", "closeOutput")
  /\ UNCHANGED <<poisons, toFilter, toWrite>>

PoisonOutput ==
  /\ Len(toWrite) < QueueSize
  /\ toWrite' = Append(toWrite, Null)
  /\ CloseStep("closeOutput", "joinOutput")
  /\ UNCHANGED <<poisons, toFilter>>

JoinOutput ==
  /\ opc = "done"
  /\ CloseStep("joinOutput", "end")
  /\ UNCHANGED <<poisons, toFilter, toWrite>>

-----------------------------------------------------------------------------
(* The threads of the pools *)

TakeBatch(w) ==
  /\ wpc[w] = "take" /\ toFilter # <<>>
  /\ toFilter' = Tail(toFilter)
  /\ wbatch' = [wbatch EXCEPT ![w] = Head(toFilter)]
  /\ wpc' = [wpc EXCEPT ![w] = IF Head(toFilter) = Null THEN "done" ELSE "filter"]
  /\ UNCHANGED <<mainVars, toRead, toWrite, outputVars, batchVars, out>>

\* InputBuffer::CallFilter: the n-grams that pass, one after the other.
Passing(ngrams) ==
  LET upTo[n \in 0..Len(ngrams)] ==
        IF n = 0 THEN <<>>
        ELSE IF Passes(ngrams[n]) THEN Append(upTo[n - 1], ngrams[n])
        ELSE upTo[n - 1]
  IN  upTo[Len(ngrams)]

\* What passes is added to the batch's output buffer, as pieces of its input.
CallFilter(w) ==
  /\ wpc[w] = "filter"
  /\ kept' = [kept EXCEPT ![wbatch[w]] = @ \o Passing(lines[wbatch[w]])]
  /\ wpc' = [wpc EXCEPT ![w] = "produce"]
  /\ UNCHANGED <<mainVars, toRead, toFilter, toWrite, wbatch, outputVars, numbered, lines, out>>

PassOn(w) ==
  /\ wpc[w] = "produce" /\ Len(toWrite) < QueueSize
  /\ toWrite' = Append(toWrite, wbatch[w])
  /\ wbatch' = [wbatch EXCEPT ![w] = Null]
  /\ wpc' = [wpc EXCEPT ![w] = "take"]
  /\ UNCHANGED <<mainVars, toRead, toFilter, outputVars, batchVars, out>>

\* ordering_, made longer with NULL if need be, with batch b in its place.
Placed(b) ==
  LET pos == numbered[b] - base + 1
  IN  [n \in 1..(IF pos > Len(ordering) THEN pos ELSE Len(ordering)) |->
         CASE n = pos -> b
           [] n # pos /\ n <= Len(ordering) -> ordering[n]
           [] OTHER -> Null]

TakeFiltered ==
  /\ opc = "take" /\ toWrite # <<>>
  /\ toWrite' = Tail(toWrite)
  /\ IF Head(toWrite) = Null
     THEN opc' = "done" /\ UNCHANGED ordering
     ELSE opc' = "flush" /\ ordering' = Placed(Head(toWrite))
  /\ UNCHANGED <<mainVars, toRead, toFilter, workerVars, base, batchVars, out>>

FrontThere == ordering # <<>> /\ Head(ordering) # Null

\* Flush writes the output buffer and clears it.
FlushFront ==
  /\ opc = "flush" /\ FrontThere
  /\ out' = out \o kept[Head(ordering)]
  /\ kept' = [kept EXCEPT ![Head(ordering)] = <<>>]
  /\ opc' = "produce"
  /\ UNCHANGED <<mainVars, toRead, toFilter, toWrite, workerVars, ordering, base,
                 numbered, lines>>

ReturnFront ==
  /\ opc = "produce" /\ Len(toRead) < QueueSize
  /\ toRead' = Append(toRead, Head(ordering))
  /\ ordering' = Tail(ordering) /\ base' = base + 1
  /\ opc' = "flush"
  /\ UNCHANGED <<mainVars, toFilter, toWrite, workerVars, batchVars, out>>

\* Mistake (not the code): while (!ordering_.empty()), the front is waited for.
FlushEndsWhenEmpty ==
  /\ opc = "flush" /\ ~FrontThere
  /\ opc' = IF ordering = <<>> THEN "take" ELSE "flush"
  /\ UNCHANGED <<mainVars, toRead, toFilter, toWrite, workerVars, ordering, base, batchVars, out>>

FlushEnds ==
  /\ opc = "flush" /\ ~FrontThere
  /\ opc' = "take"
  /\ UNCHANGED <<mainVars, toRead, toFilter, toWrite, workerVars, ordering, base, batchVars, out>>

-----------------------------------------------------------------------------
MainStep ==
  \/ BeginLength \/ AddNGram \/ EndOfSection \/ Send \/ MoveRead \/ Drain \/ EndLength
  \/ Finish \/ PoisonFilter \/ JoinFilter \/ PoisonOutput \/ JoinOutput
WorkerStep(w) == TakeBatch(w) \/ CallFilter(w) \/ PassOn(w)
OutputStep == TakeFiltered \/ FlushFront \/ ReturnFront \/ FlushEnds

\* The process ends.
Ended == mpc = "end" /\ UNCHANGED vars

Next == MainStep \/ OutputStep \/ (\E w \in Workers : WorkerStep(w)) \/ Ended

Spec == Init /\ [][Next]_vars

\* All the threads are scheduled.
FairSpec ==
  Spec /\ WF_vars(MainStep) /\ WF_vars(OutputStep) /\ \A w \in Workers : WF_vars(WorkerStep(w))

-----------------------------------------------------------------------------
(* Properties *)

MainStates == {"section", "lines", "full", "last", "none", "drain", "close", "join",
               "closeOutput", "joinOutput", "end"}

TypeOK ==
  /\ input \in Inputs
  /\ mpc \in MainStates
  /\ sec \in 0..Len(input.sizes) /\ read \in Nat
  /\ local \in Seq(Batches)
  /\ sequence \in Nat
  /\ toRead \in Seq(Batches)
  /\ toFilter \in Seq(Batches \cup {Null})
  /\ toWrite \in Seq(Batches \cup {Null})
  /\ wpc \in [Workers -> {"take", "filter", "produce", "done"}]
  /\ wbatch \in [Workers -> Batches \cup {Null}]
  /\ opc \in {"take", "flush", "produce", "done"}
  /\ ordering \in Seq(Batches \cup {Null})
  /\ base \in Nat
  /\ numbered \in [Batches -> Nat]
  /\ DOMAIN lines = Batches /\ DOMAIN kept = Batches
  /\ poisons \in 0..Cardinality(Workers)

\* Where batch b is.
At(name, s, b) == {<<name, n>> : n \in {m \in DOMAIN s : s[m] = b}}
Holders(b) ==
  At("local", local, b) \cup At("toRead", toRead, b) \cup At("toFilter", toFilter, b)
  \cup At("toWrite", toWrite, b) \cup At("worker", wbatch, b) \cup At("ordering", ordering, b)

\* Every batch is always with one thread or in one queue: none is lost, which
\* would leave Flush waiting for it, and none is filled while its n-grams are
\* still being filtered or written ("File reading thread", "Filter worker
\* thread" and "File writing thread" each use the batch without a lock).
OneHolder == \A b \in Batches : \E h \in Holders(b) : Holders(b) = {h}

\* The assertion of OutputWorker: "assert(request->Sequence() >=
\* base_sequence_)", and no other batch waits in the place of this one.
PlaceIsFree ==
  opc = "take" /\ toWrite # <<>> /\ Head(toWrite) # Null =>
    LET pos == numbered[Head(toWrite)] - base + 1
    IN  pos >= 1 /\ (pos <= Len(ordering) => ordering[pos] = Null)

\* With any number of threads the output is what one thread would write: the
\* n-grams that pass, in the order of the input ("Assemble the output in
\* order."), every section complete before its end is written, and all of it.
Sequential == INSTANCE SequentialFilter
ImplementsSequential == Sequential!Spec

\* The filter comes to an end: neither Flush nor the pools that are destroyed
\* wait for ever.
FilterEnds == <>(mpc = "end")
=============================================================================
