---------------------------- MODULE OutputCollector ----------------------------
(****************************************************************************)
(* Moses::OutputCollector (moses/OutputCollector.h): worker threads call    *)
(* Write(sourceId, output) in the order in which they finish, the collector *)
(* writes the outputs in the order of their ids and holds back those that   *)
(* come early.                                                              *)
(*                                                                          *)
(* Write keeps m_mutex while it loops over the outputs it held back; owner  *)
(* is the thread inside that loop.  The debug stream, which gets the same   *)
(* treatment, is left out.                                                  *)
(****************************************************************************)
EXTENDS Integers, Sequences, FiniteSets

CONSTANTS
  Writers,    \* the threads that call Write
  NoWriter,   \* the mutex is free
  NumLines    \* the ids of one batch are 0, ..., NumLines - 1

\* What the theorems about the collector on its own assume.
CollectorAssumption == NoWriter \notin Writers /\ NumLines \in Nat

VARIABLES
  nextOutput,  \* m_nextOutput
  outputs,     \* m_outputs: the texts held back, by id
  stream,      \* what was written to m_outStream
  owner,       \* the thread in the loop of Write, or NoWriter
  unwritten    \* the ids no thread has passed to Write yet

collectorVars == <<nextOutput, outputs, stream, owner>>
writeVars == <<collectorVars, unwritten>>

Ids == 0..(NumLines - 1)

CollectorInit ==
  /\ nextOutput = 0
  /\ outputs = <<>>
  /\ stream = <<>>
  /\ owner = NoWriter

\* Mistake (not the code): every text is taken for the one expected.
WriteAny(w, id, text) ==
  /\ owner = NoWriter
  /\ stream' = Append(stream, text)
  /\ nextOutput' = nextOutput + 1
  /\ owner' = w
  /\ UNCHANGED outputs

\* The text is the one expected next: write it and look for more.
WriteExpected(w, id, text) ==
  /\ owner = NoWriter
  /\ id = nextOutput
  /\ stream' = Append(stream, text)
  /\ nextOutput' = nextOutput + 1
  /\ owner' = w
  /\ UNCHANGED outputs

\* The text is not the one expected: save it for later, over any text saved
\* under the same id.
HoldBack(w, id, text) ==
  /\ owner = NoWriter
  /\ id # nextOutput
  /\ outputs' = [i \in DOMAIN outputs \cup {id} |-> IF i = id THEN text ELSE outputs[i]]
  /\ UNCHANGED <<nextOutput, stream, owner>>

\* One round of the loop: the next text was held back.
Flush(w) ==
  /\ owner = w
  /\ nextOutput \in DOMAIN outputs
  /\ stream' = Append(stream, outputs[nextOutput])
  /\ nextOutput' = nextOutput + 1
  /\ outputs' = [i \in DOMAIN outputs \ {nextOutput} |-> outputs[i]]
  /\ UNCHANGED owner

\* The loop ends and Write returns.
EndWrite(w) ==
  /\ owner = w
  /\ nextOutput \notin DOMAIN outputs
  /\ owner' = NoWriter
  /\ UNCHANGED <<nextOutput, outputs, stream>>

-----------------------------------------------------------------------------
(* The collector on its own: every id of the batch is passed to Write once, *)
(* by any thread, in any order; the text stands for the line it translates. *)

WriteInit == CollectorInit /\ unwritten = Ids

Write(w, id) ==
  /\ id \in unwritten
  /\ WriteExpected(w, id, id) \/ HoldBack(w, id, id)
  /\ unwritten' = unwritten \ {id}

Loop(w) == (Flush(w) \/ EndWrite(w)) /\ UNCHANGED unwritten

AllWritten == unwritten = {} /\ owner = NoWriter /\ UNCHANGED writeVars

WriteNext ==
  \/ \E w \in Writers : Loop(w) \/ \E id \in Ids : Write(w, id)
  \/ AllWritten

WriteSpec == WriteInit /\ [][WriteNext]_writeVars

-----------------------------------------------------------------------------
TypeOK ==
  /\ nextOutput \in 0..NumLines
  /\ DOMAIN outputs \subseteq Ids
  /\ \A i \in DOMAIN outputs : outputs[i] \in Ids
  /\ stream \in Seq(Ids)
  /\ owner \in Writers \cup {NoWriter}
  /\ unwritten \subseteq Ids

\* An id is at one place only, and the ids already output are those below
\* m_nextOutput: "Write or cache the output, as appropriate".
EachIdInOnePlace ==
  /\ DOMAIN outputs \cap unwritten = {}
  /\ \A i \in Ids : i < nextOutput <=> i \notin unwritten \cup DOMAIN outputs

\* Nothing that could be output stays behind when Write releases the mutex.
NothingHeldInVain == owner = NoWriter => nextOutput \notin DOMAIN outputs

\* The collector "makes sure output goes in the correct order when
\* multi-threading".
StreamInOrder == INSTANCE InOrderOutput WITH out <- stream
=============================================================================
