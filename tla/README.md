# TLA+ models of moses-multitask

This directory holds TLA+ specifications of the parts of moses-multitask whose
correctness does not depend on what the scores are: the concurrent machinery that feeds
sentences to the decoder and puts its output back in order, the search graphs of
the stack decoder and of cube pruning with the n-best lists taken from them, the
threads that sample phrase pairs, the streaming library and the threaded filter of
KenLM, and the symmetrisation of word alignments and extraction of phrases.

TLC checks the specifications on small instances (`*.cfg`), TLAPS proves the most
important invariants for every value of the constants (`*Proofs.tla`).
`PROJECT.json` maps every definition to the lines it models, and lists runs,
hazards, findings, mutants and theorems.

    tlc -config ThreadPool_batch.cfg MCThreadPool      # check one run
    tlapm ThreadPoolProofs.tla                         # check the proofs

Contents: 1 Inventory · 2 Plan · 3 Modules and the code · 4 Runs, bounds and
fairness · 5 Proofs · 6 Disagreements found · 7 What is not modelled


## 1 Inventory

### The decoder process

    stdin/file --> IOWrapper::ReadInput --> Sentence::init ---> OnlineLearningFeature
                        | (main thread)       (post-edit, learn?)      | global
                        v                                              |
                   ThreadPool::Submit --> queue --> workers: TranslationTask::Run
                                                      |  Manager::Decode <--+
                                                      |    stacks or cube pruning
                                                      |    phrase lookup --> sampling agenda
                                                      |  Manager::CalcNBest
                                                      v
                                       OutputCollector (best, n-best, ...) --> files

### Around it

    alignments --> symal --> extract --> phrase table
    n-grams --> lm/builder on util::stream::Chain --> ARPA --> lm/filter (Controller) --> ARPA

| component | state | operations | correct when |
|---|---|---|---|
| Thread pool (`moses/ThreadPool.{h,cpp}`) | `m_tasks`, `m_stopped`, `m_stopping`, one mutex, two condition variables, the threads | `Submit`, `Stop`, the loop `Execute`, `SetQueueLimit` | every accepted task is run once and in order; a call that blocks returns; `Stop` does what its comment says |
| Output collector (`moses/OutputCollector.h`) | next id, map of held outputs, a stream | `Write` from any thread | the stream holds the outputs in the order of their ids, and all of them |
| Batch driver (`ExportInterface.cpp`, `IOWrapper.cpp`, `TranslationTask.cpp`) | line counter, translation ids, the tasks | read a line, submit, run, output, stop | the output is the input's lines, translated, in order; nothing is missing when the process ends |
| Online learning hand-over (`Sentence.cpp`, `Manager.cpp`, `FF/OnlineLearningFeature`) | one global post-edit and one global flag `m_learn` | reader writes, workers read (twice) | a sentence is learned from with its own post-edit (it is not: section 6) |
| Search (`SearchNormal`) | stacks, distortion limit, time-out | `Decode` and its callees | no dead ends, a full translation is found, limits and constraints hold |
| Hypothesis stack (`HypothesisStackNormal`) | set of hypotheses, best score, two discard thresholds | `AddPrune`, `PruneToSize` | only what pruning may drop is dropped |
| Reordering constraints (`ReorderingConstraint`) | walls, local walls, zones | `Check` | walls are not crossed, a zone entered is finished |
| Coverage bitmap (`WordsBitmap`) | covered words | gap and last position, ids | an id stands for one coverage |
| Cube pruning (`SearchCubePruning`, `BitmapContainer`, `HypothesisStackCubePruning`, `Hypothesis`) | stacks, containers, edges with their grids and queues, arc lists, hypotheses on the heap | fill stacks in turn, recombine, prune, delete | no freed hypothesis is used; without limits the best translation is found |
| n-best list (`Manager::CalcNBest`, `TrellisPath`) | contenders, list | take the best, deviate from it | the list is the best of the paths in the graph, in order |
| Sampling in mmsapt (`TranslationModel/UG/mm`) | list of jobs, workers, per-job counters and statistics | look up a phrase, add a job, get a job, sample, release | statistics are complete when they are read; every lookup returns |
| Producer-consumer queue (`util/pcqueue.hh`) | ring, two positions, two semaphores, two mutexes | `Produce`, `Consume`, both may throw | a bounded first-in first-out buffer |
| Streaming (`util/stream`) | ring of queues and blocks | add a thread, pass blocks on, poison, recycle, wait | blocks arrive in order, are reused safely, all threads end |
| Language model filter (`lm/filter`, `util/thread_pool.hh`) | batches, three queues, sequence numbers | read, filter, put in order, write, flush | it writes what one thread would |
| symal (`symal/symal.cpp`) | a set of points, a matrix, flags of covered words | grow, complete, print | points come only from the union, next to others, and cover new words |
| extract (`phrase-extract/extract-main.cpp`) | blocks and their corners | scan spans, orient | the blocks are the consistent ones; the orientation models agree |
| Chart and syntax decoders, incremental search | cells, cubes | other searches | |
| Online and multi-task learning updates (`FF/`) | weights, interaction matrices | update after a post-edit | tasks do not mix their weights |
| Dynamic cache model (`PhraseDictionaryDynamicCacheBased`) | phrase pairs with ages | insert, decay, clear, look up | ages and entries agree; no access to erased entries |
| Server (`moses/server`) | one condition variable per request | translate, update | every request is answered |
| Shared containers (`thread_safe_container.h`, `ContextScope.h`, `FactorCollection.cpp`) | maps under upgradable locks | get or insert | one value per key |
| Other KenLM, tuning, training tools, phrase tables on disk, scripts | | | numerical, I/O or sequential |

**Interactions.** The main thread and the workers share the pool's queue, the
global `OnlineLearningFeature` and `StaticData`; workers share the collectors and
the agenda of the suffix-array phrase table, which has workers of its own.
`Chain` and the filter are threads that share nothing but what `PCQueue`s
hand from one to the other. symal and extract are programs of one pipeline.
Calls are direct; there are no messages and nothing is persisted, so crash
recovery does not arise. Waiting happens on condition variables (pool, server,
statistics), semaphores (`PCQueue`) and joins of threads.

**What is hard.** (a) Interleavings of main thread, workers and callers of
`Stop`, with waits that are not in loops. (b) The order in which tasks or batches
finish against the order in which they must be output. (c) Global learning state
written by the reader for the *next* line while the tasks of earlier lines
have not read theirs. (d) Rings of bounded queues in which everyone may wait for
everyone, and which must be wound up by poisons. (e) Workers that come and go,
and counters that say when the last has gone. (f) Two conditions on every phrase
(distortion limit, walls and zones) that are checked one phrase at a time but must
leave a way to the end of the sentence. (g) Thresholds computed at one pruning and
used until the next; hypotheses freed while others may still point to them.
(h) Exceptions between two halves of an operation. (i) Copies of a set that must
agree with it while it grows under the iterator that scans it. (j) Numbers packed
into 32 bits. `PROJECT.json` lists each hazard at its line, with the properties
that watch it.


## 2 Plan

The decoder's concurrency comes first, because every mode of the program shares
it and it is the hardest to test; then the search; then the other programs of the
repository that have threads or an algorithm whose result can be stated apart from it.

| step | modules | composed of | state |
|---|---|---|---|
| 1 | `ThreadPool`, `ThreadPoolProofs` | | done |
| 2 | `InOrderOutput` (abstract), `OutputCollector`; proofs at the end of `BatchDecoderProofs` | refinement | done |
| 3 | `BatchDecoder`, `BatchDecoderProofs` | `ThreadPool` + 2 × `OutputCollector`, refines `InOrderOutput` | done |
| 4 | `BoundedBuffer` (abstract), `PCQueue`; proofs at the end of `FilterProofs` | refinement | done |
| 5 | `WordsBitmap`, `ReorderingConstraint`, `SearchNormal`, `SearchProofs` | bottom up by EXTENDS | done |
| 6 | `HypothesisStack`, `StackProofs` | | done |
| 7 | `Chain`, `ChainProofs` | queues as `BoundedBuffer` promises | done |
| 8 | `SequentialFilter` (abstract), `FilterController`, `FilterProofs` | refinement; queues as `BoundedBuffer` promises | done |
| 9 | `GrowingAlignment` (abstract), `Symal`, `PhraseExtract`, `TrainingPipeline`, `TrainingProofs` | refinement; two programs in sequence | done |
| 10 | `CubePruning`, `NBestList`; proofs at the end of `SearchProofs` | the second continues the first | done |
| 11 | `SamplingAgenda`, `SamplingAgendaProofs` | | done |

Not planned any more, with the reasons in section 7: the LRU cache of mmsapt, the
server, the dynamic cache, the shared containers, the weights of online learning.


## 3 Modules and the code

### ThreadPool (moses/ThreadPool.h, .cpp)

One action per section of code that holds `m_mutex`; a wait ends an action and
the wake-up starts another. `wpc` and `cpc` say where a worker is in `Execute`
and a client in `Submit` or `Stop`. `NeededNotified` and `AvailableNotified` are
the two `notify_all`. Boost allows spurious wake-ups, so `SpuriousWakeWorker`
and `SpuriousWakeClient` do, and because `Execute` waits with `if`, not `while`,
`FindNothing` is a real path. The test of `m_stopped` at line 64 is made without
the mutex: `TestStopped` sees the current value or the one of the last time
the worker held it. `accepted`, `started` and `finished` are history.
`DeleteAfterExecution` and the allocation of tasks are left out.

### InOrderOutput, OutputCollector (moses/OutputCollector.h)

`InOrderOutput` promises that a stream is 0, 1, 2, ... up to the last line.
`Write` is split where its loop turns: `WriteExpected` (the id was the next
one), `Flush` (one round), `EndWrite`; `HoldBack` is the other branch. `owner`
is the thread that has the mutex meanwhile. `BatchDecoder` composes two collectors, and TLC checks them
there. `WriteSpec` is the collector on its own, to which any threads pass every id once, in any
order; it is only proved about.

### BatchDecoder (ExportInterface.cpp, IOWrapper.cpp, TranslationTask.cpp, parts of Sentence.cpp and Manager.cpp)

Composes `ThreadPool` (`Pool`, one client, no queue limit, `Stop(true)`) with two
`OutputCollector`s (`Best`, `NBest`), by INSTANCE on its own variables. The main thread
reads a line in two steps, `SentenceInit` (`Sentence::init` writes `m_learn` of the one
`OnlineLearningFeature`) and `ReadInput` (it then writes `m_postedited`, and
`IOWrapper::ReadInput` gives the line its id and counts it), because a worker may look at the
two in between; `ReadEnd` is the read that meets the end of the input. `SubmitTask`, `StopPool`,
`InStop` follow `batch_run`, which reads on as soon as a task is submitted.

A worker goes through `phase`: `Decode` (`Manager::Decode` up to the look at `m_learn`), `Learn`
(`RunOnlineLearning`, which reads `m_postedited`), `TestLearning` and `DecodeAgain` (the loop of
`TranslationTask::Run`; whether the loss still falls is open, so `EndDecoding` may
come at any time), `OutputBest`, which looks at `m_learn` once more, and `OutputNBest`, each with the
loop of `Write`, then `EndTask`. A sentence is its line number, a post-edit the line it came
with. `learned` is history: the line decoded and the post-edit that was used.

The accesses to `m_learn` and `m_postedited` are not synchronised in the code. Each is a step here, in
any order with those of the other threads. What a torn `std::string`, or two threads in `RunOnlineLearning`
at once, would do beyond that is not modelled. The branches for multi-task learning
and simulated post-editing (`spe-src`) are left out.

### BoundedBuffer, PCQueue (util/pcqueue.hh)

The wait for a semaphore, the section under `produce_at_mutex_` or
`consume_at_mutex_`, and the post are three actions. `WriteThrows` and
`ReadThrows` are the `catch` branches: the semaphore is posted back and the
exception leaves the call. The abstract buffer's content is what was written and
not yet read (`Unread`), which changes in `Write` and `Read`.

### WordsBitmap, ReorderingConstraint, SearchNormal

`WordsBitmap` works on the set of covered words; `Encode` packs it as `GetID`
does. `ReorderingConstraint` has walls, zones and local walls as
`InitializeWalls`, `SetWall`, `SetZone` and `FinalizeWalls` leave them
(`Constraint`), and `Check` with its parts in the order of the code: walls, the
monotone default, then zone by zone (`ZoneAllows`) with the dead-end test and
the local walls. `SearchNormal` has one action per stack of `Decode`
(`ProcessStack`: prune, then expand every hypothesis kept into the later stacks) and
the time-out, which leaves `FinalStack` at the stack last expanded. A hypothesis
is its coverage and the place of its last phrase: that is all
`ProcessOneHypothesis` looks at. `Pruned` is deliberately weak: any non-empty part of a stack that respects the size. What holds here holds for
every feature function, language model and weight vector.

### HypothesisStack (moses/HypothesisStackNormal.cpp)

One stack, filled by `AddPrune` in any order and then pruned and expanded.
Hypotheses that recombination cannot tell apart are a class. `Keeping` follows
`PruneToSize` step by step: the best of each coverage first (diversity), then
the best others within the beam, then the thresholds `worst` and `floor`; equal
scores may be sorted either way, so `PruneToSize` returns a set of stacks.
Scores are small integers and the beam is added to them, as the logarithms in
the code. A beam factor of 1 (`BeamWidth = 0`) is excluded: the strict
comparison at line 195 then drops the best hypothesis with the rest.

### CubePruning, NBestList (SearchCubePruning.cpp, BitmapContainer.cpp, HypothesisStackCubePruning.cpp, Hypothesis.cpp; Manager.cpp, TrellisPath.cpp)

A container holds the hypotheses of one coverage; an edge leads to it from the
container of a smaller coverage by translating one more span, and is a grid of
hypotheses against translations. The best cell of all edges of a stack is
popped, its hypothesis added to the stack and its neighbours enqueued, up to the pop limit; then the diversity
pass, pruning, sorting, and the edges to later stacks (`CreateForwardTodos`,
`CheckDistortion`). Hypotheses live in `heap`; an index is never reused, so a use
of a freed one is seen. Recombination keeps the loser as an arc when an n-best
list is asked for and frees it otherwise; `CleanupArcList` sorts the arcs and cuts
them. `NBestList` goes on with `CalcNBest`: `contenders` is the collection kept in
order of score, `DeviantPaths` the two cases of `CreateDeviantPaths`, `Pruned` the
pruning by size or by the n-best factor. Scores come from small tables: a word
penalty for a translation, a bigram score, and the distortion cost.

### SamplingAgenda (TranslationModel/UG/mm/ug_bitext*.h)

A decoder thread goes through `Prepare` (the lock of the Bitext, the agenda
created at the first call), `AddJob`, and for a `lookup` `Sleep` and `Return`;
`prep2` alone does not wait. A worker is `GetJob` (drop what is done, take the first
job with fewer than `PerJob` workers, or the first), `Register`, rounds of `NextSample`,
`CountSample`, `Add`, `Release`; `FindNoJob` leaves the loop, and `ThreadEnds` is the
moment from which `timed_join(0)` succeeds, which is later. A job counts in
`inProgress` the agenda and the workers that have registered. `FlipCoin` leaves
open what the random number decides but not what it cannot. The unlocked
reads in `job::done` are taken to see current values. `joblist` is a set of job
numbers: the code adds at the end of its list and removes anywhere, so that the
order of the list is the order in which the jobs came.

### Chain (util/stream/chain.{hh,cc}, block.hh, io.cc)

Thread *k* reads the queue *k* − 1 and writes the queue *k*; the last closes the
loop into the queue 0. `AddThread` is `operator>>` (the first one starts the
chain), `CompleteLoop` and `Wait` close it. A thread is a `Link`: `TakeFirst`
(`Init`), its work, `Put` and `TakeNext` (`operator++`), `Pass` for the poison,
which comes from `operator++` or, if it was the first block, from the destructor.
The lead fills blocks (`Fill`) or poisons the one it holds; the others may leave
less in a block, and the last sets its size again (`Recycler`). `DrainBlock` and
`DrainPoison` are the loop in `Wait`.

### SequentialFilter, FilterController (lm/filter/thread.hh, format.hh, arpa_io.hh, filter_main.cc; util/thread_pool.hh)

The main thread reads sections of n-grams into the batch on top of `local_read_`;
`Send` is `FlushInput`, `MoveRead` and `Drain` wait for batches to come back,
`EndLength` ends a section once all are back. `NewInput` numbers a batch whether it
will be sent or not. A worker takes, filters and passes on; the output thread puts a batch in its place
(`TakeFiltered`), writes and returns the front of `ordering_` while it is there.
The end is `~ThreadPool` twice: poisons, joins. `SequentialFilter` is what a single
thread writes, headers and ends of sections included: the set of lines to be written
(`Lines`), and line *k* of the output is the one with *k* − 1 lines before it (`LineAt`).

### GrowingAlignment, Symal, PhraseExtract, TrainingPipeline (symal/symal.cpp, phrase-extract/extract-main.cpp, SentenceAlignment.cpp)

`Symal` keeps the four copies of the code (`currentpoints`, `A`, `ea`, `fa`) and
the iterator `k` over a `std::set` that grows: a point inserted ahead of it is
visited in the same scan. `GrowingAlignment` has only the set of points and adds
them in any order. `PhraseExtract` has one action per target span: the least source
span, the retreat and advance over unaligned words, the limits; with a phrase or
hierarchical model the orientations are read off the corners when all blocks are
known. `TrainingPipeline` starts `extract` with the line `symal` has printed, as
`train-model.perl` does.


## 4 Runs, bounds and fairness

| run | module, cfg | instance | shows |
|---|---|---|---|
| `pool_batch` | MCThreadPool, ThreadPool_batch | 2 workers, 1 client, 3 tasks, limit 1, `Stop(true)` | the queue is within its limit; tasks are run once; when `Stop` returns all are done; under fairness every call returns and accepted tasks are run |
| `batch` | MCBatchDecoder, BatchDecoder | 2 workers, 3 lines to translate and up to 2 post-edits | no n-best list is missing when the process ends; no translation is, if the post-edits come first; without post-edits reader, pool and collector together implement `InOrderOutput`, liveness included |
| `batch_learning` | MCBatchDecoder, BatchDecoder_learning | the same | the first disagreement of section 6 |
| `pcqueue` | MCPCQueue, PCQueue | 2 + 2 threads, 2 slots, 4 values produced | refinement of `BoundedBuffer`, accounting of slots, everything is consumed |
| `search` | MCSearchNormal, SearchNormal | 5 words, phrases of up to 3, limit 3, all walls, all nested or disjoint pairs of zones, a time-out | no dead end; the stack read at the end is not empty; walls, local walls and zones are respected; ids are unique |
| `stack` | MCHypothesisStack, HypothesisStack | 7 classes of 2 coverages, 3 scores, size 3, diversity 1 | what is lost, one pruning at the end would drop, too; diversity is honoured |
| `nbest` | MCNBestList, NBestList | 14 settings, sentences of 3, 4 and 6 words | nothing points to a freed hypothesis; an unlimited search is exact; the first cells popped are the best; the list is what enumerating all paths of the graph gives, and full |
| `chain` | MCChain, Chain | 3 blocks, up to 4 threads, up to 5 blocks a round, 2 rounds | no queue overflows; blocks arrive in order and are reused when nobody has them; the poison ends the loop in `Wait`, which returns |
| `filter` | MCFilterController, FilterController | 2 workers, 4 batches of 2, three files | a batch is in one hand; what is written is what one thread would write; the program ends |
| `training` | MCTrainingPipeline, TrainingPipeline | all alignments of 3 × 3 words, all options | symal implements `GrowingAlignment`; the consistent blocks are extracted, exactly; the orientation models agree as they should; the programs end |
| `agenda` | MCSamplingAgenda, SamplingAgenda | 2 decoder threads, 2 workers, 4 phrases, 2 jobs, 1 worker per job | statistics are complete and at rest when read; samples are as large as asked for; lookups return outside one window |
| `filter_flush` | MCFilterController, FilterController_flush | a section of exactly one batch | the second disagreement of section 6 |

**Bounds.** `MaxLines`, `NumLines`, `MaxProduced`, `MaxScore`, `MaxIterations`,
`SourceSize`, `MaxThreads`, `MaxBlocks`, `MaxRounds` and `MaxJobs` are the bounds;
the rest are parameters of the code.

* Pool: three tasks on a queue of limit 1 let one task run, one wait and one be
  blocked; two workers are enough for one to be woken in vain. The proofs lift
  the safety part to any number, of clients and of modes of `Stop`, too.
* Batch: with three lines and two workers lines overtake one another and are held back. The inputs have
  no post-edit, one before, between or after the lines to be translated, or two before them,
  which the reader reads while the tasks before are anywhere. The proofs lift the safety part to
  any input and any number of threads.
* Queue: two slots and four values make both positions wrap around; with two
  threads per end one may stand between each pair of actions while the other passes.
* Search: with five words and limit 3 the window of words that may be covered
  beyond the first gap does not span the sentence, so jumps, ways back and dead
  ends occur; a zone of two to four words can be entered at any place. Stacks
  of one hypothesis lose nothing: which one is kept is open, so every hypothesis
  the search can build is built in some behaviour, and an extension goes to a
  later stack, where it meets those of other hypotheses.
* Stack: the seventh hypothesis exceeds 2·3 − 1 + 1 and triggers lazy pruning;
  with two coverages the stack then holds two hypotheses for diversity and one
  of the rest, so both thresholds are in force for what follows. The lowest
  score is outside the beam of the highest.
* n-best: the settings are chosen one by one for what they reach: pop limits that
  cut a grid, stacks of one, a beam, diversity, arcs cut to one, repeated
  translations with and without the n-best factor, an unlimited distortion, a coverage that one
  hypothesis may continue from and another may not.
* Chain: three blocks and four threads make threads wait for each other at both
  ends; five blocks make the ring go round; the second round starts on used memory.
* Filter: with two workers batches overtake each other; nine n-grams are more
  batches than there are, so the main thread waits for one to come back; four
  batches is twice the number of threads, which is what `filter_main` passes.
* Training: three words on each side have all eight neighbours, unaligned words
  within and at the ends, and blocks over the limit of one or two words.
* Agenda: one worker per job (four in the code) lets two workers be at two jobs, or both at
  one (all jobs have theirs); two jobs let the list become empty and fill again. The coin
  has a choice where one of three good occurrences is asked for, and none where two of three
  are once one was passed over.

**Deadlock** is checked in every run but four. `chain`, `training` and `nbest` stop where the
programs end: after the last round, after the pairs are written, after the list is
made. `filter_flush` looks for a behaviour that hangs. The other specifications
have a stuttering action for the states in which the system is really finished.

**Fairness.**
* `ThreadPool`: weak fairness for each worker's `WorkerStep` and each client that
  is inside a call. The operating system runs every thread, Boost's mutex is
  released after finitely many instructions, and tasks are assumed to terminate.
  No fairness for new calls, nor for spurious wake-ups, so nothing relies on them.
* `BatchDecoder`: the same per thread as the pool; the search terminates because
  stacks are finite, and the learning loop because of `maxIterations`.
* `PCQueue`: weak fairness for a producer between wait and post; strong fairness
  for a consumer's wait and read, that is, the semaphore does not starve a
  waiter and a copy does not throw for ever.
* `Chain`, `FilterController`: weak fairness per thread. Each queue of `Chain` has one producer and one
  consumer; workers of the filter that share a queue need no strong fairness,
  since it does not matter which of them takes a batch.
* `SamplingAgenda`: weak fairness for each thread inside a call and for the end of a worker's
  thread; none for new lookups.
* `TrainingPipeline`: the sequential programs keep running.
* `SearchNormal`, `HypothesisStack`, `NBestList` have safety properties only and no fairness.


## 5 Proofs

All constants are arbitrary up to the named assumptions (`PoolAssumption`,
`QueueAssumption`, `SizeAssumption`,
`DistortionAssumption`, `SearchAssumption`, `ConstraintAssumption`, `StackAssumption`,
`BatchAssumption`, `ChainAssumption`, `FilterAssumption`, `SymalAssumption`,
`AgendaAssumption`), which TLC evaluates in the runs.
The proofs of `OutputCollector` stand at the end of `BatchDecoderProofs`, those of `PCQueue` at the end of
`FilterProofs`; so that the modules can be extended together, the specification of the
first has the prefix `Write` (`WriteSpec`), that of the second `Queue`.

**ThreadPoolProofs.** `TypeOK`, `FirstInFirstOut`, `PoppedOnce` and
`QueueLimitHolds` are invariants. They are not inductive: `PoppedOnce` needs to
know that a worker has a task exactly while it runs it (`HoldsTask`), that tasks
of blocked Submits are not in the queue yet and differ (`Pending`), and that
no task was accepted twice (`Distinct`). `IInv` is their conjunction; one step
per action. `DrainingStopCompletes` then proves `StopCompletesQueuedJobs` for
one client that always drains (`OneDrainingClient`, which is `batch_run`), from
`Drained`: past its wait the queue stays empty and only that client sets
`m_stopped`. Without the assumption it is false (section 6).

**BatchDecoderProofs.** For any input, any number of threads and whatever way they interleave, with
the reader as far ahead as it likes.
The pool is not proved about again: its proofs are instantiated for one client, no limit
and `Stop(true)` (`PoolP`), every step of `batch_run` is shown to be a step of that pool or to leave
it alone (`PoolStep`), and the pool's own invariant, `Drained` included, becomes a part of `IInv`. The rest is
`ReaderInv` (the tasks are the lines read, in order, and the id of a line is the number of counted
lines before it), `ClientInv`, `WorkerInv`, and one and the same statement about each collector
(`CollectorOk`, in `NBestInv` and `BestInv`): what it has output or
holds under an id is of a line with this id; what was reported is in one of these
places; the id expected next is not held unless a thread is inside `Write`. The steps of a
`Write` preserve it (`CollectorWrites`, `CollectorHolds`, `CollectorFlushes`, `CollectorEnds`), and the reader, too (`CollectorKept`).

`EveryNBestOutput` follows because ids grow by at most one from line to line: were one missing in the
file, the first missing would be expected and
held, and nobody is left to find it. It is proved for an n-best file (`HasNBest`) and ids from 0
(`StartId = 0`): with any other start it is false (section 6).

`EveryTranslationOutput` needs more, since `OutputBest` reports only if `m_learn` is false when
it looks. Where the post-edits come first, a line to be translated
is never followed by one, so that the flag is false from the moment such a line has been read (`LearnIsOff`)
and all the more when its task runs: every such line past its output is in `BestInv`. A task
of a post-edit that is late finds the flag false as well and reports under the id of the line behind the
post-edits; that is why this one line is left out, and why no other is in danger.

`BatchImplementsInOrder` is about the inputs without post-edits (`NoPostEdits`): there the id of a line is its number
less one, so every text the collector appends is the next number. It is the safety part of `ImplementsInOrder`
(`OutputsInOrder`), for any number of lines. `LearnsFromOwnPostEdit` is not proved, because the code breaks it.
`BatchAssumption` says that `None` is neither a thread nor a line, and that the inputs have the same number of
lines to be translated.

*The collector alone*, for any threads that pass every id once (`CollectorAssumption`): `EachIdInOnePlace`,
`NothingHeldInVain`, and that every
step maps to a step of `InOrderOutput` or a stutter. The inductive invariant adds
that texts are held under their own ids and that the stream's length is
`m_nextOutput`.

**FilterProofs, the queue alone.** `SlotsAccountedFor` and `ConsumedInOrder` are inductive
only together with the contents of the ring: the *d*-th slot from `consumeAt` holds
the *d*-th unread value (`Contents`), the two positions are `Stored` apart modulo
the size (`EndsApart`), and a producer before its write brings a value
(`HoldsValue`). `SlotsAccountedFor` gives the bounds (a writer never finds the
ring full, nor a reader empty), `Contents` the order. The refinement of
`BoundedBuffer` follows step by step; only `Write` and `Read` are not stutters.

**SearchProofs, the search of SearchNormal.** `Sound(h)` is what every hypothesis in a stack
satisfies: its shape, the window behind the first gap (`WindowSmall`), where its
last phrase ends relative to the gap, and what lies behind walls
(`BehindWalls`). `IInv` says it of all stacks, with `TypeOK`. From it:
`WindowWithinLimit`, `WallsRespected` and, for inputs without zones,
`NoDeadEnd`: the single word at the first gap can always be translated next.
`TranslationFound` follows with `Alive`: the stack last expanded is not empty, and
some stack not yet expanded is not.

`ZonesRespected` is proved for any number of zones, crossing ones included. `Check` only looks at the zones
when a phrase jumps, and zone by zone; `ZoneAnswer` collects the ways in which it can have
said yes, and by `AllZoned` a hypothesis that has entered a zone and covers anything
outside later has finished it, and has covered what lies before a local wall
it has passed. That a local wall belongs to one of the zones (`LocalWallsName`) is an induction over the zones
that can be made by hand: `LocalWalls` is a recursive function, and the
least step at which the claim failed would have a predecessor at which it held.

`IdIdentifiesCoverage` is made by hand in the same way: that the fold over the words covered is defined at all
(`IterIs`), does not depend on the order (`BitsWithout`), and yields different sums below 2^*k* for
different sets in a window of *k* (`BitsDiffer`). The window behind the first gap is narrower than
the distortion limit (`WindowSmall`), which the theorem takes to be at most 15, as StaticData.cpp:510 demands
before it allows a stack diversity; a limit of -1, which passes there, is the case in which ids
do collide (section 6).

**SearchProofs, cube pruning and the n-best list.** `NothingDangles`: for any translation options, stack and pop
limits, diversity and scores, at every moment of search and of the listing of paths, no hypothesis
that a stack, an arc list, a container or a path still reaches has been freed. It uses nothing
of what `SearchNormal` assumes. `NoDangling` speaks of all that is reachable and says nothing of how
it stays so; the inductive `CubeInv` says it link by link. A hypothesis
extends one that is still in a smaller stack (`Rooted`). A stack keeps hypotheses of
its own number of words, each with arcs of its own coverage, none freed, and no two share an arc
(`Stacked`). The edges to a container start from hypotheses of one coverage still in the stack
before (`EdgesFrom`). What waits in a queue waits there once, is in no stack and
was not freed (`Queued`, `Fresh`). The argument is then one about sizes: whatever an operation on a stack frees,
`AddPrune`, `PruneToSize` or `CleanupArcList` (`Tidy`, `Settles`), has as many words as that stack, and all that
is pointed to across stacks has fewer. Only in the listing is the last stack reached too, and by
then nothing is freed. On the way it is shown by hand, since these are recursive, that sorting
keeps the elements of a list (`SortedBy`, `Listing`), and that the scores it sorts by are defined
(`SpanEstimate`, `FutureScore`).

`BestArePopped` is `BestCellsPopped` for grids, stacks and limits of any size: where word pairs count for
nothing, what has been popped scores as well as every cell that has not, also the many that no
hypothesis was ever created for. The queue only knows the cells that have been seen, so the invariant `BestInv` (together with
`CubeInv`) says how these bound the rest. The hypotheses of an edge are sorted by
what they bring to it, the cost of the jump included (`Sorted`): with a limit they are sorted by that; without one,
total scores of one coverage differ as scores do (`Totals`), so the order of the
stack will do. Hence worth falls along both sides of a grid (`GridFalls`).
Each grid has been entered at its first cell, and the neighbours of a popped cell have been seen
(`GridsOK`), so that from any cell that has not been popped one that waits is met on the way back to the first
(`WaitsBefore`). What has been popped is as good as what waits in any container of the stack
(`BestFirst`): a round pops the top of the top container and adds only neighbours, which are not better
(`RoundCreates`, `RoundBest`). The last step needs that a container with something waiting is still in `BCQueue`.
`EnsureMinStackHyps` pops out of this order, so the property is about the main loop.

**StackProofs.** For any classes, scores, limits and orders of arrival: `OnlyWorstPruned` and
`DiversityKept`. `AddPrune` turns a hypothesis away by two thresholds that date from earlier
prunings, while the properties speak of the stack as it is now. The invariant says what a
threshold stands for: above `m_worstScore` the stack is full, or that is the end of the beam
(`WorstIsFull`), and `m_diversityWorstScore` of a coverage is reached by as many hypotheses as the
diversity asks for (`FloorIsReached`). What is lost was then below the beam or below a full stack
(`LostBelow`), and its coverage has its share of hypotheses as good (`LostOfMany`). The difficulty is
that "full" counts those kept for diversity, which is a choice between equals and
changes with every arrival: `Full` speaks of every choice, and `ChoiceBefore` turns a
choice made after a score was raised into one made before that fills the stack no further.

**ChainProofs.** For any number of threads, blocks and rounds: `TypeOK`,
`ProduceNeverWaits`, `DeliveredInOrder`, `PoisonEndsTheRound`. The blocks of a
round are numbered as the lead took them. `Order` says that the queue *k* holds the blocks
between those thread *k* + 1 took and those thread *k* gave, in order (`Contents`
which they are, `Lengths` how many); `Rotation` that the blocks come back to the
lead in the order it took them, so that the number of a block determines its memory and what it has for content (`Data`).
Since all queues and threads together have exactly `BlockCount` blocks, the poison among them,
none has to wait for room: this is why `Wait` may join the threads
before it empties the queue.
`RecycledSafely` follows from giving every owner of a block, a thread or a place in a queue, its
turn (`Turn`): the number under which the lead took the block, or will take it. Different owners have
different turns, all turns lie within `BlockCount` consecutive numbers (`OwnerTurn`), and within so many numbers
no memory comes twice (`MemoryDiffers`). That its size is set again is `Whole`,
for the blocks in the queue of the lead.

**FilterProofs.** For any number of workers and batches: `OneHolder` by sharing
the batches out (`NoneTwice`, `Apart`, `NoneLost`), and `PlaceIsFree`, the assertion
at thread.hh:75, from `Numbers`: the batches filled and not yet written have
different sequence numbers, none below `base_sequence_`.

*What is written.* `FilterImplementsSequential` is the safety part of `ImplementsSequential`:
for any file, filter, number of workers and batches and size of a batch, the output is always a beginning of
what one thread would write, and only grows. The invariant is `TextInv`. The text of a batch (`Text`) is
`lines` until a worker has filtered it and `kept` from then on. The output and every text are in order, the output
comes before every text and the texts follow each other by the batches' numbers (`Ordered`); all of it comes from what
has been read (`FromInput`); and of what has been read every line to be written is on the output or in a text
(`Complete`). `FlushFront` writes the batch with the number `base`, before which no other
text comes; `EndLength` finds all batches back and the one on top started anew, so that the end of a section follows all of its
n-grams, and the next header is written with no n-gram on the way (`Reading`).
An output that is in order and leaves out no line before one it has (`WrittenInOrder`) is a beginning of the file:
its *k*-th line has *k* − 1 before it and no other line has (`BeginningOfFile`). `Passing` is recursive; that it is
well defined, keeps the order and keeps what passes is shown by an induction by hand over the least counterexample
(`PassesUpToExists`, `PassingKeepsOrder`). The theorem holds for the
files of `filter_flush` too: there the end of the output never comes, but what is written is right.

**TrainingProofs.** For sentences of any length. *symal*: `WithinUnion`, `CopiesAgree`,
`FinalCovers`, and the whole refinement of `GrowingAlignment`. The code
decides by its copies while the abstract specification speaks of the points alone, so
`CopiesAgree` carries every step. That the growing is complete when it ends needs
`Scanned`: in a scan that has added nothing, no point behind the iterator has a
neighbour to add, and the last scan is such a one.

*extract*, started with what symal printed: `ExtractedExactly`, `ModelsAgree`,
`HierSeesAnyLength`. The loops find a block from the least and greatest source word aligned to the target span
and walk outwards over unaligned words; `FoundConsistent` and `ConsistentFound` show that these are
exactly the consistent blocks of this span, and the invariant `ExtractInv` that after every target span the blocks known are
those of the spans passed. For the orientations, `CornerBlock` turns a corner
into the block it belongs to, and `Exclusive` shows that no phrase has a
consistent block at both corners that would make it monotone and swapped: two such blocks end at the same target
word, so they share a source word (`ConsistentMeet`), but lie on either side of the phrase. The order in
which the code asks therefore does not matter, and each model calls monotone or swapped
what the one that looks less far does. `PipelineImplementsGrowing` repeats the refinement for the
two programs in sequence.

**SamplingAgendaProofs.** For any numbers of decoder threads, workers, phrases and jobs, and any
limit of workers per job: `TypeOK`, `StatsComplete` and `SampleIsFull`. `inProgress` is the number
of registered workers plus one while the agenda has the job (`Counted`), and the agenda
drops only what is done (`OnlyDoneDropped`); so a lookup that sees 0 finds the job at rest
(`AtRest`). It stays so although workers given the job earlier may still register: what they
would need to take a sample is gone, because a job that was done before its last occurrence has
a good sample and nobody is about to add it, hence has phrase pairs (`GoodIsAdded`), which is
what `nextSample` asks for. The size of the sample follows from `EnoughLeft`:
good samples, occurrences taken but not counted and those not yet read are together enough, because a coin may only
refuse an occurrence when the rest suffices. `TypeOK` includes that `in_progress`, which is
unsigned, never falls below zero.

**Invariants proved but in no run.** `FirstInFirstOut`, `EachIdInOnePlace`, `NothingHeldInVain`,
`ConsumedInOrder`, `WindowWithinLimit`, `PlaceIsFree`, `WithinUnion`, `CopiesAgree`,
`FinalCovers` and the `TypeOK`s: the refinements the runs check are stronger, or the proof
makes the small instance superfluous.

**Only model-checked.**
* Liveness, since ENABLED and fairness are beyond TLAPS: `CallsReturn`, `EverythingConsumed`,
  `WaitReturns`, `FilterEnds`, `PipelineEnds`, `LookupReturns` and the fairness part of the
  refinements (`ImplementsInOrder`, `ImplementsSequential`).
* `NoDeadEnd` and `TranslationFound` with zones. The proof for walls has the word at the first gap as
  the way on; with zones the way on depends on how they nest, and with crossing zones
  there is none.
* `SearchIsExact`, `ListIsBestOfGraph` and `ListIsFull` of `NBestList`: they compare the search graph and the list
  with an enumeration of all paths or derivations, by functions recursive in the graph.


## 6 Disagreements found

`batch_learning` checks what "Update the weights as I found a better oracle translation"
(moses/FF/OnlineLearningFeature.cpp:977) takes for granted: better by the post-edit of the sentence that was
decoded (`LearnsFromOwnPostEdit`). It is violated. `batch_run` submits a task and reads on
(ExportInterface.cpp:259), and `Sentence::init` sets the flag and the post-edit of the one
`OnlineLearningFeature` for the line just read (Sentence.cpp:212), while the task before has not yet looked at
them (Manager.cpp:142). TLC's trace has a line to be translated and one with a post-edit: when the
search of the first is over, the flag is that of the second, and the decoder learns from the first, though
it has no post-edit. In the same way a post-edited line is not learned from, or with the post-edit of
the next. For simulated post-editing the code says "but runs all sentences serially, to allow updating of
the bitext" (ExportInterface.cpp:238); for post-edits in the input nothing does. With one thread in the pool it is
the same, for the reader is a thread of its own.

`filter_flush` checks that the filter's "Assemble the output in order."
(lm/filter/thread.hh:76) yields the output of one thread, and is violated. When the last n-gram of a
section fills its batch, `AddNGram` sends it and numbers the next one; `Flush` does
not send that empty batch (thread.hh:137) but `NewInput` numbers it again. The
number in between never comes, the output thread keeps every later batch for it,
and the next `Flush` waits for them for ever. The run `filter` has sections
that end in the middle of a batch.

Seen while modelling, plain from the code once pointed at, and without a run:

* `Submit` tests `m_stopping` before it waits for room but not after
  (ThreadPool.cpp:73): a task pushed after another thread's `Stop(true)` has seen the
  queue empty is never run; after a `Stop(false)` the `Submit` waits for ever.
  `batch_run` has one client and no limit, and `SetQueueLimit` has no caller.
* `Stop()` with its default argument, which the destructor uses, skips the wait
  its comment promises (ThreadPool.h:72-85).
* The collectors start at id 0 whatever start-translation-id says
  (OutputCollector.h:46): with any other start nothing is ever written.
* Because the reader rewrites `m_learn` (Sentence.cpp:212) while earlier tasks run, a line to be
  translated that comes before a post-edit may lose its output, and a late post-edited line is output under the id of the next
  (Manager.cpp:1605). `EveryTranslationOutput` speaks of inputs where the post-edits come first.
* `OutputBest` reports nothing without an online learning feature
  (Manager.cpp:1605): with `HasOL = FALSE` nothing is output.
* A line with a post-edit shares its id with the next line, so one of their two
  n-best lists stays in the collector (Manager.cpp:1638): `EveryNBestOutput`
  leaves out the lines right behind a post-edit.
* A time-out before the first stack reads `actual_hypoStack`, which is not
  initialised (SearchNormal.h:27, SearchNormal.cpp:376).
* `m_maxDistortion > 15` (StaticData.cpp:510) lets an unlimited distortion (-1) pass,
  and with it two coverages may have one id.
* `PruneToSize` applies the beam only to a stack over its size limit
  (HypothesisStackNormal.cpp:157), so the beam is not a property of a stack;
  `OnlyWorstPruned` states what is.
* With unlimited distortion the hypotheses of an edge are not sorted by the cost of
  the jump that comes next; `BestCellsPopped` excludes that case.
* A job that comes to the agenda when every worker has left `get_job` and no thread has ended
  finds nobody: `timed_join(0)` fails, no worker is started, and the lookup waits
  until another job comes to an empty list. `missed` is this case, which `LookupReturns` excludes.
* A job may take more samples than "how many samples to extract at most"
  (ug_bitext_agenda_job.h:29), since samples are counted after they are taken; the
  comment in ug_bitext_agenda_worker.h:14 says that this is meant.
* `TPCollCache::get` counts a reference and then returns NULL in every case
  (TargetPhraseCollectionCache.cc:117).
* The orientation towards the next phrase is looked up among the bottom corners of
  blocks, where a phrase that follows begins at a top corner (extract-main.cpp:478),
  and the scans for discontinuous orientations stop one short of the last source word.
  `PhraseExtract` follows the code; `ModelsAgree` compares the models with each other.
* `CountFormat` never flushes its last batch (lm/filter/format.hh:131); the file of counts in
  the run `filter` has full batches only.
* symal deletes `inp` where it means `out` (symal.cpp:513).


## 7 What is not modelled

* **Scores**: features, language models, weights. `SearchNormal` and
  `HypothesisStack` leave them open, `CubePruning` takes them from small tables.
  Features that score -infinity can empty a stack, which `Pruned` excludes.
* **Lattices and confusion networks**: the searches model sentences. **Crossing
  zones** (from "span" attributes) are excluded in the runs: they do strand
  hypotheses, and nothing in the code promises that they do not.
* **Partial translation** is commented out in Parameter.cpp:234.
* **Alignments, search graphs, word graphs, lattice samples, formats** of the outputs.
* **Learning updates** (floating-point) and the global weights they change; the
  hazard at Manager.cpp:106 is recorded without a property, because nothing
  modelled depends on the value of a weight.
* **Server** (`moses/server`): an XML-RPC thread waits for the one task it submitted; the
  pool is modelled. The task's notification after its unlock touches a dead object
  at worst, which has no outcomes to enumerate.
* **Dynamic cache** (`PhraseDictionaryDynamicCacheBased`): ageing erases from the map
  it iterates over, and writers hold a shared lock; both are undefined behaviour of the
  standard library from the first step. The same holds of insertions under a shared lock in
  **ThreadSafeContainer**; **FactorCollection** wraps a single set.
* **mmsapt** apart from the agenda: suffix arrays and bias are numerical, the only use of
  `ug_lru_cache.h` is under `#if 0`, and `TPCollCache::get` returns nothing.
* **Chart, syntax and incremental decoders**: sequential, dominated by rules and scores; their
  cube pruning has the design of the one modelled.
* **KenLM queries and estimation, mert, mbr, biconcor, OnDiskPt, CompactPT, ProbingPT,
  scripts, contrib**: numerical, sequential file transformations, binary
  formats or third-party code (`jam-files`, `pugixml`), where a model would show little. They are most of
  the repository's lines, which is why the map covers a small share of it.
