---------------------------- MODULE CubePruning ----------------------------
(***************************************************************************)
(* SearchCubePruning: the stacks are filled in turn.  A BitmapContainer    *)
(* holds the hypotheses of one coverage; a BackwardsEdge leads to it from  *)
(* the container of a smaller coverage by translating one more span, and is*)
(* a grid: the hypotheses it starts from against the translations of the   *)
(* span, both from best to worst.  A cell is expanded when it is enqueued; *)
(* the best cell of all grids of a stack is popped, added to the stack and *)
(* replaced by its two neighbours, until PopLimit cells are popped.        *)
(*                                                                         *)
(* A coverage is the set of words covered (from 0).  It fixes the stack,   *)
(* and an edge is known by the coverage it comes from.  Hypotheses are     *)
(* indices of heap; an index is never used again, so what has been freed *)
(* can be told from what is in use.  The score is the model score before   *)
(* the estimate of what is to come; the last word of a translation stands  *)
(* for the language model state.  Left out: reordering constraints (see    *)
(* ReorderingConstraint), early distortion cost, hypotheses of score -inf. *)
(***************************************************************************)
EXTENDS Integers, Sequences, FiniteSets, SequencesExt

CONSTANTS
    Settings,   \* the sentences, translations and limits of a run, see ASSUME
    Word,       \* target words
    BeginWord   \* what stands before the first word

ASSUME CubeAssumption ==
    /\ BeginWord \in Word
    /\ \A s \in Settings :
         /\ s.size \in Nat \ {0}
         /\ \A span \in DOMAIN s.options : s.options[span] \in Seq([word : Word, score : Int])
         \* the options of a span are sorted
         /\ \A span \in DOMAIN s.options : \A y, z \in DOMAIN s.options[span] :
              y < z => s.options[span][y].score >= s.options[span][z].score
         \* a span runs from its first to its last word
         /\ DOMAIN s.options \subseteq {sp \in (0..s.size - 1) \X (0..s.size - 1) : sp[1] <= sp[2]}
         \* ProcessUnknownWord leaves no word without a translation
         /\ \A w \in 0..s.size - 1 : <<w, w>> \in DOMAIN s.options /\ s.options[<<w, w>>] # <<>>
         /\ s.popLimit \in Nat /\ s.diversity \in Nat
         /\ s.maxHypoStackSize \in Nat /\ s.beamWidth \in Int /\ s.beamWidth < 0
         /\ s.maxDistortion \in Nat \union {-1}
         /\ s.weightDistortion \in Nat
         /\ s.bigrams \in [Word \X Word -> Int]
         /\ s.nBestSize \in Nat /\ s.distinct \in BOOLEAN
         /\ s.nBestFactor \in Nat /\ s.arcFactor \in Nat \ {0}

VARIABLES
    conf,         \* the settings of this run
    heap,         \* the hypotheses created, in order
    freed,        \* those deleted
    stack,        \* stack[n]: the hypotheses of n words
    bestScore, worstScore,
    container,    \* coverage -> BitmapContainer
    queue,        \* BCQueue of the stack in hand
    stackNo, numpops,
    pc            \* "stack", "pop", "ensure", "searched"

searchVars == <<conf, heap, freed, stack, bestScore, worstScore, container,
                queue, stackNo, numpops, pc>>

Size == conf.size     \* source words

Coverages == SUBSET (0..Size - 1)

NegInf == -1000

Lowest(S) == CHOOSE x \in S : \A y \in S : x <= y

Highest(S) == CHOOSE x \in S : \A y \in S : y <= x

\* From best to worst by the score f; equal ones in the order of creation.
SortedBy(S, f(_)) ==
    LET before(h) == {g \in S : f(g) > f(h) \/ (f(g) = f(h) /\ g < h)}
    IN [i \in 1..Cardinality(S) |-> CHOOSE h \in S : Cardinality(before(h)) = i - 1]

\* The members of S, in some order.
Listing(S) == FoldSet(LAMBDA x, seq : Append(seq, x), <<>>, S)

-----------------------------------------------------------------------------
(***************************************************************************)
(* Scores.                                                                 *)
(***************************************************************************)
Translations(from, to) ==
    LET new == to \ from
    IN IF \E span \in DOMAIN conf.options : new = span[1]..span[2]
       THEN conf.options[CHOOSE span \in DOMAIN conf.options : new = span[1]..span[2]]
       ELSE <<>>

\* m_futureScore: the best options of a span, or of two spans that join to it.
SpanEstimate[span \in (0..Size - 1) \X (0..Size - 1)] ==
    LET options == IF span \in DOMAIN conf.options
                   THEN {conf.options[span][y].score : y \in DOMAIN conf.options[span]}
                   ELSE {}
    IN Highest(options \union
                 {SpanEstimate[<<span[1], joinAt>>] + SpanEstimate[<<joinAt + 1, span[2]>>] :
                    joinAt \in span[1]..span[2] - 1})

\* CalcFutureScore: the estimates of the gaps, as wide as they are.
FutureScore(cov) ==
    LET gaps == {gap \in (0..Size - 1) \X (0..Size - 1) :
                   /\ gap[1] <= gap[2] /\ (gap[1]..gap[2]) \intersect cov = {}
                   /\ gap[1] = 0 \/ gap[1] - 1 \in cov
                   /\ gap[2] = Size - 1 \/ gap[2] + 1 \in cov}
    IN FoldSet(LAMBDA gap, sum : sum + SpanEstimate[gap], 0, gaps)

Abs(n) == IF n < 0 THEN -n ELSE n

\* ComputeDistortionDistance from the end of one span to the start of the next.
DistortionDistance(end, start) == Abs(start - (end + 1))

FirstGap(cov) == Lowest((0..Size) \ cov)

TotalScore(h) == heap[h].total

\* Hypothesis h extended by translation y of the words in which to differs.
Extended(h, to, y) ==
    LET new == to \ heap[h].cov
        opt == Translations(heap[h].cov, to)[y]
        score == heap[h].score + opt.score
                   - conf.weightDistortion * DistortionDistance(heap[h].end, Lowest(new))
                   + conf.bigrams[<<heap[h].word, opt.word>>]
    IN [cov |-> to, end |-> Highest(new), word |-> opt.word, prev |-> h, option |-> y,
        score |-> score, total |-> score + FutureScore(to), arcs |-> <<>>]

\* Mistake (not the code): where the last phrase ended is not compared.
EquivalentWherever(g, h) == heap[g].cov = heap[h].cov /\ heap[g].word = heap[h].word

\* RecombineCompare says the same.
Equivalent(g, h) == /\ heap[g].cov = heap[h].cov /\ heap[g].end = heap[h].end
                    /\ heap[g].word = heap[h].word

-----------------------------------------------------------------------------
(***************************************************************************)
(* HypothesisStackCubePruning.  s is one stack, with the heap: the fields  *)
(* are hypos, best, worst, arcs (of every hypothesis) and freed.           *)
(***************************************************************************)
StackNow(n) == [hypos |-> stack[n], best |-> bestScore[n], worst |-> worstScore[n],
                arcs |-> [h \in 1..Len(heap) |-> heap[h].arcs], freed |-> freed]

\* A hypothesis is deleted with its arcs.
Free(s, H) == [s EXCEPT !.freed = @ \union H \union UNION {ToSet(s.arcs[h]) : h \in H}]

PruneToSize(s, newSize) ==
    IF newSize = 0 \/ Cardinality(s.hypos) <= newSize THEN s
    ELSE LET inBeam == {h \in s.hypos : TotalScore(h) > s.best + conf.beamWidth}
             better(h) == {g \in inBeam : TotalScore(g) > TotalScore(h)}
             \* the newSize-th best score, counting equal scores apart
             threshold == Lowest({TotalScore(h) : h \in {g \in inBeam :
                                    Cardinality(better(g)) < newSize}})
             gone == {h \in s.hypos : TotalScore(h) < threshold}
         IN Free([s EXCEPT !.hypos = @ \ gone, !.worst = threshold], gone)

Add(s, h) ==
    LET best == IF TotalScore(h) > s.best THEN TotalScore(h) ELSE s.best
        new == [s EXCEPT !.hypos = @ \union {h}, !.best = best,
                         !.worst = IF best > s.best /\ best + conf.beamWidth > @
                                   THEN best + conf.beamWidth ELSE @]
    IN IF Cardinality(new.hypos) > 2 * conf.maxHypoStackSize - 1
       THEN PruneToSize(new, conf.maxHypoStackSize) ELSE new

\* Mistake (not the code): the loser of a recombination is always deleted.
AddPruneFreesLoser(s, h) ==
    LET same == {g \in s.hypos : Equivalent(g, h)}
    IN IF TotalScore(h) < s.worst THEN [s |-> Free(s, {h}), new |-> FALSE]
       ELSE IF same = {} THEN [s |-> Add(s, h), new |-> TRUE]
       ELSE LET g == CHOOSE x \in same : TRUE
            IN IF TotalScore(h) > TotalScore(g)
               THEN [s |-> Add([Free(s, {g}) EXCEPT !.hypos = @ \ {g},
                                     !.arcs[h] = Append(s.arcs[g], g)], h),
                     new |-> FALSE]
               ELSE [s |-> Free([s EXCEPT !.arcs[g] = Append(@, h)], {h}), new |-> FALSE]

\* What AddPrune leaves of the stack, and whether it returns true.
AddPrune(s, h) ==
    LET same == {g \in s.hypos : Equivalent(g, h)}
        nBestIsEnabled == conf.nBestSize > 0
    IN IF TotalScore(h) < s.worst THEN [s |-> Free(s, {h}), new |-> FALSE]
       ELSE IF same = {} THEN [s |-> Add(s, h), new |-> TRUE]
       ELSE LET g == CHOOSE x \in same : TRUE
            IN IF TotalScore(h) > TotalScore(g)
               THEN [s |-> Add(IF nBestIsEnabled
                               THEN [s EXCEPT !.hypos = @ \ {g},
                                              !.arcs[h] = Append(s.arcs[g], g),
                                              !.arcs[g] = <<>>]
                               ELSE [Free(s, {g}) EXCEPT !.hypos = @ \ {g}], h),
                     new |-> FALSE]
               ELSE [s |-> IF nBestIsEnabled THEN [s EXCEPT !.arcs[g] = Append(@, h)]
                                             ELSE Free(s, {h}),
                     new |-> FALSE]

\* CleanupArcList of every hypothesis left: too many arcs are cut down to the
\* nBestSize best ones.
CleanupArcList(s) ==
    LET many(h) == /\ conf.nBestSize > 0 /\ ~conf.distinct
                   /\ Len(s.arcs[h]) > conf.nBestSize * conf.arcFactor
        kept(h) == SubSeq(SortedBy(ToSet(s.arcs[h]), TotalScore), 1, conf.nBestSize)
        cut == {h \in s.hypos : many(h)}
    IN [s EXCEPT !.freed = @ \union UNION {ToSet(s.arcs[h]) \ ToSet(kept(h)) : h \in cut},
                 !.arcs = [h \in DOMAIN s.arcs |->
                             IF h \in cut THEN kept(h) ELSE s.arcs[h]]]

WithArcs(h, arcs) == [heap[h] EXCEPT !.arcs = arcs]

\* The heap after s, and new hypotheses.
HeapAfter(s, new) == [h \in 1..Len(heap) |-> WithArcs(h, s.arcs[h])] \o new

-----------------------------------------------------------------------------
(***************************************************************************)
(* BitmapContainer and BackwardsEdge.                                      *)
(***************************************************************************)
NoContainer == [hypotheses |-> <<>>, edges |-> <<>>, queue |-> {}, seen |-> {},
                insertions |-> 0]

CheckDistortion(cov, span) ==
    \/ conf.maxDistortion < 0
    \/ FirstGap(cov) = span[1]
    \/ DistortionDistance(span[2], FirstGap(cov)) <= conf.maxDistortion

\* Mistake (not the code): the hypotheses stay in the order of their scores.
EdgeHypothesesUnsorted(hypos, start) ==
    SelectSeq(hypos, LAMBDA h : conf.maxDistortion < 0
                                  \/ DistortionDistance(heap[h].end, start) <= conf.maxDistortion)

\* The hypotheses an edge may start from; without a limit they keep the order
\* of their total scores, with one the distortion of this edge counts, too.
EdgeHypotheses(hypos, start) ==
    IF conf.maxDistortion < 0 THEN hypos
    ELSE SortedBy({h \in ToSet(hypos) :
                      DistortionDistance(heap[h].end, start) <= conf.maxDistortion},
                  LAMBDA h : heap[h].score
                               - conf.weightDistortion * DistortionDistance(heap[h].end, start))

\* The containers after the forward edges of stack n are made.
ForwardTodos(n, hypos) ==
    LET own(c) == SortedBy({h \in hypos : heap[h].cov = c}, TotalScore)
        live == {c \in DOMAIN container : Cardinality(c) = n /\ own(c) # <<>>}
        reach(c) == {c \union (span[1]..span[2]) : span \in
                       {sp \in DOMAIN conf.options :
                          /\ conf.options[sp] # <<>>
                          /\ (sp[1]..sp[2]) \intersect c = {}
                          /\ CheckDistortion(c, sp)}}
        all == DOMAIN container \union UNION {reach(c) : c \in live}
        old(c) == IF c \in DOMAIN container THEN container[c] ELSE NoContainer
        from(d) == {c \in live : d \in reach(c)}
    IN [c \in all |->
          [old(c) EXCEPT
             !.hypotheses = IF c \in live THEN own(c) ELSE @,
             !.edges = [b \in DOMAIN @ \union from(c) |->
                          IF b \in from(c) THEN EdgeHypotheses(own(b), Lowest(c \ b))
                                           ELSE old(c).edges[b]]]]

SearchInit ==
    /\ conf \in Settings
    /\ heap = <<[cov |-> {}, end |-> -1, word |-> BeginWord, prev |-> 0,
                 option |-> 0, score |-> 0, total |-> 0, arcs |-> <<>>]>>
    /\ freed = {}
    /\ stack = [n \in 0..Size |-> IF n = 0 THEN {1} ELSE {}]
    /\ bestScore = [n \in 0..Size |-> IF n = 0 THEN 0 ELSE NegInf]
    /\ worstScore = [n \in 0..Size |-> IF n = 0 THEN conf.beamWidth ELSE NegInf]
    /\ container = [c \in {{}} |-> NoContainer]
    /\ queue = {} /\ stackNo = 0 /\ numpops = 0
    /\ pc = "first"

\* The first stack holds the empty hypothesis.
FirstStack ==
    /\ pc = "first"
    /\ container' = ForwardTodos(0, stack[0])
    /\ stackNo' = 1 /\ pc' = "stack"
    /\ UNCHANGED <<conf, heap, freed, stack, bestScore, worstScore, queue, numpops>>

Containers(n) == {c \in DOMAIN container : Cardinality(c) = n}

\* InitializeEdges of every container, the best cell of each grid.
StartStack ==
    /\ pc = "stack" /\ stackNo <= Size
    /\ LET grids == Listing({grid \in Containers(stackNo) \X Coverages :
                                grid[2] \in DOMAIN container[grid[1]].edges
                                  /\ container[grid[1]].edges[grid[2]] # <<>>})
           number(c, b) == Len(heap) + (CHOOSE i \in DOMAIN grids : grids[i] = <<c, b>>)
           filled(c) == {b \in DOMAIN container[c].edges : container[c].edges[b] # <<>>}
       IN /\ heap' = heap \o [i \in DOMAIN grids |->
                                Extended(container[grids[i][1]].edges[grids[i][2]][1],
                                          grids[i][1], 1)]
          /\ container' = [c \in DOMAIN container |->
               IF c \notin Containers(stackNo) THEN container[c]
               ELSE [container[c] EXCEPT
                       !.queue = {[x |-> 1, y |-> 1, hypo |-> number(c, b), from |-> b] :
                                    b \in filled(c)},
                       !.seen = {<<b, 1, 1>> : b \in filled(c)}]]
    /\ queue' = Containers(stackNo)
    /\ numpops' = 0 /\ pc' = "pop"
    /\ UNCHANGED <<conf, freed, stack, bestScore, worstScore, stackNo>>

OutOfTime ==
    /\ pc = "stack" /\ stackNo <= Size
    /\ pc' = "searched"
    /\ UNCHANGED <<conf, heap, freed, stack, bestScore, worstScore, container, queue,
                   stackNo, numpops>>

\* PushSuccessors: the neighbours not seen yet.
NextCells(c, item) ==
    LET e == container[c].edges[item.from]
        next == {<<item.x, item.y + 1>>, <<item.x + 1, item.y>>}
    IN {cell \in next : /\ cell[1] <= Len(e)
                        /\ cell[2] <= Len(Translations(item.from, c))
                        /\ <<item.from, cell[1], cell[2]>> \notin container[c].seen}

ProcessBestHypothesis(c) ==
    \E item \in container[c].queue :
       /\ \A other \in container[c].queue : TotalScore(other.hypo) <= TotalScore(item.hypo)
       /\ LET added == AddPrune(StackNow(stackNo), item.hypo)
              cells == Listing(NextCells(c, item))
              e == container[c].edges[item.from]
          IN /\ heap' = HeapAfter(added.s, [i \in DOMAIN cells |->
                           Extended(e[cells[i][1]], c, cells[i][2])])
             /\ freed' = added.s.freed
             /\ stack' = [stack EXCEPT ![stackNo] = added.s.hypos]
             /\ bestScore' = [bestScore EXCEPT ![stackNo] = added.s.best]
             /\ worstScore' = [worstScore EXCEPT ![stackNo] = added.s.worst]
             /\ container' = [container EXCEPT
                  ![c].queue = (@ \ {item}) \union
                     {[x |-> cells[i][1], y |-> cells[i][2], hypo |-> Len(heap) + i,
                       from |-> item.from] : i \in DOMAIN cells},
                  ![c].seen = @ \union {<<item.from, cells[i][1], cells[i][2]>> :
                                          i \in DOMAIN cells},
                  ![c].insertions = IF added.new THEN @ + 1 ELSE @]

TopScore(c) == Highest({TotalScore(item.hypo) : item \in container[c].queue})

\* One round of the main loop.  Empty containers come last in BCQueue.
PopBest ==
    /\ pc = "pop" /\ numpops < conf.popLimit
    /\ \E c \in queue :
          /\ container[c].queue # {}
          /\ \A d \in queue : container[d].queue # {} => TopScore(d) <= TopScore(c)
          /\ ProcessBestHypothesis(c)
          /\ queue' = IF container'[c].queue = {} THEN queue \ {c} ELSE queue
    /\ numpops' = numpops + 1
    /\ UNCHANGED <<conf, stackNo, pc>>

PopEmpty ==
    /\ pc = "pop" /\ numpops < conf.popLimit
    /\ \E c \in queue : /\ \A d \in queue : container[d].queue = {}
                        /\ queue' = queue \ {c}
    /\ numpops' = numpops + 1
    /\ UNCHANGED <<conf, heap, freed, stack, bestScore, worstScore, container, stackNo, pc>>

StopPopping ==
    /\ pc = "pop" /\ (numpops >= conf.popLimit \/ queue = {})
    /\ pc' = "ensure"
    /\ UNCHANGED <<conf, heap, freed, stack, bestScore, worstScore, container, queue,
                   stackNo, numpops>>

\* The order of std::map<WordsBitmap, ...>.
Earlier(c, d) == c # d /\ Lowest((c \ d) \union (d \ c)) \in d

Lacks(c) == container[c].queue # {} /\ container[c].insertions < conf.diversity

\* EnsureMinStackHyps, container after container.
EnsureMin ==
    /\ pc = "ensure"
    /\ \E c \in Containers(stackNo) :
          /\ Lacks(c)
          /\ \A d \in Containers(stackNo) : Lacks(d) => d = c \/ Earlier(c, d)
          /\ ProcessBestHypothesis(c)
    /\ UNCHANGED <<conf, queue, stackNo, numpops, pc>>

FinishStack ==
    /\ pc = "ensure" /\ \A c \in Containers(stackNo) : ~Lacks(c)
    /\ LET s == CleanupArcList(PruneToSize(StackNow(stackNo), conf.maxHypoStackSize))
       IN /\ heap' = HeapAfter(s, <<>>)
          /\ freed' = s.freed
          /\ stack' = [stack EXCEPT ![stackNo] = s.hypos]
          /\ worstScore' = [worstScore EXCEPT ![stackNo] = s.worst]
          /\ container' = ForwardTodos(stackNo, s.hypos)
    /\ stackNo' = stackNo + 1 /\ pc' = "stack"
    /\ UNCHANGED <<conf, bestScore, queue, numpops>>

EndSearch ==
    /\ pc = "stack" /\ stackNo > Size
    /\ pc' = "searched"
    /\ UNCHANGED <<conf, heap, freed, stack, bestScore, worstScore, container, queue,
                   stackNo, numpops>>

SearchNext ==
    \/ FirstStack \/ StartStack \/ OutOfTime \/ PopBest \/ PopEmpty \/ StopPopping
    \/ EnsureMin \/ FinishStack \/ EndSearch

-----------------------------------------------------------------------------
(***************************************************************************)
(* Nothing that is still looked at has been deleted: the hypotheses of the *)
(* stacks with their arcs, those they extend, the ones the edges of later  *)
(* stacks start from and the ones waiting in the queues.                   *)
(***************************************************************************)
NoDangling ==
    LET stacked == UNION {stack[n] : n \in 0..Size}
        arcs == UNION {ToSet(heap[h].arcs) : h \in stacked}
        edges == UNION {UNION {ToSet(container[c].edges[b]) : b \in DOMAIN container[c].edges} :
                          c \in {d \in DOMAIN container : Cardinality(d) >= stackNo}}
        queued == UNION {{item.hypo : item \in container[c].queue} : c \in DOMAIN container}
        used == stacked \union arcs \union edges \union queued
    IN (used \union {heap[h].prev : h \in used}) \intersect freed = {}

(***************************************************************************)
(* Cube pruning is exact when the scores are local: as long as the best    *)
(* cells are popped, no cell of the stack that has not been popped, seen   *)
(* or not, is better than one that has.  (Without a distortion limit the   *)
(* hypotheses of an edge are not sorted by what the edge costs them, and   *)
(* this holds only if distortion costs nothing.)                           *)
(***************************************************************************)
LocalScores == /\ \A pair \in Word \X Word : conf.bigrams[pair] = 0
               /\ conf.maxDistortion >= 0 \/ conf.weightDistortion = 0

CellsOf(c) ==
    UNION {{b} \X (1..Len(container[c].edges[b])) \X (1..Len(Translations(b, c))) :
             b \in DOMAIN container[c].edges}

PoppedCells(c) ==
    container[c].seen \ {<<item.from, item.x, item.y>> : item \in container[c].queue}

CellScore(c, cell) ==
    Extended(container[c].edges[cell[1]][cell[2]], c, cell[3]).score + FutureScore(c)

BestCellsPopped ==
    pc = "pop" /\ LocalScores =>
       \A c, d \in Containers(stackNo) :
          \A p \in PoppedCells(c), q \in CellsOf(d) \ PoppedCells(d) :
             CellScore(c, p) >= CellScore(d, q)
=============================================================================
