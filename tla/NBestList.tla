------------------------------ MODULE NBestList ------------------------------
(***************************************************************************)
(* Manager::CalcNBest: the n best ways through the search graph, after     *)
(* the search of CubePruning.  The graph is made of the hypotheses of the  *)
(* stacks (the winners) and of the arcs they have kept, the hypotheses that*)
(* lost against them.  A TrellisPath is a sequence of hypotheses from the  *)
(* last to the empty one.  The best paths end in the hypotheses of the last*)
(* stack; another one deviates from a path at an edge by taking an arc,    *)
(* and goes on the best way from there.                                    *)
(***************************************************************************)
EXTENDS CubePruning

VARIABLES
    contenders,   \* TrellisPathCollection, a multiset kept in order
    ret,          \* the list
    distinctHyps, \* the translations in the list, when only distinct ones count
    iteration

nbestVars == <<contenders, ret, distinctHyps, iteration>>

allVars == <<searchVars, nbestVars>>

NBestInit ==
    /\ SearchInit
    /\ contenders = <<>> /\ ret = <<>> /\ distinctHyps = {} /\ iteration = 0

-----------------------------------------------------------------------------
(***************************************************************************)
(* TrellisPath.  changed is the edge last changed, 0 for NOT_FOUND.        *)
(***************************************************************************)
BestPathTo[h \in 1..Len(heap)] ==
    <<h>> \o (IF heap[h].prev = 0 THEN <<>> ELSE BestPathTo[heap[h].prev])

WinningHypo(h) ==
    IF \E w \in 1..Len(heap) : h \in ToSet(heap[w].arcs)
    THEN CHOOSE w \in 1..Len(heap) : h \in ToSet(heap[w].arcs)
    ELSE h

InitTotalScore(path, edgeIndex) ==
    FoldSet(LAMBDA i, sum : sum + TotalScore(path[i]) - TotalScore(WinningHypo(path[i])),
            TotalScore(WinningHypo(path[1])), DOMAIN path)

PurePath(h) == [path |-> BestPathTo[h], changed |-> 0, score |-> TotalScore(h)]

Deviant(p, edgeIndex, arc) ==
    LET path == SubSeq(p.path, 1, edgeIndex - 1) \o BestPathTo[arc]
    IN [path |-> path, changed |-> edgeIndex, score |-> InitTotalScore(path, edgeIndex)]

\* Mistake (not the code): the edges before the last change are changed again.
DeviantPathsAnywhere(p) ==
    FlattenSeq([i \in DOMAIN p.path |->
      [j \in DOMAIN heap[p.path[i]].arcs |-> Deviant(p, i, heap[p.path[i]].arcs[j])]])

\* CreateDeviantPaths: one edge after the one last changed.
DeviantPaths(p) ==
    FlattenSeq([k \in 1..Len(p.path) - p.changed |->
      LET i == p.changed + k
          arcs == heap[p.path[i]].arcs
      IN [j \in DOMAIN arcs |-> Deviant(p, i, arcs[j])]])

\* The words of a path, from the first.
GetSurfacePhrase(p) ==
    [i \in 1..Len(p.path) - 1 |-> heap[p.path[Len(p.path) - i]].word]

-----------------------------------------------------------------------------
(***************************************************************************)
(* TrellisPathCollection: from best to worst, a new path after its equals. *)
(***************************************************************************)
AddPath(coll, p) ==
    InsertAt(coll, 1 + Cardinality({i \in DOMAIN coll : coll[i].score >= p.score}), p)

AddPaths(coll, paths) == FoldLeft(AddPath, coll, paths)

PrunePaths(coll, newSize) == IF Len(coll) <= newSize THEN coll ELSE SubSeq(coll, 1, newSize)

-----------------------------------------------------------------------------
Factor == IF conf.nBestFactor < 1 THEN 1000 ELSE conf.nBestFactor

ListSize == IF conf.distinct THEN Cardinality(distinctHyps) ELSE Len(ret)

Wanted == /\ ListSize < conf.nBestSize /\ contenders # <<>>
          /\ iteration < conf.nBestSize * Factor

StartNBest ==
    /\ pc = "searched" /\ conf.nBestSize > 0 /\ stack[Size] # {}
    /\ LET sorted == SortedBy(stack[Size], TotalScore)
       IN contenders' = AddPaths(<<>>, [i \in DOMAIN sorted |-> PurePath(sorted[i])])
    /\ pc' = "nbest"
    /\ UNCHANGED <<conf, heap, freed, stack, bestScore, worstScore, container, queue,
                   stackNo, numpops, ret, distinctHyps, iteration>>

NoNBest ==
    /\ pc = "searched" /\ (conf.nBestSize = 0 \/ stack[Size] = {})
    /\ pc' = "done"
    /\ UNCHANGED <<conf, heap, freed, stack, bestScore, worstScore, container, queue,
                   stackNo, numpops, nbestVars>>

\* Mistake (not the code): the contenders are cut to the size of the list.
PrunedToListSize(coll) == PrunePaths(coll, conf.nBestSize)

\* With distinct translations the limit is on all the paths looked at.
Limited(coll) ==
    IF ~conf.distinct THEN PrunePaths(coll, conf.nBestSize)
    ELSE IF conf.nBestFactor > 0 THEN PrunePaths(coll, conf.nBestSize * conf.nBestFactor)
    ELSE coll

Listed(path) ==
    LET tgtPhrase == GetSurfacePhrase(path)
        new == ~conf.distinct \/ tgtPhrase \notin distinctHyps
    IN /\ ret' = IF new THEN Append(ret, path) ELSE ret
       /\ distinctHyps' = IF conf.distinct THEN distinctHyps \union {tgtPhrase}
                                           ELSE distinctHyps

\* One round of the main loop.
TakeBest ==
    /\ pc = "nbest" /\ Wanted
    /\ contenders' = Limited(AddPaths(Tail(contenders), DeviantPaths(Head(contenders))))
    /\ Listed(Head(contenders))
    /\ iteration' = iteration + 1
    /\ UNCHANGED searchVars

EndNBest ==
    /\ pc = "nbest" /\ ~Wanted
    /\ pc' = "done"
    /\ UNCHANGED <<conf, heap, freed, stack, bestScore, worstScore, container, queue,
                   stackNo, numpops, nbestVars>>

NBestNext ==
    \/ SearchNext /\ UNCHANGED nbestVars
    \/ StartNBest \/ NoNBest \/ TakeBest \/ EndNBest

NBestSpec == NBestInit /\ [][NBestNext]_allVars

-----------------------------------------------------------------------------
(***************************************************************************)
(* What a run does, said without the algorithm.                            *)
(***************************************************************************)
Score(path) ==
    FoldSet(LAMBDA i, sum :
              LET h == heap[path[i]]
                  before == heap[path[i + 1]]
              IN sum + Translations(before.cov, h.cov)[h.option].score
                     - conf.weightDistortion * DistortionDistance(before.end, Lowest(h.cov \ before.cov))
                     + conf.bigrams[<<before.word, h.word>>],
            0, 1..Len(path) - 1)

PathsTo[h \in 1..Len(heap)] ==
    UNION {{<<g>> \o rest : rest \in IF heap[g].prev = 0 THEN {<<>>} ELSE PathsTo[heap[g].prev]} :
             g \in {h} \union ToSet(heap[h].arcs)}

GraphPaths == UNION {PathsTo[h] : h \in stack[Size]}

\* Every translation of the sentence within the distortion limit: the spans
\* in the order they are translated, each with its option.
DerivationsFrom[c \in Coverages, end \in -1..Size - 1] ==
    IF Cardinality(c) = Size THEN {<<>>}
    ELSE UNION {{<<<<span, y>>>> \o rest :
                   y \in DOMAIN conf.options[span],
                   rest \in DerivationsFrom[c \union (span[1]..span[2]), span[2]]} :
                 span \in {sp \in DOMAIN conf.options :
                             /\ (sp[1]..sp[2]) \intersect c = {}
                             /\ CheckDistortion(c, sp)
                             /\ \/ conf.maxDistortion < 0
                                \/ DistortionDistance(end, sp[1]) <= conf.maxDistortion}}

Derivation(path) ==
    [k \in 1..Len(path) - 1 |->
       LET i == Len(path) - k
           new == heap[path[i]].cov \ heap[path[i + 1]].cov
       IN <<<<Lowest(new), Highest(new)>>, heap[path[i]].option>>]

(***************************************************************************)
(* The variables have their types: a list is no longer than was asked for. *)
(***************************************************************************)
Searched == pc \in {"searched", "nbest", "done"} /\ stackNo > Size

(***************************************************************************)
(* Where nothing is limited but the distortion, the search finds all there *)
(* is: the graph kept for the n-best list is the set of all derivations,   *)
(* each by one path, and the best hypothesis is the best of them, however  *)
(* the hypotheses were recombined, whichever cells were expanded first.    *)
(***************************************************************************)
Unlimited == /\ conf.popLimit >= 100 /\ conf.maxHypoStackSize >= 100
             /\ conf.beamWidth <= -100 /\ (conf.distinct \/ conf.arcFactor >= 100)

SearchIsExact ==
    Searched /\ Unlimited /\ conf.nBestSize > 0 =>
       /\ {Derivation(p) : p \in GraphPaths} = DerivationsFrom[{}, -1]
       /\ Cardinality(GraphPaths) = Cardinality(DerivationsFrom[{}, -1])
       /\ GraphPaths # {} =>
            Highest({TotalScore(h) : h \in stack[Size]}) = Highest({Score(p) : p \in GraphPaths})

(***************************************************************************)
(* The list holds the best paths of the graph, best first and none twice,  *)
(* each with the score of its own translations, distortions and word pairs *)
(* although it was put together from the scores of other paths.  A path    *)
(* left out is no better than the last one listed, or, where translations  *)
(* are listed once, says what a better one says.                           *)
(***************************************************************************)
ListIsBestOfGraph ==
    pc \in {"nbest", "done"} =>
      /\ IsInjective([i \in DOMAIN ret |-> ret[i].path])
      /\ \A i \in DOMAIN ret : ret[i].path \in GraphPaths /\ ret[i].score = Score(ret[i].path)
      /\ \A i, j \in DOMAIN ret : i < j => ret[i].score >= ret[j].score
      /\ \A p \in GraphPaths \ {ret[i].path : i \in DOMAIN ret} : \A j \in DOMAIN ret :
           \/ Score(p) <= ret[j].score
           \/ /\ conf.distinct
              /\ \E i \in DOMAIN ret : /\ ret[i].score >= Score(p)
                                       /\ GetSurfacePhrase(ret[i]) = GetSurfacePhrase([path |-> p])

(***************************************************************************)
(* Distinct translations are distinct, and the list is as long as it can   *)
(* be: short only if every path is in it (or says what one in it says), or *)
(* if as many paths were looked at as the factor allows.                   *)
(***************************************************************************)
ListIsFull ==
    LET said == {GetSurfacePhrase(ret[i]) : i \in DOMAIN ret}
    IN /\ conf.distinct => Cardinality(said) = Len(ret)
       /\ pc = "done" /\ conf.nBestSize > 0 =>
            \/ Len(ret) = conf.nBestSize
            \/ iteration = conf.nBestSize * Factor
            \/ \A p \in GraphPaths : IF conf.distinct
                 THEN GetSurfacePhrase([path |-> p]) \in said
                 ELSE \E i \in DOMAIN ret : ret[i].path = p
=============================================================================
