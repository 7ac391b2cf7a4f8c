---------------------------- MODULE HypothesisStack ----------------------------
(****************************************************************************)
(* Moses::HypothesisStackNormal (moses/HypothesisStackNormal.{h,cpp}): one  *)
(* stack of the search, with recombination, threshold and histogram pruning *)
(* and stack diversity.                                                     *)
(*                                                                          *)
(* Hypotheses that RecombineCompare cannot tell apart form a class; the set *)
(* m_hypos holds at most one of each, and a hypothesis matters only by its  *)
(* class and its score.  Scores are integers, and the beam is added to a    *)
(* score as in the code, where both are logarithms.                         *)
(****************************************************************************)
EXTENDS Integers, FiniteSets, FiniteSetsExt

CONSTANTS
  Classes,           \* what RecombineCompare tells apart
  Coverage(_),       \* the bitmap of a class: recombination compares it first
  MaxScore,          \* bound: scores are 1, ..., MaxScore
  BeamWidth,         \* m_beamWidth: the logarithm of a factor below 1
  MaxSize,           \* m_maxHypoStackSize; 0: no limit
  Diversity,         \* m_minHypoStackDiversity
  MaxDistortion,     \* the distortion limit, for the room of the diversity
  DisableDiscarding  \* StaticData::GetDisableDiscarding()

ASSUME StackAssumption ==
  /\ MaxScore \in Nat \ {0} /\ BeamWidth \in Int /\ BeamWidth < 0
  /\ MaxSize \in Nat /\ Diversity \in Nat /\ MaxDistortion \in Nat
  /\ DisableDiscarding \in BOOLEAN

Scores == 1..MaxScore
NegInf == BeamWidth - 1   \* below every score and every score plus the beam
Coverages == {Coverage(c) : c \in Classes}

VARIABLES
  stack,     \* the members: [hypos, best, worst, floor], see Init
  expanded,  \* Decode has pruned the stack and expands it
  offered    \* history: the best score passed to AddPrune, by class

vars == <<stack, expanded, offered>>

\* m_hypos, the score of the hypothesis held by class; m_bestScore;
\* m_worstScore; m_diversityWorstScore, NegInf where it has no entry.
Init ==
  /\ stack = [hypos |-> <<>>, best |-> NegInf, worst |-> NegInf,
              floor |-> [v \in Coverages |-> NegInf]]
  /\ expanded = FALSE
  /\ offered = [c \in Classes |-> NegInf]

Larger(x, y) == IF x > y THEN x ELSE y
With(f, x, y) == [z \in DOMAIN f \cup {x} |-> IF z = x THEN y ELSE f[z]]
Only(f, S) == [z \in S |-> f[z]]
Lowest(f, S) == Min({f[z] : z \in S})
Covering(hypos, v) == {c \in DOMAIN hypos : Coverage(c) = v}

-----------------------------------------------------------------------------
(* PruneToSize: the stacks it may leave.  The list of hypotheses is sorted by *)
(* score; the order of equal scores is open.                                 *)

\* The sets of the n best of S.
BestOf(hypos, S, n) ==
  {T \in SUBSET S :
     /\ Cardinality(T) = Min({n, Cardinality(S)})
     /\ \A c \in T : \A d \in S \ T : hypos[c] >= hypos[d]}

\* The best of each coverage, as many as the diversity asks for.
Diverse(hypos) ==
  {T \in SUBSET DOMAIN hypos :
     \A v \in Coverages :
       T \cap Covering(hypos, v) \in BestOf(hypos, Covering(hypos, v), Diversity)}

\* Of the others, those within the beam.
InBeam(s, T) == {c \in DOMAIN s.hypos \ T : s.hypos[c] > s.best + BeamWidth}

\* The stack that keeps diverse and more of s.
Keeping(s, diverse, more, newSize) ==
  [hypos |-> Only(s.hypos, diverse \cup more),
   best  |-> s.best,
   worst |-> IF more # {} /\ Cardinality(diverse \cup more) = newSize
               THEN Lowest(s.hypos, more) ELSE s.worst,
   floor |-> [v \in Coverages |->
                LET top == diverse \cap Covering(s.hypos, v)
                IN  IF top # {} /\ Cardinality(top) = Diversity
                      THEN Lowest(s.hypos, top) ELSE s.floor[v]]]

\* Mistake (not the code): the list is not sorted when the rest is taken.
PruneToSizeUnsorted(s, newSize) ==
  IF newSize = 0 \/ Cardinality(DOMAIN s.hypos) <= newSize THEN {s}
  ELSE UNION {{Keeping(s, diverse, more, newSize) :
                 more \in {T \in SUBSET InBeam(s, diverse) :
                            Cardinality(T) + Cardinality(diverse) <= newSize}} :
              diverse \in Diverse(s.hypos)}

PruneToSize(s, newSize) ==
  IF newSize = 0 \/ Cardinality(DOMAIN s.hypos) <= newSize THEN {s}
  ELSE UNION {{Keeping(s, diverse, more, newSize) :
                 more \in BestOf(s.hypos, InBeam(s, diverse),
                                 Larger(newSize - Cardinality(diverse), 0))} :
              diverse \in Diverse(s.hypos)}

-----------------------------------------------------------------------------
(* Add and AddPrune *)

\* The size at which lazy pruning sets in.  With no limit 2 * 0 - 1 is the
\* largest size_t, or wraps around to a size at which PruneToSize(0) does nothing.
ToleratedSize ==
  2 * MaxSize - 1 + (IF Diversity > 0 THEN Diversity * 2 ^ MaxDistortion ELSE 0)

\* Add inserts a hypothesis whose class is not in the stack.
Inserted(s, c, score) ==
  LET best == Larger(s.best, score)
  IN  [hypos |-> With(s.hypos, c, score),
       best  |-> best,
       worst |-> IF score > s.best THEN Larger(s.worst, best + BeamWidth) ELSE s.worst,
       floor |-> IF Diversity = 1 /\ score > s.floor[Coverage(c)]
                   THEN With(s.floor, Coverage(c), score) ELSE s.floor]

Add(s, c, score) ==
  LET t == Inserted(s, c, score)
  IN  IF MaxSize > 0 /\ Cardinality(DOMAIN t.hypos) > ToleratedSize
        THEN PruneToSize(t, MaxSize) ELSE {t}

\* Mistake (not the code): the stack diversity does not protect a hypothesis.
TooBadForTheBest(c, score) == ~DisableDiscarding /\ score < stack.worst

\* Too bad for the stack, and for its coverage.
TooBad(c, score) ==
  /\ ~DisableDiscarding
  /\ score < stack.worst
  /\ ~(Diversity > 0 /\ score >= stack.floor[Coverage(c)])

\* The hypothesis is discarded, or added, or recombined with the one of its
\* class: the better one stays.
AddPrune(c, score) ==
  IF TooBad(c, score) \/ (c \in DOMAIN stack.hypos /\ stack.hypos[c] >= score)
    THEN stack' = stack
    ELSE stack' \in Add([stack EXCEPT !.hypos = Only(@, DOMAIN @ \ {c})], c, score)

\* SearchNormal::ExpandHypothesis has built a hypothesis for this stack.
Offer(c, score) ==
  /\ ~expanded
  /\ AddPrune(c, score)
  /\ offered' = [offered EXCEPT ![c] = Larger(@, score)]
  /\ UNCHANGED expanded

\* SearchNormal::Decode comes to this stack: nothing is added any more.
Expand ==
  /\ ~expanded
  /\ stack' \in PruneToSize(stack, MaxSize)
  /\ expanded' = TRUE
  /\ UNCHANGED offered

Expanded == expanded /\ UNCHANGED vars

Next == Expand \/ Expanded \/ \E c \in Classes, score \in Scores : Offer(c, score)
Spec == Init /\ [][Next]_vars

-----------------------------------------------------------------------------
AsGood(S, score) == {c \in S : stack.hypos[c] >= score}

\* The classes whose best hypothesis is not in the stack.
Lost ==
  {c \in Classes : /\ offered[c] # NegInf
                   /\ c \in DOMAIN stack.hypos => stack.hypos[c] < offered[c]}

\* The hypotheses that are among the best of their coverage.
KeptForDiversity ==
  {c \in DOMAIN stack.hypos :
     Cardinality({d \in Covering(stack.hypos, Coverage(c)) :
                    stack.hypos[d] > stack.hypos[c]}) < Diversity}

\* Lazy pruning, discarding and recombination lose nothing that a search with
\* one pruning at the end would keep: the best hypothesis of a class is gone only
\* if it is outside the beam, or as many as the stack may hold are as good or kept
\* for diversity.
OnlyWorstPruned ==
  \A c \in Lost :
    \/ offered[c] <= stack.best + BeamWidth
    \/ /\ MaxSize > 0
       /\ Cardinality(AsGood(DOMAIN stack.hypos, offered[c]) \cup KeptForDiversity) >= MaxSize

\* The "minimum number of hypothesis of each coverage in stack": a hypothesis is
\* lost only if as many as the diversity asks for are as good and cover the same.
DiversityKept ==
  \A c \in Lost :
    Cardinality(AsGood(Covering(stack.hypos, Coverage(c)), offered[c])) >= Diversity
=============================================================================
