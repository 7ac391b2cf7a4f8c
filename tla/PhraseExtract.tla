--------------------------- MODULE PhraseExtract ---------------------------
(***************************************************************************)
(* The phrase pairs of one word-aligned sentence pair and their            *)
(* orientations (ExtractTask::extract).  The outer loops go over the target*)
(* spans; the source spans of one target span are taken in one step, since *)
(* nothing but the set of pairs found so far changes between them.  With a *)
(* phrase or hierarchical model the pairs are kept back with the corners   *)
(* of their blocks, those over the length limit (looked for only by the    *)
(* hierarchical model) among the corners alone, and orientations are read  *)
(* off when all corners are known; with the word model alone each pair is  *)
(* output where it is found.                                               *)
(*                                                                         *)
(* A block is <<startF, startE, endF, endE>>, words counted from 0.  One   *)
(* orientation type (mono, msd, mslr) serves all the models of a run.      *)
(***************************************************************************)
EXTENDS Integers, FiniteSets

CONSTANTS
    CountF,          \* source words
    CountE,          \* target words
    ExtractOptions   \* the settings a run may be given

ASSUME ExtractAssumption ==
    /\ CountF \in Nat \ {0}
    /\ CountE \in Nat \ {0}
    /\ ExtractOptions \subseteq
         [models : SUBSET {"word", "phrase", "hier"},
          type : {"mono", "msd", "mslr"},
          maxPhraseLength : Nat \ {0}]

VARIABLES
    m_options,    \* the settings of this run
    alignedToT,   \* target word -> the source words it is aligned to
    span,         \* <<startE, endE>>, the target span the loops are at
    inbound,      \* the blocks within the length limit (phrase, hier)
    outbound,     \* the blocks over it (hier)
    extracted,    \* the lines added: block and orientations
    stage         \* "wait" for an alignment, "spans", "orient" or "written"

extractVars ==
    <<m_options, alignedToT, span, inbound, outbound, extracted, stage>>

Blocks == (0..CountF - 1) \X (0..CountE - 1) \X (0..CountF - 1) \X (0..CountE - 1)

StartF(p) == p[1]
StartE(p) == p[2]
EndF(p) == p[3]
EndE(p) == p[4]

Limit == m_options.maxPhraseLength

RelaxLimit == "hier" \in m_options.models

BuildExtraStructure == m_options.models \intersect {"phrase", "hier"} # {}

AlignedS(f) == \E e \in 0..CountE - 1 : f \in alignedToT[e]

ExtractInit ==
    /\ m_options = CHOOSE x \in ExtractOptions : TRUE
    /\ alignedToT = [e \in 0..CountE - 1 |-> {}]
    /\ span = <<0, 0>>
    /\ inbound = {} /\ outbound = {} /\ extracted = {}
    /\ stage = "wait"

\* SentenceAlignment::create, from the points of an alignment line.
Create(points) ==
    /\ stage = "wait"
    /\ m_options' \in ExtractOptions
    /\ alignedToT' = [e \in 0..CountE - 1 |->
                        {f \in 0..CountF - 1 : <<f, e>> \in points}]
    /\ stage' = "spans"
    /\ UNCHANGED <<span, inbound, outbound, extracted>>

-----------------------------------------------------------------------------
(***************************************************************************)
(* The blocks of a target span.                                            *)
(***************************************************************************)
SourceOf(s, e) == UNION {alignedToT[x] : x \in s..e}

\* usedF[fi] > 0: aligned to a target word that is not in s..e.
OutOfBounds(f, s, e) == \E x \in (0..CountE - 1) \ (s..e) : f \in alignedToT[x]

\* Mistake (not the code): the source span retreats over aligned words too.
RetreatAnywhere(minF, maxF, startF) ==
    RelaxLimit \/ (startF <= minF /\ startF > maxF - Limit)

Retreat(minF, maxF, startF) ==
    /\ RelaxLimit \/ startF > maxF - Limit
    /\ \A x \in startF..minF - 1 : ~AlignedS(x)

Advance(maxF, startF, endF) ==
    /\ RelaxLimit \/ endF < startF + Limit
    /\ \A x \in maxF + 1..endF : ~AlignedS(x)

BlocksOf(s, e) ==
    {p \in Blocks :
       /\ StartE(p) = s /\ EndE(p) = e
       /\ \E minF, maxF \in SourceOf(s, e) :
             /\ \A f \in SourceOf(s, e) : minF <= f /\ f <= maxF
             /\ RelaxLimit \/ maxF - minF < Limit
             /\ \A f \in minF..maxF : ~OutOfBounds(f, s, e)
             /\ StartF(p) <= minF /\ Retreat(minF, maxF, StartF(p))
             /\ EndF(p) >= maxF /\ Advance(maxF, StartF(p), EndF(p))}

WithinLimit(p) == EndE(p) - StartE(p) < Limit /\ EndF(p) - StartF(p) < Limit

-----------------------------------------------------------------------------
(***************************************************************************)
(* Orientations.  u = 1 looks at what comes before the block in the target,*)
(* u = -1 at what comes after; near and far are the ends of the source span*)
(* on the side a monotone neighbour is on and on the other side.           *)
(***************************************************************************)
IsAligned(f, e) ==
    IF (f = -1 /\ e = -1) \/ (f = CountF /\ e = CountE) THEN TRUE
    ELSE e \in 0..CountE - 1 /\ f \in 0..CountF - 1 /\ f \in alignedToT[e]

Near(p, u) == IF u = 1 THEN StartF(p) ELSE EndF(p)

Far(p, u) == IF u = 1 THEN EndF(p) ELSE StartF(p)

\* The target word next to the block.
Beside(p, u) == IF u = 1 THEN StartE(p) - 1 ELSE EndE(p) + 1

LeftTop(p, u) == IsAligned(Near(p, u) - u, Beside(p, u))

RightTop(p, u) == IsAligned(Far(p, u) + u, Beside(p, u))

\* Source positions farther away than the neighbouring one, up to last.
BeyondNear(p, u, last) == {x \in 0..last : (Near(p, u) - x) * u >= 2}

BeyondFar(p, u, last) == {x \in 0..last : (x - Far(p, u)) * u >= 2}

Orientation(left, right, dright, dleft) ==
    CASE left -> "left"
      [] ~left /\ m_options.type = "mono" -> "unknown"
      [] ~left /\ m_options.type # "mono" /\ right -> "right"
      [] ~left /\ ~right /\ m_options.type = "msd" -> "unknown"
      [] ~left /\ ~right /\ m_options.type = "mslr" ->
           IF dright THEN "dright" ELSE IF dleft THEN "dleft" ELSE "unknown"

GetOrientWordModel(p, u) ==
    LET l == \/ LeftTop(p, u)
             \/ \E x \in BeyondNear(p, u, CountF - 1) : IsAligned(x, Beside(p, u))
        r == \/ RightTop(p, u)
             \/ \E x \in BeyondFar(p, u, CountF - 1) : IsAligned(x, Beside(p, u))
    IN Orientation(LeftTop(p, u) /\ ~RightTop(p, u), ~LeftTop(p, u) /\ RightTop(p, u),
                   l /\ ~r, ~l /\ r)

\* The corners the callers pass: bottom corners in both directions, filed
\* under the target word the block ends at; the scans stop short of the
\* last source word.
CornerLeft(blocks, u) ==
    {<<IF u = 1 THEN EndF(p) ELSE StartF(p), EndE(p)>> : p \in blocks}

CornerRight(blocks, u) ==
    {<<IF u = 1 THEN StartF(p) ELSE EndF(p), EndE(p)>> : p \in blocks}

\* Mistake (not the code): a swap is looked for among the same corners.
GetOrientPhraseModelOneCorner(p, u, in) ==
    LET left(x) == <<x, Beside(p, u)>> \in CornerLeft(in, u)
    IN Orientation(left(Near(p, u) - u),
                   (~LeftTop(p, u) /\ RightTop(p, u)) \/ left(Far(p, u) + u),
                   FALSE, FALSE)

GetOrientPhraseModel(p, u, in) ==
    LET left(x) == <<x, Beside(p, u)>> \in CornerLeft(in, u)
        right(x) == <<x, Beside(p, u)>> \in CornerRight(in, u)
    IN Orientation((LeftTop(p, u) /\ ~RightTop(p, u)) \/ left(Near(p, u) - u),
                   (~LeftTop(p, u) /\ RightTop(p, u)) \/ right(Far(p, u) + u),
                   \E x \in BeyondNear(p, u, CountF - 2) : left(x),
                   \E x \in BeyondFar(p, u, CountF - 2) : right(x))

\* The hierarchical model looks at all the blocks and keeps what the phrase
\* model found.
GetOrientHierModel(p, u, phraseOrient) ==
    LET all == inbound \union outbound
        left(x) == <<x, Beside(p, u)>> \in CornerLeft(all, u)
        right(x) == <<x, Beside(p, u)>> \in CornerRight(all, u)
        open == phraseOrient = "unknown"
    IN Orientation(\/ phraseOrient = "left"
                   \/ LeftTop(p, u) /\ ~RightTop(p, u)
                   \/ left(Near(p, u) - u),
                   \/ phraseOrient = "right"
                   \/ ~LeftTop(p, u) /\ RightTop(p, u)
                   \/ right(Far(p, u) + u),
                   \/ phraseOrient = "dright"
                   \/ open /\ \E x \in BeyondNear(p, u, CountF - 2) : left(x),
                   \/ phraseOrient = "dleft"
                   \/ open /\ \E x \in BeyondFar(p, u, CountF - 2) : right(x))

GetOrientString(orient) ==
    CASE orient = "left" -> "mono"
      [] orient = "right" -> "swap"
      [] orient \in {"dright", "dleft"} -> orient
      [] orient = "unknown" -> CASE m_options.type = "mono" -> "nomono"
                                 [] m_options.type = "msd" -> "other"
                                 [] m_options.type = "mslr" -> "dright"

Directions == {1, -1}

None == [u \in Directions |-> "none"]

\* The line of a block: its orientations under each model of the run.
Line(p) ==
    LET phrase == [u \in Directions |->
                     IF "phrase" \in m_options.models
                     THEN GetOrientPhraseModel(p, u, inbound) ELSE "unknown"]
    IN [block |-> p,
        word |-> IF "word" \in m_options.models
                 THEN [u \in Directions |-> GetOrientString(GetOrientWordModel(p, u))]
                 ELSE None,
        phrase |-> IF "phrase" \in m_options.models
                   THEN [u \in Directions |-> GetOrientString(phrase[u])] ELSE None,
        hier |-> IF "hier" \in m_options.models
                 THEN [u \in Directions |->
                         GetOrientString(GetOrientHierModel(p, u, phrase[u]))]
                 ELSE None]

-----------------------------------------------------------------------------
NextSpan ==
    IF span[2] + 1 < CountE /\ (RelaxLimit \/ span[2] + 1 < span[1] + Limit)
    THEN <<span[1], span[2] + 1>>
    ELSE <<span[1] + 1, span[1] + 1>>

\* One target span, with the word model alone.
ExtractSpan ==
    /\ stage = "spans" /\ span[1] < CountE /\ ~BuildExtraStructure
    /\ extracted' = extracted \union {Line(p) : p \in BlocksOf(span[1], span[2])}
    /\ span' = NextSpan
    /\ UNCHANGED <<m_options, alignedToT, inbound, outbound, stage>>

\* Mistake (not the code): the corners of a long block are not kept.
KeepSpanWithin ==
    /\ stage = "spans" /\ span[1] < CountE /\ BuildExtraStructure
    /\ inbound' = inbound \union {p \in BlocksOf(span[1], span[2]) : WithinLimit(p)}
    /\ span' = NextSpan
    /\ UNCHANGED <<m_options, alignedToT, outbound, extracted, stage>>

\* One target span, when the blocks are kept for their corners.
KeepSpan ==
    /\ stage = "spans" /\ span[1] < CountE /\ BuildExtraStructure
    /\ inbound' = inbound \union {p \in BlocksOf(span[1], span[2]) : WithinLimit(p)}
    /\ outbound' = outbound \union {p \in BlocksOf(span[1], span[2]) : ~WithinLimit(p)}
    /\ span' = NextSpan
    /\ UNCHANGED <<m_options, alignedToT, extracted, stage>>

SpansEnd ==
    /\ stage = "spans" /\ span[1] = CountE
    /\ stage' = IF BuildExtraStructure THEN "orient" ELSE "written"
    /\ UNCHANGED <<m_options, alignedToT, span, inbound, outbound, extracted>>

Orient ==
    /\ stage = "orient"
    /\ extracted' = {Line(p) : p \in inbound}
    /\ stage' = "written"
    /\ UNCHANGED <<m_options, alignedToT, span, inbound, outbound>>

ExtractNext == ExtractSpan \/ KeepSpan \/ SpansEnd \/ Orient

-----------------------------------------------------------------------------
(***************************************************************************)
(* The pairs extracted are exactly those no longer than the limit that     *)
(* have a point inside and none with one end inside and the other outside, *)
(* whichever orientation models the run has: the loops over source words   *)
(* without a point, the length tests in five places and the blocks kept    *)
(* beyond the limit lose none and let none in.                             *)
(***************************************************************************)
Consistent(p) ==
    LET Fs == StartF(p)..EndF(p)
        Es == StartE(p)..EndE(p)
    IN /\ \E e \in Es : alignedToT[e] \intersect Fs # {}
       /\ \A e \in 0..CountE - 1 :
             IF e \in Es THEN alignedToT[e] \subseteq Fs
                         ELSE alignedToT[e] \intersect Fs = {}

ExtractedExactly ==
    stage = "written" =>
       {x.block : x \in extracted} =
          {p \in Blocks : /\ StartF(p) <= EndF(p) /\ StartE(p) <= EndE(p)
                          /\ WithinLimit(p) /\ Consistent(p)}

(***************************************************************************)
(* What one model calls monotone or swapped the next coarser one calls the *)
(* same: the word model sees single words, the phrase model blocks within  *)
(* the limit, the hierarchical model all blocks.  No pair is counted as    *)
(* monotone by one of them and swapped by another.                         *)
(***************************************************************************)
Agrees(x, y) == x \in {"mono", "swap"} => y = x

ModelsAgree ==
    \A x \in extracted, u \in Directions :
       /\ m_options.models = {"word", "phrase"} => Agrees(x.word[u], x.phrase[u])
       /\ m_options.models = {"word", "phrase", "hier"} =>
            Agrees(x.word[u], x.phrase[u]) /\ Agrees(x.phrase[u], x.hier[u])

(***************************************************************************)
(* The hierarchical model is not bound by the length limit: what comes     *)
(* before a pair is monotone if any consistent block, however long, ends   *)
(* in the corner it starts at, and swapped if one ends before it in the    *)
(* target and starts after it in the source (unless monotone is all that   *)
(* is asked for).                                                          *)
(***************************************************************************)
HierSeesAnyLength ==
    stage = "written" /\ "hier" \in m_options.models =>
       \A x \in extracted :
          LET p == x.block
              ends == {q \in Blocks : /\ StartF(q) <= EndF(q) /\ StartE(q) <= EndE(q)
                                      /\ EndE(q) = StartE(p) - 1 /\ Consistent(q)}
          IN /\ (\E q \in ends : EndF(q) = StartF(p) - 1) => x.hier[1] = "mono"
             /\ m_options.type # "mono" /\ (\E q \in ends : StartF(q) = EndF(p) + 1)
                   => x.hier[1] = "swap"
=============================================================================
