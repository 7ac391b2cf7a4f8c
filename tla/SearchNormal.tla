------------------------------ MODULE SearchNormal ------------------------------
(****************************************************************************)
(* Moses::SearchNormal (moses/SearchNormal.{h,cpp}): the stack decoder.     *)
(* Stack k holds hypotheses that translate k words of the source; Decode    *)
(* goes through the stacks, prunes each and expands what is left.           *)
(*                                                                          *)
(* Scores are abstract: pruning keeps some hypotheses, at least one and at  *)
(* most StackSize (HypothesisStack models which).  A hypothesis is          *)
(*   [covered |-> the words translated, start |-> the first word of its last*)
(*    phrase, next |-> the word after the last phrase]                      *)
(* and stands for all hypotheses that agree in the three.                   *)
(****************************************************************************)
EXTENDS ReorderingConstraint

CONSTANTS
  Options,      \* the spans <<s, e>> that have translation options
  Constraints,  \* the walls and zones an input may come with
  StackSize,    \* m_maxHypoStackSize; 0: no limit, as if stacks grow by diversity
  MayTimeOut    \* a time-out is configured

\* TranslationOptionCollection::ProcessUnknownWord creates an option for every
\* single word that has none.
ASSUME SearchAssumption ==
  /\ Options \subseteq {o \in Positions \X Positions : o[1] <= o[2]}
  /\ \A p \in Positions : <<p, p>> \in Options
  /\ StackSize \in Nat /\ MayTimeOut \in BOOLEAN

\* ProcessAndStripXMLTags turns away zones without a word.  (A "span" attribute
\* that leaves the sentence makes Check read beyond the bitmap.)
ASSUME ConstraintAssumption ==
  Constraints \subseteq
    [walls : SUBSET Positions,
     zones : Seq({zone \in Positions \X Positions : StartOf(zone) <= LastOf(zone)})]

VARIABLES
  reo,          \* the ReorderingConstraint of the source
  stacks,       \* m_hypoStackColl
  at,           \* the stack Decode comes to next
  interrupted,  \* interrupted_flag
  expanded      \* actual_hypoStack: a stack, or Unset

vars == <<reo, stacks, at, interrupted, expanded>>

Unset == -1   \* actual_hypoStack as the constructor leaves it, uninitialised
Stacks == 0..SourceSize

\* Nothing translated yet.
Seed == [covered |-> {}, start |-> 0, next |-> 0]

\* What the walls and zones of the input become.
Reorderings == {Constraint(c.walls, c.zones) : c \in Constraints}

Init ==
  /\ reo \in Reorderings
  /\ stacks = [k \in Stacks |-> IF k = 0 THEN {Seed} ELSE {}]
  /\ at = 0 /\ interrupted = FALSE /\ expanded = Unset

-----------------------------------------------------------------------------
(* ProcessOneHypothesis *)

\* InputType::ComputeDistortionDistance
Distance(next, s) == IF next >= s THEN next - s ELSE s - next

\* Mistake (not the code): the phrase that has to follow is not thought of.
JumpsOnly(h, s, e) == MaxDistortion >= 0 => Distance(h.next, s) <= MaxDistortion

\* The jump to s is within the limit, and so is the way back to the first gap
\* unless the phrase fills it.
WithinLimit(h, s, e) ==
  MaxDistortion >= 0 =>
    /\ Distance(h.next, s) <= MaxDistortion
    /\ \/ s = GetFirstGapPos(h.covered)
       \/ Distance(e + 1, GetFirstGapPos(h.covered)) <= MaxDistortion

MayExtend(h, s, e) ==
  /\ <<s, e>> \in Options
  /\ Span(s, e) \cap h.covered = {}
  /\ Check(reo, h.covered, s, e)
  /\ WithinLimit(h, s, e)

\* Hypothesis::Hypothesis(prevHypo, transOpt)
Extension(h, s, e) == [covered |-> h.covered \cup Span(s, e), start |-> s, next |-> e + 1]

ExtensionsOf(h) == {Extension(h, o[1], o[2]) : o \in {p \in Options : MayExtend(h, p[1], p[2])}}

-----------------------------------------------------------------------------
(* Decode *)

\* What lazy pruning, early discarding and PruneToSize may leave of a stack.
Pruned(hypos) ==
  {kept \in SUBSET hypos :
     /\ kept = {} => hypos = {}
     /\ StackSize > 0 => Cardinality(kept) <= StackSize}

\* The extensions of the hypotheses in kept, added to their stacks.
Filled(kept) ==
  LET new == UNION {ExtensionsOf(h) : h \in kept}
  IN  [k \in Stacks |-> IF k = at THEN kept
                        ELSE stacks[k] \cup {h \in new : Cardinality(h.covered) = k}]

ProcessStack ==
  /\ at <= SourceSize /\ ~interrupted
  /\ \E kept \in Pruned(stacks[at]) : stacks' = Filled(kept)
  /\ expanded' = at
  /\ at' = at + 1
  /\ UNCHANGED <<reo, interrupted>>

\* GetUserTime() is the time since the process was started: it may exceed the
\* threshold at any stack, the first one included.
TimeOut ==
  /\ MayTimeOut
  /\ at <= SourceSize /\ ~interrupted
  /\ interrupted' = TRUE
  /\ UNCHANGED <<reo, stacks, at, expanded>>

Decoded == at > SourceSize \/ interrupted
End == Decoded /\ UNCHANGED vars

Next == ProcessStack \/ TimeOut \/ End
Spec == Init /\ [][Next]_vars

\* The stack GetBestHypothesis takes the best hypothesis of.
FinalStack == IF interrupted THEN expanded ELSE SourceSize

-----------------------------------------------------------------------------
Hypos == [covered : SUBSET Positions, start : Positions, next : 0..SourceSize]

\* Stack k holds hypotheses of k words.
TypeOK ==
  /\ reo \in Reorderings
  /\ DOMAIN stacks = Stacks
  /\ \A k \in Stacks : \A h \in stacks[k] : h \in Hypos /\ Cardinality(h.covered) = k
  /\ at \in 0..(SourceSize + 1) /\ interrupted \in BOOLEAN
  /\ expanded \in Stacks \cup {Unset}

\* No hypothesis is a dead end: whatever the distortion limit, the walls and
\* the zones have allowed so far, some phrase may follow.
NoDeadEnd ==
  \A k \in Stacks \ {SourceSize} : \A h \in stacks[k] : ExtensionsOf(h) # {}

\* However the stacks are pruned, the stack GetBestHypothesis reads holds a
\* hypothesis: the last one when the search runs to its end, which is then a
\* translation of the whole sentence, and the one last expanded when a time-out
\* ends it ("seconds after which is interrupted").
TranslationFound == Decoded /\ FinalStack # Unset => stacks[FinalStack] # {}

\* The words covered beyond the first gap are fewer than the distortion limit,
\* which the bitmap ids of the stack diversity count on: GetID "enforces a max
\* distortion of 16".
WindowWithinLimit ==
  MaxDistortion >= 0 =>
    \A k \in Stacks : \A h \in stacks[k] :
      h.covered # {} /\ GetFirstGapPos(h.covered) < GetLastPos(h.covered) =>
        GetLastPos(h.covered) - GetFirstGapPos(h.covered) < MaxDistortion

\* Two hypotheses of one stack have the same id only if they cover the same
\* words: the diversity counts hypotheses "of each coverage".
IdIdentifiesCoverage ==
  \A k \in Stacks :
    LET coverages == {h.covered : h \in stacks[k]}
    IN  Cardinality({GetID(c) : c \in coverages}) = Cardinality(coverages)

\* No word is moved across a wall: a word behind it is translated only after, or
\* together with, all the words before it.
WallsRespected ==
  \A k \in Stacks : \A h \in stacks[k] : \A p \in Positions :
    p \in reo.wall /\ (\E q \in h.covered : q > p) => Span(0, p) \subseteq h.covered

\* A zone is not left until it is finished: the last phrase of a hypothesis
\* touches every zone that is partly translated ("once entered, need to finish").
ZonesFinished ==
  \A k \in Stacks : \A h \in stacks[k] : \A z \in DOMAIN reo.zone :
    LET zone == reo.zone[z]
    IN  h.covered \cap Within(zone) # {} /\ ~(Within(zone) \subseteq h.covered) =>
          Span(h.start, h.next - 1) \cap Within(zone) # {}

\* Nor is a word of a zone moved across a wall that is local to the zone.
LocalWallsRespected ==
  \A k \in Stacks : \A h \in stacks[k] : \A p \in Positions :
    reo.localWall[p] # NOT_A_ZONE =>
      LET zone == reo.zone[reo.localWall[p]]
      IN  (\E q \in h.covered \cap Within(zone) : q > p) =>
            Span(StartOf(zone), p) \subseteq h.covered

\* Whatever phrases the search has chosen, every hypothesis it reaches has
\* treated the zones as Check means them: finished once entered, and with the
\* walls inside them respected.
ZonesRespected == ZonesFinished /\ LocalWallsRespected
=============================================================================
