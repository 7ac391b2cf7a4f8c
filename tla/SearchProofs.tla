----------------------------- MODULE SearchProofs -----------------------------
(* Proofs about the two search algorithms, for sentences of every length, every  *)
(* distortion limit, every set of phrases and every limit of the stacks.  First  *)
(* SearchNormal: what holds of every hypothesis, however the stacks are pruned.  *)
(* Then cube pruning with the n-best list taken from it: what is still looked at *)
(* has not been deleted, and where the scores are local the best cells of a      *)
(* stack are popped first.  The proofs of the second part use nothing            *)
(* SearchNormal assumes of its constants, only lemmas about sets and numbers of  *)
(* the first.                                                                    *)
EXTENDS SearchNormal, NBestList, TLAPS, FiniteSetTheorems, WellFoundedInduction

-----------------------------------------------------------------------------
(* First gaps and last words. *)

\* A nonempty set of natural numbers has a least element, which Min yields.
LEMMA MinOfNat ==
  ASSUME NEW S, S \subseteq Nat, S # {}
  PROVE  Min(S) \in S /\ \A y \in S : Min(S) <= y
<1> DEFINE R == {ss \in Nat \X Nat : ss[1] < ss[2]}
<1>1. IsWellFoundedOn(R, Nat)
  BY NatLessThanWellFounded DEF OpToRel
<1>2. \E x \in S : \A y \in S : ~(<<y, x>> \in R)
  <2> HIDE DEF R
  <2> QED BY <1>1, WFMin
<1>3. \E x \in S : \A y \in S : x <= y
  <2>1. PICK x \in S : \A y \in S : ~(<<y, x>> \in R)
    BY <1>2
  <2>2. ASSUME NEW y \in S PROVE x <= y
    <3>1. x \in Nat /\ y \in Nat
      OBVIOUS
    <3>2. <<y, x>> \in Nat \X Nat /\ <<y, x>>[1] = y /\ <<y, x>>[2] = x
      BY <3>1
    <3>3. ~(y < x)
      BY <2>1, <2>2, <3>2
    <3> QED BY <3>1, <3>3
  <2> QED BY <2>2
<1> QED BY <1>3 DEF Min

\* The greatest element of a nonempty set of positions, which Max yields.
LEMMA MaxOfPositions ==
  ASSUME NEW S, S \subseteq Positions, S # {}
  PROVE  Max(S) \in S /\ \A y \in S : y <= Max(S)
<1> DEFINE Bounds == {n \in Nat : \A y \in S : y <= n}
<1>0. SourceSize \in Nat \ {0} /\ \A y \in S : y \in Nat /\ y < SourceSize
  BY SizeAssumption DEF Positions
<1>1. Bounds \subseteq Nat /\ SourceSize \in Bounds
  BY <1>0
<1>2. Min(Bounds) \in Bounds /\ \A n \in Bounds : Min(Bounds) <= n
  BY <1>1, MinOfNat
<1>3. PICK m \in Nat : m \in Bounds /\ \A n \in Bounds : m <= n
  BY <1>1, <1>2
<1>4. m \in S
  <2>1. SUFFICES ASSUME m \notin S PROVE FALSE
    OBVIOUS
  <2>2. \A y \in S : y < m
    BY <1>0, <1>3, <2>1
  <2>3. m # 0
    BY <1>0, <2>2
  <2>4. m - 1 \in Bounds
    BY <1>0, <2>2, <2>3
  <2> QED BY <1>3, <2>4
<1>5. \E x \in S : \A y \in S : x >= y
  BY <1>0, <1>3, <1>4
<1>6. Max(S) \in S /\ \A y \in S : Max(S) >= y
  BY <1>5 DEF Max
<1> QED BY <1>0, <1>6

\* The first gap is uncovered, and every position before it is covered.
LEMMA FirstGapOf ==
  ASSUME NEW covered, covered \subseteq Positions
  PROVE  /\ GetFirstGapPos(covered) \in 0..SourceSize
         /\ GetFirstGapPos(covered) \notin covered
         /\ GetFirstGapPos(covered) < SourceSize => GetFirstGapPos(covered) \in Positions
         /\ \A p \in Positions : p < GetFirstGapPos(covered) => p \in covered
         /\ GetFirstGapPos(covered) = SourceSize => covered = Positions
<1> DEFINE Open == (Positions \ covered) \cup {NotFound}
<1>1. SourceSize \in Nat \ {0}
  BY SizeAssumption
<1>2. Open \subseteq Nat /\ Open # {}
  BY <1>1 DEF Positions, NotFound
<1>3. Min(Open) \in Open /\ \A y \in Open : Min(Open) <= y
  BY <1>2, MinOfNat
<1> DEFINE g == GetFirstGapPos(covered)
<1>4. g \in Open /\ \A y \in Open : g <= y
  BY <1>3 DEF GetFirstGapPos
<1> HIDE DEF g
<1>5. g \in 0..SourceSize /\ g \notin covered
  BY <1>1, <1>4 DEF Positions, NotFound
<1>6. g < SourceSize => g \in Positions
  BY <1>1, <1>4, <1>5 DEF Positions, NotFound
<1>7. ASSUME NEW p \in Positions, p < g PROVE p \in covered
  <2>1. p \notin Open
    BY <1>1, <1>4, <1>5, <1>7 DEF Positions
  <2> QED BY <2>1, <1>7
<1>8. ASSUME g = SourceSize PROVE covered = Positions
  <2>1. \A p \in Positions : p < SourceSize
    BY <1>1 DEF Positions
  <2>2. Positions \subseteq covered
    BY <1>7, <1>8, <2>1
  <2> QED BY <2>2
<1> QED BY <1>5, <1>6, <1>7, <1>8 DEF g

\* The last word covered.
LEMMA LastWord ==
  ASSUME NEW covered, covered \subseteq Positions, covered # {}
  PROVE  GetLastPos(covered) \in covered /\ \A p \in covered : p <= GetLastPos(covered)
BY MaxOfPositions DEF GetLastPos

-----------------------------------------------------------------------------
(* One hypothesis.  What its history leaves behind is where the last phrase  *)
(* ends and how far the words covered lie ahead of the first gap.            *)

\* The last phrase ends within the limit of the first gap: the gap may be filled.
GapInReach(h) ==
  MaxDistortion >= 0 => Distance(h.next, GetFirstGapPos(h.covered)) <= MaxDistortion

\* What is covered beyond the first gap is covered within the limit.
WindowSmall(h) ==
  MaxDistortion >= 0 =>
    \A p \in h.covered : p > GetFirstGapPos(h.covered) =>
      p < GetFirstGapPos(h.covered) + MaxDistortion

\* Behind a wall nothing is covered unless all before it is.
BehindWalls(h) ==
  \A p \in Positions : p \in reo.wall /\ (\E q \in h.covered : q > p) =>
    Span(0, p) \subseteq h.covered

Sound(h) ==
  /\ h \in Hypos
  /\ GapInReach(h)
  /\ WindowSmall(h)
  /\ BehindWalls(h)

LEMMA SeedIsSound == Sound(Seed)
<1>1. SourceSize \in Nat \ {0} /\ MaxDistortion \in Int
  BY SizeAssumption, DistortionAssumption
<1>2. Seed \in Hypos /\ Seed.covered = {} /\ Seed.next = 0
  BY <1>1 DEF Seed, Hypos, Positions
<1>3. GetFirstGapPos({}) \in 0..SourceSize
      /\ \A p \in Positions : ~(p < GetFirstGapPos({}))
  BY FirstGapOf
<1>4. 0 \in Positions
  BY <1>1 DEF Positions
<1>5. GetFirstGapPos({}) = 0
  BY <1>1, <1>3, <1>4
<1> QED BY <1>1, <1>2, <1>5 DEF Sound, GapInReach, WindowSmall, BehindWalls, Distance

\* The phrase s to e fills the first gap, or it leaves the gap where it is.
LEMMA GapAfter ==
  ASSUME NEW covered, covered \subseteq Positions,
         NEW s \in Positions, NEW e \in Positions, s <= e,
         Span(s, e) \cap covered = {}
  PROVE  /\ GetFirstGapPos(covered) \in Positions
         /\ GetFirstGapPos(covered) <= s
         /\ s = GetFirstGapPos(covered) =>
              GetFirstGapPos(covered \cup Span(s, e)) > e
         /\ s # GetFirstGapPos(covered) =>
              GetFirstGapPos(covered \cup Span(s, e)) = GetFirstGapPos(covered)
<1> DEFINE g == GetFirstGapPos(covered)
           after == covered \cup Span(s, e)
           a == GetFirstGapPos(after)
<1>1. SourceSize \in Nat \ {0} /\ s \in Nat /\ e \in Nat /\ e < SourceSize
  BY SizeAssumption DEF Positions
<1>2. Span(s, e) \subseteq Positions /\ s \in Span(s, e)
  BY <1>1 DEF Span, Positions
<1>3. after \subseteq Positions /\ s \notin covered
  BY <1>2
<1>4. /\ g \in 0..SourceSize /\ g \notin covered
      /\ g < SourceSize => g \in Positions
      /\ \A p \in Positions : p < g => p \in covered
  BY FirstGapOf
<1>5. /\ a \in 0..SourceSize /\ a \notin after
      /\ a < SourceSize => a \in Positions
      /\ \A p \in Positions : p < a => p \in after
  BY <1>3, FirstGapOf
<1> HIDE DEF g, a
<1>6. g <= s
  BY <1>1, <1>3, <1>4
<1>7. g \in Positions
  BY <1>1, <1>4, <1>6
<1>8. ASSUME s = g PROVE a > e
  <2>1. SUFFICES ASSUME a <= e PROVE FALSE
    BY <1>1, <1>5
  <2>2. a \in Positions /\ a \notin covered /\ a \notin Span(s, e)
    BY <1>1, <1>5, <2>1
  <2>3. ~(a < g)
    BY <1>4, <2>2
  <2> QED BY <1>1, <1>5, <1>8, <2>1, <2>2, <2>3 DEF Span
<1>9. ASSUME s # g PROVE a = g
  <2>1. g \notin after
    BY <1>1, <1>4, <1>6, <1>9 DEF Span
  <2>2. ~(g < a)
    BY <1>5, <1>7, <2>1
  <2>3. ~(a < g)
    BY <1>1, <1>4, <1>5, <1>6
  <2> QED BY <1>4, <1>5, <2>2, <2>3
<1> QED BY <1>6, <1>7, <1>8, <1>9 DEF g, a

\* A constraint that is not active has no walls.
ConstraintInv == reo \in Reorderings

LEMMA NoWallInactive == ASSUME ConstraintInv, ~reo.active PROVE reo.wall = {}
<1>1. PICK c \in Constraints : reo = Constraint(c.walls, c.zones)
  BY DEF ConstraintInv, Reorderings
<1>2. reo.active = (c.walls # {} \/ c.zones # <<>>)
  BY <1>1 DEF Constraint
<1>3. c.walls = {}
  BY <1>2
<1>4. reo.wall = c.walls \ UNION {Inside(c.zones[z]) : z \in DOMAIN c.zones}
  BY <1>1 DEF Constraint
<1> QED BY <1>3, <1>4

\* An extension is sound again.
LEMMA ExtensionIsSound ==
  ASSUME ConstraintInv, NEW h, Sound(h), NEW s, NEW e, MayExtend(h, s, e)
  PROVE  /\ Sound(Extension(h, s, e))
         /\ h.covered \subseteq Extension(h, s, e).covered
         /\ h.covered # Extension(h, s, e).covered
<1> DEFINE x == Extension(h, s, e)
           c == h.covered
           g == GetFirstGapPos(c)
           a == GetFirstGapPos(x.covered)
<1>1. SourceSize \in Nat \ {0} /\ MaxDistortion \in Int
  BY SizeAssumption, DistortionAssumption
<1>2. s \in Positions /\ e \in Positions /\ s <= e
  BY SearchAssumption DEF MayExtend
<1>3. s \in Nat /\ e \in Nat /\ e < SourceSize
  BY <1>1, <1>2 DEF Positions
<1>4. c \subseteq Positions /\ h.next \in 0..SourceSize /\ Span(s, e) \cap c = {}
  BY DEF Sound, Hypos, MayExtend
<1>5. x.covered = c \cup Span(s, e) /\ x.start = s /\ x.next = e + 1
  BY DEF Extension
<1>6. s \in Span(s, e) /\ Span(s, e) \subseteq Positions
  BY <1>1, <1>2, <1>3 DEF Span, Positions
<1>7. x \in Hypos
  BY <1>1, <1>2, <1>3, <1>4, <1>6 DEF Extension, Hypos
<1>8. /\ g \in Positions /\ g <= s
      /\ s = g => a > e
      /\ s # g => a = g
  <2>1. /\ g \in Positions /\ g <= s
        /\ s = g => GetFirstGapPos(c \cup Span(s, e)) > e
        /\ s # g => GetFirstGapPos(c \cup Span(s, e)) = g
    BY <1>2, <1>4, GapAfter
  <2> QED BY <1>5, <2>1
<1>9. /\ a \in 0..SourceSize /\ a \notin x.covered
      /\ \A p \in Positions : p < a => p \in x.covered
  BY <1>4, <1>5, <1>6, FirstGapOf
<1>10. \A p \in Positions : p < g => p \in c
  BY <1>4, FirstGapOf
<1>11. \A p \in Positions : p \in Nat
  BY <1>1 DEF Positions
<1>12. MaxDistortion >= 0 =>
         /\ Distance(h.next, s) <= MaxDistortion
         /\ s = g \/ Distance(e + 1, g) <= MaxDistortion
  BY DEF MayExtend, WithinLimit
<1>13. MaxDistortion >= 0 => \A p \in c : p > g => p < g + MaxDistortion
  BY DEF Sound, WindowSmall
<1>14. \A p \in Span(s, e) : p \in Nat /\ s <= p /\ p <= e
  BY <1>3 DEF Span
<1> HIDE DEF x, c, g, a
<1>20. GapInReach(x)
  <2> SUFFICES ASSUME MaxDistortion >= 0 PROVE Distance(e + 1, a) <= MaxDistortion
    BY <1>5 DEF GapInReach, a
  <2>1. CASE s # g
    BY <1>8, <1>12, <2>1
  <2>2. CASE s = g
    <3>1. a > e
      BY <1>8, <2>2
    <3>2. CASE a = e + 1
      BY <1>3, <3>2 DEF Distance
    <3>3. CASE a # e + 1
      <4>1. a - 1 \in Positions /\ a - 1 < a /\ a - 1 > e
        BY <1>1, <1>3, <1>9, <3>1, <3>3 DEF Positions
      <4>2. a - 1 \in c
        BY <1>5, <1>9, <1>14, <4>1, <1>3
      <4>3. g <= e
        BY <1>2, <2>2
      <4>4. a - 1 > g
        BY <1>3, <1>8, <1>9, <1>11, <4>1, <4>3
      <4>5. a - 1 < g + MaxDistortion
        BY <1>13, <4>2, <4>4
      <4>6. a - (e + 1) <= MaxDistortion
        BY <1>1, <1>3, <1>8, <1>9, <1>11, <4>3, <4>5
      <4> QED BY <1>3, <1>9, <3>1, <4>6 DEF Distance
    <3> QED BY <3>2, <3>3
  <2> QED BY <2>1, <2>2
<1>21. WindowSmall(x)
  <2> SUFFICES ASSUME MaxDistortion >= 0, NEW p \in x.covered, p > a
               PROVE  p < a + MaxDistortion
    BY DEF WindowSmall, a
  <2>1. p \in Nat
    BY <1>4, <1>5, <1>11, <1>14 DEF c
  <2>2. g <= a
    BY <1>2, <1>3, <1>8, <1>9, <1>11
  <2>3. CASE p \in c
    <3>1. p > g
      BY <1>8, <1>9, <1>11, <2>1, <2>2
    <3>2. p < g + MaxDistortion
      BY <1>13, <2>3, <3>1
    <3> QED BY <1>1, <1>8, <1>9, <1>11, <2>1, <2>2, <3>2
  <2>4. CASE p \notin c
    <3>1. p \in Span(s, e)
      BY <1>5, <2>4
    <3>2. s # g
      BY <1>3, <1>8, <1>9, <1>14, <3>1
    <3>3. a = g /\ Distance(e + 1, g) <= MaxDistortion
      BY <1>8, <1>12, <3>2
    <3>4. p <= e
      BY <1>14, <3>1
    <3>5. e + 1 >= g
      BY <1>2, <1>3, <1>8, <1>11
    <3>6. e + 1 - g <= MaxDistortion
      BY <1>1, <1>3, <1>8, <1>11, <3>3, <3>5 DEF Distance
    <3> QED BY <1>1, <1>3, <1>8, <1>11, <2>1, <3>3, <3>4, <3>6
  <2> QED BY <2>3, <2>4
<1>22. BehindWalls(x)
  <2> SUFFICES ASSUME NEW p \in Positions, p \in reo.wall,
                      NEW q \in x.covered, q > p
               PROVE  Span(0, p) \subseteq x.covered
    BY DEF BehindWalls
  <2>1. CASE q \in c
    <3>1. Span(0, p) \subseteq c
      BY <2>1 DEF Sound, BehindWalls, c
    <3> QED BY <1>5, <3>1
  <2>2. CASE q \notin c
    <3>1. q \in Span(s, e)
      BY <1>5, <2>2
    <3>2. q \in Nat /\ q <= e /\ p \in Nat
      BY <1>11, <1>14, <3>1
    <3>3. \A i \in Span(0, p) : i \in Positions /\ i <= p
      BY <1>1 DEF Span, Positions
    <3>4. CASE s = g
      <4>1. \A i \in Span(0, p) : i < a
        <5>1. q < a
          BY <1>3, <1>8, <1>9, <3>2, <3>4
        <5>2. \A i \in Span(0, p) : i \in Nat /\ i <= p
          BY <1>11, <3>3
        <5>3. a \in Nat
          BY <1>1, <1>9
        <5> QED BY <3>2, <5>1, <5>2, <5>3
      <4> QED BY <1>9, <3>3, <4>1
    <3>5. CASE s # g
      <4>1. Check(reo, c, s, e)
        BY DEF MayExtend, c
      <4>2. ~HitsWall(reo, c, s, e)
        <5>1. CASE reo.active
          BY <4>1, <5>1 DEF Check
        <5>2. CASE ~reo.active
          BY <5>2, NoWallInactive
        <5> QED BY <5>1, <5>2
      <4>3. reo.wall \cap Span(g, e - 1) = {}
        BY <3>5, <4>2 DEF HitsWall, g
      <4>4. p <= e - 1
        BY <1>3, <3>2
      <4>5. ~(g <= p)
        BY <1>3, <1>8, <1>11, <3>2, <4>3, <4>4 DEF Span
      <4>6. \A i \in Span(0, p) : i < g
        <5>1. \A i \in Span(0, p) : i \in Nat /\ i <= p
          BY <1>11, <3>3
        <5>2. g \in Nat
          BY <1>8, <1>11
        <5> QED BY <3>2, <4>5, <5>1, <5>2
      <4> QED BY <1>5, <1>10, <3>3, <4>6
    <3> QED BY <3>4, <3>5
  <2> QED BY <2>1, <2>2
<1>23. c \subseteq x.covered /\ c # x.covered
  BY <1>4, <1>5, <1>6 DEF c
<1> QED BY <1>7, <1>20, <1>21, <1>22, <1>23 DEF Sound, x, c

-----------------------------------------------------------------------------
(* The search. *)

AllSound == \A k \in Stacks : \A h \in stacks[k] : Sound(h)

IInv == TypeOK /\ AllSound

LEMMA InitSound == Init => IInv
<1> SUFFICES ASSUME Init PROVE IInv
  OBVIOUS
<1>1. SourceSize \in Nat \ {0}
  BY SizeAssumption
<1>2. Sound(Seed) /\ Seed \in Hypos /\ Seed.covered = {}
  BY SeedIsSound DEF Sound, Seed
<1>3. Cardinality({}) = 0
  BY FS_EmptySet
<1>4. \A k \in Stacks : \A h \in stacks[k] : k = 0 /\ h = Seed
  BY DEF Init
<1>5. AllSound
  BY <1>2, <1>4 DEF AllSound
<1>6. DOMAIN stacks = Stacks
  BY DEF Init
<1>7. \A k \in Stacks : \A h \in stacks[k] : h \in Hypos /\ Cardinality(h.covered) = k
  BY <1>2, <1>3, <1>4
<1>8. at \in 0..(SourceSize + 1) /\ interrupted \in BOOLEAN /\ expanded \in Stacks \cup {Unset}
  <2>1. at = 0 /\ interrupted = FALSE /\ expanded = Unset
    BY DEF Init
  <2>2. at \in 0..(SourceSize + 1)
    BY <1>1, <2>1
  <2> QED BY <2>1, <2>2
<1>9. reo \in Reorderings
  BY DEF Init
<1> QED BY <1>5, <1>6, <1>7, <1>8, <1>9 DEF IInv, TypeOK

\* What the stacks hold after a stack was expanded: what they held before, and
\* extensions of it.
LEMMA FilledHolds ==
  ASSUME NEW kept \in SUBSET stacks[at], at \in Stacks,
         NEW k \in Stacks, NEW h \in Filled(kept)[k]
  PROVE  \/ h \in stacks[k]
         \/ /\ Cardinality(h.covered) = k
            /\ \E g \in kept : \E o \in Options :
                 MayExtend(g, o[1], o[2]) /\ h = Extension(g, o[1], o[2])
<1>1. CASE k = at
  BY <1>1 DEF Filled
<1>2. CASE k # at
  <2>1. h \in stacks[k]
          \cup {x \in UNION {ExtensionsOf(g) : g \in kept} : Cardinality(x.covered) = k}
    BY <1>2 DEF Filled
  <2>2. CASE h \in stacks[k]
    BY <2>2
  <2>3. CASE h \notin stacks[k]
    <3>1. Cardinality(h.covered) = k /\ \E g \in kept : h \in ExtensionsOf(g)
      BY <2>1, <2>3
    <3> QED BY <3>1 DEF ExtensionsOf
  <2> QED BY <2>2, <2>3
<1> QED BY <1>1, <1>2

LEMMA ProcessStackKeepsSound == IInv /\ ProcessStack => IInv'
<1> SUFFICES ASSUME IInv, ProcessStack PROVE IInv'
  OBVIOUS
<1>1. SourceSize \in Nat \ {0}
  BY SizeAssumption
<1>2. at \in Stacks /\ at \in Nat
  BY <1>1 DEF IInv, TypeOK, ProcessStack, Stacks
<1>3. PICK kept \in Pruned(stacks[at]) : stacks' = Filled(kept)
  BY DEF ProcessStack
<1>4. kept \subseteq stacks[at]
  BY DEF Pruned
<1>5. reo' = reo /\ interrupted' = interrupted /\ expanded' = at /\ at' = at + 1
  BY DEF ProcessStack
<1>6. ConstraintInv
  BY DEF IInv, TypeOK, ConstraintInv
<1>7. ASSUME NEW k \in Stacks, NEW h \in stacks'[k]
      PROVE  Sound(h) /\ Cardinality(h.covered) = k
  <2>1. CASE h \in stacks[k]
    BY <2>1 DEF IInv, TypeOK, AllSound
  <2>2. CASE h \notin stacks[k]
    <3>1. /\ Cardinality(h.covered) = k
          /\ \E g \in kept : \E o \in Options :
               MayExtend(g, o[1], o[2]) /\ h = Extension(g, o[1], o[2])
      BY <1>2, <1>3, <1>4, <1>7, <2>2, FilledHolds
    <3>2. PICK g \in kept, o \in Options :
            MayExtend(g, o[1], o[2]) /\ h = Extension(g, o[1], o[2])
      BY <3>1
    <3>3. Sound(g)
      BY <1>2, <1>4 DEF IInv, AllSound
    <3>4. Sound(Extension(g, o[1], o[2]))
      BY <1>6, <3>2, <3>3, ExtensionIsSound
    <3> QED BY <3>1, <3>2, <3>4
  <2> QED BY <2>1, <2>2
<1>8. \A k \in Stacks : \A h \in stacks'[k] : Sound(h)'
  <2>1. SUFFICES ASSUME NEW k \in Stacks, NEW h \in stacks'[k] PROVE Sound(h)'
    OBVIOUS
  <2>2. Sound(h)
    BY <1>7
  <2> QED BY <1>5, <2>2 DEF Sound, GapInReach, WindowSmall, BehindWalls
<1>9. AllSound'
  BY <1>8 DEF AllSound
<1>10. DOMAIN stacks' = Stacks
  BY <1>3 DEF Filled
<1>11. \A k \in Stacks : \A h \in stacks'[k] : h \in Hypos /\ Cardinality(h.covered) = k
  BY <1>7 DEF Sound
<1>12. /\ at' \in 0..(SourceSize + 1) /\ interrupted' \in BOOLEAN
       /\ expanded' \in Stacks \cup {Unset}
  BY <1>1, <1>2, <1>5 DEF IInv, TypeOK, Stacks
<1>13. reo' \in Reorderings
  BY <1>5 DEF IInv, TypeOK, Reorderings
<1> QED BY <1>9, <1>10, <1>11, <1>12, <1>13 DEF IInv, TypeOK

LEMMA NextKeepsSound == IInv /\ [Next]_vars => IInv'
<1> SUFFICES ASSUME IInv, [Next]_vars PROVE IInv'
  OBVIOUS
<1>1. CASE ProcessStack
  BY <1>1, ProcessStackKeepsSound
<1>2. CASE TimeOut
  <2>1. reo' = reo /\ stacks' = stacks /\ at' = at /\ expanded' = expanded /\ interrupted' = TRUE
    BY <1>2 DEF TimeOut
  <2>2. TypeOK'
    BY <2>1 DEF IInv, TypeOK
  <2>3. AllSound'
    BY <2>1 DEF IInv, AllSound, Sound, GapInReach, WindowSmall, BehindWalls
  <2> QED BY <2>2, <2>3 DEF IInv
<1>3. CASE UNCHANGED vars
  <2>1. TypeOK'
    BY <1>3 DEF IInv, TypeOK, vars
  <2>2. AllSound'
    BY <1>3 DEF IInv, AllSound, Sound, GapInReach, WindowSmall, BehindWalls, vars
  <2> QED BY <2>1, <2>2 DEF IInv
<1> QED BY <1>1, <1>2, <1>3 DEF Next, End

\* Whatever the stacks hold is sound: its gap can be reached, its window is small,
\* and it keeps to the walls (ProcessOneHypothesis with Check and ExpandHypothesis).
THEOREM Invariance == Spec => []IInv
BY InitSound, NextKeepsSound, PTL DEF Spec

\* Stack k holds hypotheses that cover k words, as Decode's indexing of
\* m_hypoStackColl takes for granted.
THEOREM TypeCorrect == Spec => []TypeOK
<1>1. IInv => TypeOK
  BY DEF IInv
<1> QED BY <1>1, Invariance, PTL

\* With a distortion limit the words covered beyond the first gap are fewer than
\* the limit (ProcessOneHypothesis looks at the way back to the gap).
THEOREM WindowStaysSmall == Spec => []WindowWithinLimit
<1>1. IInv => WindowWithinLimit
  <2> SUFFICES ASSUME IInv, MaxDistortion >= 0, NEW k \in Stacks, NEW h \in stacks[k],
                      h.covered # {}, GetFirstGapPos(h.covered) < GetLastPos(h.covered)
               PROVE  GetLastPos(h.covered) - GetFirstGapPos(h.covered) < MaxDistortion
    BY DEF WindowWithinLimit
  <2>1. h \in Hypos /\ WindowSmall(h)
    BY DEF IInv, AllSound, Sound
  <2>2. h.covered \subseteq Positions
    BY <2>1 DEF Hypos
  <2>3. GetLastPos(h.covered) \in h.covered
    BY <2>2, LastWord
  <2>4. GetLastPos(h.covered) < GetFirstGapPos(h.covered) + MaxDistortion
    BY <2>1, <2>3 DEF WindowSmall
  <2>5. GetFirstGapPos(h.covered) \in Int /\ GetLastPos(h.covered) \in Int /\ MaxDistortion \in Int
    BY <2>2, <2>3, FirstGapOf, SizeAssumption, DistortionAssumption DEF Positions
  <2> QED BY <2>4, <2>5
<1> QED BY <1>1, Invariance, PTL

\* No word is ever moved across a wall (ReorderingConstraint::Check).
THEOREM WallsAreRespected == Spec => []WallsRespected
<1>1. IInv => WallsRespected
  BY DEF IInv, AllSound, Sound, BehindWalls, WallsRespected
<1> QED BY <1>1, Invariance, PTL

-----------------------------------------------------------------------------
(* Inputs without zones: the first gap can always be filled by a phrase of    *)
(* one word, so the search never comes to an end in the middle of a sentence. *)

NoZones == \A c \in Constraints : c.zones = <<>>

LEMMA SizeOfCoverage ==
  ASSUME NEW covered, covered \subseteq Positions
  PROVE  /\ IsFiniteSet(covered) /\ Cardinality(covered) \in Stacks
         /\ covered # Positions => Cardinality(covered) < SourceSize
         /\ Cardinality(Positions) = SourceSize
<1>1. SourceSize \in Nat \ {0}
  BY SizeAssumption
<1>2. IsFiniteSet(Positions) /\ Cardinality(Positions) = SourceSize
  <2>1. 0 \in Int /\ SourceSize - 1 \in Int
    BY <1>1
  <2>2. IsFiniteSet(0..(SourceSize - 1)) /\
        Cardinality(0..(SourceSize - 1)) =
          IF 0 > SourceSize - 1 THEN 0 ELSE (SourceSize - 1) - 0 + 1
    BY <2>1, FS_Interval
  <2> QED BY <1>1, <2>2 DEF Positions
<1>3. IsFiniteSet(covered) /\ Cardinality(covered) \in Nat
  BY <1>2, FS_Subset, FS_CardinalityType
<1>4. Cardinality(covered) <= Cardinality(Positions)
  BY <1>2, FS_Subset
<1>5. covered # Positions => Cardinality(covered) # Cardinality(Positions)
  BY <1>2, FS_Subset
<1> QED BY <1>1, <1>2, <1>3, <1>4, <1>5 DEF Stacks

LEMMA GapMayBeFilled ==
  ASSUME NoZones, ConstraintInv, NEW h, Sound(h), h.covered # Positions
  PROVE  MayExtend(h, GetFirstGapPos(h.covered), GetFirstGapPos(h.covered))
<1> DEFINE g == GetFirstGapPos(h.covered)
<1>1. SourceSize \in Nat \ {0}
  BY SizeAssumption
<1>2. h.covered \subseteq Positions
  BY DEF Sound, Hypos
<1>3. g \in 0..SourceSize /\ g \notin h.covered /\ g # SourceSize
  BY <1>2, FirstGapOf
<1>4. g \in Positions /\ g \in Nat
  BY <1>1, <1>3 DEF Positions
<1>5. <<g, g>> \in Options
  BY <1>4, SearchAssumption
<1>6. Span(g, g) \cap h.covered = {}
  BY <1>3, <1>4 DEF Span
<1>7. reo.zone = <<>>
  <2>1. PICK c \in Constraints : reo = Constraint(c.walls, c.zones)
    BY DEF ConstraintInv, Reorderings
  <2> QED BY <2>1 DEF Constraint, NoZones
<1>8. DOMAIN reo.zone = {}
  BY <1>7
<1>9. Check(reo, h.covered, g, g)
  BY <1>8 DEF Check, HitsWall
<1>10. WithinLimit(h, g, g)
  BY DEF WithinLimit, Sound, GapInReach
<1> QED BY <1>5, <1>6, <1>9, <1>10 DEF MayExtend

LEMMA SoundIsNoDeadEnd ==
  ASSUME NoZones, ConstraintInv, NEW h, Sound(h), h.covered # Positions
  PROVE  \E x \in ExtensionsOf(h) : Cardinality(x.covered) = Cardinality(h.covered) + 1
<1> DEFINE g == GetFirstGapPos(h.covered)
           x == Extension(h, g, g)
<1>1. MayExtend(h, g, g)
  BY GapMayBeFilled
<1>2. <<g, g>> \in Options
  BY <1>1 DEF MayExtend
<1>3. x \in ExtensionsOf(h)
  <2>1. <<g, g>>[1] = g /\ <<g, g>>[2] = g
    OBVIOUS
  <2> QED BY <1>1, <1>2, <2>1 DEF ExtensionsOf
<1>4. h.covered \subseteq Positions /\ g \notin h.covered
  BY FirstGapOf DEF Sound, Hypos
<1>5. x.covered = h.covered \cup {g}
  <2>1. g \in Int
    BY <1>2, SearchAssumption, SizeAssumption DEF Positions
  <2>2. Span(g, g) = {g}
    BY <2>1 DEF Span
  <2> QED BY <2>2 DEF Extension
<1>6. IsFiniteSet(h.covered)
  BY <1>4, SizeOfCoverage
<1>7. Cardinality(x.covered) = Cardinality(h.covered) + 1
  BY <1>4, <1>5, <1>6, FS_AddElement
<1> QED BY <1>3, <1>7

\* Without zones no hypothesis is ever a dead end: any sentence, distortion limit,
\* set of phrases and walls (ProcessOneHypothesis, ReorderingConstraint::Check).
THEOREM NeverADeadEnd == ASSUME NoZones PROVE Spec => []NoDeadEnd
<1>1. IInv => NoDeadEnd
  <2> SUFFICES ASSUME IInv, NEW k \in Stacks \ {SourceSize}, NEW h \in stacks[k]
               PROVE  ExtensionsOf(h) # {}
    BY DEF NoDeadEnd
  <2>1. Sound(h) /\ ConstraintInv /\ Cardinality(h.covered) = k
    BY DEF IInv, TypeOK, AllSound, ConstraintInv
  <2>2. h.covered # Positions
    BY <2>1, SizeOfCoverage
  <2> QED BY <2>1, <2>2, SoundIsNoDeadEnd
<1> QED BY <1>1, Invariance, PTL

\* The stack Decode comes to next holds a hypothesis, and so does the one it has
\* expanded last.
Alive ==
  /\ at <= SourceSize => stacks[at] # {}
  /\ at > SourceSize => stacks[SourceSize] # {}
  /\ expanded # Unset => stacks[expanded] # {}

LEMMA InitAlive == Init => Alive
<1>1. SourceSize \in Nat \ {0}
  BY SizeAssumption
<1>2. Init => 0 \in Stacks
  BY <1>1 DEF Stacks
<1>3. Init => stacks[0] # {}
  BY <1>2 DEF Init
<1> QED BY <1>1, <1>3, SMTT(30) DEF Alive, Init

LEMMA ProcessStackKeepsAlive ==
  ASSUME NoZones, IInv, Alive, ProcessStack PROVE Alive'
<1>1. SourceSize \in Nat \ {0}
  BY SizeAssumption
<1>2. /\ at \in Stacks /\ at \in Nat /\ at <= SourceSize
      /\ at' = at + 1 /\ expanded' = at
  BY <1>1 DEF IInv, TypeOK, ProcessStack, Stacks
<1>3. PICK kept \in Pruned(stacks[at]) : stacks' = Filled(kept)
  BY DEF ProcessStack
<1>4. kept \subseteq stacks[at] /\ kept # {}
  BY <1>2 DEF Pruned, Alive
<1>5. stacks'[at] = kept
  BY <1>2, <1>3 DEF Filled
<1>6. ASSUME at # SourceSize PROVE stacks'[at + 1] # {}
  <2>1. PICK h \in kept : TRUE
    BY <1>4
  <2>2. Sound(h) /\ ConstraintInv /\ Cardinality(h.covered) = at
    BY <1>2, <1>4, <2>1 DEF IInv, TypeOK, AllSound, ConstraintInv
  <2>3. h.covered # Positions
    BY <1>6, <2>2, SizeOfCoverage
  <2>4. PICK x \in ExtensionsOf(h) : Cardinality(x.covered) = at + 1
    BY <2>2, <2>3, SoundIsNoDeadEnd
  <2>5. at + 1 \in Stacks /\ at + 1 # at
    BY <1>1, <1>2, <1>6 DEF Stacks
  <2>6. x \in UNION {ExtensionsOf(y) : y \in kept}
    BY <2>1
  <2> QED BY <1>3, <2>4, <2>5, <2>6 DEF Filled
<1> QED BY <1>1, <1>2, <1>4, <1>5, <1>6 DEF Alive

LEMMA NextKeepsAlive ==
  ASSUME NoZones PROVE IInv /\ Alive /\ [Next]_vars => Alive'
<1> SUFFICES ASSUME IInv, Alive, [Next]_vars PROVE Alive'
  OBVIOUS
<1>1. CASE ProcessStack
  BY <1>1, ProcessStackKeepsAlive
<1>2. CASE TimeOut \/ UNCHANGED vars
  <2>1. stacks' = stacks /\ at' = at /\ expanded' = expanded
    BY <1>2 DEF TimeOut, vars
  <2> QED BY <2>1 DEF Alive
<1> QED BY <1>1, <1>2 DEF Next, End

\* Without zones a search that runs to its end has translated the whole sentence,
\* and one that a time-out ends has a best hypothesis, whatever the pruning of the
\* stacks has thrown away (SearchNormal::Decode, GetBestHypothesis).
THEOREM FindsTranslation == ASSUME NoZones PROVE Spec => []TranslationFound
<1>1. Alive => TranslationFound
  BY DEF Alive, TranslationFound, Decoded, FinalStack
<1>2. Spec => []Alive
  BY InitAlive, NextKeepsAlive, Invariance, PTL DEF Spec
<1> QED BY <1>1, <1>2, PTL

-----------------------------------------------------------------------------
(* Zones.  Check looks at the zones only when it is asked; that every          *)
(* hypothesis the search reaches has finished the zones it left, and kept to   *)
(* the walls inside them, is what its answers add up to.                       *)

\* The local walls are local to zones of the input: FinalizeWalls, zone by zone.
LEMMA LocalWallsName ==
  ASSUME NEW walls, NEW zones, zones \in Seq(Positions \X Positions)
  PROVE  \A p \in Positions : LocalWalls(walls, zones)[p] \in {NOT_A_ZONE} \cup DOMAIN zones
<1> DEFINE base == [p \in Positions |-> NOT_A_ZONE]
           Steps(g, k) == g = [n \in 0..k |-> IF n = 0 THEN base
                                              ELSE Localize(walls, zones, g[n - 1], n)]
           Bad == {k \in Nat : ~\E g : Steps(g, k)}
<1>1. Len(zones) \in Nat /\ DOMAIN zones = 1..Len(zones)
  OBVIOUS
<1>2. Bad = {}
  <2>1. SUFFICES ASSUME Bad # {} PROVE FALSE
    OBVIOUS
  <2>2. PICK m \in Nat : m \in Bad /\ \A y \in Bad : m <= y
    <3>1. Bad \subseteq Nat
      OBVIOUS
    <3> HIDE DEF Bad
    <3> QED BY <2>1, <3>1, MinOfNat
  <2>3. CASE m = 0
    <3>1. Steps([n \in 0..0 |-> base], 0)
      OBVIOUS
    <3> QED BY <2>2, <2>3, <3>1
  <2>4. CASE m # 0
    <3>1. m - 1 \in Nat /\ ~(m <= m - 1)
      BY <2>4
    <3>2. m - 1 \notin Bad
      BY <2>2, <3>1
    <3>3. PICK g : Steps(g, m - 1)
      BY <3>1, <3>2
    <3> DEFINE h == [n \in 0..m |-> IF n = m THEN Localize(walls, zones, g[m - 1], m)
                                    ELSE g[n]]
    <3>4. ASSUME NEW n \in 0..m
          PROVE  h[n] = IF n = 0 THEN base ELSE Localize(walls, zones, h[n - 1], n)
      <4>1. CASE n = m
        <5>1. h[n] = Localize(walls, zones, g[m - 1], m)
          BY <4>1
        <5>2. h[n - 1] = g[m - 1]
          BY <2>4, <4>1
        <5> QED BY <2>4, <4>1, <5>1, <5>2
      <4>2. CASE n # m
        <5>1. n \in 0..m - 1
          BY <4>2
        <5>2. h[n] = g[n]
          BY <4>2
        <5>3. g[n] = IF n = 0 THEN base ELSE Localize(walls, zones, g[n - 1], n)
          BY <3>3, <5>1
        <5>4. n # 0 => h[n - 1] = g[n - 1]
          BY <5>1
        <5> QED BY <5>2, <5>3, <5>4
      <4> QED BY <4>1, <4>2
    <3>5. Steps(h, m)
      BY <3>4
    <3> QED BY <2>2, <3>5
  <2> QED BY <2>3, <2>4
<1>3. PICK g : Steps(g, Len(zones))
  BY <1>1, <1>2
<1> DEFINE after == CHOOSE f : Steps(f, Len(zones))
<1>4. Steps(after, Len(zones))
  BY <1>3
<1>5. LocalWalls(walls, zones) = after[Len(zones)]
  BY DEF LocalWalls
<1> DEFINE Names(k) == \A p \in Positions :
                         after[k][p] \in {NOT_A_ZONE} \cup DOMAIN zones
           Wrong == {k \in Nat : k <= Len(zones) /\ ~Names(k)}
<1>6. Wrong = {}
  <2>1. SUFFICES ASSUME Wrong # {} PROVE FALSE
    OBVIOUS
  <2>2. PICK m \in Nat : m \in Wrong /\ \A y \in Wrong : m <= y
    <3>1. Wrong \subseteq Nat
      OBVIOUS
    <3> HIDE DEF Wrong
    <3> QED BY <2>1, <3>1, MinOfNat
  <2>3. m \in 0..Len(zones)
    BY <1>1, <2>2
  <2> HIDE DEF after
  <2>4. after[m] = IF m = 0 THEN base ELSE Localize(walls, zones, after[m - 1], m)
    BY <1>4, <2>3
  <2>5. CASE m = 0
    <3>1. Names(m)
      BY <2>4, <2>5
    <3> QED BY <2>2, <3>1
  <2>6. CASE m # 0
    <3>1. m - 1 \in Nat /\ m - 1 <= Len(zones) /\ ~(m <= m - 1) /\ m \in DOMAIN zones
      BY <1>1, <2>3, <2>6
    <3>2. Names(m - 1)
      BY <2>2, <3>1
    <3>3. ASSUME NEW p \in Positions
          PROVE  after[m][p] \in {m, after[m - 1][p]}
      BY <2>4, <2>6 DEF Localize
    <3>4. Names(m)
      BY <3>1, <3>2, <3>3
    <3> QED BY <2>2, <3>4
  <2> QED BY <2>5, <2>6
<1>7. Names(Len(zones))
  BY <1>1, <1>6
<1> QED BY <1>5, <1>7

LEMMA ZoneTypes ==
  ASSUME ConstraintInv, NEW z \in DOMAIN reo.zone
  PROVE  /\ StartOf(reo.zone[z]) \in Positions /\ LastOf(reo.zone[z]) \in Positions
         /\ StartOf(reo.zone[z]) <= LastOf(reo.zone[z])
         /\ Within(reo.zone[z]) \subseteq Positions
<1>1. PICK c \in Constraints : reo = Constraint(c.walls, c.zones)
  BY DEF ConstraintInv, Reorderings
<1>2. reo.zone = c.zones
  BY <1>1 DEF Constraint
<1>3. c.zones \in Seq({zone \in Positions \X Positions : StartOf(zone) <= LastOf(zone)})
  BY ConstraintAssumption
<1>4. reo.zone[z] \in {zone \in Positions \X Positions : StartOf(zone) <= LastOf(zone)}
  BY <1>2, <1>3
<1>5. /\ StartOf(reo.zone[z]) \in Positions /\ LastOf(reo.zone[z]) \in Positions
      /\ StartOf(reo.zone[z]) <= LastOf(reo.zone[z])
  BY <1>4 DEF StartOf, LastOf
<1>6. Within(reo.zone[z]) \subseteq Positions
  BY <1>5, SizeAssumption DEF Within, Span, Positions
<1> QED BY <1>5, <1>6

LEMMA LocalWallTypes ==
  ASSUME ConstraintInv, NEW p \in Positions, reo.localWall[p] # NOT_A_ZONE
  PROVE  reo.localWall[p] \in DOMAIN reo.zone
<1>1. PICK c \in Constraints : reo = Constraint(c.walls, c.zones)
  BY DEF ConstraintInv, Reorderings
<1>2. reo.zone = c.zones /\ reo.localWall = LocalWalls(c.walls, c.zones)
  BY <1>1 DEF Constraint
<1>3. c.zones \in Seq({zone \in Positions \X Positions : StartOf(zone) <= LastOf(zone)})
  BY ConstraintAssumption
<1>4. c.zones \in Seq(Positions \X Positions)
  BY <1>3
<1> QED BY <1>2, <1>4, LocalWallsName

LEMMA NoZoneInactive == ASSUME ConstraintInv, ~reo.active PROVE DOMAIN reo.zone = {}
<1>1. PICK c \in Constraints : reo = Constraint(c.walls, c.zones)
  BY DEF ConstraintInv, Reorderings
<1>2. reo.zone = c.zones /\ reo.active = (c.walls # {} \/ c.zones # <<>>)
  BY <1>1 DEF Constraint
<1>3. c.zones = <<>>
  BY <1>2
<1> QED BY <1>2, <1>3

\* The last phrase touches the zones that are begun and not finished.
ZonesTouched(h) ==
  \A z \in DOMAIN reo.zone :
    h.covered \cap Within(reo.zone[z]) # {} /\ ~(Within(reo.zone[z]) \subseteq h.covered) =>
      Span(h.start, h.next - 1) \cap Within(reo.zone[z]) # {}

\* Behind a local wall nothing of the zone is covered unless all before it is.
BehindLocalWall(h, z, p) ==
  (\E q \in h.covered \cap Within(reo.zone[z]) : q > p) =>
    Span(StartOf(reo.zone[z]), p) \subseteq h.covered

BehindLocalWalls(h) ==
  \A p \in Positions : reo.localWall[p] # NOT_A_ZONE =>
    BehindLocalWall(h, reo.localWall[p], p)

\* What the answer of Check says of a zone: the phrase completes the words
\* before it, the zone is finished or untouched, or the phrase is in it.
LEMMA ZoneAnswer ==
  ASSUME ConstraintInv, NEW h, Sound(h), NEW s, NEW e, MayExtend(h, s, e),
         NEW z \in DOMAIN reo.zone
  PROVE  \/ h.covered = {i \in Positions : i < s}
         \/ Within(reo.zone[z]) \subseteq h.covered
         \/ /\ h.covered \cap Within(reo.zone[z]) = {}
            /\ Span(s, e) \cap Within(reo.zone[z]) = {}
         \/ /\ Span(s, e) \cap Within(reo.zone[z]) # {}
            /\ \/ s <= StartOf(reo.zone[z])
               \/ Within(reo.zone[z]) \subseteq h.covered \cup Span(s, e)
               \/ /\ s > StartOf(reo.zone[z]) /\ e <= LastOf(reo.zone[z])
                  /\ ~HitsLocalWall(reo, z, h.covered, s, e)
<1> DEFINE c == h.covered
           b == StartOf(reo.zone[z])
           l == LastOf(reo.zone[z])
           W == Within(reo.zone[z])
           g == GetFirstGapPos(c)
<1>1. SourceSize \in Nat \ {0}
  BY SizeAssumption
<1>2. s \in Positions /\ e \in Positions /\ s <= e
  BY SearchAssumption DEF MayExtend
<1>3. s \in Nat /\ e \in Nat /\ e < SourceSize
  BY <1>1, <1>2 DEF Positions
<1>4. c \subseteq Positions /\ Span(s, e) \cap c = {}
  BY DEF Sound, Hypos, MayExtend
<1>5. /\ b \in Positions /\ l \in Positions /\ b <= l /\ W \subseteq Positions
  BY ZoneTypes
<1>6. b \in Nat /\ l \in Nat /\ (\A i \in Positions : i \in Nat /\ i < SourceSize)
  BY <1>1, <1>5 DEF Positions
<1>7. W = b..l
  BY DEF Within, Span
<1>8. \A i : i \in Span(s, e) <=> i \in Int /\ s <= i /\ i <= e
  BY <1>3 DEF Span
<1>9. /\ g \in 0..SourceSize
      /\ \A i \in Positions : i < g => i \in c
  BY <1>4, FirstGapOf
<1>10. c # {} => GetLastPos(c) \in c /\ \A i \in c : i <= GetLastPos(c)
  BY <1>4, LastWord
<1>11. Check(reo, c, s, e)
  BY DEF MayExtend
<1>12. reo.active
  BY NoZoneInactive
<1> HIDE DEF c, b, l, W, g
<1>13. CASE Monotone(c, s)
  <2>1. CASE c = {} /\ s = 0
    <3>1. \A i \in Positions : ~(i < s)
      BY <1>6, <2>1
    <3> QED BY <2>1, <3>1 DEF c
  <2>2. CASE c # {} /\ g > GetLastPos(c) /\ g = s
    <3>1. ASSUME NEW i \in c PROVE i < s
      <4>1. i <= GetLastPos(c) /\ i \in Positions /\ GetLastPos(c) \in Positions
        BY <1>4, <1>10 DEF c
      <4>2. i \in Nat /\ GetLastPos(c) \in Nat
        BY <1>6, <4>1
      <4> QED BY <1>3, <2>2, <4>1, <4>2
    <3>2. c = {i \in Positions : i < s}
      BY <1>4, <1>9, <2>2, <3>1 DEF c
    <3> QED BY <3>2 DEF c
  <2> QED BY <1>13, <2>1, <2>2 DEF Monotone, g
<1>14. CASE ZoneAllows(reo, z, c, s, e)
  <2> DEFINE outside == e < b \/ s > l
  <2>1. \/ GetLastPos(c) < b /\ outside
        \/ g > l
        \/ c \cap W = W
        \/ c \cap W = {} /\ outside
        \/ /\ ~outside
           /\ \/ s <= b
              \/ /\ s > b /\ e > l
                 /\ Cardinality(Span(s, l)) >= Cardinality(W) - Cardinality(c \cap W)
              \/ /\ s > b /\ e <= l
                 /\ ~HitsLocalWall(reo, z, c, s, e)
    BY <1>14 DEF ZoneAllows, b, l, W, g
  <2>2. outside => Span(s, e) \cap W = {}
    BY <1>3, <1>6, <1>7, <1>8
  <2>3. ~outside => Span(s, e) \cap W # {}
    <3>1. SUFFICES ASSUME ~outside PROVE Span(s, e) \cap W # {}
      OBVIOUS
    <3>2. PICK i \in Nat : s <= i /\ i <= e /\ b <= i /\ i <= l
      <4>1. CASE s <= b
        BY <1>3, <1>5, <1>6, <3>1, <4>1
      <4>2. CASE ~(s <= b)
        BY <1>2, <1>3, <1>5, <1>6, <3>1, <4>2
      <4> QED BY <4>1, <4>2
    <3>3. i \in Span(s, e) /\ i \in W
      BY <1>6, <1>7, <1>8, <3>2
    <3> QED BY <3>3
  <2>4. CASE GetLastPos(c) < b /\ outside
    <3>1. c \cap W = {}
      <4>1. SUFFICES ASSUME NEW i \in c, i \in W PROVE FALSE
        OBVIOUS
      <4>2. i <= GetLastPos(c) /\ GetLastPos(c) \in c
        BY <1>10, <4>1
      <4>3. GetLastPos(c) \in Positions /\ i \in Positions
        BY <1>4, <4>1, <4>2 DEF c
      <4>4. GetLastPos(c) \in Nat /\ i \in Nat
        BY <1>6, <4>3
      <4>5. b <= i
        BY <1>6, <1>7, <4>1, <4>4
      <4> QED BY <1>6, <2>4, <4>2, <4>4, <4>5
    <3> QED BY <2>2, <2>4, <3>1 DEF c, W
  <2>5. CASE g > l
    <3>1. W \subseteq c
      <4>1. SUFFICES ASSUME NEW i \in W PROVE i \in c
        OBVIOUS
      <4>2. i \in Positions /\ i <= l /\ i \in Nat
        BY <1>5, <1>6, <1>7
      <4>3. i < g
        BY <1>1, <1>6, <1>9, <2>5, <4>2
      <4> QED BY <1>9, <4>2, <4>3
    <3> QED BY <3>1 DEF c, W
  <2>6. CASE c \cap W = W
    BY <2>6 DEF c, W
  <2>7. CASE c \cap W = {} /\ outside
    BY <2>2, <2>7 DEF c, W
  <2>8. CASE ~outside /\ s <= b
    BY <2>3, <2>8 DEF b, W
  <2>9. CASE /\ ~outside /\ s > b /\ e > l
             /\ Cardinality(Span(s, l)) >= Cardinality(W) - Cardinality(c \cap W)
    <3>1. IsFiniteSet(W) /\ Cardinality(W) = l - b + 1
      BY <1>5, <1>6, <1>7, FS_Interval
    <3>2. s <= l
      BY <1>3, <1>6, <2>9
    <3>3. IsFiniteSet(s..l) /\ Cardinality(s..l) = l - s + 1
      BY <1>3, <1>6, <3>2, FS_Interval
    <3>4. IsFiniteSet(b..s - 1) /\ Cardinality(b..s - 1) = s - b
      <4>1. s - 1 \in Int /\ b \in Int /\ b <= s - 1
        BY <1>3, <1>6, <2>9
      <4>2. IsFiniteSet(b..s - 1) /\ Cardinality(b..s - 1) = (s - 1) - b + 1
        BY <4>1, FS_Interval
      <4> QED BY <1>3, <1>6, <4>2
    <3>5. c \cap W \subseteq b..s - 1
      <4>1. SUFFICES ASSUME NEW i \in c, i \in W PROVE i \in b..s - 1
        OBVIOUS
      <4>2. i \in Int /\ b <= i /\ i <= l /\ i \notin Span(s, e)
        BY <1>4, <1>6, <1>7, <4>1 DEF c
      <4>3. i < s
        BY <1>3, <1>6, <1>8, <2>9, <4>2
      <4> QED BY <1>3, <1>6, <4>2, <4>3
    <3>6. /\ IsFiniteSet(c \cap W) /\ Cardinality(c \cap W) \in Nat
          /\ Cardinality(c \cap W) <= s - b
      <4>1. IsFiniteSet(c \cap W) /\ Cardinality(c \cap W) <= Cardinality(b..s - 1)
        BY <3>4, <3>5, FS_Subset, Zenon
      <4>2. Cardinality(c \cap W) \in Nat
        BY <4>1, FS_CardinalityType, Zenon
      <4> QED BY <3>4, <4>1, <4>2
    <3>7. Cardinality(c \cap W) = Cardinality(b..s - 1)
      <4>1. Cardinality(c \cap W) >= s - b
        BY <1>3, <1>6, <2>9, <3>1, <3>3, <3>6 DEF Span
      <4> QED BY <1>3, <1>6, <3>4, <3>6, <4>1
    <3>8. c \cap W = b..s - 1
      BY <3>4, <3>5, <3>7, FS_Subset, Zenon
    <3>9. W \subseteq c \cup Span(s, e)
      <4>1. SUFFICES ASSUME NEW i \in W, i \notin c PROVE i \in Span(s, e)
        OBVIOUS
      <4>2. i \in Int /\ b <= i /\ i <= l /\ i \notin b..s - 1
        BY <1>6, <1>7, <3>8, <4>1
      <4>3. s <= i /\ i <= e
        BY <1>3, <1>6, <2>9, <4>2
      <4> QED BY <1>8, <4>2, <4>3
    <3> QED BY <2>3, <2>9, <3>9 DEF c, W
  <2>10. CASE /\ ~outside /\ s > b /\ e <= l
              /\ ~HitsLocalWall(reo, z, c, s, e)
    BY <2>3, <2>10 DEF b, l, c, W
  <2> HIDE DEF outside
  <2> QED BY <2>1, <2>4, <2>5, <2>6, <2>7, <2>8, <2>9, <2>10
<1> QED BY <1>11, <1>12, <1>13, <1>14 DEF Check, c

LEMMA ZonesNumbered == ASSUME ConstraintInv PROVE NOT_A_ZONE \notin DOMAIN reo.zone
<1>1. PICK c \in Constraints : reo = Constraint(c.walls, c.zones)
  BY DEF ConstraintInv, Reorderings
<1>2. reo.zone = c.zones
  BY <1>1 DEF Constraint
<1>3. c.zones \in Seq({zone \in Positions \X Positions : StartOf(zone) <= LastOf(zone)})
  BY ConstraintAssumption
<1>4. DOMAIN reo.zone = 1..Len(c.zones) /\ Len(c.zones) \in Nat
  BY <1>2, <1>3
<1> QED BY <1>4 DEF NOT_A_ZONE

\* An extension touches the zones it leaves unfinished.
LEMMA ExtensionTouches ==
  ASSUME ConstraintInv, NEW h, Sound(h), NEW s, NEW e, MayExtend(h, s, e)
  PROVE  ZonesTouched(Extension(h, s, e))
<1> DEFINE x == Extension(h, s, e)
<1>1. x.covered = h.covered \cup Span(s, e) /\ x.start = s /\ x.next = e + 1
  BY DEF Extension
<1>2. s \in Positions /\ e \in Positions /\ s <= e
  BY SearchAssumption DEF MayExtend
<1>3. s \in Nat /\ e \in Nat
  BY <1>2, SizeAssumption DEF Positions
<1> HIDE DEF x
<1>4. Span(x.start, x.next - 1) = Span(s, e)
  <2>1. x.next - 1 = e
    BY <1>1, <1>3
  <2> QED BY <1>1, <2>1, Zenon
<1>5. SUFFICES ASSUME NEW z \in DOMAIN reo.zone,
                      x.covered \cap Within(reo.zone[z]) # {},
                      ~(Within(reo.zone[z]) \subseteq x.covered)
               PROVE  Span(s, e) \cap Within(reo.zone[z]) # {}
  BY <1>4 DEF ZonesTouched, x
<1>6. CASE h.covered = {i \in Positions : i < s}
  <2>1. PICK q \in x.covered : q \in Within(reo.zone[z])
    BY <1>5
  <2>2. PICK r \in Within(reo.zone[z]) : r \notin x.covered
    BY <1>5
  <2>3. SUFFICES ASSUME q \notin Span(s, e) PROVE s \in Span(s, e) \cap Within(reo.zone[z])
    BY <2>1
  <2>4. q \in Positions /\ r \in Positions
    BY <2>1, <2>2, ZoneTypes
  <2>5. q \in Nat /\ r \in Nat
    BY <2>4, SizeAssumption DEF Positions
  <2>6. q < s
    BY <1>1, <1>6, <2>1, <2>3
  <2>7. ~(r < s)
    BY <1>1, <1>6, <2>2, <2>4
  <2>8. StartOf(reo.zone[z]) \in Int /\ LastOf(reo.zone[z]) \in Int
    BY ZoneTypes, SizeAssumption DEF Positions
  <2>9. StartOf(reo.zone[z]) <= q /\ r <= LastOf(reo.zone[z])
    BY <2>1, <2>2, <2>8 DEF Within, Span
  <2>10. s \in Within(reo.zone[z])
    BY <1>3, <2>5, <2>6, <2>7, <2>8, <2>9 DEF Within, Span
  <2> QED BY <1>2, <1>3, <2>10 DEF Span
<1>7. CASE h.covered # {i \in Positions : i < s}
  BY <1>1, <1>5, <1>7, ZoneAnswer
<1> QED BY <1>6, <1>7

\* An extension keeps to the walls inside the zones.
LEMMA ExtensionBehindLocalWalls ==
  ASSUME ConstraintInv, NEW h, Sound(h), BehindLocalWalls(h),
         NEW s, NEW e, MayExtend(h, s, e)
  PROVE  BehindLocalWalls(Extension(h, s, e))
<1> DEFINE x == Extension(h, s, e)
<1>1. x.covered = h.covered \cup Span(s, e)
  BY DEF Extension
<1>2. s \in Positions /\ e \in Positions /\ s <= e
  BY SearchAssumption DEF MayExtend
<1>3. \A i \in Positions : i \in Nat /\ i < SourceSize
  BY SizeAssumption DEF Positions
<1> HIDE DEF x
<1>4. SUFFICES ASSUME NEW p \in Positions, NEW z \in DOMAIN reo.zone, reo.localWall[p] = z,
                      NEW q \in x.covered, q \in Within(reo.zone[z]), q > p,
                      NEW i \in Span(StartOf(reo.zone[z]), p)
               PROVE  i \in x.covered
  BY LocalWallTypes DEF BehindLocalWalls, BehindLocalWall, x
<1>5. q \in Positions /\ StartOf(reo.zone[z]) \in Positions /\ LastOf(reo.zone[z]) \in Positions
  BY <1>4, ZoneTypes
<1>6. i \in Positions /\ StartOf(reo.zone[z]) <= i /\ i <= p
  <2>1. /\ StartOf(reo.zone[z]) \in Nat /\ p \in Nat /\ p < SourceSize
        /\ SourceSize \in Nat \ {0}
    BY <1>3, <1>5, SizeAssumption
  <2>2. i \in Int /\ StartOf(reo.zone[z]) <= i /\ i <= p
    BY <2>1 DEF Span
  <2> QED BY <2>1, <2>2 DEF Positions
<1>7. /\ s \in Nat /\ e \in Nat /\ p \in Nat /\ q \in Nat /\ i \in Nat
      /\ StartOf(reo.zone[z]) \in Nat /\ LastOf(reo.zone[z]) \in Nat
  BY <1>2, <1>3, <1>5, <1>6
<1>8. StartOf(reo.zone[z]) <= q /\ q <= LastOf(reo.zone[z])
  BY <1>4, <1>7 DEF Within, Span
<1>9. \A j \in Nat : j \in Span(s, e) <=> s <= j /\ j <= e
  BY <1>7 DEF Span
<1>10. CASE q \in h.covered
  <2>1. BehindLocalWall(h, z, p)
    <3>1. z # NOT_A_ZONE
      BY ZonesNumbered
    <3> QED BY <1>4, <3>1 DEF BehindLocalWalls
  <2> QED BY <1>1, <1>4, <1>10, <2>1 DEF BehindLocalWall
<1>11. CASE q \notin h.covered
  <2>1. s <= q /\ q <= e
    BY <1>1, <1>7, <1>9, <1>11
  <2>2. i <= e
    BY <1>4, <1>6, <1>7, <2>1
  <2>3. SUFFICES ASSUME i < s PROVE i \in h.covered
    BY <1>1, <1>7, <1>9, <2>2
  <2>4. i \in Within(reo.zone[z]) /\ i \notin Span(s, e)
    BY <1>4, <1>6, <1>7, <1>8, <1>9, <2>3 DEF Within, Span
  <2>5. CASE h.covered = {j \in Positions : j < s}
    BY <1>6, <2>3, <2>5
  <2>6. CASE Within(reo.zone[z]) \subseteq h.covered
    BY <2>4, <2>6
  <2>7. CASE Span(s, e) \cap Within(reo.zone[z]) = {}
    BY <1>4, <1>7, <1>9, <2>1, <2>7
  <2>8. CASE s <= StartOf(reo.zone[z])
    BY <1>6, <1>7, <2>3, <2>8
  <2>9. CASE Within(reo.zone[z]) \subseteq h.covered \cup Span(s, e)
    BY <2>4, <2>9
  <2>10. CASE /\ s > StartOf(reo.zone[z]) /\ e <= LastOf(reo.zone[z])
              /\ ~HitsLocalWall(reo, z, h.covered, s, e)
    <3>1. p \in Within(reo.zone[z]) /\ p < LastOf(reo.zone[z]) /\ p < e
      BY <1>4, <1>6, <1>7, <1>8, <2>1 DEF Within, Span
    <3> QED BY <1>4, <2>3, <2>10, <3>1 DEF HitsLocalWall
  <2> QED BY <2>5, <2>6, <2>7, <2>8, <2>9, <2>10, ZoneAnswer
<1> QED BY <1>10, <1>11

AllZoned ==
  \A k \in Stacks : \A h \in stacks[k] : ZonesTouched(h) /\ BehindLocalWalls(h)

LEMMA InitZoned == Init => AllZoned
<1> SUFFICES ASSUME Init, NEW k \in Stacks, NEW h \in stacks[k]
             PROVE  ZonesTouched(h) /\ BehindLocalWalls(h)
  BY DEF AllZoned
<1>1. h = Seed
  BY DEF Init
<1>2. h.covered = {}
  BY <1>1 DEF Seed
<1> QED BY <1>2 DEF ZonesTouched, BehindLocalWalls, BehindLocalWall

LEMMA NextKeepsZoned == IInv /\ AllZoned /\ [Next]_vars => AllZoned'
<1> SUFFICES ASSUME IInv, AllZoned, [Next]_vars PROVE AllZoned'
  OBVIOUS
<1>1. reo' = reo
  BY DEF Next, ProcessStack, TimeOut, End, vars
<1>2. ConstraintInv
  BY DEF IInv, TypeOK, ConstraintInv
<1>3. ASSUME NEW k \in Stacks, NEW h \in stacks'[k]
      PROVE  ZonesTouched(h) /\ BehindLocalWalls(h)
  <2>1. CASE stacks' = stacks
    BY <1>3, <2>1 DEF AllZoned
  <2>2. CASE ProcessStack
    <3>1. at \in Stacks
      BY <2>2, SizeAssumption DEF IInv, TypeOK, ProcessStack, Stacks
    <3>2. PICK kept \in Pruned(stacks[at]) : stacks' = Filled(kept)
      BY <2>2 DEF ProcessStack
    <3>3. kept \in SUBSET stacks[at]
      BY DEF Pruned
    <3>4. CASE h \in stacks[k]
      BY <3>4 DEF AllZoned
    <3>5. CASE h \notin stacks[k]
      <4>1. \E g \in kept : \E o \in Options :
              MayExtend(g, o[1], o[2]) /\ h = Extension(g, o[1], o[2])
        BY <1>3, <3>1, <3>2, <3>3, <3>5, FilledHolds
      <4>2. PICK g \in kept, o \in Options :
              MayExtend(g, o[1], o[2]) /\ h = Extension(g, o[1], o[2])
        BY <4>1
      <4>3. Sound(g) /\ BehindLocalWalls(g)
        BY <3>1, <3>3 DEF IInv, AllSound, AllZoned
      <4> QED BY <1>2, <4>2, <4>3, ExtensionTouches, ExtensionBehindLocalWalls
    <3> QED BY <3>4, <3>5
  <2>3. stacks' = stacks \/ ProcessStack
    BY DEF Next, TimeOut, End, vars
  <2> QED BY <2>1, <2>2, <2>3
<1>4. \A k \in Stacks : \A h \in stacks'[k] : ZonesTouched(h)' /\ BehindLocalWalls(h)'
  <2>1. SUFFICES ASSUME NEW k \in Stacks, NEW h \in stacks'[k]
                 PROVE  ZonesTouched(h)' /\ BehindLocalWalls(h)'
    OBVIOUS
  <2>2. ZonesTouched(h) /\ BehindLocalWalls(h)
    BY <1>3
  <2> QED BY <1>1, <2>2 DEF ZonesTouched, BehindLocalWalls, BehindLocalWall
<1> QED BY <1>4 DEF AllZoned

\* The zones and the walls inside them are respected by every hypothesis of a
\* search, for sentences of any length, any zones (overlapping ones included) and
\* any limit, and however the stacks are pruned.
THEOREM ZonesAreRespected == Spec => []ZonesRespected
<1>1. AllZoned => ZonesRespected
  <2> SUFFICES ASSUME AllZoned PROVE ZonesRespected
    OBVIOUS
  <2>1. ZonesFinished
    BY DEF AllZoned, ZonesTouched, ZonesFinished
  <2>2. LocalWallsRespected
    BY DEF AllZoned, BehindLocalWalls, BehindLocalWall, LocalWallsRespected
  <2> QED BY <2>1, <2>2 DEF ZonesRespected
<1>2. Spec => []AllZoned
  <2>1. Init => AllZoned
    BY InitZoned
  <2>2. IInv /\ AllZoned /\ [Next]_vars => AllZoned'
    BY NextKeepsZoned
  <2> QED BY <2>1, <2>2, Invariance, PTL DEF Spec
<1> QED BY <1>1, <1>2, PTL

-----------------------------------------------------------------------------
(* Ids of bitmaps.  The pattern of GetID is a sum of powers of two, a fold over  *)
(* the words covered behind the first gap; what it yields is shown by induction  *)
(* on the number of words, then on the length of the window they lie in.         *)

Bits(start, S) == MapThenSumSet(LAMBDA p : 2 ^ (p - start - 1), S)

TwoTo(k) == 2 ^ k

AnyOf(s) == CHOOSE x \in s : TRUE

\* The function the fold is defined by.
Iter(start, S) ==
  CHOOSE f : f = [s \in SUBSET S |->
    IF s = {} THEN 0 ELSE TwoTo(AnyOf(s) - start - 1) + f[s \ {AnyOf(s)}]]

LEMMA BitsIsIter == ASSUME NEW start, NEW S PROVE Bits(start, S) = Iter(start, S)[S]
BY DEF Bits, MapThenSumSet, MapThenFoldSet, Iter, AnyOf, TwoTo

\* Taking an element out of a finite set.
LEMMA TakenOut ==
  ASSUME NEW s, IsFiniteSet(s), NEW x \in s
  PROVE  /\ IsFiniteSet(s \ {x}) /\ Cardinality(s \ {x}) = Cardinality(s) - 1
         /\ Cardinality(s) \in Nat /\ Cardinality(s) > 0
<1>1. Cardinality(s) \in Nat /\ Cardinality(s) # 0
  BY FS_CardinalityType, FS_EmptySet
<1> QED BY <1>1, FS_RemoveElement

LEMMA IterIs ==
  ASSUME NEW start, NEW S, IsFiniteSet(S), NEW s \in SUBSET S
  PROVE  Iter(start, S)[s] =
           IF s = {} THEN 0 ELSE TwoTo(AnyOf(s) - start - 1) + Iter(start, S)[s \ {AnyOf(s)}]
<1> DEFINE Up(f, t) == IF t = {} THEN 0
                       ELSE TwoTo(AnyOf(t) - start - 1) + f[t \ {AnyOf(t)}]
           Small(k) == {t \in SUBSET S : Cardinality(t) <= k}
           Steps(f, k) == f = [t \in Small(k) |-> Up(f, t)]
           Bad == {k \in Nat : ~\E f : Steps(f, k)}
<1>1. \A t \in SUBSET S : IsFiniteSet(t) /\ Cardinality(t) \in Nat /\ Cardinality(t) <= Cardinality(S)
  BY FS_Subset, FS_CardinalityType
<1>2. \A t \in SUBSET S : t # {} =>
        /\ AnyOf(t) \in t /\ t \ {AnyOf(t)} \in SUBSET S
        /\ Cardinality(t \ {AnyOf(t)}) = Cardinality(t) - 1 /\ Cardinality(t) > 0
  <2>1. ASSUME NEW t \in SUBSET S, t # {} PROVE AnyOf(t) \in t
    BY <2>1 DEF AnyOf
  <2> QED BY <1>1, <2>1, TakenOut
<1>3. Bad = {}
  <2>1. SUFFICES ASSUME Bad # {} PROVE FALSE
    OBVIOUS
  <2>2. PICK m \in Nat : m \in Bad /\ \A y \in Bad : m <= y
    <3>1. Bad \subseteq Nat
      OBVIOUS
    <3> HIDE DEF Bad
    <3> QED BY <2>1, <3>1, MinOfNat
  <2>3. CASE m = 0
    <3> DEFINE f == [t \in Small(0) |-> 0]
    <3>1. ASSUME NEW t \in Small(0) PROVE t = {}
      <4>1. t \in SUBSET S /\ Cardinality(t) <= 0 /\ Cardinality(t) \in Nat
        BY <1>1
      <4>2. t = {} \/ Cardinality(t) > 0
        BY <1>2, <4>1
      <4> QED BY <4>1, <4>2
    <3>2. f = [t \in Small(0) |-> Up(f, t)]
      <4> HIDE DEF Small
      <4> QED BY <3>1
    <3> QED BY <2>2, <2>3, <3>2
  <2>4. CASE m # 0
    <3>1. m - 1 \in Nat /\ m - 1 \notin Bad
      <4>1. m - 1 \in Nat /\ ~(m <= m - 1)
        BY <2>4
      <4> HIDE DEF Bad
      <4> QED BY <2>2, <4>1
    <3>2. PICK g : Steps(g, m - 1)
      BY <3>1
    <3> DEFINE f == [t \in Small(m) |-> Up(g, t)]
    <3>3. ASSUME NEW t \in Small(m) PROVE f[t] = Up(f, t)
      <4>1. f[t] = Up(g, t)
        OBVIOUS
      <4>2. CASE t = {}
        BY <4>1, <4>2
      <4>3. CASE t # {}
        <5> DEFINE u == t \ {AnyOf(t)}
        <5>1. u \in Small(m - 1) /\ u \in Small(m)
          BY <1>1, <1>2, <4>3
        <5>2. f[u] = Up(g, u) /\ g[u] = Up(g, u)
          BY <3>2, <5>1
        <5> QED BY <4>1, <4>3, <5>2
      <4> QED BY <4>2, <4>3
    <3>4. f = [t \in Small(m) |-> Up(f, t)]
      <4> HIDE DEF Small, Up
      <4>1. f = [t \in Small(m) |-> f[t]]
        OBVIOUS
      <4> QED BY <3>3, <4>1
    <3> QED BY <2>2, <3>4
  <2> QED BY <2>3, <2>4
<1>4. PICK f : Steps(f, Cardinality(S))
  BY <1>1, <1>3
<1>5. Small(Cardinality(S)) = SUBSET S
  BY <1>1
<1>6. f = [t \in SUBSET S |-> Up(f, t)]
  <2> HIDE DEF Small, Up
  <2> QED BY <1>4, <1>5
<1>7. Iter(start, S) = [t \in SUBSET S |-> Up(Iter(start, S), t)]
  BY <1>6 DEF Iter
<1> QED BY <1>7

\* Which set the fold started from does not matter for the sets below.
LEMMA IterAgrees ==
  ASSUME NEW start, NEW n \in Nat
  PROVE  \A S : IsFiniteSet(S) =>
           \A s \in SUBSET S : Cardinality(s) <= n => Iter(start, S)[s] = Iter(start, s)[s]
<1> DEFINE P(k) == \A S : IsFiniteSet(S) =>
             \A s \in SUBSET S : Cardinality(s) <= k => Iter(start, S)[s] = Iter(start, s)[s]
           Bad == {k \in Nat : ~P(k)}
<1>1. SUFFICES ASSUME Bad # {} PROVE FALSE
  OBVIOUS
<1>2. PICK m \in Nat : m \in Bad /\ \A y \in Bad : m <= y
  <2>1. Bad \subseteq Nat
    OBVIOUS
  <2> HIDE DEF Bad
  <2> QED BY <1>1, <2>1, MinOfNat
<1>3. PICK S : IsFiniteSet(S) /\ \E s \in SUBSET S :
        Cardinality(s) <= m /\ Iter(start, S)[s] # Iter(start, s)[s]
  BY <1>2
<1>4. PICK s \in SUBSET S : Cardinality(s) <= m /\ Iter(start, S)[s] # Iter(start, s)[s]
  BY <1>3
<1>5. IsFiniteSet(s) /\ s \in SUBSET s
  BY <1>3, <1>4, FS_Subset
<1>6. CASE s = {}
  BY <1>3, <1>4, <1>5, <1>6, IterIs
<1>7. CASE s # {}
  <2> DEFINE u == s \ {AnyOf(s)}
  <2>1. AnyOf(s) \in s
    BY <1>7 DEF AnyOf
  <2>2. IsFiniteSet(u) /\ Cardinality(u) = Cardinality(s) - 1 /\ Cardinality(s) > 0
        /\ Cardinality(s) \in Nat
    BY <1>5, <2>1, TakenOut
  <2>3. m - 1 \in Nat /\ m - 1 \notin Bad /\ Cardinality(u) <= m - 1
    BY <1>2, <1>4, <2>2
  <2>4. P(m - 1)
    BY <2>3
  <2>5. u \in SUBSET S /\ u \in SUBSET s
    BY <1>4
  <2>6. Iter(start, S)[u] = Iter(start, u)[u] /\ Iter(start, s)[u] = Iter(start, u)[u]
    <3> HIDE DEF u
    <3> QED BY <1>3, <1>5, <2>3, <2>4, <2>5
  <2>7. Iter(start, S)[s] = TwoTo(AnyOf(s) - start - 1) + Iter(start, S)[u]
    <3>1. IsFiniteSet(S) /\ s \in SUBSET S
      BY <1>3, <1>4
    <3> QED BY <1>7, <3>1, IterIs
  <2>8. Iter(start, s)[s] = TwoTo(AnyOf(s) - start - 1) + Iter(start, s)[u]
    BY <1>5, <1>7, IterIs
  <2> QED BY <1>4, <2>6, <2>7, <2>8
<1> QED BY <1>6, <1>7

LEMMA BitsIs ==
  ASSUME NEW start, NEW S, IsFiniteSet(S)
  PROVE  /\ S = {} => Bits(start, S) = 0
         /\ S # {} => /\ AnyOf(S) \in S
                      /\ Bits(start, S) = TwoTo(AnyOf(S) - start - 1) + Bits(start, S \ {AnyOf(S)})
<1>1. CASE S = {}
  BY <1>1, BitsIsIter, IterIs
<1>2. CASE S # {}
  <2> DEFINE u == S \ {AnyOf(S)}
  <2>1. AnyOf(S) \in S
    BY <1>2 DEF AnyOf
  <2>2. IsFiniteSet(u) /\ Cardinality(u) \in Nat
    BY FS_Subset, FS_CardinalityType
  <2>3. Iter(start, S)[S] = TwoTo(AnyOf(S) - start - 1) + Iter(start, S)[u]
    BY <1>2, IterIs
  <2>4. Iter(start, S)[u] = Iter(start, u)[u]
    <3>1. u \in SUBSET S /\ Cardinality(u) <= Cardinality(u)
      BY <2>2
    <3> HIDE DEF u
    <3> QED BY <2>2, <3>1, IterAgrees
  <2> HIDE DEF u
  <2>5. Bits(start, S) = TwoTo(AnyOf(S) - start - 1) + Bits(start, u)
    BY <2>3, <2>4, BitsIsIter
  <2> QED BY <1>2, <2>1, <2>5 DEF u
<1> QED BY <1>1, <1>2

LEMMA TwoToThe ==
  /\ TwoTo(0) = 1 /\ TwoTo(16) = 65536
  /\ \A k \in 0..15 : TwoTo(k) \in Nat /\ TwoTo(k + 1) = 2 * TwoTo(k)
<1>1. /\ TwoTo(0) = 1 /\ TwoTo(1) = 2 /\ TwoTo(2) = 4 /\ TwoTo(3) = 8 /\ TwoTo(4) = 16
      /\ TwoTo(5) = 32 /\ TwoTo(6) = 64 /\ TwoTo(7) = 128 /\ TwoTo(8) = 256
      /\ TwoTo(9) = 512 /\ TwoTo(10) = 1024 /\ TwoTo(11) = 2048 /\ TwoTo(12) = 4096
      /\ TwoTo(13) = 8192 /\ TwoTo(14) = 16384 /\ TwoTo(15) = 32768 /\ TwoTo(16) = 65536
  BY DEF TwoTo
<1>2. \A k \in 0..15 : \/ k = 0 \/ k = 1 \/ k = 2 \/ k = 3 \/ k = 4 \/ k = 5 \/ k = 6
                       \/ k = 7 \/ k = 8 \/ k = 9 \/ k = 10 \/ k = 11 \/ k = 12 \/ k = 13
                       \/ k = 14 \/ k = 15
  OBVIOUS
<1> QED BY <1>1, <1>2

\* The words at distance 1 to k behind start, and the sets of them.
Window(start, k) == (start + 1)..(start + k)

LEMMA WindowFinite ==
  ASSUME NEW start \in Nat, NEW k \in Nat, NEW S \in SUBSET Window(start, k)
  PROVE  IsFiniteSet(S) /\ Cardinality(S) \in Nat
<1>1. IsFiniteSet(Window(start, k))
  BY FS_Interval DEF Window
<1> QED BY <1>1, FS_Subset, FS_CardinalityType

\* AnyOf word may be taken out first.
LEMMA BitsWithout ==
  ASSUME NEW start \in Nat, NEW n \in Nat
  PROVE  \A S \in SUBSET Window(start, 16) : Cardinality(S) <= n =>
           /\ Bits(start, S) \in Nat
           /\ \A x \in S : Bits(start, S) = TwoTo(x - start - 1) + Bits(start, S \ {x})
<1> DEFINE Sums(S) == /\ Bits(start, S) \in Nat
                       /\ \A x \in S : Bits(start, S) = TwoTo(x - start - 1) + Bits(start, S \ {x})
           P(k) == \A S \in SUBSET Window(start, 16) : Cardinality(S) <= k => Sums(S)
           Bad == {k \in Nat : ~P(k)}
<1>1. SUFFICES ASSUME Bad # {} PROVE FALSE
  OBVIOUS
<1>2. PICK m \in Nat : m \in Bad /\ \A y \in Bad : m <= y
  <2>1. Bad \subseteq Nat
    OBVIOUS
  <2> HIDE DEF Bad
  <2> QED BY <1>1, <2>1, MinOfNat
<1>3. PICK S \in SUBSET Window(start, 16) : Cardinality(S) <= m /\ ~Sums(S)
  BY <1>2
<1>4. \A T \in SUBSET Window(start, 16) : IsFiniteSet(T) /\ Cardinality(T) \in Nat
  BY WindowFinite
<1>5. \A x \in Window(start, 16) : x - start - 1 \in 0..15 /\ TwoTo(x - start - 1) \in Nat
  <2>1. \A x \in Window(start, 16) : x - start - 1 \in 0..15
    BY DEF Window
  <2> QED BY <2>1, TwoToThe
<1>6. S # {}
  <2>1. S = {} => Bits(start, S) = 0
    BY <1>4, BitsIs
  <2> QED BY <1>3, <2>1
<1>7. ASSUME NEW T \in SUBSET Window(start, 16), Cardinality(T) < Cardinality(S)
      PROVE  Sums(T)
  <2>1. m - 1 \in Nat /\ ~(m <= m - 1) /\ Cardinality(T) <= m - 1
    BY <1>3, <1>4, <1>7
  <2>2. m - 1 \notin Bad
    <3> HIDE DEF Bad
    <3> QED BY <1>2, <2>1
  <2> QED BY <2>1, <2>2
<1> DEFINE c == AnyOf(S)
<1>8. c \in S /\ Bits(start, S) = TwoTo(c - start - 1) + Bits(start, S \ {c})
  BY <1>4, <1>6, BitsIs
<1>9. \A x \in S : /\ S \ {x} \in SUBSET Window(start, 16)
                   /\ Cardinality(S \ {x}) < Cardinality(S)
  BY <1>4, TakenOut
<1> HIDE DEF c
<1>10. \A x \in S : Sums(S \ {x})
  <2> HIDE DEF Sums
  <2> QED BY <1>7, <1>9
<1>11. Bits(start, S) \in Nat
  BY <1>5, <1>8, <1>10
<1>12. ASSUME NEW x \in S PROVE Bits(start, S) = TwoTo(x - start - 1) + Bits(start, S \ {x})
  <2>1. CASE x = c
    BY <1>8, <2>1
  <2>2. CASE x # c
    <3> DEFINE u == (S \ {c}) \ {x}
    <3>1. u = (S \ {x}) \ {c} /\ x \in S \ {c} /\ c \in S \ {x}
      BY <1>8, <2>2
    <3>2. Bits(start, S \ {c}) = TwoTo(x - start - 1) + Bits(start, u)
      BY <1>8, <1>10, <3>1
    <3>3. Bits(start, S \ {x}) = TwoTo(c - start - 1) + Bits(start, u)
      BY <1>10, <3>1
    <3>4. u \in SUBSET Window(start, 16) /\ Cardinality(u) < Cardinality(S)
      <4>1. IsFiniteSet(S \ {c}) /\ u \in SUBSET Window(start, 16)
        BY <1>4, <1>8, <1>9
      <4>2. Cardinality(u) = Cardinality(S \ {c}) - 1 /\ Cardinality(S \ {c}) \in Nat
        BY <3>1, <4>1, TakenOut
      <4> QED BY <1>4, <1>8, <1>9, <4>1, <4>2
    <3>5. Bits(start, u) \in Nat
      <4> HIDE DEF u
      <4> QED BY <1>7, <3>4
    <3>6. TwoTo(x - start - 1) \in Nat /\ TwoTo(c - start - 1) \in Nat
      BY <1>5, <1>8
    <3> HIDE DEF u
    <3> QED BY <1>8, <3>2, <3>3, <3>5, <3>6
  <2> QED BY <2>1, <2>2
<1> QED BY <1>3, <1>11, <1>12

LEMMA BitsSum ==
  ASSUME NEW start \in Nat, NEW S \in SUBSET Window(start, 16)
  PROVE  /\ Bits(start, S) \in Nat
         /\ \A x \in S : Bits(start, S) = TwoTo(x - start - 1) + Bits(start, S \ {x})
BY WindowFinite, BitsWithout

\* Patterns of words in a window of k are below 2^k and differ.
LEMMA BitsDiffer ==
  ASSUME NEW start \in Nat, NEW k \in 0..16
  PROVE  /\ \A S \in SUBSET Window(start, k) : Bits(start, S) < TwoTo(k)
         /\ \A S, T \in SUBSET Window(start, k) : Bits(start, S) = Bits(start, T) => S = T
<1> DEFINE P(n) == /\ \A S \in SUBSET Window(start, n) : Bits(start, S) < TwoTo(n)
                   /\ \A S, T \in SUBSET Window(start, n) :
                        Bits(start, S) = Bits(start, T) => S = T
           Bad == {n \in 0..16 : ~P(n)}
<1>1. SUFFICES ASSUME Bad # {} PROVE FALSE
  OBVIOUS
<1>2. PICK m \in 0..16 : m \in Bad /\ \A y \in Bad : m <= y
  <2>1. Bad \subseteq Nat /\ Bad \subseteq 0..16
    OBVIOUS
  <2> HIDE DEF Bad
  <2> QED BY <1>1, <2>1, MinOfNat
<1>3. \A n \in 0..16 : Window(start, n) \subseteq Window(start, 16)
  BY DEF Window
<1>4. CASE m = 0
  <2>1. \A S \in SUBSET Window(start, 0) : S = {}
    BY DEF Window
  <2>2. Bits(start, {}) = 0 /\ TwoTo(0) = 1
    <3>1. IsFiniteSet({})
      BY FS_EmptySet
    <3>2. Bits(start, {}) = 0
      BY <3>1, BitsIs
    <3> QED BY <3>2, TwoToThe
  <2>3. P(0)
    BY <2>1, <2>2
  <2> QED BY <1>2, <1>4, <2>3
<1>5. CASE m # 0
  <2> DEFINE n == m - 1
             x == start + m
  <2>1. n \in 0..15 /\ n \in 0..16 /\ ~(m <= n) /\ m = n + 1 /\ x - start - 1 = n
    BY <1>5
  <2>2. P(n)
    <3>1. n \notin Bad
      <4> HIDE DEF Bad
      <4> QED BY <1>2, <2>1
    <3> QED BY <2>1, <3>1
  <2>3. TwoTo(n) \in Nat /\ TwoTo(m) = 2 * TwoTo(n)
    BY <2>1, TwoToThe
  <2>4. ASSUME NEW S \in SUBSET Window(start, m)
        PROVE  /\ S \ {x} \in SUBSET Window(start, n)
               /\ Bits(start, S \ {x}) \in Nat /\ Bits(start, S \ {x}) < TwoTo(n)
               /\ Bits(start, S) = IF x \in S THEN TwoTo(n) + Bits(start, S \ {x})
                                             ELSE Bits(start, S \ {x})
    <3>1. S \ {x} \in SUBSET Window(start, n)
      BY <2>1 DEF Window
    <3>2. S \in SUBSET Window(start, 16) /\ S \ {x} \in SUBSET Window(start, 16)
      BY <1>3
    <3>3. Bits(start, S \ {x}) \in Nat
      BY <3>2, BitsSum
    <3>4. x \in S => Bits(start, S) = TwoTo(n) + Bits(start, S \ {x})
      BY <2>1, <3>2, BitsSum
    <3>5. x \notin S => S \ {x} = S
      OBVIOUS
    <3> QED BY <2>2, <3>1, <3>3, <3>4, <3>5
  <2> HIDE DEF n, x
  <2>5. ASSUME NEW S \in SUBSET Window(start, m) PROVE Bits(start, S) < TwoTo(m)
    <3>1. PICK a \in Nat : /\ a < TwoTo(n)
                           /\ Bits(start, S) = IF x \in S THEN TwoTo(n) + a ELSE a
      BY <2>4
    <3>2. CASE x \in S
      BY <2>3, <3>1, <3>2
    <3>3. CASE x \notin S
      BY <2>3, <3>1, <3>3
    <3> QED BY <3>2, <3>3
  <2>6. ASSUME NEW S \in SUBSET Window(start, m), NEW T \in SUBSET Window(start, m),
               Bits(start, S) = Bits(start, T)
        PROVE  S = T
    <3>1. PICK a \in Nat, b \in Nat, w \in Nat :
             /\ a = Bits(start, S \ {x}) /\ b = Bits(start, T \ {x}) /\ w = TwoTo(n)
             /\ a < w /\ b < w
             /\ x \in S => Bits(start, S) = w + a
             /\ x \notin S => Bits(start, S) = a
             /\ x \in T => Bits(start, T) = w + b
             /\ x \notin T => Bits(start, T) = b
      BY <2>3, <2>4
    <3>2. (x \in S <=> x \in T) /\ a = b
      <4>1. CASE x \in S /\ x \in T
        <5>1. w + a = w + b
          BY <2>6, <3>1, <4>1
        <5> QED BY <3>1, <4>1, <5>1
      <4>2. CASE x \in S /\ x \notin T
        <5>1. w + a = b
          BY <2>6, <3>1, <4>2
        <5> QED BY <3>1, <4>2, <5>1
      <4>3. CASE x \notin S /\ x \in T
        <5>1. a = w + b
          BY <2>6, <3>1, <4>3
        <5> QED BY <3>1, <4>3, <5>1
      <4>4. CASE x \notin S /\ x \notin T
        <5>1. a = b
          BY <2>6, <3>1, <4>4
        <5> QED BY <3>1, <4>4, <5>1
      <4> QED BY <4>1, <4>2, <4>3, <4>4
    <3>3. S \ {x} = T \ {x}
      <4>1. S \ {x} \in SUBSET Window(start, n) /\ T \ {x} \in SUBSET Window(start, n)
        BY <2>4
      <4>2. Bits(start, S \ {x}) = Bits(start, T \ {x})
        BY <3>1, <3>2
      <4> QED BY <2>2, <4>1, <4>2
    <3> QED BY <3>2, <3>3
  <2> QED BY <1>2, <2>5, <2>6
<1> QED BY <1>4, <1>5

LEMMA BitsInRange ==
  ASSUME NEW start \in Nat, NEW S \in SUBSET Window(start, 16)
  PROVE  Bits(start, S) \in Nat /\ Bits(start, S) < 65536
BY BitsSum, BitsDiffer, TwoToThe

LEMMA IdIs ==
  ASSUME NEW c
  PROVE  GetID(c) = Bits(GetFirstGapPos(c), {p \in c : p > GetFirstGapPos(c)})
                      + 65536 * GetFirstGapPos(c)
<1>1. GetID(c) = Bits(GetFirstGapPos(c), {p \in c : p > GetFirstGapPos(c)})
                   + TwoTo(16) * GetFirstGapPos(c)
  BY DEF GetID, Encode, Bits, TwoTo
<1>2. TwoTo(16) = 65536
  BY TwoToThe
<1> QED BY <1>1, <1>2

\* The ids of coverages with a first gap and a window behind it that the id has room for.
LEMMA IdsDiffer ==
  ASSUME NEW c, c \subseteq Positions, NEW d, d \subseteq Positions,
         \A p \in c : p - GetFirstGapPos(c) <= 16, \A p \in d : p - GetFirstGapPos(d) <= 16,
         GetID(c) = GetID(d)
  PROVE  c = d
<1>1. \A p \in Positions : p \in Nat /\ p < SourceSize
  BY SizeAssumption DEF Positions
<1>2. PICK g \in Nat, h \in Nat : g = GetFirstGapPos(c) /\ h = GetFirstGapPos(d)
  BY FirstGapOf, SizeAssumption
<1> DEFINE C == {p \in c : p > g}
           D == {p \in d : p > h}
<1>3. C \in SUBSET Window(g, 16) /\ D \in SUBSET Window(h, 16)
  BY <1>1, <1>2 DEF Window
<1> HIDE DEF C, D
<1>4. PICK a \in Nat, b \in Nat : /\ a = Bits(g, C) /\ b = Bits(h, D)
                                  /\ a < 65536 /\ b < 65536
  BY <1>3, BitsInRange
<1>5. GetID(c) = a + 65536 * g
  <2>1. GetID(c) = Bits(g, C) + 65536 * g
    BY <1>2, IdIs DEF C
  <2> QED BY <1>4, <2>1
<1>6. GetID(d) = b + 65536 * h
  <2>1. GetID(d) = Bits(h, D) + 65536 * h
    BY <1>2, IdIs DEF D
  <2> QED BY <1>4, <2>1
<1>7. a + 65536 * g = b + 65536 * h
  <2>1. GetID(c) \in Int
    BY <1>5
  <2>2. PICK x \in Int : x = GetID(c) /\ x = GetID(d)
    BY <2>1
  <2>3. x = a + 65536 * g
    BY <1>5, <2>2
  <2>4. x = b + 65536 * h
    BY <1>6, <2>2
  <2> QED BY <2>3, <2>4
<1>8. g = h /\ Bits(g, C) = Bits(h, D)
  <2>1. g = h
    BY <1>4, <1>7
  <2> QED BY <1>4, <1>7, <2>1
<1>9. C = D
  BY <1>3, <1>8, BitsDiffer
<1>10. ASSUME NEW p \in Positions PROVE p \in c <=> p \in d
  <2>1. /\ p < g => p \in c /\ p \in d
        /\ g \notin c /\ g \notin d
    BY <1>2, <1>8, FirstGapOf
  <2>2. p > g => (p \in c <=> p \in d)
    BY <1>8, <1>9 DEF C, D
  <2>3. p < g \/ p = g \/ p > g
    BY <1>1, <1>2
  <2> QED BY <2>1, <2>2, <2>3
<1> QED BY <1>10

\* As long as the distortion limit is one the code allows a stack diversity with (at most
\* 15; -1, which it lets pass too, is no limit), hypotheses of one stack have one id only if
\* they cover the same words, in sentences of any length.
THEOREM IdsIdentify ==
  ASSUME MaxDistortion \in 0..15
  PROVE  Spec => []IdIdentifiesCoverage
<1>1. ASSUME IInv PROVE IdIdentifiesCoverage
  <2> SUFFICES ASSUME NEW k \in Stacks
               PROVE  LET coverages == {h.covered : h \in stacks[k]}
                      IN  Cardinality({GetID(c) : c \in coverages}) = Cardinality(coverages)
    BY DEF IdIdentifiesCoverage
  <2> DEFINE coverages == {h.covered : h \in stacks[k]}
             Ids == {GetID(c) : c \in coverages}
  <2>1. ASSUME NEW c \in coverages
        PROVE  c \subseteq Positions /\ \A p \in c : p - GetFirstGapPos(c) <= 16
    <3>1. PICK h \in stacks[k] : c = h.covered
      OBVIOUS
    <3>2. h \in Hypos /\ WindowSmall(h)
      BY <1>1 DEF IInv, AllSound, Sound
    <3>3. c \subseteq Positions
      BY <3>1, <3>2 DEF Hypos
    <3>4. GetFirstGapPos(c) \in Nat /\ \A p \in c : p \in Nat
      <4>1. GetFirstGapPos(c) \in 0..SourceSize
        BY <3>3, FirstGapOf
      <4> QED BY <3>3, <4>1, SizeAssumption DEF Positions
    <3>5. \A p \in c : p > GetFirstGapPos(c) => p < GetFirstGapPos(c) + MaxDistortion
      BY <3>1, <3>2 DEF WindowSmall
    <3> QED BY <3>3, <3>4, <3>5
  <2>2. IsFiniteSet(coverages)
    <3>1. IsFiniteSet(Positions)
      BY SizeAssumption, FS_Interval DEF Positions
    <3>2. IsFiniteSet(SUBSET Positions) /\ coverages \subseteq SUBSET Positions
      BY <2>1, <3>1, FS_SUBSET
    <3> HIDE DEF coverages
    <3> QED BY <3>2, FS_Subset
  <2> HIDE DEF coverages
  <2>3. ASSUME NEW c \in coverages, NEW d \in coverages, GetID(c) = GetID(d)
        PROVE  c = d
    BY <2>1, <2>3, IdsDiffer
  <2> DEFINE f == [c \in coverages |-> GetID(c)]
  <2>4. f \in Bijection(coverages, Ids)
    <3>1. f \in [coverages -> Ids] /\ \A i \in Ids : \E c \in coverages : f[c] = i
      OBVIOUS
    <3>2. \A c, d \in coverages : f[c] = f[d] => c = d
      BY <2>3
    <3> HIDE DEF f, Ids
    <3> QED BY <3>1, <3>2, Zenon DEF Bijection, Injection, Surjection, IsInjective
  <2>5. Cardinality(Ids) = Cardinality(coverages)
    <3>1. ExistsBijection(coverages, Ids)
      BY <2>4 DEF ExistsBijection
    <3> HIDE DEF Ids
    <3> QED BY <2>2, <3>1, FS_Bijection
  <2> QED BY <2>5 DEF coverages
<1> QED BY <1>1, Invariance, PTL

-----------------------------------------------------------------------------
(* Cube pruning.  First the data: folds over sets, lists of sets and orders. *)

\* f is the fold over the subsets of S by step, from base.
FoldsBy(f, S, base, step) ==
  \A s \in SUBSET S :
    f[s] = IF s = {} THEN base ELSE step[<<AnyOf(s), f[s \ {AnyOf(s)}]>>]

\* A fold over a finite set by a step from S \X V to V is well defined.
LEMMA FoldExists ==
  ASSUME NEW S, IsFiniteSet(S), NEW V, NEW base \in V, NEW step \in [S \X V -> V]
  PROVE  \E f \in [SUBSET S -> V] : FoldsBy(f, S, base, step)
<1> DEFINE Up(f, t) == IF t = {} THEN base ELSE step[<<AnyOf(t), f[t \ {AnyOf(t)}]>>]
           Small(k) == {t \in SUBSET S : Cardinality(t) <= k}
           Steps(f, k) == f \in [Small(k) -> V] /\ f = [t \in Small(k) |-> Up(f, t)]
           Bad == {k \in Nat : ~\E f : Steps(f, k)}
<1>1. \A t \in SUBSET S : IsFiniteSet(t) /\ Cardinality(t) \in Nat /\ Cardinality(t) <= Cardinality(S)
  BY FS_Subset, FS_CardinalityType
<1>2. \A t \in SUBSET S : t # {} =>
        /\ AnyOf(t) \in t /\ t \ {AnyOf(t)} \in SUBSET S
        /\ Cardinality(t \ {AnyOf(t)}) = Cardinality(t) - 1 /\ Cardinality(t) > 0
  <2>1. ASSUME NEW t \in SUBSET S, t # {} PROVE AnyOf(t) \in t
    BY <2>1 DEF AnyOf
  <2> QED BY <1>1, <2>1, TakenOut
<1>3. Bad = {}
  <2>1. SUFFICES ASSUME Bad # {} PROVE FALSE
    OBVIOUS
  <2>2. PICK m \in Nat : m \in Bad /\ \A y \in Bad : m <= y
    <3>1. Bad \subseteq Nat
      OBVIOUS
    <3> HIDE DEF Bad
    <3> QED BY <2>1, <3>1, MinOfNat
  <2>3. CASE m = 0
    <3> DEFINE f == [t \in Small(0) |-> base]
    <3>1. ASSUME NEW t \in Small(0) PROVE t = {}
      <4>1. t \in SUBSET S /\ Cardinality(t) <= 0 /\ Cardinality(t) \in Nat
        BY <1>1
      <4>2. t = {} \/ Cardinality(t) > 0
        BY <1>2, <4>1
      <4> QED BY <4>1, <4>2
    <3>2. f = [t \in Small(0) |-> Up(f, t)] /\ f \in [Small(0) -> V]
      <4> HIDE DEF Small
      <4> QED BY <3>1
    <3> QED BY <2>2, <2>3, <3>2
  <2>4. CASE m # 0
    <3>1. m - 1 \in Nat /\ m - 1 \notin Bad
      <4>1. m - 1 \in Nat /\ ~(m <= m - 1)
        BY <2>4
      <4> HIDE DEF Bad
      <4> QED BY <2>2, <4>1
    <3>2. PICK g : Steps(g, m - 1)
      BY <3>1
    <3> DEFINE f == [t \in Small(m) |-> Up(g, t)]
    <3>3. ASSUME NEW t \in Small(m) PROVE f[t] = Up(f, t) /\ f[t] \in V
      <4>1. f[t] = Up(g, t)
        OBVIOUS
      <4>2. CASE t = {}
        BY <4>1, <4>2
      <4>3. CASE t # {}
        <5> DEFINE u == t \ {AnyOf(t)}
        <5>1. u \in Small(m - 1) /\ u \in Small(m) /\ AnyOf(t) \in S
          BY <1>1, <1>2, <4>3
        <5>2. f[u] = Up(g, u) /\ g[u] = Up(g, u) /\ g[u] \in V
          BY <3>2, <5>1
        <5>3. step[<<AnyOf(t), g[u]>>] \in V
          BY <5>1, <5>2
        <5> QED BY <4>1, <4>3, <5>2, <5>3
      <4> QED BY <4>2, <4>3
    <3>4. f = [t \in Small(m) |-> Up(f, t)] /\ f \in [Small(m) -> V]
      <4> HIDE DEF Small, Up
      <4>1. f = [t \in Small(m) |-> f[t]]
        OBVIOUS
      <4> QED BY <3>3, <4>1
    <3> QED BY <2>2, <3>4
  <2> QED BY <2>3, <2>4
<1>4. PICK f : Steps(f, Cardinality(S))
  BY <1>1, <1>3
<1>5. Small(Cardinality(S)) = SUBSET S
  BY <1>1
<1>6. f \in [SUBSET S -> V] /\ \A t \in SUBSET S : f[t] = Up(f, t)
  <2> HIDE DEF Small, Up
  <2> QED BY <1>4, <1>5
<1> QED BY <1>6 DEF FoldsBy

\* Induction over the subsets of a finite set, each one reached by adding an element.
LEMMA SubsetInduction ==
  ASSUME NEW S, IsFiniteSet(S), NEW P, {} \in P,
         \A s \in SUBSET S : s # {} /\ s \ {AnyOf(s)} \in P => s \in P
  PROVE  SUBSET S \subseteq P
<1> DEFINE Bad == {k \in Nat : \E s \in SUBSET S : s \notin P /\ Cardinality(s) = k}
<1>1. \A s \in SUBSET S : IsFiniteSet(s) /\ Cardinality(s) \in Nat
  BY FS_Subset, FS_CardinalityType
<1>2. SUFFICES ASSUME Bad # {} PROVE FALSE
  BY <1>1
<1>3. PICK m \in Nat : m \in Bad /\ \A y \in Bad : m <= y
  <2>1. Bad \subseteq Nat
    OBVIOUS
  <2> HIDE DEF Bad
  <2> QED BY <1>2, <2>1, MinOfNat
<1>4. PICK s \in SUBSET S : s \notin P /\ Cardinality(s) = m
  BY <1>3
<1> DEFINE u == s \ {AnyOf(s)}
<1>5. s # {} /\ AnyOf(s) \in s
  BY <1>4 DEF AnyOf
<1>6. Cardinality(u) = m - 1 /\ u \in SUBSET S /\ m > 0
  BY <1>1, <1>4, <1>5, TakenOut
<1>7. u \notin P
  BY <1>4, <1>5
<1>8. m - 1 \in Bad
  <2> HIDE DEF u
  <2> QED BY <1>3, <1>6, <1>7
<1> QED BY <1>3, <1>6, <1>8

\* The function Listing is defined by.
Lists(S) ==
  CHOOSE f : f = [s \in SUBSET S |->
    IF s = {} THEN <<>> ELSE Append(f[s \ {AnyOf(s)}], AnyOf(s))]

LEMMA ListingIsLists == ASSUME NEW S PROVE Listing(S) = Lists(S)[S]
BY DEF Listing, FoldSet, MapThenFoldSet, Lists, AnyOf

LEMMA ListsIs ==
  ASSUME NEW S, IsFiniteSet(S)
  PROVE  \A s \in SUBSET S : Lists(S)[s] =
              IF s = {} THEN <<>> ELSE Append(Lists(S)[s \ {AnyOf(s)}], AnyOf(s))
<1> DEFINE step == [xs \in S \X Seq(S) |-> Append(xs[2], xs[1])]
<1>1. step \in [S \X Seq(S) -> Seq(S)]
  OBVIOUS
<1>2. PICK f \in [SUBSET S -> Seq(S)] :
        \A s \in SUBSET S : f[s] = IF s = {} THEN <<>> ELSE step[<<AnyOf(s), f[s \ {AnyOf(s)}]>>]
  <2> DEFINE V == Seq(S)
             base == <<>>
  <2>1. base \in V /\ step \in [S \X V -> V]
    BY <1>1
  <2>2. \E f \in [SUBSET S -> V] : FoldsBy(f, S, base, step)
    <3> HIDE DEF step, V, base
    <3> QED BY <2>1, FoldExists
  <2> QED BY <2>2 DEF FoldsBy
<1>3. ASSUME NEW s \in SUBSET S, s # {}
      PROVE  step[<<AnyOf(s), f[s \ {AnyOf(s)}]>>] = Append(f[s \ {AnyOf(s)}], AnyOf(s))
  <2>1. AnyOf(s) \in S /\ f[s \ {AnyOf(s)}] \in Seq(S)
    BY <1>3 DEF AnyOf
  <2> QED BY <2>1
<1>4. f = [s \in SUBSET S |-> IF s = {} THEN <<>> ELSE Append(f[s \ {AnyOf(s)}], AnyOf(s))]
  <2> HIDE DEF step
  <2> QED BY <1>2, <1>3
<1>5. Lists(S) = [s \in SUBSET S |->
                    IF s = {} THEN <<>> ELSE Append(Lists(S)[s \ {AnyOf(s)}], AnyOf(s))]
  BY <1>4 DEF Lists
<1> QED BY <1>5

\* A listing of a finite set is a sequence of its members, all of them.
LEMMA ListingIs ==
  ASSUME NEW S, IsFiniteSet(S)
  PROVE  Listing(S) \in Seq(S) /\ \A x \in S : \E i \in DOMAIN Listing(S) : Listing(S)[i] = x
<1> DEFINE l == Lists(S)
           P == {s \in SUBSET S : l[s] \in Seq(S) /\ \A x \in s : \E i \in DOMAIN l[s] : l[s][i] = x}
<1>1. \A s \in SUBSET S : l[s] = IF s = {} THEN <<>> ELSE Append(l[s \ {AnyOf(s)}], AnyOf(s))
  BY ListsIs
<1> HIDE DEF l
<1>2. {} \in P
  <2>1. l[{}] = <<>>
    BY <1>1
  <2>2. l[{}] \in Seq(S)
    BY <2>1
  <2> QED BY <2>2
<1>3. ASSUME NEW s \in SUBSET S, s # {}, s \ {AnyOf(s)} \in P PROVE s \in P
  <2> DEFINE q == l[s \ {AnyOf(s)}]
  <2>1. l[s] = Append(q, AnyOf(s)) /\ AnyOf(s) \in S /\ q \in Seq(S)
    BY <1>1, <1>3 DEF AnyOf
  <2>2. \A x \in s \ {AnyOf(s)} : \E i \in DOMAIN q : q[i] = x
    BY <1>3
  <2> HIDE DEF q
  <2>3. l[s] \in Seq(S) /\ Len(q) + 1 \in DOMAIN l[s] /\ l[s][Len(q) + 1] = AnyOf(s)
        /\ \A i \in DOMAIN q : i \in DOMAIN l[s] /\ l[s][i] = q[i]
    BY <2>1
  <2> QED BY <2>2, <2>3
<1>4. S \in P
  <2> HIDE DEF P
  <2> QED BY <1>2, <1>3, SubsetInduction
<1> QED BY <1>4, ListingIsLists DEF l

\* Those of S that come before h in the order of F.
Before(S, F, h) == {g \in S : F[g] > F[h] \/ (F[g] = F[h] /\ g < h)}

\* Ordered by a score, ties by age, the members of a finite set have all the ranks.
LEMMA AllRanks ==
  ASSUME NEW S, IsFiniteSet(S), S \subseteq Int, NEW F \in [S -> Int]
  PROVE  \A i \in 1..Cardinality(S) : \E h \in S : Cardinality(Before(S, F, h)) = i - 1
<1> DEFINE n == Cardinality(S)
           before(h) == {g \in S : F[g] > F[h] \/ (F[g] = F[h] /\ g < h)}
           rank == [h \in S |-> Cardinality(before(h))]
<1>1. n \in Nat
  BY FS_CardinalityType
<1>2. ASSUME NEW h \in S
      PROVE  /\ IsFiniteSet(before(h)) /\ Cardinality(before(h)) \in Nat
             /\ Cardinality(before(h)) <= n - 1
  <2>1. h \in Int /\ F[h] \in Int
    OBVIOUS
  <2>2. h \notin before(h)
    BY <2>1
  <2>3. before(h) \in SUBSET (S \ {h})
    BY <2>2
  <2>4. IsFiniteSet(S \ {h}) /\ Cardinality(S \ {h}) = n - 1
    BY TakenOut
  <2>5. IsFiniteSet(before(h)) /\ Cardinality(before(h)) <= n - 1
    <3> HIDE DEF before, n
    <3> QED BY <2>3, <2>4, FS_Subset
  <2> HIDE DEF before
  <2> QED BY <2>5, FS_CardinalityType
<1>3. ASSUME NEW g \in S, NEW h \in S, g \in before(h)
      PROVE  Cardinality(before(g)) < Cardinality(before(h))
  <2>1. \A x \in S : x \in Int /\ F[x] \in Int
    OBVIOUS
  <2>2. g \notin before(g)
    BY <2>1
  <2>7. ASSUME NEW x \in before(g) PROVE x \in before(h)
    <3>1. x \in S /\ x \in Int /\ g \in Int /\ h \in Int /\ F[x] \in Int /\ F[g] \in Int /\ F[h] \in Int
      BY <2>1
    <3>2. F[x] > F[g] \/ (F[x] = F[g] /\ x < g)
      OBVIOUS
    <3>3. F[g] > F[h] \/ (F[g] = F[h] /\ g < h)
      BY <1>3
    <3>4. F[x] > F[h] \/ (F[x] = F[h] /\ x < h)
      BY <3>1, <3>2, <3>3
    <3> QED BY <3>1, <3>4
  <2>3. before(g) \in SUBSET (before(h) \ {g})
    <3> HIDE DEF before
    <3> QED BY <2>2, <2>7
  <2>4. /\ IsFiniteSet(before(h) \ {g})
        /\ Cardinality(before(h) \ {g}) = Cardinality(before(h)) - 1
    <3> HIDE DEF before
    <3> QED BY <1>2, <1>3, TakenOut
  <2>5. Cardinality(before(g)) <= Cardinality(before(h)) - 1
    <3> HIDE DEF before
    <3> QED BY <2>3, <2>4, FS_Subset
  <2>6. Cardinality(before(g)) \in Nat /\ Cardinality(before(h)) \in Nat
    <3> HIDE DEF before
    <3> QED BY <1>2
  <2> HIDE DEF before
  <2> QED BY <2>5, <2>6
<1>4. rank \in Injection(S, 0..n - 1)
  <2>1. rank \in [S -> 0..n - 1]
    <3> HIDE DEF before, n
    <3> QED BY <1>1, <1>2
  <2>2. ASSUME NEW g \in S, NEW h \in S, rank[g] = rank[h] PROVE g = h
    <3>1. SUFFICES ASSUME g # h PROVE FALSE
      OBVIOUS
    <3>2. g \in Int /\ h \in Int /\ F[g] \in Int /\ F[h] \in Int
      OBVIOUS
    <3>3. g \in before(h) \/ h \in before(g)
      BY <3>1, <3>2
    <3>4. Cardinality(before(g)) = Cardinality(before(h))
      BY <2>2
    <3>5. Cardinality(before(g)) \in Nat
      BY <1>2
    <3> HIDE DEF before
    <3> QED BY <1>3, <3>3, <3>4, <3>5
  <2> HIDE DEF rank
  <2> QED BY <2>1, <2>2 DEF Injection, IsInjective
<1>5. IsFiniteSet(0..n - 1) /\ Cardinality(0..n - 1) = n
  BY <1>1, FS_Interval
<1>6. rank \in Surjection(S, 0..n - 1)
  <2> HIDE DEF rank
  <2> QED BY <1>4, <1>5, FS_Injection
<1>7. ASSUME NEW i \in 1..n PROVE \E h \in S : Cardinality(before(h)) = i - 1
  <2>1. i - 1 \in 0..n - 1
    BY <1>1
  <2>2. PICK h \in S : rank[h] = i - 1
    <3> HIDE DEF rank
    <3> QED BY <1>6, <2>1 DEF Surjection
  <2> QED BY <2>2
<1> QED BY <1>7 DEF Before

LEMMA FunctionIsSeq ==
  ASSUME NEW T, NEW n \in Nat, NEW q \in [1..n -> T]
  PROVE  q \in Seq(T) /\ Len(q) = n
OBVIOUS

\* A set sorted by the total score is a sequence of its members.
LEMMA SortedByTotal ==
  ASSUME NEW S, IsFiniteSet(S), S \subseteq Int, \A h \in S : TotalScore(h) \in Int
  PROVE  /\ SortedBy(S, TotalScore) \in Seq(S) /\ Len(SortedBy(S, TotalScore)) = Cardinality(S)
         /\ IsInjective(SortedBy(S, TotalScore))
<1> DEFINE before(h) == {g \in S : \/ TotalScore(g) > TotalScore(h)
                                   \/ TotalScore(g) = TotalScore(h) /\ g < h}
           F == [h \in S |-> TotalScore(h)]
           sorted == [i \in 1..Cardinality(S) |-> CHOOSE h \in S : Cardinality(before(h)) = i - 1]
<1>1. F \in [S -> Int]
  OBVIOUS
<1>2. ASSUME NEW i \in 1..Cardinality(S) PROVE \E h \in S : Cardinality(before(h)) = i - 1
  <2>1. PICK h \in S : Cardinality(Before(S, F, h)) = i - 1
    <3> HIDE DEF F
    <3> QED BY <1>1, AllRanks
  <2>2. Before(S, F, h) = before(h)
    BY DEF Before
  <2> QED BY <2>1, <2>2
<1>3. Cardinality(S) \in Nat
  BY FS_CardinalityType
<1>4. sorted \in Seq(S) /\ Len(sorted) = Cardinality(S)
  <2> HIDE DEF before
  <2>1. \A i \in 1..Cardinality(S) : (CHOOSE h \in S : Cardinality(before(h)) = i - 1) \in S
    BY <1>2
  <2>2. sorted \in [1..Cardinality(S) -> S]
    BY <2>1
  <2> HIDE DEF sorted
  <2> QED BY <1>3, <2>2
<1>6. IsInjective(sorted)
  <2> HIDE DEF before
  <2>1. \A i \in 1..Cardinality(S) : Cardinality(before(sorted[i])) = i - 1
    BY <1>2
  <2>2. DOMAIN sorted = 1..Cardinality(S)
    OBVIOUS
  <2> HIDE DEF sorted
  <2>3. ASSUME NEW i \in 1..Cardinality(S), NEW j \in 1..Cardinality(S), sorted[i] = sorted[j]
        PROVE  i = j
    <3>1. i - 1 = j - 1
      BY <2>1, <2>3
    <3> QED BY <1>3, <3>1
  <2> QED BY <2>2, <2>3 DEF IsInjective
<1>5. SortedBy(S, TotalScore) = sorted
  BY DEF SortedBy
<1> HIDE DEF sorted
<1> QED BY <1>4, <1>5, <1>6

\* So is one sorted by what the way to the start of an edge costs.
LEMMA SortedByEdge ==
  ASSUME NEW hypos, NEW start, ~(conf.maxDistortion < 0), NEW S,
         S = {h \in ToSet(hypos) : DistortionDistance(heap[h].end, start) <= conf.maxDistortion},
         IsFiniteSet(S), S \subseteq Int,
         \A h \in S : heap[h].score - conf.weightDistortion
                        * DistortionDistance(heap[h].end, start) \in Int
  PROVE  EdgeHypotheses(hypos, start) \in Seq(S)
<1> DEFINE f(h) == heap[h].score - conf.weightDistortion * DistortionDistance(heap[h].end, start)
           before(h) == {g \in S : f(g) > f(h) \/ (f(g) = f(h) /\ g < h)}
           F == [h \in S |-> f(h)]
           sorted == [i \in 1..Cardinality(S) |-> CHOOSE h \in S : Cardinality(before(h)) = i - 1]
<1>1. F \in [S -> Int]
  OBVIOUS
<1>2. ASSUME NEW i \in 1..Cardinality(S) PROVE \E h \in S : Cardinality(before(h)) = i - 1
  <2>1. PICK h \in S : Cardinality(Before(S, F, h)) = i - 1
    <3> HIDE DEF F
    <3> QED BY <1>1, AllRanks
  <2>2. Before(S, F, h) = before(h)
    <3> HIDE DEF f
    <3> QED BY DEF Before
  <2> QED BY <2>1, <2>2
<1>3. Cardinality(S) \in Nat
  BY FS_CardinalityType
<1>4. sorted \in Seq(S)
  <2> HIDE DEF before
  <2>1. \A i \in 1..Cardinality(S) : (CHOOSE h \in S : Cardinality(before(h)) = i - 1) \in S
    BY <1>2
  <2>2. sorted \in [1..Cardinality(S) -> S]
    BY <2>1
  <2> HIDE DEF sorted
  <2> QED BY <1>3, <2>2, FunctionIsSeq
<1>5. EdgeHypotheses(hypos, start) = sorted
  BY DEF EdgeHypotheses, SortedBy
<1> HIDE DEF sorted
<1> QED BY <1>4, <1>5

-----------------------------------------------------------------------------
(* Scores are numbers. *)

\* A finite nonempty set of numbers has a highest one.
LEMMA HighestIs ==
  ASSUME NEW S, IsFiniteSet(S), S \subseteq Int, S # {}
  PROVE  Highest(S) \in S /\ \A y \in S : y <= Highest(S)
<1> DEFINE P == {s \in SUBSET S : s = {} \/ \E x \in s : \A y \in s : y <= x}
<1>1. {} \in P
  OBVIOUS
<1>2. ASSUME NEW s \in SUBSET S, s # {}, s \ {AnyOf(s)} \in P PROVE s \in P
  <2> DEFINE a == AnyOf(s)
             u == s \ {a}
  <2>1. a \in s /\ a \in Int
    BY <1>2 DEF AnyOf
  <2> HIDE DEF a
  <2>2. CASE u = {}
    <3>1. s = {a}
      BY <2>1, <2>2
    <3> QED BY <2>1, <3>1
  <2>3. CASE u # {}
    <3>1. PICK x \in u : \A y \in u : y <= x
      BY <1>2, <2>3 DEF a
    <3>2. x \in Int /\ x \in s
      OBVIOUS
    <3>3. CASE a <= x
      BY <3>1, <3>2, <3>3
    <3>4. CASE ~(a <= x)
      <4>1. \A y \in s : y <= a
        <5>1. ASSUME NEW y \in s, y # a PROVE y <= a
          <6>1. y <= x /\ y \in Int
            BY <3>1, <5>1
          <6> QED BY <2>1, <3>2, <3>4, <6>1
        <5> QED BY <2>1, <5>1
      <4> QED BY <2>1, <4>1
    <3> QED BY <3>3, <3>4
  <2> QED BY <2>2, <2>3
<1>3. S \in P
  <2> HIDE DEF P
  <2> QED BY <1>1, <1>2, SubsetInduction
<1> QED BY <1>3 DEF Highest

\* A nonempty set of natural numbers has a lowest one.
LEMMA LowestIs ==
  ASSUME NEW S, S \subseteq Nat, S # {}
  PROVE  Lowest(S) \in S /\ \A y \in S : Lowest(S) <= y
BY MinOfNat DEF Min, Lowest

\* What a set of settings gives.
Cells == (0..Size - 1) \X (0..Size - 1)

LEMMA SettingsType ==
  ASSUME conf \in Settings
  PROVE  /\ Size \in Nat \ {0}
         /\ DOMAIN conf.options \subseteq Cells
         /\ \A span \in DOMAIN conf.options :
              conf.options[span] \in Seq([word : Word, score : Int]) /\ span[1] <= span[2]
         /\ \A w \in 0..Size - 1 : <<w, w>> \in DOMAIN conf.options /\ conf.options[<<w, w>>] # <<>>
         /\ conf.maxDistortion \in Int /\ conf.weightDistortion \in Nat
         /\ conf.bigrams \in [Word \X Word -> Int]
         /\ conf.nBestSize \in Nat /\ conf.arcFactor \in Nat \ {0}
         /\ conf.maxHypoStackSize \in Nat
<1>1. conf.size \in Nat \ {0}
  BY CubeAssumption
<1>2. DOMAIN conf.options \subseteq {sp \in (0..conf.size - 1) \X (0..conf.size - 1) : sp[1] <= sp[2]}
  BY CubeAssumption
<1>3. \A span \in DOMAIN conf.options : conf.options[span] \in Seq([word : Word, score : Int])
  BY CubeAssumption
<1>4. \A w \in 0..conf.size - 1 : <<w, w>> \in DOMAIN conf.options /\ conf.options[<<w, w>>] # <<>>
  BY CubeAssumption
<1>5. conf.maxDistortion \in Nat \union {-1}
  BY CubeAssumption
<1>6. conf.weightDistortion \in Nat
  BY CubeAssumption
<1>7. conf.bigrams \in [Word \X Word -> Int]
  BY CubeAssumption
<1>8. conf.nBestSize \in Nat /\ conf.arcFactor \in Nat \ {0}
  BY CubeAssumption
<1>9. conf.maxHypoStackSize \in Nat
  BY CubeAssumption
<1>10. conf.maxDistortion \in Int
  BY <1>5
<1>11. DOMAIN conf.options \subseteq Cells /\ \A span \in DOMAIN conf.options : span[1] <= span[2]
  BY <1>2 DEF Cells, Size
<1> QED BY <1>1, <1>3, <1>4, <1>6, <1>7, <1>8, <1>9, <1>10, <1>11 DEF Size

\* The scores of the options of one span.
OptionScores(span) ==
  IF span \in DOMAIN conf.options
  THEN {conf.options[span][y].score : y \in DOMAIN conf.options[span]}
  ELSE {}

LEMMA OptionScoresAre ==
  ASSUME conf \in Settings, NEW span
  PROVE  /\ OptionScores(span) \subseteq Int /\ IsFiniteSet(OptionScores(span))
         /\ span \in DOMAIN conf.options /\ conf.options[span] # <<>> => OptionScores(span) # {}
<1>1. CASE span \notin DOMAIN conf.options
  <2>1. OptionScores(span) = {}
    BY <1>1 DEF OptionScores
  <2> QED BY <1>1, <2>1, FS_EmptySet
<1>2. CASE span \in DOMAIN conf.options
  <2> DEFINE o == conf.options[span]
             s == [y \in 1..Len(o) |-> o[y].score]
  <2>1. o \in Seq([word : Word, score : Int])
    BY <1>2, SettingsType
  <2>2. OptionScores(span) = {s[y] : y \in 1..Len(o)}
    <3> HIDE DEF o
    <3>1. DOMAIN o = 1..Len(o)
      BY <2>1
    <3>2. OptionScores(span) = {o[y].score : y \in 1..Len(o)}
      BY <1>2, <3>1 DEF OptionScores, o
    <3> QED BY <3>2
  <2> HIDE DEF o
  <2>3. Len(o) \in Nat /\ \A y \in 1..Len(o) : o[y].score \in Int
    <3> DEFINE R == [word : Word, score : Int]
    <3>1. \A y \in 1..Len(o) : o[y] \in R
      <4>1. o \in Seq(R)
        BY <2>1
      <4> HIDE DEF R
      <4> QED BY <4>1
    <3> QED BY <2>1, <3>1
  <2>4. OptionScores(span) \subseteq Int
    BY <2>2, <2>3
  <2>5. s \in Surjection(1..Len(o), OptionScores(span))
    <3>1. s \in [1..Len(o) -> OptionScores(span)]
      BY <2>2
    <3>2. \A t \in OptionScores(span) : \E y \in 1..Len(o) : s[y] = t
      BY <2>2
    <3> HIDE DEF s
    <3> QED BY <3>1, <3>2 DEF Surjection
  <2>6. IsFiniteSet(1..Len(o))
    BY <2>3, FS_Interval
  <2>7. IsFiniteSet(OptionScores(span))
    <3> HIDE DEF s
    <3> QED BY <2>5, <2>6, FS_Surjection
  <2>8. ASSUME o # <<>> PROVE OptionScores(span) # {}
    <3>1. 1 \in 1..Len(o)
      BY <2>1, <2>8
    <3> QED BY <2>2, <3>1
  <2> QED BY <2>4, <2>7, <2>8 DEF o
<1> QED BY <1>1, <1>2

\* The estimates of a span by two spans that join to it.
Joined(f, span) ==
  {f[<<span[1], joinAt>>] + f[<<joinAt + 1, span[2]>>] : joinAt \in span[1]..span[2] - 1}

LEMMA SpanEstimateIs ==
  ASSUME conf \in Settings
  PROVE  SpanEstimate = [span \in Cells |->
                           Highest(OptionScores(span) \union Joined(SpanEstimate, span))]
<1> DEFINE Up(f, t) == Highest(OptionScores(t) \union Joined(f, t))
           Small(k) == {t \in Cells : t[2] - t[1] <= k}
           Steps(f, k) == f = [t \in Small(k) |-> Up(f, t)]
           Bad == {k \in Nat : ~\E f : Steps(f, k)}
<1>0. Size \in Nat \ {0}
  BY SettingsType
<1>1. \A t \in Cells : t[1] \in 0..Size - 1 /\ t[2] \in 0..Size - 1
  BY DEF Cells
<1>2. \A t \in Cells : \A joinAt \in t[1]..t[2] - 1 :
        /\ <<t[1], joinAt>> \in Cells /\ <<joinAt + 1, t[2]>> \in Cells
        /\ joinAt - t[1] <= t[2] - t[1] - 1 /\ t[2] - (joinAt + 1) <= t[2] - t[1] - 1
        /\ joinAt \in Int
  BY <1>0, <1>1 DEF Cells
<1>3. Bad = {}
  <2>1. SUFFICES ASSUME Bad # {} PROVE FALSE
    OBVIOUS
  <2>2. PICK m \in Nat : m \in Bad /\ \A y \in Bad : m <= y
    <3>1. Bad \subseteq Nat
      OBVIOUS
    <3> HIDE DEF Bad
    <3> QED BY <2>1, <3>1, MinOfNat
  <2>3. CASE m = 0
    <3> DEFINE f == [t \in Small(0) |-> Highest(OptionScores(t))]
    <3>1. ASSUME NEW t \in Small(0), NEW g PROVE Joined(g, t) = {}
      <4>1. t[1] \in Int /\ t[2] \in Int /\ t[2] - t[1] <= 0
        BY <1>1
      <4>2. t[1]..t[2] - 1 = {}
        BY <4>1
      <4> QED BY <4>2 DEF Joined
    <3>2. ASSUME NEW t \in Small(0) PROVE f[t] = Up(f, t)
      <4>1. Joined(f, t) = {}
        <5> HIDE DEF f, Small
        <5> QED BY <3>1, <3>2
      <4>2. OptionScores(t) \union Joined(f, t) = OptionScores(t)
        BY <4>1
      <4>3. f[t] = Highest(OptionScores(t))
        OBVIOUS
      <4> HIDE DEF f, Small
      <4> QED BY <4>2, <4>3
    <3>3. f = [t \in Small(0) |-> Up(f, t)]
      <4> HIDE DEF Small, Up
      <4>1. f = [t \in Small(0) |-> f[t]]
        OBVIOUS
      <4> QED BY <3>2, <4>1
    <3> QED BY <2>2, <2>3, <3>3
  <2>4. CASE m # 0
    <3>1. m - 1 \in Nat /\ m - 1 \notin Bad
      <4>1. m - 1 \in Nat /\ ~(m <= m - 1)
        BY <2>4
      <4> HIDE DEF Bad
      <4> QED BY <2>2, <4>1
    <3>2. PICK g : Steps(g, m - 1)
      BY <3>1
    <3> DEFINE f == [t \in Small(m) |-> Up(g, t)]
    <3>3. ASSUME NEW u \in Small(m - 1) PROVE f[u] = g[u]
      <4>1. u \in Small(m)
        BY <1>1
      <4>2. f[u] = Up(g, u)
        BY <4>1
      <4>3. g[u] = Up(g, u)
        <5> HIDE DEF Up, Small, f
        <5> QED BY <3>2, <3>3
      <4> QED BY <4>2, <4>3
    <3>4. ASSUME NEW t \in Small(m) PROVE f[t] = Up(f, t)
      <4>1. f[t] = Up(g, t)
        OBVIOUS
      <4>2. \A joinAt \in t[1]..t[2] - 1 :
              <<t[1], joinAt>> \in Small(m - 1) /\ <<joinAt + 1, t[2]>> \in Small(m - 1)
        <5>1. t \in Cells /\ t[2] - t[1] <= m /\ t[1] \in Int /\ t[2] \in Int
          BY <1>1
        <5> QED BY <1>2, <5>1
      <4>3. \A joinAt \in t[1]..t[2] - 1 :
              /\ f[<<t[1], joinAt>>] = g[<<t[1], joinAt>>]
              /\ f[<<joinAt + 1, t[2]>>] = g[<<joinAt + 1, t[2]>>]
        <5> HIDE DEF f, Small
        <5> QED BY <3>3, <4>2
      <4>4. Joined(f, t) = Joined(g, t)
        <5> HIDE DEF f, Small
        <5> QED BY <4>3 DEF Joined
      <4> HIDE DEF f, Small
      <4> QED BY <4>1, <4>4
    <3>5. f = [t \in Small(m) |-> Up(f, t)]
      <4> HIDE DEF Small, Up
      <4>1. f = [t \in Small(m) |-> f[t]]
        OBVIOUS
      <4> QED BY <3>4, <4>1
    <3> QED BY <2>2, <3>5
  <2> QED BY <2>3, <2>4
<1>4. PICK f : Steps(f, Size)
  BY <1>0, <1>3
<1>5. Small(Size) = Cells
  <2>1. \A t \in Cells : t[2] - t[1] <= Size
    BY <1>0, <1>1
  <2> QED BY <2>1
<1>6. f = [t \in Cells |-> Up(f, t)]
  <2> HIDE DEF Small, Up
  <2> QED BY <1>4, <1>5
<1> DEFINE E == CHOOSE g : g = [t \in Cells |-> Up(g, t)]
<1>7. E = [t \in Cells |-> Up(E, t)]
  <2> HIDE DEF Up
  <2> QED BY <1>6
<1>8. SpanEstimate = E
  BY DEF SpanEstimate, OptionScores, Joined, Cells
<1> HIDE DEF E
<1> QED BY <1>7, <1>8

LEMMA SpanEstimateType ==
  ASSUME conf \in Settings, NEW span \in Cells, span[1] <= span[2]
  PROVE  SpanEstimate[span] \in Int
<1> DEFINE Bad == {k \in Nat : \E t \in Cells : /\ t[1] <= t[2] /\ t[2] - t[1] = k
                                                /\ SpanEstimate[t] \notin Int}
<1>0. Size \in Nat \ {0} /\ \A t \in Cells : t[1] \in 0..Size - 1 /\ t[2] \in 0..Size - 1
  BY SettingsType DEF Cells
<1>1. SUFFICES ASSUME Bad # {} PROVE FALSE
  BY <1>0
<1>2. PICK m \in Nat : m \in Bad /\ \A y \in Bad : m <= y
  <2>1. Bad \subseteq Nat
    OBVIOUS
  <2> HIDE DEF Bad
  <2> QED BY <1>1, <2>1, MinOfNat
<1>3. PICK t \in Cells : t[1] <= t[2] /\ t[2] - t[1] = m /\ SpanEstimate[t] \notin Int
  BY <1>2
<1>4. PICK a \in 0..Size - 1, b \in 0..Size - 1 : t = <<a, b>> /\ a = t[1] /\ b = t[2]
  BY <1>0 DEF Cells
<1>5. a \in Nat /\ b \in Nat /\ a <= b /\ b - a = m
  BY <1>0, <1>3, <1>4
<1>6. ASSUME NEW joinAt \in a..b - 1
      PROVE  SpanEstimate[<<a, joinAt>>] \in Int /\ SpanEstimate[<<joinAt + 1, b>>] \in Int
  <2>1. joinAt \in Int /\ a <= joinAt /\ joinAt + 1 <= b
    BY <1>5
  <2>2. <<a, joinAt>> \in Cells /\ <<joinAt + 1, b>> \in Cells
    BY <1>0, <1>5, <2>1 DEF Cells
  <2>3. /\ joinAt - a \in Nat /\ joinAt - a \notin Bad
        /\ b - (joinAt + 1) \in Nat /\ b - (joinAt + 1) \notin Bad
    <3>1. /\ joinAt - a \in Nat /\ ~(m <= joinAt - a)
          /\ b - (joinAt + 1) \in Nat /\ ~(m <= b - (joinAt + 1))
      BY <1>5, <2>1
    <3> HIDE DEF Bad
    <3> QED BY <1>2, <3>1
  <2> QED BY <2>1, <2>2, <2>3
<1> DEFINE J == Joined(SpanEstimate, <<a, b>>)
           O == OptionScores(<<a, b>>)
<1>7. J = {SpanEstimate[<<a, joinAt>>] + SpanEstimate[<<joinAt + 1, b>>] : joinAt \in a..b - 1}
  BY DEF Joined
<1>8. J \subseteq Int
  <2>1. ASSUME NEW joinAt \in a..b - 1
        PROVE  SpanEstimate[<<a, joinAt>>] + SpanEstimate[<<joinAt + 1, b>>] \in Int
    <3>1. PICK x \in Int, y \in Int : SpanEstimate[<<a, joinAt>>] = x /\ SpanEstimate[<<joinAt + 1, b>>] = y
      BY <1>6
    <3> QED BY <3>1
  <2> HIDE DEF J
  <2> QED BY <1>7, <2>1
<1>9. IsFiniteSet(J)
  <2> DEFINE s == [joinAt \in a..b - 1 |-> SpanEstimate[<<a, joinAt>>] + SpanEstimate[<<joinAt + 1, b>>]]
  <2>1. s \in Surjection(a..b - 1, J)
    <3> HIDE DEF J
    <3>1. s \in [a..b - 1 -> J] /\ \A x \in J : \E joinAt \in a..b - 1 : s[joinAt] = x
      BY <1>7
    <3> HIDE DEF s
    <3> QED BY <3>1 DEF Surjection
  <2>2. IsFiniteSet(a..b - 1)
    BY <1>5, FS_Interval
  <2> HIDE DEF s, J
  <2> QED BY <2>1, <2>2, FS_Surjection
<1>10. O \subseteq Int /\ IsFiniteSet(O)
  BY OptionScoresAre
<1>11. O \union J # {}
  <2>1. CASE a = b
    <3>1. <<a, b>> \in DOMAIN conf.options /\ conf.options[<<a, b>>] # <<>>
      BY <1>4, <2>1, SettingsType
    <3>2. O # {}
      BY <3>1, OptionScoresAre
    <3> QED BY <3>2
  <2>2. CASE a # b
    <3>1. a \in a..b - 1
      BY <1>5, <2>2
    <3>2. J # {}
      <4> HIDE DEF J
      <4> QED BY <1>7, <3>1
    <3> QED BY <3>2
  <2> QED BY <2>1, <2>2
<1>12. SpanEstimate[t] = Highest(O \union J)
  BY <1>4, SpanEstimateIs
<1> HIDE DEF O, J
<1>13. IsFiniteSet(O \union J) /\ O \union J \subseteq Int
  BY <1>8, <1>9, <1>10, FS_Union
<1>14. Highest(O \union J) \in Int
  BY <1>11, <1>13, HighestIs
<1> QED BY <1>3, <1>12, <1>14

\* The fold FutureScore is, over the gaps it adds up.
Sums(S) ==
  CHOOSE f : f = [s \in SUBSET S |->
    IF s = {} THEN 0 ELSE f[s \ {AnyOf(s)}] + SpanEstimate[AnyOf(s)]]

Gaps(cov) ==
  {gap \in Cells : /\ gap[1] <= gap[2] /\ (gap[1]..gap[2]) \intersect cov = {}
                   /\ gap[1] = 0 \/ gap[1] - 1 \in cov
                   /\ gap[2] = Size - 1 \/ gap[2] + 1 \in cov}

LEMMA FutureScoreIsSum ==
  ASSUME NEW cov
  PROVE  FutureScore(cov) = Sums(Gaps(cov))[Gaps(cov)]
BY DEF FutureScore, Gaps, Cells, FoldSet, MapThenFoldSet, Sums, AnyOf

LEMMA FutureScoreType ==
  ASSUME conf \in Settings, NEW cov
  PROVE  FutureScore(cov) \in Int
<1> DEFINE S == Gaps(cov)
           step == [xs \in S \X Int |-> xs[2] + SpanEstimate[xs[1]]]
           l == Sums(S)
           P == {s \in SUBSET S : l[s] \in Int}
<1>1. S \subseteq Cells /\ \A x \in S : x[1] <= x[2]
  BY DEF Gaps
<1>2. IsFiniteSet(S)
  <2>1. 0 \in Int /\ Size - 1 \in Int
    BY SettingsType
  <2>2. IsFiniteSet(0..Size - 1)
    BY <2>1, FS_Interval
  <2>3. IsFiniteSet(Cells)
    BY <2>2, FS_Product DEF Cells
  <2> HIDE DEF S
  <2> QED BY <1>1, <2>3, FS_Subset
<1>3. \A x \in S : SpanEstimate[x] \in Int
  BY <1>1, SpanEstimateType
<1> HIDE DEF S
<1>4. step \in [S \X Int -> Int]
  <2>1. ASSUME NEW xs \in S \X Int PROVE xs[2] + SpanEstimate[xs[1]] \in Int
    <3>1. xs[2] \in Int /\ SpanEstimate[xs[1]] \in Int
      BY <1>3
    <3> QED BY <3>1
  <2> QED BY <2>1
<1>5. PICK f \in [SUBSET S -> Int] : FoldsBy(f, S, 0, step)
  <2> DEFINE base == 0
  <2>1. base \in Int
    OBVIOUS
  <2>2. \E f \in [SUBSET S -> Int] : FoldsBy(f, S, base, step)
    <3> HIDE DEF step, base
    <3> QED BY <1>2, <1>4, <2>1, FoldExists
  <2> QED BY <2>2
<1>6. ASSUME NEW s \in SUBSET S, s # {}
      PROVE  step[<<AnyOf(s), f[s \ {AnyOf(s)}]>>] = f[s \ {AnyOf(s)}] + SpanEstimate[AnyOf(s)]
  <2>1. AnyOf(s) \in S /\ f[s \ {AnyOf(s)}] \in Int
    BY <1>6 DEF AnyOf
  <2> QED BY <2>1
<1>7. f = [s \in SUBSET S |-> IF s = {} THEN 0 ELSE f[s \ {AnyOf(s)}] + SpanEstimate[AnyOf(s)]]
  <2> HIDE DEF step
  <2> QED BY <1>5, <1>6 DEF FoldsBy
<1>8. l = [s \in SUBSET S |-> IF s = {} THEN 0 ELSE l[s \ {AnyOf(s)}] + SpanEstimate[AnyOf(s)]]
  BY <1>7 DEF Sums
<1> HIDE DEF l
<1>9. {} \in P
  <2>1. l[{}] = 0
    BY <1>8
  <2> QED BY <2>1
<1>10. ASSUME NEW s \in SUBSET S, s # {}, s \ {AnyOf(s)} \in P PROVE s \in P
  <2>1. AnyOf(s) \in S
    BY <1>10 DEF AnyOf
  <2>2. PICK x \in Int, y \in Int : l[s \ {AnyOf(s)}] = x /\ SpanEstimate[AnyOf(s)] = y
    BY <1>3, <1>10, <2>1
  <2>3. l[s] = x + y
    BY <1>8, <1>10, <2>2
  <2> QED BY <2>2, <2>3
<1>11. S \in P
  <2> HIDE DEF P
  <2> QED BY <1>2, <1>9, <1>10, SubsetInduction
<1> QED BY <1>11, FutureScoreIsSum DEF l, S

-----------------------------------------------------------------------------
(* Hypotheses. *)

Created == 1..Len(heap)

HypoType == [cov : Coverages, end : Int, word : Word, prev : Nat, option : Nat,
             score : Int, total : Int, arcs : Seq(Nat)]

LEMMA HypoIs ==
  ASSUME heap \in Seq(HypoType), NEW h \in Created
  PROVE  /\ heap[h] \in HypoType /\ heap[h].cov \in Coverages /\ heap[h].end \in Int
         /\ heap[h].word \in Word /\ heap[h].prev \in Nat /\ heap[h].score \in Int
         /\ heap[h].arcs \in Seq(Nat) /\ TotalScore(h) \in Int
         /\ h \in Nat /\ h # 0
<1>1. heap[h] \in HypoType
  <2> HIDE DEF HypoType
  <2> QED BY DEF Created
<1>2. h \in Nat /\ h # 0
  BY DEF Created
<1> QED BY <1>1, <1>2 DEF HypoType, TotalScore

LEMMA CoverageIs ==
  ASSUME conf \in Settings, NEW c \in Coverages
  PROVE  IsFiniteSet(c) /\ Cardinality(c) \in 0..Size /\ c \subseteq Nat
<1>1. Size \in Nat \ {0}
  BY SettingsType
<1>2. IsFiniteSet(0..Size - 1) /\ Cardinality(0..Size - 1) = Size
  BY <1>1, FS_Interval
<1>3. c \in SUBSET (0..Size - 1)
  BY DEF Coverages
<1>4. IsFiniteSet(c) /\ Cardinality(c) <= Size
  BY <1>2, <1>3, FS_Subset
<1>5. Cardinality(c) \in Nat
  BY <1>4, FS_CardinalityType
<1> QED BY <1>1, <1>3, <1>4, <1>5

LEMMA CoveragesFinite ==
  ASSUME conf \in Settings
  PROVE  IsFiniteSet(Coverages)
<1>1. IsFiniteSet(0..Size - 1)
  BY SettingsType, FS_Interval
<1> QED BY <1>1, FS_SUBSET DEF Coverages

LEMMA DistanceType ==
  ASSUME NEW end \in Int, NEW start \in Int
  PROVE  DistortionDistance(end, start) \in Int
BY DEF DistortionDistance, Abs

LEMMA TranslationsType ==
  ASSUME conf \in Settings, NEW from, NEW to
  PROVE  Translations(from, to) \in Seq([word : Word, score : Int])
<1>1. CASE \E span \in DOMAIN conf.options : to \ from = span[1]..span[2]
  <2> DEFINE sp == CHOOSE span \in DOMAIN conf.options : to \ from = span[1]..span[2]
  <2>1. sp \in DOMAIN conf.options
    BY <1>1
  <2>2. Translations(from, to) = conf.options[sp]
    BY <1>1 DEF Translations
  <2> HIDE DEF sp
  <2> QED BY <2>1, <2>2, SettingsType
<1>2. CASE ~\E span \in DOMAIN conf.options : to \ from = span[1]..span[2]
  <2>1. Translations(from, to) = <<>>
    BY <1>2 DEF Translations
  <2> QED BY <2>1
<1> QED BY <1>1, <1>2

\* A span is known by its words.
LEMMA TranslationsOfSpan ==
  ASSUME conf \in Settings, NEW span \in DOMAIN conf.options, NEW from, NEW to,
         to \ from = span[1]..span[2]
  PROVE  Translations(from, to) = conf.options[span]
<1> DEFINE sp == CHOOSE sp \in DOMAIN conf.options : to \ from = sp[1]..sp[2]
<1>1. sp \in DOMAIN conf.options /\ to \ from = sp[1]..sp[2]
  OBVIOUS
<1>2. Translations(from, to) = conf.options[sp]
  BY DEF Translations
<1> HIDE DEF sp
<1>3. ASSUME NEW s \in DOMAIN conf.options
      PROVE  s = <<s[1], s[2]>> /\ s[1] \in Int /\ s[2] \in Int /\ s[1] <= s[2]
  <2>1. s \in Cells /\ s[1] <= s[2]
    BY SettingsType
  <2> QED BY <2>1 DEF Cells
<1>4. span[1]..span[2] = sp[1]..sp[2]
  BY <1>1
<1>5. span[1] = sp[1] /\ span[2] = sp[2]
  <2>1. PICK a \in Int, b \in Int : span[1] = a /\ span[2] = b /\ a <= b
    BY <1>3
  <2>2. PICK c \in Int, d \in Int : sp[1] = c /\ sp[2] = d /\ c <= d
    BY <1>1, <1>3
  <2>3. a..b = c..d
    BY <1>4, <2>1, <2>2
  <2>4. a \in c..d /\ b \in c..d /\ c \in a..b /\ d \in a..b
    <3>1. a \in a..b /\ b \in a..b /\ c \in c..d /\ d \in c..d
      BY <2>1, <2>2
    <3> QED BY <2>3, <3>1
  <2> QED BY <2>1, <2>2, <2>4
<1>6. span = sp
  BY <1>1, <1>3, <1>5
<1> QED BY <1>2, <1>6

\* A hypothesis extended is one.
LEMMA ExtendedIs ==
  ASSUME conf \in Settings, heap \in Seq(HypoType), NEW h \in Created, NEW to \in Coverages,
         NEW span \in DOMAIN conf.options, to \ heap[h].cov = span[1]..span[2],
         NEW y \in Nat \ {0}, y <= Len(Translations(heap[h].cov, to))
  PROVE  /\ Extended(h, to, y) \in HypoType
         /\ Extended(h, to, y).cov = to /\ Extended(h, to, y).prev = h
         /\ Extended(h, to, y).arcs = <<>>
<1> DEFINE new == to \ heap[h].cov
           opts == Translations(heap[h].cov, to)
           opt == opts[y]
           R == [word : Word, score : Int]
           dist == DistortionDistance(heap[h].end, Lowest(new))
           pair == conf.bigrams[<<heap[h].word, opt.word>>]
           score == heap[h].score + opt.score - conf.weightDistortion * dist + pair
<1>1. new \subseteq Nat /\ new \subseteq Int /\ IsFiniteSet(new) /\ new # {}
  <2>1. IsFiniteSet(to) /\ to \subseteq Nat
    BY CoverageIs
  <2>2. span \in Cells /\ span[1] <= span[2] /\ span[1] \in Int /\ span[2] \in Int
    BY SettingsType DEF Cells
  <2>3. span[1] \in new
    BY <2>2
  <2> QED BY <2>1, <2>3, FS_Subset
<1>2. Lowest(new) \in Int /\ Highest(new) \in Int
  <2> HIDE DEF new
  <2>1. Lowest(new) \in new
    BY <1>1, LowestIs
  <2>2. Highest(new) \in new
    BY <1>1, HighestIs
  <2> QED BY <1>1, <2>1, <2>2
<1>3. opt \in R
  <2>1. opts \in Seq(R)
    BY TranslationsType
  <2> HIDE DEF R, opts
  <2>2. y \in 1..Len(opts)
    BY <2>1 DEF opts
  <2> QED BY <2>1, <2>2
<1>4. opt.word \in Word /\ opt.score \in Int
  <2> HIDE DEF opt
  <2> QED BY <1>3
<1>5. dist \in Int
  <2> HIDE DEF new
  <2> QED BY <1>2, HypoIs, DistanceType
<1>6. pair \in Int
  <2>1. heap[h].word \in Word
    BY HypoIs
  <2> HIDE DEF opt
  <2> QED BY <1>4, <2>1, SettingsType
<1>7. score \in Int
  <2>1. heap[h].score \in Int /\ conf.weightDistortion \in Nat
    BY HypoIs, SettingsType
  <2> HIDE DEF opt, dist, pair
  <2>2. PICK a \in Int, b \in Int, c \in Int, d \in Int, e \in Int :
          heap[h].score = a /\ opt.score = b /\ conf.weightDistortion = c /\ dist = d /\ pair = e
    BY <1>4, <1>5, <1>6, <2>1
  <2>3. score = a + b - c * d + e
    BY <2>2
  <2>4. c * d \in Int
    BY <2>2
  <2> HIDE DEF score
  <2> QED BY <2>3, <2>4
<1>8. FutureScore(to) \in Int
  BY FutureScoreType
<1>9. score + FutureScore(to) \in Int
  <2> HIDE DEF score
  <2> QED BY <1>7, <1>8
<1>10. Extended(h, to, y) = [cov |-> to, end |-> Highest(new), word |-> opt.word, prev |-> h,
                             option |-> y, score |-> score, total |-> score + FutureScore(to),
                             arcs |-> <<>>]
  BY DEF Extended
<1>11. h \in Nat
  BY HypoIs
<1> HIDE DEF score, new, opt
<1> QED BY <1>2, <1>4, <1>7, <1>9, <1>10, <1>11 DEF HypoType

-----------------------------------------------------------------------------
(* One stack, with what is freed.  Its hypotheses each keep the arcs they have   *)
(* won, and nothing they keep is shared or freed.                                *)

StackFields == {"hypos", "best", "worst", "arcs", "freed"}

KinIn(s, h) == {h} \union ToSet(s.arcs[h])

Kept(s) == UNION {KinIn(s, h) : h \in s.hypos}

TidyAt(s, h) ==
  /\ h \notin ToSet(s.arcs[h]) /\ IsInjective(s.arcs[h])
  /\ \A a \in KinIn(s, h) : a \in Created /\ a \notin s.freed /\ heap[a].cov = heap[h].cov
  /\ \A g \in s.hypos : g # h => KinIn(s, g) \intersect KinIn(s, h) = {}

StackType(s) ==
  /\ DOMAIN s = StackFields
  /\ s.hypos \subseteq Created /\ s.arcs \in [Created -> Seq(Nat)] /\ s.freed \subseteq Created

Tidy(s) == StackType(s) /\ \A h \in s.hypos : TidyAt(s, h)

\* What an operation on the stack s with the new hypotheses X may do.
Settles(s, t, X) ==
  /\ t.hypos \subseteq s.hypos \union X
  /\ Kept(t) \subseteq Kept(s) \union X
  /\ t.freed \subseteq s.freed \union Kept(s) \union X
  /\ \A g \in Created : g \notin s.hypos \union X => t.arcs[g] = s.arcs[g]

LEMMA KeptIs ==
  ASSUME NEW s
  PROVE  /\ s.hypos \subseteq Kept(s)
         /\ \A h \in s.hypos : KinIn(s, h) \subseteq Kept(s)
         /\ \A x \in Kept(s) : \E h \in s.hypos : x \in KinIn(s, h)
<1>1. \A h \in s.hypos : h \in KinIn(s, h)
  BY DEF KinIn
<1> QED BY <1>1 DEF Kept

LEMMA SettlesSelf ==
  ASSUME NEW s, NEW X
  PROVE  Settles(s, s, X)
BY DEF Settles

LEMMA SettlesThen ==
  ASSUME NEW s, NEW t, NEW u, NEW X, Settles(s, t, X), Settles(t, u, {}),
         s.hypos \subseteq Kept(s)
  PROVE  Settles(s, u, X)
<1>1. u.hypos \subseteq s.hypos \union X /\ Kept(u) \subseteq Kept(s) \union X
  BY DEF Settles
<1>2. u.freed \subseteq s.freed \union Kept(s) \union X
  BY DEF Settles
<1>3. \A g \in Created : g \notin s.hypos \union X => u.arcs[g] = s.arcs[g]
  BY DEF Settles
<1> QED BY <1>1, <1>2, <1>3 DEF Settles

\* Hypotheses are taken out of the stack and deleted with their arcs.
LEMMA DroppedIsTidy ==
  ASSUME NEW s, Tidy(s), NEW gone \in SUBSET s.hypos, NEW w
  PROVE  /\ Tidy(Free([s EXCEPT !.hypos = @ \ gone, !.worst = w], gone))
         /\ Settles(s, Free([s EXCEPT !.hypos = @ \ gone, !.worst = w], gone), {})
<1> DEFINE t == Free([s EXCEPT !.hypos = @ \ gone, !.worst = w], gone)
<1>1. /\ DOMAIN t = StackFields /\ t.hypos = s.hypos \ gone /\ t.arcs = s.arcs
      /\ t.freed = s.freed \union gone \union UNION {ToSet(s.arcs[h]) : h \in gone}
  BY DEF Free, Tidy, StackType, StackFields
<1> HIDE DEF t
<1>2. \A h : KinIn(t, h) = KinIn(s, h)
  BY <1>1 DEF KinIn
<1>3. \A x \in t.freed : x \in s.freed \/ \E g \in gone : x \in KinIn(s, g)
  BY <1>1 DEF KinIn
<1>4. t.freed \subseteq Created
  <2>1. \A x \in t.freed : x \in s.freed \/ x \in Created
    BY <1>3 DEF Tidy, TidyAt
  <2> QED BY <2>1 DEF Tidy, StackType
<1>5. StackType(t)
  BY <1>1, <1>4 DEF StackType, Tidy
<1>6. ASSUME NEW h \in t.hypos PROVE TidyAt(t, h)
  <2>1. TidyAt(s, h) /\ h \in s.hypos /\ h \notin gone
    BY <1>1 DEF Tidy
  <2>2. h \notin ToSet(t.arcs[h]) /\ IsInjective(t.arcs[h])
    BY <1>1, <2>1 DEF TidyAt
  <2>3. ASSUME NEW a \in KinIn(t, h) PROVE a \in Created /\ a \notin t.freed /\ heap[a].cov = heap[h].cov
    <3>1. a \in KinIn(s, h)
      BY <1>2
    <3>2. a \in Created /\ a \notin s.freed /\ heap[a].cov = heap[h].cov
      BY <2>1, <3>1 DEF TidyAt
    <3>3. \A g \in gone : a \notin KinIn(s, g)
      BY <2>1, <3>1 DEF TidyAt
    <3> QED BY <1>3, <3>2, <3>3
  <2>4. \A g \in t.hypos : g # h => KinIn(t, g) \intersect KinIn(t, h) = {}
    BY <1>1, <1>2, <2>1 DEF TidyAt
  <2> QED BY <2>2, <2>3, <2>4 DEF TidyAt
<1>7. Tidy(t)
  BY <1>5, <1>6 DEF Tidy
<1>8. Kept(t) \subseteq Kept(s)
  <2>1. \A x \in Kept(t) : \E h \in t.hypos : x \in KinIn(t, h)
    BY KeptIs
  <2>2. \A h \in t.hypos : KinIn(t, h) \subseteq Kept(s)
    BY <1>1, <1>2, KeptIs
  <2> QED BY <2>1, <2>2
<1>9. t.freed \subseteq s.freed \union Kept(s)
  BY <1>3, KeptIs
<1>10. Settles(s, t, {})
  BY <1>1, <1>8, <1>9 DEF Settles
<1> QED BY <1>7, <1>10 DEF t

LEMMA PrunedIsTidy ==
  ASSUME NEW s, Tidy(s), NEW newSize
  PROVE  Tidy(PruneToSize(s, newSize)) /\ Settles(s, PruneToSize(s, newSize), {})
<1>1. CASE newSize = 0 \/ Cardinality(s.hypos) <= newSize
  <2>1. PruneToSize(s, newSize) = s
    BY <1>1 DEF PruneToSize
  <2> QED BY <2>1, SettlesSelf
<1>2. CASE ~(newSize = 0 \/ Cardinality(s.hypos) <= newSize)
  <2>1. \E gone \in SUBSET s.hypos : \E w :
          PruneToSize(s, newSize) = Free([s EXCEPT !.hypos = @ \ gone, !.worst = w], gone)
    <3> DEFINE inBeam == {h \in s.hypos : TotalScore(h) > s.best + conf.beamWidth}
               better(h) == {g \in inBeam : TotalScore(g) > TotalScore(h)}
               threshold == Lowest({TotalScore(h) : h \in {g \in inBeam :
                                      Cardinality(better(g)) < newSize}})
               gone == {h \in s.hypos : TotalScore(h) < threshold}
    <3>1. PruneToSize(s, newSize) = Free([s EXCEPT !.hypos = @ \ gone, !.worst = threshold], gone)
      BY <1>2 DEF PruneToSize
    <3>2. gone \in SUBSET s.hypos
      OBVIOUS
    <3> HIDE DEF gone, threshold
    <3> QED BY <3>1, <3>2
  <2> QED BY <2>1, DroppedIsTidy
<1> QED BY <1>1, <1>2

\* Adding a hypothesis to the set may set scores and prune.
LEMMA AddedIsTidy ==
  ASSUME NEW s, NEW h, Tidy([s EXCEPT !.hypos = @ \union {h}])
  PROVE  /\ Tidy(Add(s, h))
         /\ Settles([s EXCEPT !.hypos = @ \union {h}], Add(s, h), {})
<1> DEFINE best == IF TotalScore(h) > s.best THEN TotalScore(h) ELSE s.best
           worst == IF best > s.best /\ best + conf.beamWidth > s.worst
                    THEN best + conf.beamWidth ELSE s.worst
           more == [s EXCEPT !.hypos = @ \union {h}]
           new == [s EXCEPT !.hypos = @ \union {h}, !.best = best, !.worst = worst]
<1>1. \/ Add(s, h) = new
      \/ Add(s, h) = PruneToSize(new, conf.maxHypoStackSize)
  BY DEF Add
<1> HIDE DEF best, worst
<1>2. DOMAIN s = StackFields
  BY DEF Tidy, StackType
<1>3. /\ DOMAIN new = StackFields /\ new.hypos = more.hypos
      /\ new.arcs = more.arcs /\ new.freed = more.freed
  BY <1>2 DEF StackFields
<1> HIDE DEF new
<1>4. Tidy(more)
  OBVIOUS
<1> HIDE DEF more
<1>5. \A x : KinIn(new, x) = KinIn(more, x)
  BY <1>3 DEF KinIn
<1>6. Tidy(new)
  BY <1>3, <1>4, <1>5 DEF Tidy, TidyAt, StackType
<1>7. Kept(new) = Kept(more)
  BY <1>3, <1>5 DEF Kept
<1>8. Settles(more, new, {})
  BY <1>3, <1>7 DEF Settles
<1>9. CASE Add(s, h) = new
  BY <1>6, <1>8, <1>9 DEF more
<1>10. CASE Add(s, h) = PruneToSize(new, conf.maxHypoStackSize)
  <2> DEFINE u == PruneToSize(new, conf.maxHypoStackSize)
  <2>1. Tidy(u) /\ Settles(new, u, {})
    BY <1>6, PrunedIsTidy
  <2> HIDE DEF u
  <2>2. Settles(more, u, {})
    BY <1>8, <2>1, KeptIs, SettlesThen
  <2> QED BY <1>10, <2>1, <2>2 DEF u, more
<1> QED BY <1>1, <1>9, <1>10

LEMMA ToSetAppend ==
  ASSUME NEW q \in Seq(Nat), NEW x \in Nat
  PROVE  ToSet(Append(q, x)) = ToSet(q) \union {x}
<1> DEFINE r == Append(q, x)
<1>1. /\ DOMAIN r = 1..Len(q) + 1 /\ r[Len(q) + 1] = x
      /\ \A i \in 1..Len(q) : r[i] = q[i]
  OBVIOUS
<1>2. DOMAIN q = 1..Len(q) /\ Len(q) \in Nat
  OBVIOUS
<1> HIDE DEF r
<1>3. \A y \in ToSet(r) : y \in ToSet(q) \union {x}
  <2>1. ASSUME NEW i \in DOMAIN r PROVE r[i] \in ToSet(q) \union {x}
    <3>1. i \in 1..Len(q) \/ i = Len(q) + 1
      BY <1>1, <1>2
    <3> QED BY <1>1, <1>2, <3>1 DEF ToSet
  <2> QED BY <2>1 DEF ToSet
<1>4. \A y \in ToSet(q) \union {x} : y \in ToSet(r)
  <2>1. \A i \in DOMAIN q : i \in DOMAIN r /\ r[i] = q[i]
    BY <1>1, <1>2
  <2>2. Len(q) + 1 \in DOMAIN r
    BY <1>1, <1>2
  <2> QED BY <1>1, <2>1, <2>2 DEF ToSet
<1> QED BY <1>3, <1>4 DEF r

\* Settling for the set with the new hypothesis added settles for the old one.
LEMMA SettlesAdded ==
  ASSUME NEW s, NEW m, NEW t, NEW h, Settles(m, t, {}), Settles(s, m, {h})
  PROVE  Settles(s, t, {h})
BY KeptIs, SettlesThen

\* AddPrune of a hypothesis not kept and not freed, which has no arcs: what the
\* stack keeps after it is kept before or new, and not freed.
LEMMA AddPruneIsTidy ==
  ASSUME NEW s, Tidy(s), NEW h \in Created, h \notin Kept(s), h \notin s.freed, s.arcs[h] = <<>>
  PROVE  Tidy(AddPrune(s, h).s) /\ Settles(s, AddPrune(s, h).s, {h})
<1> DEFINE same == {g \in s.hypos : Equivalent(g, h)}
           t == AddPrune(s, h).s
           g == CHOOSE x \in same : TRUE
<1>0. StackType(s) /\ DOMAIN s = StackFields /\ s.hypos \subseteq Created
      /\ s.arcs \in [Created -> Seq(Nat)] /\ s.freed \subseteq Created
  BY DEF Tidy, StackType
<1>1. KinIn(s, h) = {h} /\ h \notin s.hypos /\ ToSet(s.arcs[h]) = {}
  <2>1. ToSet(s.arcs[h]) = {}
    BY DEF ToSet
  <2> QED BY <2>1, KeptIs DEF KinIn
\* h is the only one freed
<1>2. Tidy(Free(s, {h})) /\ Settles(s, Free(s, {h}), {h})
  <2> DEFINE u == Free(s, {h})
  <2>1. /\ DOMAIN u = StackFields /\ u.hypos = s.hypos /\ u.arcs = s.arcs
        /\ u.freed = s.freed \union {h}
    <3>1. u.freed = s.freed \union {h} \union UNION {ToSet(s.arcs[x]) : x \in {h}}
      BY <1>0 DEF Free, StackFields
    <3>2. UNION {ToSet(s.arcs[x]) : x \in {h}} = {}
      BY <1>1
    <3>3. DOMAIN u = StackFields /\ u.hypos = s.hypos /\ u.arcs = s.arcs
      BY <1>0 DEF Free, StackFields
    <3> HIDE DEF u
    <3> QED BY <3>1, <3>2, <3>3
  <2> HIDE DEF u
  <2>2. \A x : KinIn(u, x) = KinIn(s, x)
    BY <2>1 DEF KinIn
  <2>3. ASSUME NEW x \in u.hypos PROVE TidyAt(u, x)
    <3>1. x \in s.hypos /\ TidyAt(s, x)
      BY <2>1 DEF Tidy
    <3>2. h \notin KinIn(s, x)
      BY <3>1, KeptIs
    <3> QED BY <2>1, <2>2, <3>1, <3>2 DEF TidyAt
  <2>4. Tidy(u)
    BY <1>0, <2>1, <2>3 DEF Tidy, StackType
  <2>5. Kept(u) = Kept(s)
    BY <2>1, <2>2 DEF Kept
  <2>6. Settles(s, u, {h})
    BY <2>1, <2>5 DEF Settles
  <2> QED BY <2>4, <2>6 DEF u
<1>3. CASE TotalScore(h) < s.worst
  <2>1. t = Free(s, {h})
    BY <1>3 DEF AddPrune
  <2> HIDE DEF t
  <2> QED BY <1>2, <2>1 DEF t
<1>4. CASE ~(TotalScore(h) < s.worst) /\ same = {}
  <2> DEFINE m == [s EXCEPT !.hypos = @ \union {h}]
  <2>1. t = Add(s, h)
    BY <1>4 DEF AddPrune
  <2>2. /\ DOMAIN m = StackFields /\ m.hypos = s.hypos \union {h}
        /\ m.arcs = s.arcs /\ m.freed = s.freed
    BY <1>0 DEF StackFields
  <2> HIDE DEF m, t
  <2>3. \A x : KinIn(m, x) = KinIn(s, x)
    BY <2>2 DEF KinIn
  <2>4. ASSUME NEW x \in m.hypos PROVE TidyAt(m, x)
    <3>1. CASE x = h
      <4>1. \A y \in s.hypos : h \notin KinIn(s, y)
        BY KeptIs
      <4>2. IsInjective(s.arcs[h])
        BY DEF IsInjective
      <4> QED BY <1>1, <2>2, <2>3, <3>1, <4>1, <4>2 DEF TidyAt
    <3>2. CASE x # h
      <4>1. x \in s.hypos /\ TidyAt(s, x)
        BY <2>2, <3>2 DEF Tidy
      <4>2. h \notin KinIn(s, x)
        BY <4>1, KeptIs
      <4> QED BY <1>1, <2>2, <2>3, <4>1, <4>2 DEF TidyAt
    <3> QED BY <3>1, <3>2
  <2>5. Tidy(m)
    BY <1>0, <2>2, <2>4 DEF Tidy, StackType
  <2>6. Kept(m) \subseteq Kept(s) \union {h}
    BY <1>1, <2>2, <2>3 DEF Kept
  <2>7. Settles(s, m, {h})
    BY <2>2, <2>6 DEF Settles
  <2>8. Tidy(t) /\ Settles(m, t, {})
    BY <2>1, <2>5, AddedIsTidy DEF m
  <2> QED BY <2>7, <2>8, SettlesAdded DEF t
<1>5. CASE ~(TotalScore(h) < s.worst) /\ same # {}
  <2>0. g \in s.hypos /\ heap[g].cov = heap[h].cov /\ g \in Created /\ g # h
    <3>1. g \in same
      BY <1>5
    <3>2. g \in s.hypos /\ Equivalent(g, h)
      <4> HIDE DEF g
      <4> QED BY <3>1
    <3> HIDE DEF g, same
    <3> QED BY <1>0, <1>1, <3>2 DEF Equivalent
  <2>00. TidyAt(s, g) /\ KinIn(s, g) \subseteq Kept(s)
    <3> HIDE DEF g
    <3> QED BY <2>0, KeptIs DEF Tidy
  <2>1. CASE TotalScore(h) > TotalScore(g) /\ conf.nBestSize > 0
    <3> DEFINE s1 == [s EXCEPT !.hypos = @ \ {g}, !.arcs[h] = Append(s.arcs[g], g),
                               !.arcs[g] = <<>>]
               m == [s1 EXCEPT !.hypos = @ \union {h}]
    <3>1. t = Add(s1, h)
      BY <1>5, <2>1 DEF AddPrune
    <3> HIDE DEF t, g
    <3>2. /\ DOMAIN m = StackFields /\ m.hypos = (s.hypos \ {g}) \union {h}
          /\ m.freed = s.freed
          /\ m.arcs = [[s.arcs EXCEPT ![h] = Append(s.arcs[g], g)] EXCEPT ![g] = <<>>]
      BY <1>0 DEF StackFields
    <3> HIDE DEF m
    <3>3. /\ m.arcs \in [Created -> Seq(Nat)] /\ m.arcs[h] = Append(s.arcs[g], g)
          /\ \A x \in Created : x # g /\ x # h => m.arcs[x] = s.arcs[x]
      <4>1. s.arcs[g] \in Seq(Nat) /\ g \in Nat
        BY <1>0, <2>0 DEF Created
      <4>2. Append(s.arcs[g], g) \in Seq(Nat) /\ <<>> \in Seq(Nat)
        BY <4>1
      <4> QED BY <1>0, <2>0, <3>2, <4>2
    <3>4. ToSet(m.arcs[h]) = KinIn(s, g)
      <4> DEFINE q == s.arcs[g]
      <4>1. q \in Seq(Nat) /\ g \in Nat
        BY <1>0, <2>0 DEF Created
      <4> HIDE DEF q
      <4>2. ToSet(Append(q, g)) = ToSet(q) \union {g}
        BY <4>1, ToSetAppend
      <4> QED BY <3>3, <4>2 DEF KinIn, q
    <3>5. IsInjective(m.arcs[h])
      <4> DEFINE q == s.arcs[g]
      <4>1. q \in Seq(Nat) /\ g \in Nat
        BY <1>0, <2>0 DEF Created
      <4>2. \A i \in DOMAIN q : q[i] # g
        BY <2>00 DEF TidyAt, ToSet
      <4>3. IsInjective(q)
        BY <2>00 DEF TidyAt
      <4> HIDE DEF q
      <4>4. IsInjective(Append(q, g))
        BY <4>1, <4>2, <4>3 DEF IsInjective
      <4> QED BY <3>3, <4>4 DEF q
    <3>6. \A x \in Created : x # g /\ x # h => KinIn(m, x) = KinIn(s, x)
      BY <3>3 DEF KinIn
    <3>7. KinIn(m, h) = {h} \union KinIn(s, g)
      BY <3>4 DEF KinIn
    <3>8. h \notin KinIn(s, g) /\ \A x \in s.hypos : h \notin KinIn(s, x)
      BY <2>00, KeptIs
    <3>9. ASSUME NEW x \in m.hypos PROVE TidyAt(m, x)
      <4>1. CASE x = h
        <5>1. \A a \in KinIn(m, h) : a \in Created /\ a \notin m.freed /\ heap[a].cov = heap[h].cov
          BY <2>0, <2>00, <3>2, <3>7 DEF TidyAt
        <5>2. ASSUME NEW y \in m.hypos, y # h PROVE KinIn(m, y) \intersect KinIn(m, h) = {}
          <6>1. y \in s.hypos /\ y # g /\ y \in Created
            BY <1>0, <3>2, <5>2
          <6>2. KinIn(m, y) = KinIn(s, y) /\ h \notin KinIn(s, y)
            BY <3>6, <3>8, <5>2, <6>1
          <6>3. KinIn(s, y) \intersect KinIn(s, g) = {}
            BY <2>00, <6>1 DEF TidyAt
          <6> QED BY <3>7, <6>2, <6>3
        <5> QED BY <3>4, <3>5, <3>8, <4>1, <5>1, <5>2 DEF TidyAt
      <4>2. CASE x # h
        <5>1. x \in s.hypos /\ x # g /\ x \in Created /\ TidyAt(s, x)
          BY <1>0, <3>2, <4>2 DEF Tidy
        <5>2. KinIn(m, x) = KinIn(s, x) /\ m.arcs[x] = s.arcs[x]
          BY <3>3, <3>6, <4>2, <5>1
        <5>3. ASSUME NEW y \in m.hypos, y # x PROVE KinIn(m, y) \intersect KinIn(m, x) = {}
          <6>1. CASE y = h
            <7>1. KinIn(s, g) \intersect KinIn(s, x) = {} /\ h \notin KinIn(s, x)
              BY <2>0, <3>8, <5>1 DEF TidyAt
            <7> QED BY <3>7, <5>2, <6>1, <7>1
          <6>2. CASE y # h
            <7>1. y \in s.hypos /\ y # g /\ y \in Created
              BY <1>0, <3>2, <6>2
            <7> QED BY <3>6, <5>1, <5>2, <5>3, <6>2, <7>1 DEF TidyAt
          <6> QED BY <6>1, <6>2
        <5> QED BY <3>2, <5>1, <5>2, <5>3 DEF TidyAt
      <4> QED BY <4>1, <4>2
    <3>10. Tidy(m)
      BY <1>0, <3>2, <3>3, <3>9 DEF Tidy, StackType
    <3>11. Settles(s, m, {h})
      <4>1. Kept(m) \subseteq Kept(s) \union {h}
        <5>1. ASSUME NEW x \in m.hypos PROVE KinIn(m, x) \subseteq Kept(s) \union {h}
          <6>1. CASE x = h
            BY <2>00, <3>7, <6>1
          <6>2. CASE x # h
            <7>1. x \in s.hypos /\ x # g /\ x \in Created
              BY <1>0, <3>2, <6>2
            <7> QED BY <3>6, <6>2, <7>1, KeptIs
          <6> QED BY <6>1, <6>2
        <5> QED BY <5>1, KeptIs
      <4> QED BY <2>0, <3>2, <3>3, <4>1 DEF Settles
    <3>12. Tidy(t) /\ Settles(m, t, {})
      <4> HIDE DEF s1
      <4> QED BY <3>1, <3>10, AddedIsTidy DEF m
    <3> QED BY <3>11, <3>12, SettlesAdded DEF t
  <2>2. CASE TotalScore(h) > TotalScore(g) /\ ~(conf.nBestSize > 0)
    <3> DEFINE s1 == [Free(s, {g}) EXCEPT !.hypos = @ \ {g}]
               m == [s1 EXCEPT !.hypos = @ \union {h}]
    <3>1. t = Add(s1, h)
      BY <1>5, <2>2 DEF AddPrune
    <3> HIDE DEF t, g
    <3>2. /\ DOMAIN m = StackFields /\ m.hypos = (s.hypos \ {g}) \union {h}
          /\ m.freed = s.freed \union KinIn(s, g) /\ m.arcs = s.arcs
      <4>1. Free(s, {g}).freed = s.freed \union KinIn(s, g)
        <5>1. Free(s, {g}).freed = s.freed \union {g} \union UNION {ToSet(s.arcs[x]) : x \in {g}}
          BY <1>0 DEF Free, StackFields
        <5>2. UNION {ToSet(s.arcs[x]) : x \in {g}} = ToSet(s.arcs[g])
          OBVIOUS
        <5> QED BY <5>1, <5>2 DEF KinIn
      <4>2. /\ DOMAIN Free(s, {g}) = StackFields /\ Free(s, {g}).hypos = s.hypos
            /\ Free(s, {g}).arcs = s.arcs
        BY <1>0 DEF Free, StackFields
      <4> QED BY <4>1, <4>2 DEF StackFields
    <3> HIDE DEF m
    <3>6. \A x : KinIn(m, x) = KinIn(s, x)
      BY <3>2 DEF KinIn
    <3>8. h \notin KinIn(s, g) /\ \A x \in s.hypos : h \notin KinIn(s, x)
      BY <2>00, KeptIs
    <3>9. ASSUME NEW x \in m.hypos PROVE TidyAt(m, x)
      <4>1. CASE x = h
        <5>1. IsInjective(s.arcs[h])
          BY DEF IsInjective
        <5> QED BY <1>1, <3>2, <3>6, <3>8, <4>1, <5>1 DEF TidyAt
      <4>2. CASE x # h
        <5>1. x \in s.hypos /\ x # g /\ x \in Created /\ TidyAt(s, x)
          BY <1>0, <3>2, <4>2 DEF Tidy
        <5>2. KinIn(s, g) \intersect KinIn(s, x) = {} /\ h \notin KinIn(s, x)
          BY <2>0, <3>8, <5>1 DEF TidyAt
        <5> QED BY <1>1, <3>2, <3>6, <5>1, <5>2 DEF TidyAt
      <4> QED BY <4>1, <4>2
    <3>10. Tidy(m)
      <4>1. KinIn(s, g) \subseteq Created
        BY <2>00 DEF TidyAt
      <4> QED BY <1>0, <3>2, <3>9, <4>1 DEF Tidy, StackType
    <3>11. Settles(s, m, {h})
      <4>1. Kept(m) \subseteq Kept(s) \union {h}
        <5>1. ASSUME NEW x \in m.hypos PROVE KinIn(m, x) \subseteq Kept(s) \union {h}
          <6>1. CASE x = h
            BY <1>1, <3>6, <6>1
          <6>2. CASE x # h
            <7>1. x \in s.hypos
              BY <3>2, <6>2
            <7> QED BY <3>6, <7>1, KeptIs
          <6> QED BY <6>1, <6>2
        <5> QED BY <5>1, KeptIs
      <4> QED BY <2>0, <2>00, <3>2, <4>1 DEF Settles
    <3>12. Tidy(t) /\ Settles(m, t, {})
      <4> HIDE DEF s1
      <4> QED BY <3>1, <3>10, AddedIsTidy DEF m
    <3> QED BY <3>11, <3>12, SettlesAdded DEF t
  <2>3. CASE ~(TotalScore(h) > TotalScore(g)) /\ conf.nBestSize > 0
    <3> DEFINE m == [s EXCEPT !.arcs[g] = Append(@, h)]
    <3>1. t = m
      BY <1>5, <2>3 DEF AddPrune
    <3> HIDE DEF t, g
    <3>2. /\ DOMAIN m = StackFields /\ m.hypos = s.hypos /\ m.freed = s.freed
          /\ m.arcs = [s.arcs EXCEPT ![g] = Append(s.arcs[g], h)]
      BY <1>0 DEF StackFields
    <3> HIDE DEF m
    <3>3. /\ m.arcs \in [Created -> Seq(Nat)] /\ m.arcs[g] = Append(s.arcs[g], h)
          /\ \A x \in Created : x # g => m.arcs[x] = s.arcs[x]
      <4>1. s.arcs[g] \in Seq(Nat) /\ h \in Nat
        BY <1>0, <2>0 DEF Created
      <4>2. Append(s.arcs[g], h) \in Seq(Nat)
        BY <4>1
      <4> QED BY <1>0, <2>0, <3>2, <4>2
    <3>4. ToSet(m.arcs[g]) = ToSet(s.arcs[g]) \union {h} /\ IsInjective(m.arcs[g])
      <4> DEFINE q == s.arcs[g]
      <4>1. q \in Seq(Nat) /\ h \in Nat
        BY <1>0, <2>0 DEF Created
      <4>2. h \notin ToSet(q)
        BY <2>00 DEF KinIn
      <4>3. IsInjective(q)
        BY <2>00 DEF TidyAt
      <4> HIDE DEF q
      <4>4. ToSet(Append(q, h)) = ToSet(q) \union {h}
        BY <4>1, ToSetAppend
      <4>5. \A i \in DOMAIN q : q[i] # h
        BY <4>2 DEF ToSet
      <4>6. IsInjective(Append(q, h))
        BY <4>1, <4>3, <4>5 DEF IsInjective
      <4> QED BY <3>3, <4>4, <4>6 DEF q
    <3>5. KinIn(m, g) = KinIn(s, g) \union {h}
      BY <3>4 DEF KinIn
    <3>6. \A x \in Created : x # g => KinIn(m, x) = KinIn(s, x)
      BY <3>3 DEF KinIn
    <3>8. \A x \in s.hypos : h \notin KinIn(s, x)
      BY KeptIs
    <3>9. ASSUME NEW x \in m.hypos PROVE TidyAt(m, x)
      <4>0. x \in s.hypos /\ x \in Created /\ TidyAt(s, x)
        BY <1>0, <3>2 DEF Tidy
      <4>1. CASE x = g
        <5>1. g \notin ToSet(m.arcs[g])
          BY <2>0, <2>00, <3>4 DEF TidyAt
        <5>2. \A a \in KinIn(m, g) : a \in Created /\ a \notin m.freed /\ heap[a].cov = heap[g].cov
          BY <2>0, <2>00, <3>2, <3>5 DEF TidyAt
        <5>3. ASSUME NEW y \in m.hypos, y # g PROVE KinIn(m, y) \intersect KinIn(m, g) = {}
          <6>1. y \in s.hypos /\ y \in Created
            BY <1>0, <3>2
          <6>2. KinIn(s, y) \intersect KinIn(s, g) = {} /\ h \notin KinIn(s, y)
            BY <2>00, <3>8, <5>3, <6>1 DEF TidyAt
          <6> QED BY <3>5, <3>6, <5>3, <6>1, <6>2
        <5> QED BY <3>4, <4>1, <5>1, <5>2, <5>3 DEF TidyAt
      <4>2. CASE x # g
        <5>1. KinIn(m, x) = KinIn(s, x) /\ m.arcs[x] = s.arcs[x]
          BY <3>3, <3>6, <4>0, <4>2
        <5>2. ASSUME NEW y \in m.hypos, y # x PROVE KinIn(m, y) \intersect KinIn(m, x) = {}
          <6>1. y \in s.hypos /\ y \in Created
            BY <1>0, <3>2
          <6>2. KinIn(s, y) \intersect KinIn(s, x) = {} /\ h \notin KinIn(s, x)
            BY <3>8, <4>0, <5>2, <6>1 DEF TidyAt
          <6> QED BY <3>5, <3>6, <5>1, <6>1, <6>2
        <5> QED BY <3>2, <4>0, <5>1, <5>2 DEF TidyAt
      <4> QED BY <4>1, <4>2
    <3>10. Tidy(m)
      BY <1>0, <3>2, <3>3, <3>9 DEF Tidy, StackType
    <3>11. Settles(s, m, {h})
      <4>1. Kept(m) \subseteq Kept(s) \union {h}
        <5>1. ASSUME NEW x \in m.hypos PROVE KinIn(m, x) \subseteq Kept(s) \union {h}
          BY <1>0, <2>00, <3>2, <3>5, <3>6, KeptIs
        <5> QED BY <5>1, KeptIs
      <4> QED BY <2>0, <3>2, <3>3, <4>1 DEF Settles
    <3> QED BY <3>1, <3>10, <3>11 DEF t
  <2>4. CASE ~(TotalScore(h) > TotalScore(g)) /\ ~(conf.nBestSize > 0)
    <3>1. t = Free(s, {h})
      BY <1>5, <2>4 DEF AddPrune
    <3> HIDE DEF t
    <3> QED BY <1>2, <3>1 DEF t
  <2> QED BY <2>1, <2>2, <2>3, <2>4
<1> QED BY <1>3, <1>4, <1>5

\* A sequence without repetitions has as many members as elements.
LEMMA MembersOf ==
  ASSUME NEW q \in Seq(Nat)
  PROVE  /\ IsFiniteSet(ToSet(q)) /\ ToSet(q) \subseteq Nat
         /\ IsInjective(q) => Cardinality(ToSet(q)) = Len(q)
<1>1. DOMAIN q = 1..Len(q) /\ Len(q) \in Nat /\ q \in [1..Len(q) -> Nat]
  OBVIOUS
<1>2. q \in [1..Len(q) -> ToSet(q)] /\ \A y \in ToSet(q) : \E i \in 1..Len(q) : q[i] = y
  BY <1>1 DEF ToSet
<1>3. q \in Surjection(1..Len(q), ToSet(q))
  BY <1>2 DEF Surjection
<1>4. IsFiniteSet(1..Len(q)) /\ Cardinality(1..Len(q)) = Len(q)
  <2>1. PICK n \in Nat : n = Len(q)
    BY <1>1
  <2>2. IsFiniteSet(1..n) /\ Cardinality(1..n) = IF 1 > n THEN 0 ELSE n - 1 + 1
    BY FS_Interval
  <2>3. Cardinality(1..n) = n
    BY <2>2
  <2> QED BY <2>1, <2>2, <2>3
<1>5. IsFiniteSet(ToSet(q))
  BY <1>3, <1>4, FS_Surjection
<1>6. IsInjective(q) => q \in Injection(1..Len(q), ToSet(q))
  BY <1>1, <1>2 DEF Injection, IsInjective
<1>7. IsInjective(q) => Cardinality(ToSet(q)) = Len(q)
  BY <1>3, <1>4, <1>6, FS_Surjection
<1>8. ToSet(q) \subseteq Nat
  BY <1>1 DEF ToSet
<1> QED BY <1>5, <1>7, <1>8

\* Cut down to the best ones, the arcs are some of those there were.
LEMMA CutArcs ==
  ASSUME conf \in Settings, heap \in Seq(HypoType), NEW q \in Seq(Nat), ToSet(q) \subseteq Created,
         IsInjective(q), Len(q) > conf.nBestSize * conf.arcFactor
  PROVE  /\ SubSeq(SortedBy(ToSet(q), TotalScore), 1, conf.nBestSize) \in Seq(Nat)
         /\ ToSet(SubSeq(SortedBy(ToSet(q), TotalScore), 1, conf.nBestSize)) \subseteq ToSet(q)
         /\ IsInjective(SubSeq(SortedBy(ToSet(q), TotalScore), 1, conf.nBestSize))
<1> DEFINE T == ToSet(q)
           sorted == SortedBy(T, TotalScore)
           n == conf.nBestSize
           kept == SubSeq(sorted, 1, n)
<1>1. IsFiniteSet(T) /\ T \subseteq Int /\ Cardinality(T) = Len(q) /\ T \subseteq Nat
  BY MembersOf
<1>2. \A h \in T : TotalScore(h) \in Int
  BY HypoIs
<1>3. sorted \in Seq(T) /\ Len(sorted) = Len(q) /\ IsInjective(sorted)
  <2> HIDE DEF T
  <2> QED BY <1>1, <1>2, SortedByTotal
<1>4. n \in Nat /\ n <= Len(q)
  <2>1. PICK a \in Nat, b \in Nat \ {0} : conf.nBestSize = a /\ conf.arcFactor = b
    BY SettingsType
  <2>2. a <= a * b
    BY <2>1
  <2>3. a * b \in Nat /\ Len(q) \in Nat
    BY <2>1
  <2>4. Len(q) > a * b
    BY <2>1
  <2>5. a <= Len(q)
    BY <2>2, <2>3, <2>4
  <2> QED BY <2>1, <2>5
<1> HIDE DEF sorted, n, T
<1>5. kept = [i \in 1..n |-> sorted[i]] /\ Len(sorted) \in Nat /\ DOMAIN sorted = 1..Len(sorted)
  BY <1>3, <1>4
<1>6. \A i \in 1..n : i \in DOMAIN sorted /\ sorted[i] \in T
  BY <1>3, <1>4, <1>5
<1>7. DOMAIN kept = 1..n /\ \A i \in 1..n : kept[i] = sorted[i] /\ kept[i] \in T
  BY <1>5, <1>6
<1>8. kept \in Seq(T)
  BY <1>4, <1>5, <1>6
<1> HIDE DEF kept
<1>9. kept \in Seq(Nat)
  <2>1. kept \in [1..n -> Nat]
    BY <1>1, <1>5, <1>6 DEF kept
  <2> QED BY <1>4, <2>1
<1>10. ToSet(kept) \subseteq T
  BY <1>7 DEF ToSet
<1>11. IsInjective(kept)
  BY <1>3, <1>6, <1>7 DEF IsInjective
<1> QED BY <1>9, <1>10, <1>11 DEF kept, sorted, n, T

LEMMA CleanedIsTidy ==
  ASSUME conf \in Settings, heap \in Seq(HypoType), NEW s, Tidy(s)
  PROVE  Tidy(CleanupArcList(s)) /\ Settles(s, CleanupArcList(s), {})
<1> DEFINE t == CleanupArcList(s)
           many(h) == /\ conf.nBestSize > 0 /\ ~conf.distinct
                      /\ Len(s.arcs[h]) > conf.nBestSize * conf.arcFactor
           kept(h) == SubSeq(SortedBy(ToSet(s.arcs[h]), TotalScore), 1, conf.nBestSize)
           cut == {h \in s.hypos : many(h)}
<1>0. /\ DOMAIN s = StackFields /\ s.hypos \subseteq Created
      /\ s.arcs \in [Created -> Seq(Nat)] /\ s.freed \subseteq Created
  BY DEF Tidy, StackType
<1>1. /\ DOMAIN t = StackFields /\ t.hypos = s.hypos
      /\ t.freed = s.freed \union UNION {ToSet(s.arcs[h]) \ ToSet(kept(h)) : h \in cut}
      /\ t.arcs = [h \in Created |-> IF h \in cut THEN kept(h) ELSE s.arcs[h]]
  <2>1. DOMAIN s.arcs = Created
    BY <1>0
  <2>2. t = [s EXCEPT !.freed = @ \union UNION {ToSet(s.arcs[h]) \ ToSet(kept(h)) : h \in cut},
                      !.arcs = [h \in DOMAIN s.arcs |-> IF h \in cut THEN kept(h) ELSE s.arcs[h]]]
    BY DEF CleanupArcList
  <2> HIDE DEF t, kept, cut
  <2> QED BY <1>0, <2>1, <2>2 DEF StackFields
<1>2. ASSUME NEW h \in cut
      PROVE  kept(h) \in Seq(Nat) /\ ToSet(kept(h)) \subseteq ToSet(s.arcs[h]) /\ IsInjective(kept(h))
  <2>1. h \in s.hypos /\ h \in Created /\ Len(s.arcs[h]) > conf.nBestSize * conf.arcFactor
    BY <1>0
  <2>2. s.arcs[h] \in Seq(Nat) /\ TidyAt(s, h)
    BY <1>0, <2>1 DEF Tidy
  <2>3. ToSet(s.arcs[h]) \subseteq Created /\ IsInjective(s.arcs[h])
    BY <2>2 DEF TidyAt, KinIn
  <2> QED BY <2>1, <2>2, <2>3, CutArcs
<1>3. cut \subseteq s.hypos
  OBVIOUS
<1> HIDE DEF t, kept, cut
<1>4. /\ t.arcs \in [Created -> Seq(Nat)]
      /\ \A h \in Created : t.arcs[h] = IF h \in cut THEN kept(h) ELSE s.arcs[h]
  BY <1>0, <1>1, <1>2
<1>5. \A h \in Created : KinIn(t, h) \subseteq KinIn(s, h)
  BY <1>2, <1>4 DEF KinIn
<1>6. \A h \in Created : h \notin cut => t.arcs[h] = s.arcs[h]
  BY <1>4
<1>7. \A x \in t.freed : x \in s.freed \/ \E h \in cut : x \in ToSet(s.arcs[h]) /\ x \notin ToSet(t.arcs[h])
  BY <1>0, <1>1, <1>3, <1>4
<1>8. ASSUME NEW h \in s.hypos PROVE TidyAt(t, h)
  <2>1. h \in Created /\ TidyAt(s, h)
    BY <1>0 DEF Tidy
  <2>2. h \notin ToSet(t.arcs[h]) /\ IsInjective(t.arcs[h])
    BY <1>2, <1>4, <2>1 DEF TidyAt
  <2>3. ASSUME NEW a \in KinIn(t, h) PROVE a \in Created /\ a \notin t.freed /\ heap[a].cov = heap[h].cov
    <3>1. a \in KinIn(s, h)
      BY <1>5, <2>1
    <3>2. a \in Created /\ a \notin s.freed /\ heap[a].cov = heap[h].cov
      BY <2>1, <3>1 DEF TidyAt
    <3>3. ASSUME NEW g \in cut, a \in ToSet(s.arcs[g]), a \notin ToSet(t.arcs[g]) PROVE FALSE
      <4>1. g \in s.hypos /\ a \in KinIn(s, g)
        BY <1>3, <3>3 DEF KinIn
      <4>2. g = h
        BY <2>1, <3>1, <4>1 DEF TidyAt
      <4>3. a = h
        BY <3>3, <4>2 DEF KinIn
      <4> QED BY <2>1, <3>3, <4>2, <4>3 DEF TidyAt
    <3> QED BY <1>7, <3>2, <3>3
  <2>4. ASSUME NEW g \in t.hypos, g # h PROVE KinIn(t, g) \intersect KinIn(t, h) = {}
    <3>1. g \in s.hypos /\ g \in Created
      BY <1>0, <1>1
    <3>2. KinIn(s, g) \intersect KinIn(s, h) = {}
      BY <2>1, <2>4, <3>1 DEF TidyAt
    <3> QED BY <1>5, <2>1, <3>1, <3>2
  <2> QED BY <2>2, <2>3, <2>4 DEF TidyAt
<1>9. t.freed \subseteq s.freed \union Kept(s)
  <2>1. \A h \in cut : ToSet(s.arcs[h]) \subseteq Kept(s)
    BY <1>3, KeptIs DEF KinIn
  <2> QED BY <1>7, <2>1
<1>10. Kept(s) \subseteq Created
  <2>1. \A x \in Kept(s) : \E h \in s.hypos : x \in KinIn(s, h)
    BY KeptIs
  <2> QED BY <2>1 DEF Tidy, TidyAt
<1>11. Tidy(t)
  <2>1. t.freed \subseteq Created
    BY <1>0, <1>9, <1>10
  <2> QED BY <1>0, <1>1, <1>4, <1>8, <2>1 DEF Tidy, StackType
<1>12. Settles(s, t, {})
  <2>1. Kept(t) \subseteq Kept(s)
    <3>1. \A x \in Kept(t) : \E h \in t.hypos : x \in KinIn(t, h)
      BY KeptIs
    <3> QED BY <1>0, <1>1, <1>5, <3>1, KeptIs
  <2>2. \A g \in Created : g \notin s.hypos => t.arcs[g] = s.arcs[g]
    BY <1>3, <1>6
  <2> QED BY <1>1, <1>9, <2>1, <2>2 DEF Settles
<1> QED BY <1>11, <1>12 DEF t

-----------------------------------------------------------------------------
(* Containers.  Their edges start from hypotheses of the stacks before.          *)

Fields == {"hypotheses", "edges", "queue", "seen", "insertions"}

\* The hypotheses of a stack with one coverage.
Covering(hypos, b) == {h \in hypos : heap[h].cov = b}

\* An edge from b to c, of a container of cont: st are the stacks, and those below
\* n are final.
EdgeOK(cont, st, n, c, b) ==
  /\ b \in Coverages /\ Cardinality(b) < n
  /\ \E span \in DOMAIN conf.options : c \ b = span[1]..span[2]
  /\ Translations(b, c) # <<>>
  /\ cont[c].edges[b] \in Seq(Covering(st[Cardinality(b)], b))

EdgesFrom(cont, st, n) ==
  /\ DOMAIN cont \subseteq Coverages
  /\ \A c \in DOMAIN cont : /\ DOMAIN cont[c] = Fields
                            /\ \A b \in DOMAIN cont[c].edges : EdgeOK(cont, st, n, c, b)

LEMMA HyposFinite ==
  ASSUME heap \in Seq(HypoType), NEW S \in SUBSET Created
  PROVE  IsFiniteSet(S) /\ S \subseteq Int
<1>1. Len(heap) \in Nat
  <2> HIDE DEF HypoType
  <2> QED OBVIOUS
<1>2. IsFiniteSet(Created) /\ Created \subseteq Int
  BY <1>1, FS_Interval DEF Created
<1> QED BY <1>2, FS_Subset

\* They in the order a container has them.
Own(hypos, b) == SortedBy({h \in hypos : heap[h].cov = b}, TotalScore)

LEMMA OwnHypotheses ==
  ASSUME heap \in Seq(HypoType), NEW hypos \in SUBSET Created, NEW b
  PROVE  Own(hypos, b) \in Seq(Covering(hypos, b))
<1> DEFINE S == {h \in hypos : heap[h].cov = b}
<1>1. S \in SUBSET Created
  OBVIOUS
<1>2. \A h \in S : TotalScore(h) \in Int
  BY HypoIs
<1>3. S = Covering(hypos, b)
  BY DEF Covering
<1> HIDE DEF S
<1>4. IsFiniteSet(S) /\ S \subseteq Int
  BY <1>1, HyposFinite
<1>5. SortedBy(S, TotalScore) \in Seq(S)
  BY <1>2, <1>4, SortedByTotal
<1> QED BY <1>3, <1>5 DEF S, Own

\* An edge starts from some of the hypotheses it is offered.
LEMMA EdgeHypothesesAre ==
  ASSUME conf \in Settings, heap \in Seq(HypoType), NEW S \in SUBSET Created,
         NEW hypos \in Seq(S), NEW start \in Int
  PROVE  EdgeHypotheses(hypos, start) \in Seq(S)
<1>1. CASE conf.maxDistortion < 0
  BY <1>1 DEF EdgeHypotheses
<1>2. CASE ~(conf.maxDistortion < 0)
  <2> DEFINE T == {h \in ToSet(hypos) :
                     DistortionDistance(heap[h].end, start) <= conf.maxDistortion}
  <2>2. T \subseteq S
    BY DEF ToSet
  <2>3. \A h \in T : heap[h].score - conf.weightDistortion
                        * DistortionDistance(heap[h].end, start) \in Int
    <3>1. ASSUME NEW h \in T
          PROVE  heap[h].score - conf.weightDistortion
                   * DistortionDistance(heap[h].end, start) \in Int
      <4>1. h \in Created
        BY <2>2
      <4>2. heap[h].score \in Int /\ DistortionDistance(heap[h].end, start) \in Int
            /\ conf.weightDistortion \in Nat
        BY <4>1, HypoIs, DistanceType, SettingsType
      <4>3. PICK a \in Int, w \in Int, d \in Int :
              heap[h].score = a /\ conf.weightDistortion = w
              /\ DistortionDistance(heap[h].end, start) = d
        BY <4>2
      <4>4. w * d \in Int
        BY <4>3
      <4>5. a - w * d \in Int
        BY <4>3, <4>4
      <4> QED BY <4>3, <4>5
    <3> QED BY <3>1
  <2>4. IsFiniteSet(T) /\ T \subseteq Int
    <3> HIDE DEF T
    <3> QED BY <2>2, HyposFinite
  <2>5. EdgeHypotheses(hypos, start) \in Seq(T)
    BY <1>2, <2>3, <2>4, SortedByEdge
  <2> HIDE DEF T
  <2> QED BY <2>2, <2>5
<1> QED BY <1>1, <1>2

\* Once stack n is done, the forward edges from it are made; all else stays.
LEMMA ForwardTodosAre ==
  ASSUME conf \in Settings, heap \in Seq(HypoType), NEW n \in 0..Size,
         NEW st \in [0..Size -> SUBSET Created], EdgesFrom(container, st, n)
  PROVE  /\ EdgesFrom(ForwardTodos(n, st[n]), st, n + 1)
         /\ \A c \in DOMAIN ForwardTodos(n, st[n]) :
              ForwardTodos(n, st[n])[c].queue =
                IF c \in DOMAIN container THEN container[c].queue ELSE {}
         /\ \A c \in DOMAIN container :
              /\ c \in DOMAIN ForwardTodos(n, st[n])
              /\ \A b \in DOMAIN container[c].edges :
                   /\ b \in DOMAIN ForwardTodos(n, st[n])[c].edges
                   /\ ForwardTodos(n, st[n])[c].edges[b] = container[c].edges[b]
         /\ \A c \in DOMAIN ForwardTodos(n, st[n]) :
              \A b \in DOMAIN ForwardTodos(n, st[n])[c].edges :
                \/ c \in DOMAIN container /\ b \in DOMAIN container[c].edges
                \/ ForwardTodos(n, st[n])[c].edges[b] =
                     EdgeHypotheses(Own(st[n], b), Lowest(c \ b))
<1> DEFINE hypos == st[n]
           own(c) == Own(hypos, c)
           live == {c \in DOMAIN container : Cardinality(c) = n /\ own(c) # <<>>}
           reach(c) == {c \union (span[1]..span[2]) : span \in
                          {sp \in DOMAIN conf.options :
                             /\ conf.options[sp] # <<>>
                             /\ (sp[1]..sp[2]) \intersect c = {}
                             /\ CheckDistortion(c, sp)}}
           all == DOMAIN container \union UNION {reach(c) : c \in live}
           old(c) == IF c \in DOMAIN container THEN container[c] ELSE NoContainer
           from(d) == {c \in live : d \in reach(c)}
           edges(c) == [b \in DOMAIN old(c).edges \union from(c) |->
                          IF b \in from(c) THEN EdgeHypotheses(own(b), Lowest(c \ b))
                                           ELSE old(c).edges[b]]
           F == ForwardTodos(n, st[n])
<1>1. F = [c \in all |->
             [old(c) EXCEPT !.hypotheses = IF c \in live THEN own(c) ELSE @,
                            !.edges = edges(c)]]
  BY DEF ForwardTodos, Own
<1> HIDE DEF F
<1>2. \A c \in all : DOMAIN old(c) = Fields
  <2>1. DOMAIN NoContainer = Fields
    BY DEF NoContainer, Fields
  <2>2. \A c \in DOMAIN container : DOMAIN container[c] = Fields
    BY DEF EdgesFrom
  <2> QED BY <2>1, <2>2
<1>3. /\ DOMAIN F = all
      /\ \A c \in all : DOMAIN F[c] = Fields /\ F[c].edges = edges(c) /\ F[c].queue = old(c).queue
  <2> HIDE DEF all, old, own, live, edges
  <2> QED BY <1>1, <1>2 DEF Fields
\* the new edges
<1>4. ASSUME NEW c, NEW b \in from(c)
      PROVE  /\ b \in live /\ b \in Coverages /\ Cardinality(b) = n /\ c \in Coverages
             /\ \E span \in DOMAIN conf.options : /\ c \ b = span[1]..span[2]
                                                  /\ conf.options[span] # <<>>
  <2>1. b \in live /\ c \in reach(b)
    OBVIOUS
  <2>2. b \in Coverages /\ Cardinality(b) = n
    BY <2>1 DEF EdgesFrom
  <2>3. PICK span \in DOMAIN conf.options : /\ conf.options[span] # <<>>
                                            /\ (span[1]..span[2]) \intersect b = {}
                                            /\ c = b \union (span[1]..span[2])
    BY <2>1
  <2>4. c \ b = span[1]..span[2]
    BY <2>3
  <2>5. span[1]..span[2] \subseteq 0..Size - 1
    <3>1. span \in Cells /\ Size \in Nat
      BY SettingsType
    <3>2. span[1] \in 0..Size - 1 /\ span[2] \in 0..Size - 1
      BY <3>1 DEF Cells
    <3> QED BY <3>1, <3>2
  <2>6. c \in Coverages
    BY <2>2, <2>3, <2>5 DEF Coverages
  <2> QED BY <2>1, <2>2, <2>3, <2>4, <2>6
<1>5. ASSUME NEW c, NEW b \in from(c)
      PROVE  EdgeHypotheses(own(b), Lowest(c \ b)) \in Seq(Covering(st[n], b))
  <2>1. own(b) \in Seq(Covering(st[n], b))
    BY OwnHypotheses
  <2>2. Lowest(c \ b) \in Int
    <3> DEFINE new == c \ b
    <3>1. c \in Coverages
      BY <1>4
    <3>2. new \subseteq Nat
      BY <3>1, CoverageIs
    <3>3. PICK span \in DOMAIN conf.options : new = span[1]..span[2]
      BY <1>4
    <3>4. span[1] \in Int /\ span[2] \in Int /\ span[1] <= span[2]
      BY SettingsType DEF Cells
    <3>5. new # {}
      <4>1. span[1] \in span[1]..span[2]
        BY <3>4
      <4> QED BY <3>3, <4>1
    <3> HIDE DEF new
    <3>6. Lowest(new) \in new
      BY <3>2, <3>5, LowestIs
    <3> QED BY <3>2, <3>6 DEF new
  <2>3. Covering(st[n], b) \subseteq Created
    BY DEF Covering
  <2> HIDE DEF own
  <2> QED BY <2>1, <2>2, <2>3, EdgeHypothesesAre
<1>6. ASSUME NEW c \in DOMAIN container, NEW b \in DOMAIN container[c].edges
      PROVE  EdgeOK(container, st, n, c, b) /\ b \notin from(c)
  <2>1. EdgeOK(container, st, n, c, b)
    BY DEF EdgesFrom
  <2>2. b \in Coverages /\ Cardinality(b) < n
    BY <2>1 DEF EdgeOK
  <2>3. b \in from(c) => Cardinality(b) = n
    BY <1>4
  <2>4. n \in Int
    BY SettingsType
  <2> HIDE DEF from
  <2> QED BY <2>1, <2>2, <2>3, <2>4
<1>7. \A c \in DOMAIN container : old(c) = container[c]
  OBVIOUS
<1>8. ASSUME NEW c \in all, c \notin DOMAIN container
      PROVE  DOMAIN old(c).edges = {} /\ old(c).queue = {} /\ c \in Coverages
  <2>1. old(c) = NoContainer
    BY <1>8
  <2>2. \E b \in live : c \in reach(b)
    BY <1>8
  <2>3. \E b : b \in from(c)
    <3> HIDE DEF live, reach
    <3> QED BY <2>2
  <2>4. c \in Coverages
    <3> HIDE DEF from
    <3> QED BY <1>4, <2>3
  <2> QED BY <2>1, <2>4 DEF NoContainer
<1>9. ASSUME NEW c \in all PROVE c \in Coverages
  BY <1>8 DEF EdgesFrom
<1> HIDE DEF own, live, reach, all, old, from
<1>10. ASSUME NEW c \in all, NEW b \in DOMAIN edges(c) PROVE EdgeOK(F, st, n + 1, c, b)
  <2>0. n \in Int
    BY SettingsType
  <2>1. b \in DOMAIN old(c).edges \union from(c) /\ F[c].edges[b] = edges(c)[b]
    BY <1>3
  <2>2. CASE b \in from(c)
    <3>1. F[c].edges[b] = EdgeHypotheses(own(b), Lowest(c \ b))
      BY <2>1, <2>2
    <3>2. F[c].edges[b] \in Seq(Covering(st[Cardinality(b)], b))
      BY <1>4, <1>5, <2>2, <3>1
    <3>3. PICK span \in DOMAIN conf.options : c \ b = span[1]..span[2] /\ conf.options[span] # <<>>
      BY <1>4, <2>2
    <3>4. Translations(b, c) # <<>>
      BY <3>3, TranslationsOfSpan
    <3>5. b \in Coverages /\ Cardinality(b) < n + 1
      BY <1>4, <2>0, <2>2
    <3> QED BY <3>2, <3>3, <3>4, <3>5 DEF EdgeOK
  <2>3. CASE b \notin from(c)
    <3>1. c \in DOMAIN container /\ b \in DOMAIN container[c].edges
      BY <1>7, <1>8, <2>1, <2>3
    <3>2. F[c].edges[b] = container[c].edges[b]
      BY <1>7, <2>1, <2>3, <3>1
    <3>3. EdgeOK(container, st, n, c, b)
      BY <1>6, <3>1
    <3>4. Cardinality(b) < n + 1
      <4>1. Cardinality(b) \in Int
        BY <3>3, CoverageIs, SettingsType DEF EdgeOK
      <4> QED BY <2>0, <3>3, <4>1 DEF EdgeOK
    <3> QED BY <3>2, <3>3, <3>4 DEF EdgeOK
  <2> QED BY <2>2, <2>3
<1>11. EdgesFrom(F, st, n + 1)
  <2> HIDE DEF edges
  <2> QED BY <1>3, <1>9, <1>10 DEF EdgesFrom
<1>12. \A c \in DOMAIN F : F[c].queue = IF c \in DOMAIN container THEN container[c].queue ELSE {}
  BY <1>3, <1>7, <1>8
<1>13. DOMAIN container \subseteq DOMAIN F
  BY <1>3 DEF all
<1>14. ASSUME NEW c \in DOMAIN container, NEW b \in DOMAIN container[c].edges
       PROVE  b \in DOMAIN F[c].edges /\ F[c].edges[b] = container[c].edges[b]
  <2>1. c \in all /\ b \notin from(c) /\ old(c) = container[c]
    BY <1>3, <1>6, <1>7, <1>13
  <2>2. F[c].edges = edges(c)
    BY <1>3, <2>1
  <2>3. b \in DOMAIN edges(c) /\ edges(c)[b] = old(c).edges[b]
    BY <2>1
  <2> QED BY <2>1, <2>2, <2>3
<1>15. ASSUME NEW c \in DOMAIN F, NEW b \in DOMAIN F[c].edges
       PROVE  \/ c \in DOMAIN container /\ b \in DOMAIN container[c].edges
              \/ F[c].edges[b] = EdgeHypotheses(own(b), Lowest(c \ b))
  <2>1. b \in DOMAIN old(c).edges \union from(c) /\ F[c].edges[b] = edges(c)[b] /\ c \in all
    BY <1>3
  <2>2. CASE b \in from(c)
    BY <2>1, <2>2
  <2>3. CASE b \notin from(c)
    BY <1>7, <1>8, <2>1, <2>3
  <2> QED BY <2>2, <2>3
<1>16. \A c \in DOMAIN F : \A b \in DOMAIN F[c].edges :
         \/ c \in DOMAIN container /\ b \in DOMAIN container[c].edges
         \/ F[c].edges[b] = EdgeHypotheses(Own(st[n], b), Lowest(c \ b))
  BY <1>15 DEF own
<1> QED BY <1>11, <1>12, <1>13, <1>14, <1>16 DEF F

-----------------------------------------------------------------------------
(* The parts of the invariant.  A heap hp, the stacks st and what has been freed *)
(* fr are parameters, so that they can be those before a step or after it.       *)

KinOf(hp, h) == {h} \union ToSet(hp[h].arcs)

\* A hypothesis keeps arcs of its own coverage, and no two share one.
StackOK(hp, st, fr, n) ==
  \A h \in st[n] :
    /\ Cardinality(hp[h].cov) = n
    /\ h \notin ToSet(hp[h].arcs) /\ IsInjective(hp[h].arcs)
    /\ \A a \in KinOf(hp, h) : a \in 1..Len(hp) /\ a \notin fr /\ hp[a].cov = hp[h].cov
    /\ \A g \in st[n] : g # h => KinOf(hp, g) \intersect KinOf(hp, h) = {}

Stacked(hp, st, fr) ==
  /\ st \in [0..Size -> SUBSET (1..Len(hp))] /\ fr \subseteq 1..Len(hp)
  /\ \A n \in 0..Size : StackOK(hp, st, fr, n)

\* Hypothesis h extends one that is still in a stack below n.
RootedAt(hp, st, n, h) ==
  hp[h].prev # 0 =>
    /\ hp[h].prev \in 1..Len(hp)
    /\ Cardinality(hp[hp[h].prev].cov) < n
    /\ hp[h].prev \in st[Cardinality(hp[hp[h].prev].cov)]

Rooted(hp, st, n) == \A h \in 1..Len(hp) : RootedAt(hp, st, n, h)

\* A hypothesis waiting in a queue of container c is in no stack yet.
Fresh(hp, st, fr, c, h) ==
  /\ h \in 1..Len(hp) /\ h \notin fr /\ hp[h].cov = c /\ hp[h].arcs = <<>>
  /\ \A g \in st[Cardinality(c)] : h \notin KinOf(hp, g)

ItemOK(cont, c, item) ==
  /\ item.x \in Nat \ {0} /\ item.y \in Nat \ {0} /\ item.from \in DOMAIN cont[c].edges
  /\ item.x <= Len(cont[c].edges[item.from])
  /\ item.y <= Len(Translations(item.from, c))

QueueOK(cont, hp, st, fr, c) ==
  \A item \in cont[c].queue :
    /\ ItemOK(cont, c, item) /\ Fresh(hp, st, fr, c, item.hypo)
    /\ \A other \in cont[c].queue : other.hypo = item.hypo => other = item

Queued(cont, hp, st, fr) == \A c \in DOMAIN cont : QueueOK(cont, hp, st, fr, c)

Position ==
  /\ conf \in Settings /\ stackNo \in 0..Size + 1
  /\ pc = "first" => stackNo = 0
  /\ pc = "stack" => stackNo > 0
  /\ pc \in {"pop", "ensure"} => stackNo \in 1..Size
  /\ pc = "pop" => queue \subseteq Containers(stackNo)

GraphInv ==
  /\ heap \in Seq(HypoType)
  /\ Rooted(heap, stack, stackNo)
  /\ Stacked(heap, stack, freed)
  /\ EdgesFrom(container, stack, stackNo)
  /\ Queued(container, heap, stack, freed)

CubeInv == Position /\ GraphInv

-----------------------------------------------------------------------------
\* What was created keeps where it ends and what it is worth.
SameScores(hp) ==
  \A h \in Created : /\ hp[h].cov = heap[h].cov /\ hp[h].end = heap[h].end
                    /\ hp[h].score = heap[h].score /\ hp[h].total = heap[h].total

\* A step of a stack changes arcs in the heap and adds hypotheses to it.
LEMMA HeapAfterIs ==
  ASSUME heap \in Seq(HypoType), NEW t, t.arcs \in [Created -> Seq(Nat)], NEW new \in Seq(HypoType)
  PROVE  /\ HeapAfter(t, new) \in Seq(HypoType)
         /\ Len(HeapAfter(t, new)) = Len(heap) + Len(new)
         /\ \A h \in Created : /\ HeapAfter(t, new)[h].cov = heap[h].cov
                             /\ HeapAfter(t, new)[h].prev = heap[h].prev
                             /\ HeapAfter(t, new)[h].arcs = t.arcs[h]
         /\ \A i \in 1..Len(new) : HeapAfter(t, new)[Len(heap) + i] = new[i]
         /\ Created \subseteq 1..Len(HeapAfter(t, new))
         /\ SameScores(HeapAfter(t, new))
<1> DEFINE old == [h \in 1..Len(heap) |-> WithArcs(h, t.arcs[h])]
           hp == HeapAfter(t, new)
<1>1. ASSUME NEW h \in Created
      PROVE  /\ WithArcs(h, t.arcs[h]) \in HypoType
             /\ WithArcs(h, t.arcs[h]).cov = heap[h].cov
             /\ WithArcs(h, t.arcs[h]).prev = heap[h].prev
             /\ WithArcs(h, t.arcs[h]).arcs = t.arcs[h]
             /\ WithArcs(h, t.arcs[h]).end = heap[h].end
             /\ WithArcs(h, t.arcs[h]).score = heap[h].score
             /\ WithArcs(h, t.arcs[h]).total = heap[h].total
  <2>1. heap[h] \in HypoType
    BY HypoIs
  <2>2. t.arcs[h] \in Seq(Nat)
    OBVIOUS
  <2> QED BY <2>1, <2>2 DEF WithArcs, HypoType
<1>2. Len(heap) \in Nat
  OBVIOUS
<1>3. old \in [1..Len(heap) -> HypoType]
  BY <1>1 DEF Created
<1>4. old \in Seq(HypoType) /\ Len(old) = Len(heap)
  <2> HIDE DEF old
  <2> QED BY <1>2, <1>3, FunctionIsSeq
<1>5. hp = old \o new
  BY DEF HeapAfter
<1>6. \A h \in Created : old[h] = WithArcs(h, t.arcs[h])
  BY DEF Created
<1> DEFINE R == HypoType
<1>7. /\ hp \in Seq(R) /\ Len(hp) = Len(old) + Len(new)
      /\ \A h \in 1..Len(old) : hp[h] = old[h]
      /\ \A i \in 1..Len(new) : hp[Len(old) + i] = new[i]
  <2>1. old \in Seq(R) /\ new \in Seq(R)
    BY <1>4
  <2> HIDE DEF old, R, hp
  <2> QED BY <1>5, <2>1
<1>8. \A h \in Created : hp[h] = WithArcs(h, t.arcs[h])
  <2> HIDE DEF old, hp
  <2> QED BY <1>4, <1>6, <1>7 DEF Created
<1>9. Created \subseteq 1..Len(hp)
  <2> HIDE DEF old, hp
  <2>1. Len(new) \in Nat
    OBVIOUS
  <2> QED BY <1>2, <1>4, <1>7, <2>1 DEF Created
<1> HIDE DEF old, hp
<1>10. \A h \in Created : /\ hp[h].cov = heap[h].cov /\ hp[h].prev = heap[h].prev
                        /\ hp[h].arcs = t.arcs[h]
  BY <1>1, <1>8
<1>11. SameScores(hp)
  BY <1>1, <1>8 DEF SameScores
<1> QED BY <1>4, <1>7, <1>9, <1>10, <1>11 DEF hp, R

\* The stack in hand is tidy, all of it covers as many words.
LEMMA StackNowIsTidy ==
  ASSUME conf \in Settings, heap \in Seq(HypoType), Stacked(heap, stack, freed), NEW n \in 0..Size
  PROVE  /\ Tidy(StackNow(n)) /\ StackNow(n).hypos = stack[n] /\ StackNow(n).freed = freed
         /\ \A h \in Created : StackNow(n).arcs[h] = heap[h].arcs
         /\ \A h : KinIn(StackNow(n), h) = IF h \in Created THEN KinOf(heap, h) ELSE KinIn(StackNow(n), h)
         /\ \A a \in Kept(StackNow(n)) : a \in Created /\ Cardinality(heap[a].cov) = n
<1> DEFINE s == StackNow(n)
<1>1. /\ DOMAIN s = StackFields /\ s.hypos = stack[n] /\ s.freed = freed
      /\ s.arcs = [h \in Created |-> heap[h].arcs]
  BY DEF StackNow, StackFields, Created
<1> HIDE DEF s
<1>2. \A h \in Created : s.arcs[h] = heap[h].arcs
  BY <1>1
<1>3. \A h \in Created : heap[h].arcs \in Seq(Nat)
  BY HypoIs
<1>4. StackType(s)
  <2>1. s.hypos \subseteq Created /\ s.freed \subseteq Created
    BY <1>1 DEF Stacked, Created
  <2>2. s.arcs \in [Created -> Seq(Nat)]
    BY <1>1, <1>3
  <2> QED BY <1>1, <2>1, <2>2 DEF StackType
<1>5. \A h \in Created : KinIn(s, h) = KinOf(heap, h)
  BY <1>2 DEF KinIn, KinOf
<1>6. s.hypos \subseteq Created
  BY <1>4 DEF StackType
<1>7. ASSUME NEW h \in s.hypos PROVE TidyAt(s, h) /\ Cardinality(heap[h].cov) = n
  <2>1. h \in stack[n] /\ h \in Created
    BY <1>1, <1>6
  <2>2. StackOK(heap, stack, freed, n)
    BY DEF Stacked
  <2>3. /\ Cardinality(heap[h].cov) = n
        /\ h \notin ToSet(heap[h].arcs) /\ IsInjective(heap[h].arcs)
        /\ \A a \in KinOf(heap, h) : a \in 1..Len(heap) /\ a \notin freed /\ heap[a].cov = heap[h].cov
        /\ \A g \in stack[n] : g # h => KinOf(heap, g) \intersect KinOf(heap, h) = {}
    BY <2>1, <2>2 DEF StackOK
  <2>4. \A g \in s.hypos : g # h => KinIn(s, g) \intersect KinIn(s, h) = {}
    BY <1>1, <1>5, <1>6, <2>1, <2>3
  <2>5. h \notin ToSet(s.arcs[h]) /\ IsInjective(s.arcs[h])
    BY <1>2, <2>1, <2>3
  <2>6. \A a \in KinIn(s, h) : a \in Created /\ a \notin s.freed /\ heap[a].cov = heap[h].cov
    BY <1>1, <1>5, <2>1, <2>3 DEF Created
  <2> QED BY <2>3, <2>4, <2>5, <2>6 DEF TidyAt
<1>8. Tidy(s)
  BY <1>4, <1>7 DEF Tidy
<1>9. \A a \in Kept(s) : a \in Created /\ Cardinality(heap[a].cov) = n
  BY <1>7, KeptIs DEF TidyAt
<1> QED BY <1>1, <1>2, <1>5, <1>8, <1>9 DEF s

-----------------------------------------------------------------------------
(* What a step does to the stack n, from what it may do to the stack in hand: t  *)
(* is the stack after it, X what it has put into it, new what it has created.    *)
StepOf(n, t, X, new) ==
  /\ Tidy(t) /\ X \subseteq Created /\ Settles(StackNow(n), t, X)
  /\ \A x \in X : Cardinality(heap[x].cov) = n
  /\ new \in Seq(HypoType)

StackAfter(n, t) == [stack EXCEPT ![n] = t.hypos]

LEMMA StepIs ==
  ASSUME conf \in Settings, heap \in Seq(HypoType), Stacked(heap, stack, freed), NEW n \in 0..Size,
         NEW t, NEW X, NEW new, StepOf(n, t, X, new)
  PROVE  /\ HeapAfter(t, new) \in Seq(HypoType)
         /\ Len(HeapAfter(t, new)) = Len(heap) + Len(new) /\ Created \subseteq 1..Len(HeapAfter(t, new))
         /\ \A h \in Created : /\ HeapAfter(t, new)[h].cov = heap[h].cov
                             /\ HeapAfter(t, new)[h].prev = heap[h].prev
                             /\ HeapAfter(t, new)[h].arcs = t.arcs[h]
                             /\ KinOf(HeapAfter(t, new), h) = KinIn(t, h)
         /\ t.hypos \subseteq Created /\ t.freed \subseteq Created
         /\ \A a : a \in t.hypos \/ a \in Kept(t) \/ a \in t.freed \ freed =>
                     a \in Created /\ Cardinality(heap[a].cov) = n
         /\ \A h \in Created : Cardinality(heap[h].cov) # n =>
              t.arcs[h] = heap[h].arcs /\ KinOf(HeapAfter(t, new), h) = KinOf(heap, h)
<1> DEFINE hp == HeapAfter(t, new)
<1>1. t.arcs \in [Created -> Seq(Nat)] /\ t.hypos \subseteq Created /\ t.freed \subseteq Created
  BY DEF StepOf, Tidy, StackType
<1>2. /\ hp \in Seq(HypoType) /\ Len(hp) = Len(heap) + Len(new) /\ Created \subseteq 1..Len(hp)
      /\ \A h \in Created : hp[h].cov = heap[h].cov /\ hp[h].prev = heap[h].prev /\ hp[h].arcs = t.arcs[h]
  BY <1>1, HeapAfterIs DEF StepOf
<1> HIDE DEF hp
<1>3. \A h \in Created : KinOf(hp, h) = KinIn(t, h)
  BY <1>2 DEF KinOf, KinIn
<1> DEFINE s == StackNow(n)
<1>4. /\ s.hypos = stack[n] /\ s.freed = freed
      /\ \A h \in Created : s.arcs[h] = heap[h].arcs
      /\ \A a \in Kept(s) : a \in Created /\ Cardinality(heap[a].cov) = n
  BY StackNowIsTidy
<1> HIDE DEF s
<1>5. Settles(s, t, X) /\ X \subseteq Created /\ \A x \in X : Cardinality(heap[x].cov) = n
  BY DEF StepOf, s
<1>6. s.hypos \subseteq Kept(s)
  BY KeptIs
<1>7. \A a : a \in t.hypos \/ a \in Kept(t) \/ a \in t.freed \ freed =>
               a \in Created /\ Cardinality(heap[a].cov) = n
  <2> TAKE a
  <2>1. a \in t.hypos \/ a \in Kept(t) \/ a \in t.freed \ freed => a \in Kept(s) \/ a \in X
    BY <1>4, <1>5, <1>6 DEF Settles
  <2> QED BY <1>4, <1>5, <2>1
<1>8. ASSUME NEW h \in Created, Cardinality(heap[h].cov) # n
      PROVE  t.arcs[h] = heap[h].arcs /\ KinOf(hp, h) = KinOf(heap, h)
  <2>1. h \notin s.hypos \union X
    BY <1>4, <1>5, <1>6, <1>8
  <2>2. t.arcs[h] = heap[h].arcs
    BY <1>4, <1>5, <2>1 DEF Settles
  <2> QED BY <1>2, <2>2 DEF KinOf
<1> QED BY <1>1, <1>2, <1>3, <1>7, <1>8 DEF hp

\* The stacks are as tidy after the step.
LEMMA StepStacked ==
  ASSUME conf \in Settings, heap \in Seq(HypoType), Stacked(heap, stack, freed), NEW n \in 0..Size,
         NEW t, NEW X, NEW new, StepOf(n, t, X, new)
  PROVE  Stacked(HeapAfter(t, new), StackAfter(n, t), t.freed)
<1> DEFINE hp == HeapAfter(t, new)
           st == StackAfter(n, t)
<1>1. /\ Created \subseteq 1..Len(hp)
      /\ \A h \in Created : hp[h].cov = heap[h].cov /\ hp[h].arcs = t.arcs[h] /\ KinOf(hp, h) = KinIn(t, h)
      /\ t.hypos \subseteq Created /\ t.freed \subseteq Created
      /\ \A a : a \in t.hypos \/ a \in Kept(t) \/ a \in t.freed \ freed =>
                  a \in Created /\ Cardinality(heap[a].cov) = n
      /\ \A h \in Created : Cardinality(heap[h].cov) # n =>
           t.arcs[h] = heap[h].arcs /\ KinOf(hp, h) = KinOf(heap, h)
  BY StepIs
<1> HIDE DEF hp
<1>2. stack \in [0..Size -> SUBSET Created] /\ freed \subseteq Created
  BY DEF Stacked, Created
<1>3. /\ st \in [0..Size -> SUBSET Created] /\ st[n] = t.hypos
      /\ \A m \in 0..Size : m # n => st[m] = stack[m]
  BY <1>1, <1>2 DEF StackAfter
<1> HIDE DEF st
<1>4. StackOK(hp, st, t.freed, n)
  <2> SUFFICES ASSUME NEW h \in t.hypos
               PROVE  /\ Cardinality(hp[h].cov) = n
                      /\ h \notin ToSet(hp[h].arcs) /\ IsInjective(hp[h].arcs)
                      /\ \A a \in KinOf(hp, h) : /\ a \in 1..Len(hp) /\ a \notin t.freed
                                                 /\ hp[a].cov = hp[h].cov
                      /\ \A g \in t.hypos : g # h => KinOf(hp, g) \intersect KinOf(hp, h) = {}
    BY <1>3 DEF StackOK
  <2>1. h \in Created /\ Cardinality(heap[h].cov) = n
    BY <1>1
  <2>2. /\ h \notin ToSet(t.arcs[h]) /\ IsInjective(t.arcs[h])
        /\ \A a \in KinIn(t, h) : a \in Created /\ a \notin t.freed /\ heap[a].cov = heap[h].cov
        /\ \A g \in t.hypos : g # h => KinIn(t, g) \intersect KinIn(t, h) = {}
    BY DEF StepOf, Tidy, TidyAt
  <2>3. Cardinality(hp[h].cov) = n /\ h \notin ToSet(hp[h].arcs) /\ IsInjective(hp[h].arcs)
    BY <1>1, <2>1, <2>2
  <2>4. ASSUME NEW a \in KinOf(hp, h)
        PROVE  a \in 1..Len(hp) /\ a \notin t.freed /\ hp[a].cov = hp[h].cov
    <3>1. a \in KinIn(t, h)
      BY <1>1, <2>1
    <3>2. a \in Created /\ a \notin t.freed /\ heap[a].cov = heap[h].cov
      BY <2>2, <3>1
    <3> QED BY <1>1, <2>1, <3>2
  <2>5. \A g \in t.hypos : g # h => KinOf(hp, g) \intersect KinOf(hp, h) = {}
    BY <1>1, <2>1, <2>2
  <2> QED BY <2>3, <2>4, <2>5
<1>5. ASSUME NEW m \in 0..Size, m # n PROVE StackOK(hp, st, t.freed, m)
  <2>0. StackOK(heap, stack, freed, m)
    BY DEF Stacked
  <2> SUFFICES ASSUME NEW h \in stack[m]
               PROVE  /\ Cardinality(hp[h].cov) = m
                      /\ h \notin ToSet(hp[h].arcs) /\ IsInjective(hp[h].arcs)
                      /\ \A a \in KinOf(hp, h) : /\ a \in 1..Len(hp) /\ a \notin t.freed
                                                 /\ hp[a].cov = hp[h].cov
                      /\ \A g \in stack[m] : g # h => KinOf(hp, g) \intersect KinOf(hp, h) = {}
    BY <1>3, <1>5 DEF StackOK
  <2>1. \A g \in stack[m] : /\ g \in Created /\ Cardinality(heap[g].cov) = m
                            /\ g \notin ToSet(heap[g].arcs) /\ IsInjective(heap[g].arcs)
                            /\ KinOf(hp, g) = KinOf(heap, g) /\ hp[g].arcs = heap[g].arcs
    BY <1>1, <1>2, <1>5, <2>0 DEF StackOK
  <2>2. /\ \A a \in KinOf(heap, h) : a \in Created /\ a \notin freed /\ heap[a].cov = heap[h].cov
        /\ \A g \in stack[m] : g # h => KinOf(heap, g) \intersect KinOf(heap, h) = {}
    BY <2>0 DEF StackOK, Created
  <2>3. Cardinality(hp[h].cov) = m /\ h \notin ToSet(hp[h].arcs) /\ IsInjective(hp[h].arcs)
    BY <1>1, <2>1
  <2>4. ASSUME NEW a \in KinOf(hp, h)
        PROVE  a \in 1..Len(hp) /\ a \notin t.freed /\ hp[a].cov = hp[h].cov
    <3>1. a \in Created /\ a \notin freed /\ heap[a].cov = heap[h].cov
      BY <2>1, <2>2
    <3>2. Cardinality(heap[a].cov) # n
      BY <1>5, <2>1, <3>1
    <3> QED BY <1>1, <2>1, <3>1, <3>2
  <2>5. \A g \in stack[m] : g # h => KinOf(hp, g) \intersect KinOf(hp, h) = {}
    BY <2>1, <2>2
  <2> QED BY <2>3, <2>4, <2>5
<1>6. st \in [0..Size -> SUBSET (1..Len(hp))]
  BY <1>1, <1>3
<1>7. t.freed \subseteq 1..Len(hp)
  BY <1>1
<1> QED BY <1>4, <1>5, <1>6, <1>7 DEF Stacked, hp, st

\* What was created extends hypotheses of smaller stacks, which stay.
LEMMA StepRooted ==
  ASSUME conf \in Settings, heap \in Seq(HypoType), Stacked(heap, stack, freed), NEW n \in 0..Size,
         NEW t, NEW X, NEW new, StepOf(n, t, X, new), Rooted(heap, stack, n),
         \A i \in 1..Len(new) : /\ new[i].prev \in Created /\ Cardinality(heap[new[i].prev].cov) < n
                                /\ new[i].prev \in stack[Cardinality(heap[new[i].prev].cov)]
  PROVE  Rooted(HeapAfter(t, new), StackAfter(n, t), n)
<1> DEFINE hp == HeapAfter(t, new)
           st == StackAfter(n, t)
<1>1. /\ Len(hp) = Len(heap) + Len(new) /\ Created \subseteq 1..Len(hp)
      /\ \A h \in Created : hp[h].cov = heap[h].cov /\ hp[h].prev = heap[h].prev
  BY StepIs
<1>2. \A i \in 1..Len(new) : hp[Len(heap) + i] = new[i]
  BY HeapAfterIs DEF StepOf, Tidy, StackType
<1>3. Len(heap) \in Nat /\ Len(new) \in Nat
  BY DEF StepOf
<1> HIDE DEF hp
<1>4. \A m : m # n => st[m] = stack[m]
  BY DEF StackAfter, Stacked
<1>5. n \in Int
  BY SettingsType
<1>6. \A p \in Created : Cardinality(heap[p].cov) < n /\ p \in stack[Cardinality(heap[p].cov)] =>
        /\ p \in 1..Len(hp) /\ Cardinality(hp[p].cov) < n /\ p \in st[Cardinality(hp[p].cov)]
  <2> HIDE DEF st
  <2> TAKE p \in Created
  <2>1. Cardinality(heap[p].cov) \in Int
    BY HypoIs, CoverageIs
  <2>2. hp[p].cov = heap[p].cov /\ p \in 1..Len(hp)
    BY <1>1
  <2> QED BY <1>4, <1>5, <2>1, <2>2
<1> HIDE DEF st
<1>7. ASSUME NEW h \in 1..Len(hp) PROVE RootedAt(hp, st, n, h)
  <2>1. CASE h \in Created
    <3>1. RootedAt(heap, stack, n, h)
      BY <2>1 DEF Rooted, Created
    <3>2. hp[h].prev = heap[h].prev
      BY <1>1, <2>1
    <3> QED BY <1>6, <3>1, <3>2 DEF RootedAt, Created
  <2>2. CASE h \notin Created
    <3>1. h - Len(heap) \in 1..Len(new) /\ h = Len(heap) + (h - Len(heap))
      BY <1>1, <1>3, <2>2 DEF Created
    <3>2. hp[h] = new[h - Len(heap)]
      BY <1>2, <3>1
    <3> QED BY <1>6, <3>1, <3>2 DEF RootedAt
  <2> QED BY <2>1, <2>2
<1> QED BY <1>7 DEF Rooted, hp, st

\* What waits in a queue, but for what the step takes, still does.
LEMMA StepFresh ==
  ASSUME conf \in Settings, heap \in Seq(HypoType), Stacked(heap, stack, freed), NEW n \in 0..Size,
         NEW t, NEW X, NEW new, StepOf(n, t, X, new),
         NEW c \in Coverages, NEW h, Fresh(heap, stack, freed, c, h), h \notin X
  PROVE  Fresh(HeapAfter(t, new), StackAfter(n, t), t.freed, c, h)
<1> DEFINE hp == HeapAfter(t, new)
           st == StackAfter(n, t)
           s == StackNow(n)
<1>1. /\ Created \subseteq 1..Len(hp)
      /\ \A g \in Created : hp[g].cov = heap[g].cov /\ hp[g].arcs = t.arcs[g] /\ KinOf(hp, g) = KinIn(t, g)
      /\ t.hypos \subseteq Created
      /\ \A g \in Created : Cardinality(heap[g].cov) # n => KinOf(hp, g) = KinOf(heap, g)
  BY StepIs
<1>2. /\ s.hypos = stack[n] /\ s.freed = freed /\ stack[n] \subseteq Created
      /\ \A g \in Created : s.arcs[g] = heap[g].arcs /\ KinIn(s, g) = KinOf(heap, g)
      /\ \A a \in Kept(s) : Cardinality(heap[a].cov) = n
  BY StackNowIsTidy DEF Stacked, Created
<1> HIDE DEF s
<1>3. Settles(s, t, X)
  BY DEF StepOf, s
<1> HIDE DEF hp
<1>4. /\ h \in Created /\ h \notin freed /\ heap[h].cov = c /\ heap[h].arcs = <<>>
      /\ \A g \in stack[Cardinality(c)] : h \notin KinOf(heap, g)
  BY DEF Fresh, Created
<1>5. h \notin Kept(s)
  <2>1. CASE Cardinality(c) = n
    <3>1. \A g \in s.hypos : h \notin KinIn(s, g)
      BY <1>2, <1>4, <2>1
    <3> QED BY <3>1, KeptIs
  <2>2. CASE Cardinality(c) # n
    BY <1>2, <1>4, <2>2
  <2> QED BY <2>1, <2>2
<1>6. h \notin s.hypos /\ h \notin Kept(t) /\ h \notin t.freed
  BY <1>2, <1>3, <1>4, <1>5, KeptIs DEF Settles
<1>7. hp[h].arcs = <<>> /\ hp[h].cov = c
  BY <1>1, <1>2, <1>3, <1>4, <1>6 DEF Settles
<1>8. ASSUME NEW g \in st[Cardinality(c)] PROVE h \notin KinOf(hp, g)
  <2>1. Cardinality(c) \in 0..Size /\ stack \in [0..Size -> SUBSET Created]
    BY CoverageIs DEF Stacked, Created
  <2>2. CASE Cardinality(c) = n
    <3>1. g \in t.hypos /\ g \in Created
      BY <1>1, <2>1, <2>2 DEF StackAfter
    <3> QED BY <1>1, <1>6, <3>1, KeptIs
  <2>3. CASE Cardinality(c) # n
    <3>1. g \in stack[Cardinality(c)] /\ g \in Created
      BY <2>1, <2>3 DEF StackAfter
    <3>2. Cardinality(heap[g].cov) = Cardinality(c)
      BY <2>1, <3>1 DEF Stacked, StackOK
    <3>3. KinOf(hp, g) = KinOf(heap, g)
      BY <1>1, <2>3, <3>1, <3>2
    <3> QED BY <1>4, <3>1, <3>3
  <2> QED BY <2>2, <2>3
<1> QED BY <1>1, <1>4, <1>6, <1>7, <1>8 DEF Fresh, hp, st

\* What has just been created is in no stack.
LEMMA StepCreated ==
  ASSUME conf \in Settings, heap \in Seq(HypoType), Stacked(heap, stack, freed), NEW n \in 0..Size,
         NEW t, NEW X, NEW new, StepOf(n, t, X, new),
         NEW i \in 1..Len(new), new[i].arcs = <<>>, new[i].cov \in Coverages
  PROVE  Fresh(HeapAfter(t, new), StackAfter(n, t), t.freed, new[i].cov, Len(heap) + i)
<1> DEFINE hp == HeapAfter(t, new)
           st == StackAfter(n, t)
           c == new[i].cov
           h == Len(heap) + i
<1>1. /\ Len(hp) = Len(heap) + Len(new)
      /\ t.freed \subseteq Created /\ t.hypos \subseteq Created
      /\ \A g \in Created : KinOf(hp, g) = KinIn(t, g)
      /\ \A g \in Created : Cardinality(heap[g].cov) # n => KinOf(hp, g) = KinOf(heap, g)
      /\ \A a : a \in Kept(t) => a \in Created
  BY StepIs
<1>2. hp[h] = new[i]
  BY HeapAfterIs DEF StepOf, Tidy, StackType
<1>3. h \in 1..Len(hp) /\ h \notin Created
  <2>1. Len(heap) \in Nat /\ Len(new) \in Nat
    BY DEF StepOf
  <2> HIDE DEF hp
  <2> QED BY <1>1, <2>1 DEF Created
<1> HIDE DEF hp, h
<1>4. h \notin t.freed
  BY <1>1, <1>3
<1>5. ASSUME NEW g \in st[Cardinality(c)] PROVE h \notin KinOf(hp, g)
  <2>1. Cardinality(c) \in 0..Size /\ stack \in [0..Size -> SUBSET Created]
    BY CoverageIs DEF Stacked, Created
  <2>2. CASE Cardinality(c) = n
    <3>1. g \in t.hypos /\ g \in Created
      BY <1>1, <2>1, <2>2 DEF StackAfter
    <3>2. KinOf(hp, g) \subseteq Kept(t)
      BY <1>1, <3>1, KeptIs
    <3> QED BY <1>1, <1>3, <3>2
  <2>3. CASE Cardinality(c) # n
    <3>1. g \in stack[Cardinality(c)] /\ g \in Created
      BY <2>1, <2>3 DEF StackAfter
    <3>2. /\ Cardinality(heap[g].cov) = Cardinality(c)
          /\ \A a \in KinOf(heap, g) : a \in Created
      BY <2>1, <3>1 DEF Stacked, StackOK, Created
    <3>3. KinOf(hp, g) = KinOf(heap, g)
      BY <1>1, <2>3, <3>1, <3>2
    <3> QED BY <1>3, <3>2, <3>3
  <2> QED BY <2>2, <2>3
<1> QED BY <1>2, <1>3, <1>4, <1>5 DEF Fresh, hp, st, h

\* Edges lead from smaller stacks, which the step leaves alone.
LEMMA StepEdges ==
  ASSUME conf \in Settings, NEW n \in 0..Size, Stacked(heap, stack, freed), NEW t,
         NEW cont, EdgesFrom(cont, stack, n)
  PROVE  EdgesFrom(cont, StackAfter(n, t), n)
<1> SUFFICES ASSUME NEW c \in DOMAIN cont, NEW b \in DOMAIN cont[c].edges
             PROVE  EdgeOK(cont, StackAfter(n, t), n, c, b)
  BY DEF EdgesFrom
<1>1. EdgeOK(cont, stack, n, c, b)
  BY DEF EdgesFrom
<1>2. Cardinality(b) # n
  BY <1>1, SettingsType DEF EdgeOK
<1>3. StackAfter(n, t)[Cardinality(b)] = stack[Cardinality(b)]
  BY <1>2 DEF StackAfter, Stacked
<1> QED BY <1>1, <1>3 DEF EdgeOK

\* Edges look at nothing of the heap but coverages.
LEMMA EdgesKept ==
  ASSUME conf' = conf, NEW m \in Nat,
         \A h \in Created : heap'[h].cov = heap[h].cov,
         stack' \in [0..Size -> SUBSET Created], conf \in Settings,
         EdgesFrom(container', stack', m), stackNo' = m
  PROVE  EdgesFrom(container, stack, stackNo)'
<1>1. /\ DOMAIN container' \subseteq Coverages
      /\ \A c \in DOMAIN container' :
           /\ DOMAIN container'[c] = Fields
           /\ \A b \in DOMAIN container'[c].edges : EdgeOK(container', stack', m, c, b)
  BY DEF EdgesFrom
<1>2. Coverages' = Coverages
  BY DEF Coverages, Size
<1>3. ASSUME NEW c \in DOMAIN container', NEW b \in DOMAIN container'[c].edges
      PROVE  EdgeOK(container, stack, stackNo, c, b)'
  <2>1. EdgeOK(container', stack', m, c, b)
    BY <1>1
  <2>2. b \in Coverages /\ Cardinality(b) < m
    BY <2>1 DEF EdgeOK
  <2>3. stack'[Cardinality(b)] \subseteq Created
    BY <2>2, CoverageIs
  <2>4. Covering(stack'[Cardinality(b)], b) = Covering(stack[Cardinality(b)], b)'
    BY <2>3 DEF Covering
  <2>5. Translations(b, c)' = Translations(b, c)
    BY DEF Translations
  <2> QED BY <1>2, <2>1, <2>4, <2>5 DEF EdgeOK
<1> QED BY <1>1, <1>2, <1>3 DEF EdgesFrom, Fields

-----------------------------------------------------------------------------
(* Popping a cell, and the start of a stack.                                     *)

\* What may be created for the stack n: it extends a smaller one that stays.
Extending(g, n) ==
  /\ g \in HypoType /\ g.arcs = <<>>
  /\ g.prev \in Created /\ Cardinality(heap[g.prev].cov) < n
  /\ g.prev \in stack[Cardinality(heap[g.prev].cov)]

LEMMA CellIs ==
  ASSUME conf \in Settings, heap \in Seq(HypoType), Stacked(heap, stack, freed),
         NEW n, EdgesFrom(container, stack, n), NEW c \in DOMAIN container,
         NEW b \in DOMAIN container[c].edges,
         NEW x \in Nat \ {0}, x <= Len(container[c].edges[b]),
         NEW y \in Nat \ {0}, y <= Len(Translations(b, c))
  PROVE  /\ Extending(Extended(container[c].edges[b][x], c, y), n)
         /\ Extended(container[c].edges[b][x], c, y).cov = c
<1> DEFINE e == container[c].edges[b]
           h == e[x]
<1>1. EdgeOK(container, stack, n, c, b) /\ c \in Coverages
  BY DEF EdgesFrom
<1> DEFINE C == Covering(stack[Cardinality(b)], b)
<1>2. e \in Seq(C)
  BY <1>1 DEF EdgeOK
<1>3. h \in C
  <2> HIDE DEF e, C
  <2>1. x \in 1..Len(e)
    BY <1>2 DEF e
  <2> QED BY <1>2, <2>1
<1>4. b \in Coverages /\ Cardinality(b) \in 0..Size /\ Cardinality(b) < n
  BY <1>1, CoverageIs DEF EdgeOK
<1>5. h \in Created /\ h \in stack[Cardinality(b)] /\ heap[h].cov = b
  BY <1>3, <1>4 DEF Covering, Stacked, Created
<1>6. PICK span \in DOMAIN conf.options : c \ b = span[1]..span[2]
  BY <1>1 DEF EdgeOK
<1> HIDE DEF h
<1>7. /\ Extended(h, c, y) \in HypoType /\ Extended(h, c, y).cov = c
      /\ Extended(h, c, y).prev = h /\ Extended(h, c, y).arcs = <<>>
  <2>1. c \ heap[h].cov = span[1]..span[2] /\ y <= Len(Translations(heap[h].cov, c))
    BY <1>5, <1>6
  <2> QED BY <1>1, <1>5, <2>1, ExtendedIs
<1> QED BY <1>4, <1>5, <1>7 DEF Extending, h

Successors(c, item) ==
  LET cells == Listing(NextCells(c, item))
  IN [i \in DOMAIN cells |-> Extended(container[c].edges[item.from][cells[i][1]], c, cells[i][2])]

\* The neighbours of a cell are cells.
LEMMA NextCellsAre ==
  ASSUME NEW c, NEW item \in container[c].queue, ItemOK(container, c, item)
  PROVE  /\ Listing(NextCells(c, item)) \in Seq(NextCells(c, item))
         /\ \A cell \in NextCells(c, item) :
              /\ cell[1] \in Nat \ {0} /\ cell[1] <= Len(container[c].edges[item.from])
              /\ cell[2] \in Nat \ {0} /\ cell[2] <= Len(Translations(item.from, c))
<1> DEFINE next == {<<item.x, item.y + 1>>, <<item.x + 1, item.y>>}
<1>1. NextCells(c, item) \subseteq next
  BY DEF NextCells
<1>2. IsFiniteSet(next)
  <2> DEFINE a == <<item.x, item.y + 1>>
             b == <<item.x + 1, item.y>>
  <2>1. next = ({} \union {a}) \union {b}
    OBVIOUS
  <2> HIDE DEF a, b, next
  <2>2. IsFiniteSet({} \union {a})
    BY FS_EmptySet, FS_AddElement
  <2> QED BY <2>1, <2>2, FS_AddElement
<1>3. IsFiniteSet(NextCells(c, item))
  <2> HIDE DEF next
  <2> QED BY <1>1, <1>2, FS_Subset
<1>4. item.x \in Nat \ {0} /\ item.y \in Nat \ {0}
  BY DEF ItemOK
<1>5. \A cell \in next : cell[1] \in Nat \ {0} /\ cell[2] \in Nat \ {0}
  BY <1>4
<1>6. \A cell \in NextCells(c, item) : /\ cell[1] <= Len(container[c].edges[item.from])
                                       /\ cell[2] <= Len(Translations(item.from, c))
  BY DEF NextCells
<1> HIDE DEF next
<1> QED BY <1>1, <1>3, <1>5, <1>6, ListingIs

\* A hypothesis that is popped has not been in the stack: AddPrune is a step of it.
LEMMA PopIsStep ==
  ASSUME CubeInv, stackNo \in 1..Size, NEW c \in Containers(stackNo),
         NEW item \in container[c].queue
  PROVE  /\ StepOf(stackNo, AddPrune(StackNow(stackNo), item.hypo).s, {item.hypo},
                   Successors(c, item))
         /\ Len(Successors(c, item)) = Len(Listing(NextCells(c, item)))
         /\ DOMAIN Listing(NextCells(c, item)) = 1..Len(Successors(c, item))
         /\ \A i \in 1..Len(Successors(c, item)) :
              Extending(Successors(c, item)[i], stackNo) /\ Successors(c, item)[i].cov = c
<1> DEFINE n == stackNo
           s == StackNow(n)
           h == item.hypo
           t == AddPrune(s, h).s
           cells == Listing(NextCells(c, item))
           new == Successors(c, item)
<1>0. /\ conf \in Settings /\ heap \in Seq(HypoType) /\ Stacked(heap, stack, freed)
      /\ EdgesFrom(container, stack, n) /\ Queued(container, heap, stack, freed) /\ n \in 0..Size
  BY SettingsType DEF CubeInv, GraphInv, Position
<1>1. c \in DOMAIN container /\ Cardinality(c) = n /\ c \in Coverages
  BY <1>0 DEF Containers, EdgesFrom
<1>2. ItemOK(container, c, item) /\ Fresh(heap, stack, freed, c, h)
  BY <1>0, <1>1 DEF Queued, QueueOK
<1>3. h \in Created /\ h \notin freed /\ heap[h].cov = c /\ heap[h].arcs = <<>>
  BY <1>2 DEF Fresh, Created
<1>4. /\ Tidy(s) /\ s.hypos = stack[n] /\ s.freed = freed
      /\ \A g \in Created : s.arcs[g] = heap[g].arcs /\ KinIn(s, g) = KinOf(heap, g)
  BY <1>0, StackNowIsTidy
<1>5. stack[n] \subseteq Created
  BY <1>0 DEF Stacked, Created
<1> HIDE DEF s, n
<1>6. h \notin Kept(s)
  <2>1. \A g \in s.hypos : h \notin KinIn(s, g)
    BY <1>1, <1>2, <1>4, <1>5 DEF Fresh
  <2> QED BY <2>1, KeptIs
<1>7. Tidy(t) /\ Settles(s, t, {h})
  BY <1>3, <1>4, <1>6, AddPruneIsTidy
<1> HIDE DEF t
<1>8. /\ cells \in Seq(NextCells(c, item))
      /\ \A cell \in NextCells(c, item) :
              /\ cell[1] \in Nat \ {0} /\ cell[1] <= Len(container[c].edges[item.from])
              /\ cell[2] \in Nat \ {0} /\ cell[2] <= Len(Translations(item.from, c))
  BY <1>2, NextCellsAre
<1>9. new = [i \in DOMAIN cells |->
               Extended(container[c].edges[item.from][cells[i][1]], c, cells[i][2])]
  BY DEF Successors
<1> HIDE DEF cells, new
<1>10. Len(cells) \in Nat /\ DOMAIN cells = 1..Len(cells)
  BY <1>8
<1>11. ASSUME NEW i \in 1..Len(cells) PROVE new[i] \in HypoType /\ Extending(new[i], n) /\ new[i].cov = c
  <2>1. cells[i] \in NextCells(c, item)
    <3> DEFINE N == NextCells(c, item)
    <3>1. cells \in Seq(N)
      BY <1>8
    <3> HIDE DEF N
    <3>2. cells[i] \in N
      BY <3>1
    <3> QED BY <3>2 DEF N
  <2> DEFINE x == cells[i][1]
             y == cells[i][2]
  <2>2. /\ x \in Nat \ {0} /\ x <= Len(container[c].edges[item.from])
        /\ y \in Nat \ {0} /\ y <= Len(Translations(item.from, c))
    BY <1>8, <2>1
  <2>3. new[i] = Extended(container[c].edges[item.from][x], c, y)
    BY <1>9, <1>10
  <2>4. item.from \in DOMAIN container[c].edges
    BY <1>2 DEF ItemOK
  <2> HIDE DEF x, y
  <2>5. Extending(new[i], n) /\ new[i].cov = c
    BY <1>0, <1>1, <2>2, <2>3, <2>4, CellIs
  <2> QED BY <2>5 DEF Extending
<1>12. new \in [1..Len(cells) -> HypoType]
  BY <1>9, <1>10, <1>11
<1>13. new \in Seq(HypoType) /\ Len(new) = Len(cells)
  BY <1>10, <1>12, FunctionIsSeq
<1>14. StepOf(n, t, {h}, new)
  BY <1>1, <1>3, <1>7, <1>13 DEF StepOf, s
<1>15. \A i \in 1..Len(new) : Extending(new[i], n) /\ new[i].cov = c
  BY <1>11, <1>13
<1> QED BY <1>10, <1>13, <1>14, <1>15 DEF s, t, cells, new, n

\* The queues look at nothing of the state but the settings.
LEMMA QueuedKept ==
  ASSUME conf' = conf, Queued(container', heap', stack', freed')
  PROVE  Queued(container, heap, stack, freed)'
<1> SUFFICES ASSUME NEW c \in DOMAIN container', NEW item \in container'[c].queue
             PROVE  /\ ItemOK(container, c, item)' /\ Fresh(heap, stack, freed, c, item.hypo)'
                    /\ \A other \in container'[c].queue : other.hypo = item.hypo => other = item
  BY DEF Queued, QueueOK
<1>1. /\ ItemOK(container', c, item) /\ Fresh(heap', stack', freed', c, item.hypo)
      /\ \A other \in container'[c].queue : other.hypo = item.hypo => other = item
  BY DEF Queued, QueueOK
<1>2. Translations(item.from, c)' = Translations(item.from, c)
  BY DEF Translations
<1>3. ItemOK(container, c, item)'
  BY <1>1, <1>2 DEF ItemOK
<1>4. Fresh(heap, stack, freed, c, item.hypo)'
  BY <1>1 DEF Fresh, KinOf
<1> QED BY <1>1, <1>3, <1>4

\* The invariant after a step of the stack in hand.
LEMMA StepKeeps ==
  ASSUME CubeInv, conf' = conf, stackNo \in 0..Size,
         NEW t, NEW X, NEW new, StepOf(stackNo, t, X, new),
         \A i \in 1..Len(new) : Extending(new[i], stackNo),
         heap' = HeapAfter(t, new), freed' = t.freed, stack' = StackAfter(stackNo, t),
         stackNo' \in {stackNo, stackNo + 1},
         EdgesFrom(container', stack', stackNo'),
         \A c \in DOMAIN container' : c \in Coverages /\ QueueOK(container', heap', stack', freed', c)
  PROVE  GraphInv'
<1>0. /\ conf \in Settings /\ heap \in Seq(HypoType) /\ Stacked(heap, stack, freed)
      /\ Rooted(heap, stack, stackNo)
  BY DEF CubeInv, GraphInv, Position
<1>1. HypoType' = HypoType /\ Size' = Size
  BY DEF HypoType, Coverages, Size
<1>2. /\ heap' \in Seq(HypoType) /\ \A h \in Created : heap'[h].cov = heap[h].cov
      /\ Created \subseteq 1..Len(heap')
  BY <1>0, StepIs
<1>3. Stacked(heap', stack', freed')
  BY <1>0, StepStacked
<1>4. Stacked(heap, stack, freed)'
  BY <1>1, <1>3 DEF Stacked, StackOK, KinOf
<1>5. Rooted(heap', stack', stackNo)
  BY <1>0, StepRooted DEF Extending
<1>6. Rooted(heap', stack', stackNo')
  <2>1. ASSUME NEW h \in 1..Len(heap') PROVE RootedAt(heap', stack', stackNo', h)
    <3>1. RootedAt(heap', stack', stackNo, h)
      BY <1>5 DEF Rooted
    <3>2. CASE heap'[h].prev # 0
      <4>1. heap'[h].prev \in 1..Len(heap')
        BY <3>1, <3>2 DEF RootedAt
      <4>2. heap'[heap'[h].prev].cov \in Coverages
        <5> DEFINE R == HypoType
        <5>1. heap' \in Seq(R)
          BY <1>2
        <5> HIDE DEF R
        <5>2. heap'[heap'[h].prev] \in R
          BY <4>1, <5>1
        <5> QED BY <5>2 DEF R, HypoType
      <4>3. Cardinality(heap'[heap'[h].prev].cov) \in Int
        BY <1>0, <4>2, CoverageIs
      <4> QED BY <3>1, <4>3 DEF RootedAt
    <3>3. CASE heap'[h].prev = 0
      BY <3>3 DEF RootedAt
    <3> QED BY <3>2, <3>3
  <2> QED BY <2>1 DEF Rooted
<1>7. stack' \in [0..Size -> SUBSET Created]
  <2>1. t.hypos \subseteq Created
    BY DEF StepOf, Tidy, StackType
  <2> QED BY <1>0, <2>1 DEF Stacked, StackAfter, Created
<1>8. EdgesFrom(container, stack, stackNo)'
  <2>1. stackNo' \in Nat
    BY <1>0, SettingsType
  <2> QED BY <1>0, <1>2, <1>7, <2>1, EdgesKept
<1>9. Queued(container, heap, stack, freed)'
  <2>1. Queued(container', heap', stack', freed')
    BY DEF Queued
  <2> QED BY <2>1, QueuedKept
<1>10. Rooted(heap, stack, stackNo)'
  BY <1>6 DEF Rooted, RootedAt
<1>11. (heap \in Seq(HypoType))'
  BY <1>1, <1>2
<1> QED BY <1>4, <1>8, <1>9, <1>10, <1>11 DEF GraphInv

\* The same edges.
LEMMA SameEdges ==
  ASSUME NEW st, NEW n, EdgesFrom(container, st, n),
         DOMAIN container' = DOMAIN container,
         \A c \in DOMAIN container : /\ DOMAIN container'[c] = Fields
                                     /\ container'[c].edges = container[c].edges
  PROVE  EdgesFrom(container', st, n)
BY DEF EdgesFrom, EdgeOK

LEMMA ProcessBestKeeps ==
  ASSUME CubeInv, stackNo \in 1..Size, NEW c \in Containers(stackNo), ProcessBestHypothesis(c),
         conf' = conf, stackNo' = stackNo
  PROVE  GraphInv' /\ DOMAIN container' = DOMAIN container
<1>0. /\ conf \in Settings /\ heap \in Seq(HypoType) /\ Stacked(heap, stack, freed)
      /\ EdgesFrom(container, stack, stackNo) /\ Queued(container, heap, stack, freed)
      /\ stackNo \in 0..Size
  BY SettingsType DEF CubeInv, GraphInv, Position
<1>1. c \in DOMAIN container /\ Cardinality(c) = stackNo
  BY DEF Containers
<1>2. PICK item \in container[c].queue :
        LET added == AddPrune(StackNow(stackNo), item.hypo)
            cells == Listing(NextCells(c, item))
            e == container[c].edges[item.from]
        IN /\ heap' = HeapAfter(added.s, [i \in DOMAIN cells |->
                         Extended(e[cells[i][1]], c, cells[i][2])])
           /\ freed' = added.s.freed
           /\ stack' = [stack EXCEPT ![stackNo] = added.s.hypos]
           /\ container' = [container EXCEPT
                ![c].queue = (@ \ {item}) \union
                   {[x |-> cells[i][1], y |-> cells[i][2], hypo |-> Len(heap) + i,
                     from |-> item.from] : i \in DOMAIN cells},
                ![c].seen = @ \union {<<item.from, cells[i][1], cells[i][2]>> :
                                        i \in DOMAIN cells},
                ![c].insertions = IF added.new THEN @ + 1 ELSE @]
  BY DEF ProcessBestHypothesis
<1> DEFINE t == AddPrune(StackNow(stackNo), item.hypo).s
           cells == Listing(NextCells(c, item))
           new == Successors(c, item)
           Item(i) == [x |-> cells[i][1], y |-> cells[i][2], hypo |-> Len(heap) + i,
                       from |-> item.from]
           More == {Item(i) : i \in DOMAIN cells}
<1>3. heap' = HeapAfter(t, new) /\ freed' = t.freed /\ stack' = StackAfter(stackNo, t)
  BY <1>2 DEF Successors, StackAfter
<1>4. /\ DOMAIN container' = DOMAIN container
      /\ \A d \in DOMAIN container : d # c => container'[d] = container[d]
      /\ DOMAIN container'[c] = Fields
      /\ container'[c].edges = container[c].edges
      /\ container'[c].queue = (container[c].queue \ {item}) \union More
  <2>1. DOMAIN container[c] = Fields
    BY <1>0, <1>1 DEF EdgesFrom
  <2> QED BY <1>1, <1>2, <2>1 DEF Fields
<1>5. /\ StepOf(stackNo, t, {item.hypo}, new) /\ DOMAIN cells = 1..Len(new)
      /\ \A i \in 1..Len(new) : Extending(new[i], stackNo) /\ new[i].cov = c
  BY PopIsStep
<1>6. ItemOK(container, c, item) /\ heap[item.hypo].cov = c /\ item.hypo \in Created
  BY <1>0, <1>1 DEF Queued, QueueOK, Fresh, Created
<1>7. /\ cells \in Seq(NextCells(c, item))
      /\ \A cell \in NextCells(c, item) :
              /\ cell[1] \in Nat \ {0} /\ cell[1] <= Len(container[c].edges[item.from])
              /\ cell[2] \in Nat \ {0} /\ cell[2] <= Len(Translations(item.from, c))
  BY <1>6, NextCellsAre
<1> HIDE DEF t, cells, new, Item
<1>8. \A d \in DOMAIN container : d \in Coverages /\ DOMAIN container'[d] = Fields
                                   /\ container'[d].edges = container[d].edges
  BY <1>0, <1>4 DEF EdgesFrom
<1>9. EdgesFrom(container', stack', stackNo)
  <2>1. EdgesFrom(container, stack', stackNo)
    BY <1>0, <1>3, StepEdges
  <2> QED BY <1>4, <1>8, <2>1, SameEdges
\* what was waiting
<1>10. ASSUME NEW d \in DOMAIN container, NEW old \in container[d].queue, d = c => old # item
       PROVE  /\ ItemOK(container', d, old) /\ Fresh(heap', stack', freed', d, old.hypo)
              /\ old.hypo \in Created
  <2>1. /\ ItemOK(container, d, old) /\ Fresh(heap, stack, freed, d, old.hypo)
        /\ d = c => old.hypo # item.hypo
    BY <1>0, <1>10 DEF Queued, QueueOK
  <2>2. old.hypo \notin {item.hypo}
    BY <1>6, <2>1 DEF Fresh
  <2>3. Fresh(heap', stack', freed', d, old.hypo)
    BY <1>0, <1>3, <1>5, <1>8, <2>1, <2>2, StepFresh
  <2>4. ItemOK(container', d, old)
    BY <1>8, <2>1 DEF ItemOK
  <2> QED BY <2>1, <2>3, <2>4 DEF Fresh, Created
\* what is created
<1>11. ASSUME NEW i \in DOMAIN cells
       PROVE  /\ ItemOK(container', c, Item(i)) /\ Fresh(heap', stack', freed', c, Item(i).hypo)
              /\ Item(i).hypo = Len(heap) + i /\ i \in Nat \ {0}
  <2>1. i \in 1..Len(new) /\ Len(new) \in Nat
    BY <1>5 DEF StepOf
  <2>2. new[i].cov = c /\ new[i].arcs = <<>> /\ c \in Coverages
    BY <1>1, <1>5, <1>8, <2>1 DEF Extending
  <2>3. Fresh(heap', stack', freed', c, Len(heap) + i)
    BY <1>0, <1>3, <1>5, <2>1, <2>2, StepCreated
  <2>4. cells[i] \in NextCells(c, item)
    <3> DEFINE N == NextCells(c, item)
    <3>1. cells \in Seq(N)
      BY <1>7
    <3> HIDE DEF N
    <3>2. cells[i] \in N
      BY <3>1
    <3> QED BY <3>2 DEF N
  <2>5. /\ Item(i).x = cells[i][1] /\ Item(i).y = cells[i][2] /\ Item(i).from = item.from
        /\ Item(i).hypo = Len(heap) + i
    BY DEF Item
  <2>6. ItemOK(container', c, Item(i))
    BY <1>1, <1>6, <1>7, <1>8, <2>4, <2>5 DEF ItemOK
  <2> QED BY <2>1, <2>3, <2>5, <2>6
<1>12. ASSUME NEW d \in DOMAIN container', d # c PROVE QueueOK(container', heap', stack', freed', d)
  <2>1. container'[d].queue = container[d].queue /\ d \in DOMAIN container
    BY <1>4, <1>12
  <2>2. \A old \in container[d].queue : \A other \in container[d].queue :
          other.hypo = old.hypo => other = old
    BY <1>0, <2>1 DEF Queued, QueueOK
  <2> QED BY <1>10, <1>12, <2>1, <2>2 DEF QueueOK
<1>13. QueueOK(container', heap', stack', freed', c)
  <2> DEFINE Q == container'[c].queue
             Old == container[c].queue \ {item}
  <2>1. Q = Old \union More
    BY <1>4
  <2>2. \A old \in Old : /\ ItemOK(container', c, old) /\ Fresh(heap', stack', freed', c, old.hypo)
                         /\ old.hypo \in Created
                         /\ \A other \in Old : other.hypo = old.hypo => other = old
    <3>1. \A old \in container[c].queue : \A other \in container[c].queue :
            other.hypo = old.hypo => other = old
      BY <1>0, <1>1 DEF Queued, QueueOK
    <3> QED BY <1>1, <1>10, <3>1
  <2>3. \A g \in More : \E i \in DOMAIN cells : g = Item(i)
    OBVIOUS
  <2>4. \A g \in More : /\ ItemOK(container', c, g) /\ Fresh(heap', stack', freed', c, g.hypo)
                        /\ g.hypo \notin Created
                        /\ \A other \in More : other.hypo = g.hypo => other = g
    <3> TAKE g \in More
    <3>1. PICK i \in DOMAIN cells : g = Item(i)
      BY <2>3
    <3>2. Len(heap) \in Nat
      BY <1>0
    <3>3. g.hypo \notin Created
      BY <1>11, <3>1, <3>2 DEF Created
    <3>4. ASSUME NEW other \in More, other.hypo = g.hypo PROVE other = g
      <4>1. PICK j \in DOMAIN cells : other = Item(j)
        BY <2>3
      <4>2. Len(heap) + i = Len(heap) + j /\ i \in Nat /\ j \in Nat
        BY <1>11, <3>1, <3>4, <4>1
      <4>3. i = j
        BY <3>2, <4>2
      <4> QED BY <3>1, <4>1, <4>3
    <3> QED BY <1>11, <3>1, <3>3, <3>4
  <2> HIDE DEF More, Old
  <2> QED BY <2>1, <2>2, <2>4 DEF QueueOK
<1>14. GraphInv'
  <2>1. \A d \in DOMAIN container' : d \in Coverages /\ QueueOK(container', heap', stack', freed', d)
    BY <1>4, <1>8, <1>12, <1>13
  <2> QED BY <1>0, <1>3, <1>5, <1>9, <2>1, StepKeeps
<1> QED BY <1>4, <1>14

-----------------------------------------------------------------------------
(* The actions.                                                                  *)

LEMMA InvFacts ==
  ASSUME CubeInv
  PROVE  /\ conf \in Settings /\ heap \in Seq(HypoType) /\ Stacked(heap, stack, freed)
         /\ Rooted(heap, stack, stackNo) /\ EdgesFrom(container, stack, stackNo)
         /\ Queued(container, heap, stack, freed) /\ stackNo \in 0..Size + 1 /\ Size \in Nat \ {0}
         /\ stack \in [0..Size -> SUBSET Created]
BY SettingsType DEF CubeInv, GraphInv, Position, Stacked, Created

LEMMA GraphUnchanged ==
  ASSUME CubeInv, UNCHANGED <<conf, heap, freed, stack, container, stackNo>>
  PROVE  GraphInv'
<1>1. /\ Size' = Size /\ HypoType' = HypoType /\ Fields' = Fields
  BY DEF Size, HypoType, Coverages, Fields
<1>2. EdgesFrom(container', stack', stackNo')
  BY InvFacts
<1>3. EdgesFrom(container, stack, stackNo)'
  <2>1. stackNo' \in Nat
    BY InvFacts
  <2>2. stack' \in [0..Size -> SUBSET Created] /\ \A h \in Created : heap'[h].cov = heap[h].cov
    BY InvFacts
  <2> QED BY <1>2, <2>1, <2>2, InvFacts, EdgesKept
<1>4. Queued(container, heap, stack, freed)'
  BY InvFacts, QueuedKept
<1>5. Stacked(heap, stack, freed)' /\ Rooted(heap, stack, stackNo)' /\ (heap \in Seq(HypoType))'
  BY <1>1, InvFacts DEF Stacked, StackOK, KinOf, Rooted, RootedAt
<1> QED BY <1>3, <1>4, <1>5 DEF GraphInv

\* Before the first stack and after the last: the stack in hand is left as it is.
LEMMA IdleStep ==
  ASSUME CubeInv, NEW n \in 0..Size, NEW new \in Seq(HypoType)
  PROVE  /\ StepOf(n, StackNow(n), {}, new)
         /\ HeapAfter(StackNow(n), new) = heap \o new
         /\ StackNow(n).freed = freed /\ StackAfter(n, StackNow(n)) = stack
<1> DEFINE s == StackNow(n)
           old == [h \in 1..Len(heap) |-> WithArcs(h, s.arcs[h])]
<1>1. /\ Tidy(s) /\ s.hypos = stack[n] /\ s.freed = freed
      /\ \A h \in Created : s.arcs[h] = heap[h].arcs
  BY InvFacts, StackNowIsTidy
<1> HIDE DEF s
<1>2. ASSUME NEW h \in Created PROVE WithArcs(h, s.arcs[h]) = heap[h]
  <2>1. heap[h] \in HypoType
    BY InvFacts, HypoIs
  <2> QED BY <1>1, <2>1 DEF WithArcs, HypoType
<1>3. old = [h \in 1..Len(heap) |-> heap[h]]
  BY <1>2 DEF Created
<1>4. [h \in 1..Len(heap) |-> heap[h]] = heap
  BY InvFacts
<1>5. HeapAfter(s, new) = heap \o new
  BY <1>3, <1>4 DEF HeapAfter
<1>6. StackAfter(n, s) = stack
  BY <1>1, InvFacts DEF StackAfter
<1>7. StepOf(n, s, {}, new)
  BY <1>1, SettlesSelf DEF StepOf, s
<1> QED BY <1>1, <1>5, <1>6, <1>7 DEF s

LEMMA FirstStackKeeps == CubeInv /\ FirstStack => CubeInv'
<1> SUFFICES ASSUME CubeInv, FirstStack PROVE CubeInv'
  OBVIOUS
<1>1. stackNo = 0 /\ stackNo' = 1
  BY DEF CubeInv, Position, FirstStack
<1> DEFINE F == ForwardTodos(0, stack[0])
           none == <<>>
<1>2. container' = F
  BY DEF FirstStack
<1>3. /\ EdgesFrom(F, stack, 0 + 1)
      /\ \A c \in DOMAIN F : F[c].queue = IF c \in DOMAIN container THEN container[c].queue ELSE {}
      /\ \A c \in DOMAIN container :
           /\ c \in DOMAIN F
           /\ \A b \in DOMAIN container[c].edges : b \in DOMAIN F[c].edges
                                                   /\ F[c].edges[b] = container[c].edges[b]
  <2>1. 0 \in 0..Size
    BY InvFacts
  <2>2. EdgesFrom(container, stack, 0)
    BY <1>1, InvFacts
  <2>3. conf \in Settings /\ heap \in Seq(HypoType) /\ stack \in [0..Size -> SUBSET Created]
    BY InvFacts
  <2> QED BY <2>1, <2>2, <2>3, ForwardTodosAre
<1> HIDE DEF F
<1>4. none \in Seq(HypoType) /\ Len(none) = 0 /\ heap \o none = heap
  BY InvFacts
<1> HIDE DEF none
<1>5. /\ StepOf(stackNo, StackNow(stackNo), {}, none) /\ stackNo \in 0..Size
      /\ heap' = HeapAfter(StackNow(stackNo), none) /\ freed' = StackNow(stackNo).freed
      /\ stack' = StackAfter(stackNo, StackNow(stackNo))
  <2>1. stackNo \in 0..Size
    BY <1>1, InvFacts
  <2> QED BY <1>4, <2>1, IdleStep DEF FirstStack
<1>6. EdgesFrom(container', stack', stackNo')
  BY <1>1, <1>2, <1>3 DEF FirstStack
<1>7. ASSUME NEW c \in DOMAIN container'
      PROVE  c \in Coverages /\ QueueOK(container', heap', stack', freed', c)
  <2>1. c \in Coverages
    BY <1>6 DEF EdgesFrom
  <2>2. CASE c \in DOMAIN container
    <3>1. QueueOK(container, heap, stack, freed, c)
      BY <2>2, InvFacts DEF Queued
    <3>2. container'[c].queue = container[c].queue
      BY <1>2, <1>3, <2>2
    <3>3. \A item \in container[c].queue : ItemOK(container', c, item)
      BY <1>2, <1>3, <2>2, <3>1 DEF QueueOK, ItemOK
    <3>4. heap' = heap /\ stack' = stack /\ freed' = freed
      BY DEF FirstStack
    <3> QED BY <2>1, <3>1, <3>2, <3>3, <3>4 DEF QueueOK
  <2>3. CASE c \notin DOMAIN container
    <3>1. container'[c].queue = {}
      BY <1>2, <1>3, <2>3
    <3> QED BY <2>1, <3>1 DEF QueueOK
  <2> QED BY <2>2, <2>3
<1>8. GraphInv'
  <2>1. conf' = conf /\ stackNo' = stackNo + 1
    BY <1>1 DEF FirstStack
  <2>2. \A i \in 1..Len(none) : Extending(none[i], stackNo)
    BY <1>4
  <2> QED BY <1>5, <1>6, <1>7, <2>1, <2>2, StepKeeps
<1>9. Position'
  <2>1. Size' = Size /\ pc' = "stack" /\ conf' = conf
    BY DEF FirstStack, Size
  <2> QED BY <1>1, <2>1, InvFacts DEF Position
<1> QED BY <1>8, <1>9 DEF CubeInv

LEMMA FinishStackKeeps == CubeInv /\ FinishStack => CubeInv'
<1> SUFFICES ASSUME CubeInv, FinishStack PROVE CubeInv'
  OBVIOUS
<1> DEFINE n == stackNo
           s == StackNow(n)
           p == PruneToSize(s, conf.maxHypoStackSize)
           t == CleanupArcList(p)
           st == StackAfter(n, t)
           F == ForwardTodos(n, t.hypos)
           none == <<>>
<1>1. n \in 0..Size /\ n \in 1..Size /\ stackNo' = n + 1
  BY InvFacts DEF CubeInv, Position, FinishStack
<1>2. /\ heap' = HeapAfter(t, none) /\ freed' = t.freed /\ stack' = st /\ container' = F
  BY DEF FinishStack, StackAfter
<1>3. Tidy(s)
  BY <1>1, InvFacts, StackNowIsTidy
<1> HIDE DEF s
<1>4. Tidy(p) /\ Settles(s, p, {})
  BY <1>3, PrunedIsTidy
<1> HIDE DEF p
<1>5. Tidy(t) /\ Settles(p, t, {})
  BY <1>4, InvFacts, CleanedIsTidy
<1> HIDE DEF t
<1>6. Settles(s, t, {})
  BY <1>4, <1>5, KeptIs, SettlesThen
<1>7. none \in Seq(HypoType) /\ Len(none) = 0
  OBVIOUS
<1> HIDE DEF none
<1>8. StepOf(n, t, {}, none)
  BY <1>5, <1>6, <1>7 DEF StepOf, s
<1>9. st \in [0..Size -> SUBSET Created] /\ st[n] = t.hypos
  <2>1. t.hypos \subseteq Created
    BY <1>5 DEF Tidy, StackType
  <2> QED BY <1>1, <2>1, InvFacts DEF StackAfter
<1>10. EdgesFrom(container, st, n)
  <2>1. conf \in Settings /\ Stacked(heap, stack, freed) /\ EdgesFrom(container, stack, n)
    BY InvFacts
  <2> QED BY <1>1, <2>1, StepEdges
<1>11. /\ EdgesFrom(F, st, n + 1)
       /\ \A c \in DOMAIN F : F[c].queue = IF c \in DOMAIN container THEN container[c].queue ELSE {}
       /\ \A c \in DOMAIN container :
            /\ c \in DOMAIN F
            /\ \A b \in DOMAIN container[c].edges : b \in DOMAIN F[c].edges
                                                    /\ F[c].edges[b] = container[c].edges[b]
  <2> HIDE DEF st, n
  <2>1. conf \in Settings /\ heap \in Seq(HypoType)
    BY InvFacts
  <2> DEFINE G == ForwardTodos(n, st[n])
  <2>2. F = G
    BY <1>9
  <2> HIDE DEF F
  <2>3. /\ EdgesFrom(G, st, n + 1)
        /\ \A c \in DOMAIN G : G[c].queue = IF c \in DOMAIN container THEN container[c].queue ELSE {}
        /\ \A c \in DOMAIN container :
             /\ c \in DOMAIN G
             /\ \A b \in DOMAIN container[c].edges : b \in DOMAIN G[c].edges
                                                     /\ G[c].edges[b] = container[c].edges[b]
    BY <1>1, <1>9, <1>10, <2>1, ForwardTodosAre
  <2> HIDE DEF G
  <2> QED BY <2>2, <2>3
<1> HIDE DEF F, st
<1>12. EdgesFrom(container', stack', stackNo')
  BY <1>1, <1>2, <1>11
<1>13. ASSUME NEW c \in DOMAIN container'
       PROVE  c \in Coverages /\ QueueOK(container', heap', stack', freed', c)
  <2>1. c \in Coverages
    BY <1>12 DEF EdgesFrom
  <2>2. CASE c \in DOMAIN container
    <3>1. QueueOK(container, heap, stack, freed, c)
      BY <2>2, InvFacts DEF Queued
    <3>2. container'[c].queue = container[c].queue
      BY <1>2, <1>11, <2>2
    <3>3. \A item \in container[c].queue : ItemOK(container', c, item)
      BY <1>2, <1>11, <2>2, <3>1 DEF QueueOK, ItemOK
    <3>4. \A item \in container[c].queue : Fresh(heap', stack', freed', c, item.hypo)
      <4>1. \A item \in container[c].queue : Fresh(heap, stack, freed, c, item.hypo)
        BY <3>1 DEF QueueOK
      <4>2. conf \in Settings /\ heap \in Seq(HypoType) /\ Stacked(heap, stack, freed)
        BY InvFacts
      <4>3. ASSUME NEW item \in container[c].queue
            PROVE  Fresh(heap', stack', freed', c, item.hypo)
        <5>1. Fresh(HeapAfter(t, none), StackAfter(n, t), t.freed, c, item.hypo)
          BY <1>1, <1>8, <2>1, <4>1, <4>2, StepFresh
        <5> QED BY <1>2, <5>1 DEF st
      <4> QED BY <4>3
    <3> QED BY <2>1, <3>1, <3>2, <3>3, <3>4 DEF QueueOK
  <2>3. CASE c \notin DOMAIN container
    <3>1. container'[c].queue = {}
      BY <1>2, <1>11, <2>3
    <3> QED BY <2>1, <3>1 DEF QueueOK
  <2> QED BY <2>2, <2>3
<1>14. GraphInv'
  <2>1. conf' = conf
    BY DEF FinishStack
  <2>2. \A i \in 1..Len(none) : Extending(none[i], stackNo)
    BY <1>7
  <2> QED BY <1>1, <1>2, <1>8, <1>12, <1>13, <2>1, <2>2, StepKeeps DEF st
<1>15. Position'
  <2>1. Size' = Size /\ pc' = "stack" /\ conf' = conf
    BY DEF FinishStack, Size
  <2> QED BY <1>1, <2>1, InvFacts DEF Position
<1> QED BY <1>14, <1>15 DEF CubeInv

LEMMA StartStackKeeps == CubeInv /\ StartStack => CubeInv'
<1> SUFFICES ASSUME CubeInv, StartStack PROVE CubeInv'
  OBVIOUS
<1> DEFINE n == stackNo
           cells == {grid \in Containers(stackNo) \X Coverages :
                       grid[2] \in DOMAIN container[grid[1]].edges
                         /\ container[grid[1]].edges[grid[2]] # <<>>}
           grids == Listing(cells)
           index(c, b) == CHOOSE i \in DOMAIN grids : grids[i] = <<c, b>>
           filled(c) == {b \in DOMAIN container[c].edges : container[c].edges[b] # <<>>}
           first(i) == Extended(container[grids[i][1]].edges[grids[i][2]][1], grids[i][1], 1)
           new == [i \in DOMAIN grids |-> first(i)]
           Item(c, b) == [x |-> 1, y |-> 1, hypo |-> Len(heap) + index(c, b), from |-> b]
<1>1. n \in 1..Size /\ n \in 0..Size /\ conf \in Settings /\ Size \in Nat
  <2>1. pc = "stack" /\ stackNo <= Size
    BY DEF StartStack
  <2> QED BY <2>1, InvFacts DEF CubeInv, Position
<1>2. /\ heap' = heap \o new
      /\ container' = [c \in DOMAIN container |->
               IF c \notin Containers(stackNo) THEN container[c]
               ELSE [container[c] EXCEPT !.queue = {Item(c, b) : b \in filled(c)},
                                         !.seen = {<<b, 1, 1>> : b \in filled(c)}]]
  BY DEF StartStack
<1>3. \A c \in Containers(n) : c \in DOMAIN container /\ c \in Coverages
  BY InvFacts DEF Containers, EdgesFrom
<1>4. IsFiniteSet(cells)
  <2>1. cells \subseteq Coverages \X Coverages
    BY <1>3
  <2>2. IsFiniteSet(Coverages \X Coverages)
    BY <1>1, CoveragesFinite, FS_Product
  <2> HIDE DEF cells
  <2> QED BY <2>1, <2>2, FS_Subset
<1>5. /\ grids \in Seq(cells) /\ \A x \in cells : \E i \in DOMAIN grids : grids[i] = x
  <2> HIDE DEF cells
  <2> QED BY <1>4, ListingIs
<1>6. Len(grids) \in Nat /\ DOMAIN grids = 1..Len(grids)
  <2> HIDE DEF cells, grids
  <2> QED BY <1>5
<1>7. ASSUME NEW i \in DOMAIN grids
      PROVE  /\ grids[i][1] \in Containers(n) /\ grids[i][2] \in DOMAIN container[grids[i][1]].edges
             /\ container[grids[i][1]].edges[grids[i][2]] # <<>>
  <2>1. grids[i] \in cells
    <3> HIDE DEF cells, grids
    <3> QED BY <1>5
  <2> HIDE DEF grids
  <2> QED BY <2>1
<1> HIDE DEF grids
\* a cell of an edge that is not empty
<1>8. ASSUME NEW c \in Containers(n), NEW b \in DOMAIN container[c].edges,
             container[c].edges[b] # <<>>
      PROVE  /\ 1 <= Len(container[c].edges[b]) /\ 1 <= Len(Translations(b, c))
             /\ Extending(Extended(container[c].edges[b][1], c, 1), n)
             /\ Extended(container[c].edges[b][1], c, 1).cov = c
             /\ <<c, b>> \in cells
  <2>1. EdgeOK(container, stack, n, c, b)
    BY <1>3, InvFacts DEF EdgesFrom
  <2>2. 1 <= Len(container[c].edges[b])
    <3> DEFINE C == Covering(stack[Cardinality(b)], b)
               e == container[c].edges[b]
    <3>1. e \in Seq(C) /\ e # <<>>
      BY <1>8, <2>1 DEF EdgeOK
    <3> HIDE DEF C, e
    <3>2. 1 <= Len(e)
      BY <3>1
    <3> QED BY <3>2 DEF e
  <2>3. 1 <= Len(Translations(b, c))
    <3> DEFINE R == [word : Word, score : Int]
               e == Translations(b, c)
    <3>1. e \in Seq(R) /\ e # <<>>
      BY <1>1, <2>1, TranslationsType DEF EdgeOK
    <3> HIDE DEF R, e
    <3>2. 1 <= Len(e)
      BY <3>1
    <3> QED BY <3>2 DEF e
  <2>4. b \in Coverages
    BY <2>1 DEF EdgeOK
  <2>5. conf \in Settings /\ heap \in Seq(HypoType) /\ Stacked(heap, stack, freed)
        /\ EdgesFrom(container, stack, n)
    BY InvFacts
  <2>6. 1 \in Nat \ {0}
    OBVIOUS
  <2>7. /\ Extending(Extended(container[c].edges[b][1], c, 1), n)
        /\ Extended(container[c].edges[b][1], c, 1).cov = c
    BY <1>3, <2>2, <2>3, <2>5, <2>6, CellIs
  <2> QED BY <1>8, <2>2, <2>3, <2>4, <2>7
<1> HIDE DEF cells
<1>9. ASSUME NEW i \in DOMAIN grids
      PROVE  /\ first(i) \in HypoType /\ Extending(first(i), n) /\ first(i).cov = grids[i][1]
  BY <1>7, <1>8 DEF Extending
<1> HIDE DEF first
<1>10. new \in [1..Len(grids) -> HypoType]
  BY <1>6, <1>9
<1>11. new \in Seq(HypoType) /\ Len(new) = Len(grids) /\ \A i \in DOMAIN grids : new[i] = first(i)
  <2>1. \A i \in DOMAIN grids : new[i] = first(i)
    OBVIOUS
  <2> HIDE DEF new
  <2> QED BY <1>6, <1>10, <2>1, FunctionIsSeq
<1> HIDE DEF new
<1>12. /\ StepOf(n, StackNow(n), {}, new)
       /\ heap' = HeapAfter(StackNow(n), new) /\ freed' = StackNow(n).freed
       /\ stack' = StackAfter(n, StackNow(n))
  BY <1>1, <1>2, <1>11, IdleStep DEF StartStack
\* the cell of an edge has its hypothesis
<1>13. ASSUME NEW c \in Containers(n), NEW b \in filled(c)
       PROVE  index(c, b) \in DOMAIN grids /\ grids[index(c, b)] = <<c, b>>
  <2>1. <<c, b>> \in cells
    BY <1>8
  <2> QED BY <1>5, <2>1
<1>14. /\ DOMAIN container' = DOMAIN container
       /\ \A c \in DOMAIN container : c \notin Containers(n) => container'[c] = container[c]
       /\ \A c \in Containers(n) : container'[c].queue = {Item(c, b) : b \in filled(c)}
       /\ \A c \in DOMAIN container : /\ DOMAIN container'[c] = Fields
                                      /\ container'[c].edges = container[c].edges
  <2>1. \A c \in DOMAIN container : DOMAIN container[c] = Fields
    BY InvFacts DEF EdgesFrom
  <2> HIDE DEF Item, filled
  <2> QED BY <1>2, <1>3, <2>1 DEF Fields
<1> HIDE DEF index
<1>15. EdgesFrom(container', stack', stackNo')
  <2>1. EdgesFrom(container, stack, stackNo) /\ stack' = stack /\ stackNo' = stackNo
    BY InvFacts DEF StartStack
  <2> QED BY <1>14, <2>1, SameEdges
<1>16. ASSUME NEW c \in Containers(n) PROVE QueueOK(container', heap', stack', freed', c)
  <2>1. ASSUME NEW b \in filled(c)
        PROVE  /\ ItemOK(container', c, Item(c, b)) /\ Fresh(heap', stack', freed', c, Item(c, b).hypo)
               /\ Item(c, b).hypo = Len(heap) + index(c, b)
    <3> DEFINE i == index(c, b)
    <3>1. i \in DOMAIN grids /\ grids[i] = <<c, b>>
      BY <1>13
    <3> HIDE DEF i
    <3>2. i \in 1..Len(new) /\ new[i].cov = c /\ new[i].arcs = <<>> /\ c \in Coverages
      BY <1>3, <1>6, <1>9, <1>11, <3>1 DEF Extending
    <3>3. conf \in Settings /\ heap \in Seq(HypoType) /\ Stacked(heap, stack, freed)
      BY InvFacts
    <3>4. Fresh(heap', stack', freed', c, Len(heap) + i)
      BY <1>1, <1>12, <3>2, <3>3, StepCreated
    <3>5. 1 <= Len(container[c].edges[b]) /\ 1 <= Len(Translations(b, c))
      BY <1>8
    <3>6. ItemOK(container', c, Item(c, b))
      BY <1>3, <1>14, <3>5 DEF ItemOK
    <3> QED BY <3>4, <3>6 DEF i
  <2>2. \A g \in container'[c].queue : \E b \in filled(c) : g = Item(c, b)
    BY <1>14
  <2>3. ASSUME NEW b \in filled(c), NEW a \in filled(c), Item(c, a).hypo = Item(c, b).hypo
        PROVE  Item(c, a) = Item(c, b)
    <3>1. Len(heap) + index(c, a) = Len(heap) + index(c, b)
      BY <2>1, <2>3
    <3>2. index(c, a) \in Nat /\ index(c, b) \in Nat /\ Len(heap) \in Nat
      BY <1>6, <1>13, InvFacts
    <3>3. index(c, a) = index(c, b)
      BY <3>1, <3>2
    <3>4. <<c, a>> = <<c, b>>
      BY <1>13, <3>3
    <3> QED BY <3>4
  <2> HIDE DEF Item, filled
  <2> QED BY <2>1, <2>2, <2>3 DEF QueueOK
<1>17. ASSUME NEW c \in DOMAIN container, c \notin Containers(n)
       PROVE  QueueOK(container', heap', stack', freed', c)
  <2>1. container'[c] = container[c] /\ c \in Coverages
    BY <1>14, <1>17, InvFacts DEF EdgesFrom
  <2>2. QueueOK(container, heap, stack, freed, c)
    BY InvFacts DEF Queued
  <2>3. conf \in Settings /\ heap \in Seq(HypoType) /\ Stacked(heap, stack, freed)
    BY InvFacts
  <2>4. ASSUME NEW item \in container[c].queue
        PROVE  /\ ItemOK(container', c, item) /\ Fresh(heap', stack', freed', c, item.hypo)
               /\ \A other \in container[c].queue : other.hypo = item.hypo => other = item
    <3>1. Fresh(heap, stack, freed, c, item.hypo) /\ item.hypo \notin {}
      BY <2>2 DEF QueueOK
    <3>2. Fresh(heap', stack', freed', c, item.hypo)
      <4> DEFINE s == StackNow(n)
      <4>1. StepOf(n, s, {}, new)
        BY <1>12
      <4>2. heap' = HeapAfter(s, new) /\ freed' = s.freed /\ stack' = StackAfter(n, s)
        BY <1>12
      <4> HIDE DEF s
      <4>3. Fresh(HeapAfter(s, new), StackAfter(n, s), s.freed, c, item.hypo)
        BY <1>1, <2>1, <2>3, <3>1, <4>1, StepFresh
      <4> QED BY <4>2, <4>3
    <3> QED BY <2>1, <2>2, <3>2 DEF QueueOK, ItemOK
  <2> QED BY <2>1, <2>4 DEF QueueOK
<1>18. GraphInv'
  <2>1. conf' = conf /\ stackNo' = stackNo
    BY DEF StartStack
  <2>2. \A i \in 1..Len(new) : Extending(new[i], stackNo)
    BY <1>6, <1>9, <1>11
  <2>3. \A c \in DOMAIN container' : c \in Coverages /\ QueueOK(container', heap', stack', freed', c)
    BY <1>14, <1>16, <1>17, InvFacts DEF EdgesFrom
  <2> QED BY <1>1, <1>12, <1>15, <2>1, <2>2, <2>3, StepKeeps
<1>19. Position'
  <2>1. /\ Size' = Size /\ pc' = "pop" /\ conf' = conf /\ stackNo' = stackNo
        /\ queue' = Containers(stackNo)
    BY DEF StartStack, Size
  <2>2. Containers(stackNo)' = Containers(stackNo)
    BY <1>14, <2>1 DEF Containers
  <2> QED BY <1>1, <2>1, <2>2, InvFacts DEF Position
<1> QED BY <1>18, <1>19 DEF CubeInv

LEMMA PopKeeps == CubeInv /\ (PopBest \/ EnsureMin) => CubeInv'
<1> SUFFICES ASSUME CubeInv, PopBest \/ EnsureMin PROVE CubeInv'
  OBVIOUS
<1>1. stackNo \in 1..Size /\ conf' = conf /\ stackNo' = stackNo /\ pc' = pc /\ pc \in {"pop", "ensure"}
  BY DEF CubeInv, Position, PopBest, EnsureMin
<1>2. \E c \in Containers(stackNo) : ProcessBestHypothesis(c)
  <2>1. CASE PopBest
    <3>1. \E c \in queue : ProcessBestHypothesis(c)
      BY <2>1 DEF PopBest
    <3>2. queue \subseteq Containers(stackNo)
      BY <2>1 DEF PopBest, CubeInv, Position
    <3> QED BY <3>1, <3>2
  <2>2. CASE EnsureMin
    BY <2>2 DEF EnsureMin
  <2> QED BY <2>1, <2>2
<1>3. GraphInv' /\ DOMAIN container' = DOMAIN container
  BY <1>1, <1>2, ProcessBestKeeps
<1>4. queue' \subseteq queue
  BY DEF PopBest, EnsureMin
<1>5. Containers(stackNo)' = Containers(stackNo) /\ Size' = Size
  BY <1>1, <1>3 DEF Containers, Size
<1>6. Position'
  BY <1>1, <1>4, <1>5 DEF CubeInv, Position
<1> QED BY <1>3, <1>6 DEF CubeInv

LEMMA CubeInvInit == NBestInit => CubeInv
<1> SUFFICES ASSUME NBestInit PROVE CubeInv
  OBVIOUS
<1> DEFINE empty == [cov |-> {}, end |-> -1, word |-> BeginWord, prev |-> 0, option |-> 0,
                     score |-> 0, total |-> 0, arcs |-> <<>>]
<1>1. /\ conf \in Settings /\ heap = <<empty>> /\ freed = {}
      /\ stack = [n \in 0..Size |-> IF n = 0 THEN {1} ELSE {}]
      /\ container = [c \in {{}} |-> NoContainer] /\ stackNo = 0 /\ pc = "first"
  BY DEF NBestInit, SearchInit
<1>2. Size \in Nat \ {0}
  BY <1>1, SettingsType
<1>3. {} \in Coverages /\ Cardinality({}) = 0
  BY FS_EmptySet DEF Coverages
<1>4. empty \in HypoType
  <2>1. BeginWord \in Word /\ <<>> \in Seq(Nat)
    BY CubeAssumption
  <2> QED BY <1>3, <2>1 DEF HypoType
<1>5. /\ heap \in Seq(HypoType) /\ Len(heap) = 1 /\ heap[1].cov = {} /\ heap[1].arcs = <<>>
      /\ heap[1].prev = 0
  <2>1. empty.cov = {} /\ empty.arcs = <<>> /\ empty.prev = 0
    OBVIOUS
  <2> DEFINE R == HypoType
  <2> HIDE DEF empty, R
  <2>2. empty \in R
    BY <1>4 DEF R
  <2>3. heap \in Seq(R) /\ Len(heap) = 1 /\ heap[1] = empty
    BY <1>1, <2>2
  <2> QED BY <2>1, <2>3 DEF R
<1>6. 1..Len(heap) = {1}
  BY <1>5
<1>7. Rooted(heap, stack, stackNo)
  BY <1>5, <1>6 DEF Rooted, RootedAt
<1>8. Stacked(heap, stack, freed)
  <2>1. ToSet(heap[1].arcs) = {} /\ IsInjective(heap[1].arcs)
    BY <1>5 DEF ToSet, IsInjective
  <2>2. KinOf(heap, 1) = {1}
    BY <2>1 DEF KinOf
  <2>3. ASSUME NEW n \in 0..Size PROVE StackOK(heap, stack, freed, n)
    <3>1. stack[n] = IF n = 0 THEN {1} ELSE {}
      BY <1>1
    <3>2. CASE n # 0
      BY <3>1, <3>2 DEF StackOK
    <3>3. CASE n = 0
      <4> SUFFICES ASSUME NEW h \in stack[n]
                   PROVE  /\ Cardinality(heap[h].cov) = n
                          /\ h \notin ToSet(heap[h].arcs) /\ IsInjective(heap[h].arcs)
                          /\ \A a \in KinOf(heap, h) : /\ a \in 1..Len(heap) /\ a \notin freed
                                                       /\ heap[a].cov = heap[h].cov
                          /\ \A g \in stack[n] : g # h => KinOf(heap, g) \intersect KinOf(heap, h) = {}
        BY DEF StackOK
      <4>1. h = 1 /\ \A g \in stack[n] : g = 1
        BY <3>1, <3>3
      <4> QED BY <1>1, <1>3, <1>5, <1>6, <2>1, <2>2, <3>3, <4>1
    <3> QED BY <3>2, <3>3
  <2>4. stack \in [0..Size -> SUBSET (1..Len(heap))]
    BY <1>1, <1>6
  <2> QED BY <1>1, <2>3, <2>4 DEF Stacked
<1>9. DOMAIN container = {{}} /\ container[{}] = NoContainer
  BY <1>1
<1>10. EdgesFrom(container, stack, stackNo)
  BY <1>3, <1>9 DEF EdgesFrom, NoContainer, Fields
<1>11. Queued(container, heap, stack, freed)
  <2>1. NoContainer.queue = {}
    BY DEF NoContainer
  <2>2. \A c \in DOMAIN container : container[c] = NoContainer
    BY <1>9
  <2>3. \A c \in DOMAIN container : container[c].queue = {}
    BY <2>1, <2>2
  <2> QED BY <2>3 DEF Queued, QueueOK
<1>12. Position
  BY <1>1, <1>2 DEF Position
<1> QED BY <1>5, <1>7, <1>8, <1>10, <1>11, <1>12 DEF CubeInv, GraphInv

LEMMA CubeInvNext == CubeInv /\ [NBestNext]_allVars => CubeInv'
<1> SUFFICES ASSUME CubeInv, [NBestNext]_allVars PROVE CubeInv'
  OBVIOUS
<1> DEFINE Still == UNCHANGED <<conf, heap, freed, stack, container, stackNo>>
<1>1. CASE FirstStack
  BY <1>1, FirstStackKeeps
<1>2. CASE StartStack
  BY <1>2, StartStackKeeps
<1>3. CASE PopBest \/ EnsureMin
  BY <1>3, PopKeeps
<1>4. CASE FinishStack
  BY <1>4, FinishStackKeeps
<1>5. ASSUME Still,
             \/ queue' \subseteq queue /\ pc' = pc
             \/ pc = "pop" /\ pc' = "ensure"
             \/ pc' \in {"searched", "nbest", "done"}
      PROVE  CubeInv'
  <2>1. GraphInv'
    BY <1>5, GraphUnchanged
  <2>2. Size' = Size /\ Containers(stackNo)' = Containers(stackNo)
    BY <1>5 DEF Size, Containers
  <2>3. Position'
    BY <1>5, <2>2 DEF CubeInv, Position
  <2> QED BY <2>1, <2>3 DEF CubeInv
<1>6. CASE OutOfTime \/ EndSearch
  BY <1>5, <1>6 DEF OutOfTime, EndSearch
<1>7. CASE PopEmpty
  BY <1>5, <1>7 DEF PopEmpty
<1>8. CASE StopPopping
  BY <1>5, <1>8 DEF StopPopping
<1>9. CASE StartNBest \/ NoNBest \/ EndNBest
  BY <1>5, <1>9 DEF StartNBest, NoNBest, EndNBest
<1>10. CASE TakeBest
  BY <1>5, <1>10 DEF TakeBest, searchVars
<1>11. CASE UNCHANGED allVars
  BY <1>5, <1>11 DEF allVars, searchVars
<1> QED BY <1>1, <1>2, <1>3, <1>4, <1>6, <1>7, <1>8, <1>9, <1>10, <1>11 DEF NBestNext, SearchNext

\* All that is looked at is reached from the stacks and the queues.
LEMMA CubeInvIsSafe == CubeInv => NoDangling
<1> SUFFICES ASSUME CubeInv PROVE NoDangling
  OBVIOUS
<1> DEFINE stacked == UNION {stack[n] : n \in 0..Size}
           arcs == UNION {ToSet(heap[h].arcs) : h \in stacked}
           edges == UNION {UNION {ToSet(container[c].edges[b]) : b \in DOMAIN container[c].edges} :
                             c \in {d \in DOMAIN container : Cardinality(d) >= stackNo}}
           queued == UNION {{item.hypo : item \in container[c].queue} : c \in DOMAIN container}
           used == stacked \union arcs \union edges \union queued
<1>1. ASSUME NEW h \in stacked PROVE \A a \in KinOf(heap, h) : a \in Created /\ a \notin freed
  <2>1. PICK n \in 0..Size : h \in stack[n]
    OBVIOUS
  <2> QED BY <2>1, InvFacts DEF Stacked, StackOK, Created
<1>2. \A h \in stacked : h \in Created /\ h \notin freed
  BY <1>1 DEF KinOf
<1>3. \A a \in arcs : a \in Created /\ a \notin freed
  BY <1>1 DEF KinOf
<1>4. ASSUME NEW h \in edges PROVE h \in stacked
  <2>0. PICK c \in DOMAIN container :
          \E b \in DOMAIN container[c].edges : h \in ToSet(container[c].edges[b])
    OBVIOUS
  <2>1. PICK b \in DOMAIN container[c].edges : h \in ToSet(container[c].edges[b])
    BY <2>0
  <2> DEFINE C == Covering(stack[Cardinality(b)], b)
             e == container[c].edges[b]
  <2>2. e \in Seq(C) /\ b \in Coverages
    BY InvFacts DEF EdgesFrom, EdgeOK
  <2>3. h \in C
    <3> HIDE DEF C, e
    <3>1. h \in ToSet(e)
      BY <2>1 DEF e
    <3> QED BY <2>2, <3>1 DEF ToSet
  <2>4. Cardinality(b) \in 0..Size
    BY <2>2, InvFacts, CoverageIs
  <2> QED BY <2>3, <2>4 DEF Covering
<1>5. ASSUME NEW h \in queued PROVE h \in Created /\ h \notin freed
  <2>1. PICK c \in DOMAIN container : \E item \in container[c].queue : h = item.hypo
    OBVIOUS
  <2> QED BY <2>1, InvFacts DEF Queued, QueueOK, Fresh, Created
<1> HIDE DEF arcs, edges, queued
<1>6. \A h \in used : h \in Created /\ h \notin freed
  BY <1>2, <1>3, <1>4, <1>5
<1>7. ASSUME NEW h \in used PROVE heap[h].prev \notin freed
  <2>1. RootedAt(heap, stack, stackNo, h)
    BY <1>6, InvFacts DEF Rooted, Created
  <2>2. CASE heap[h].prev # 0
    <3> DEFINE p == heap[h].prev
    <3>1. p \in Created /\ p \in stack[Cardinality(heap[p].cov)]
      BY <2>1, <2>2 DEF RootedAt, Created
    <3>2. Cardinality(heap[p].cov) \in 0..Size
      <4> HIDE DEF p
      <4> QED BY <3>1, InvFacts, HypoIs, CoverageIs
    <3> QED BY <1>2, <3>1, <3>2
  <2>3. CASE heap[h].prev = 0
    BY <2>3, InvFacts DEF Stacked
  <2> QED BY <2>2, <2>3
<1> HIDE DEF used
<1>8. (used \union {heap[h].prev : h \in used}) \intersect freed = {}
  BY <1>6, <1>7
<1> QED BY <1>8 DEF NoDangling, used, stacked, arcs, edges, queued

-----------------------------------------------------------------------------
(* Cube pruning pops the best cells first, where the scores are local.            *)

\* The score of hypothesis h of a heap hp, when the next phrase begins at start.
Reach(hp, h, start) == hp[h].score - conf.weightDistortion * DistortionDistance(hp[h].end, start)

\* The score of a cell when nothing but its hypothesis, its translation and the way
\* between them counts.
CellValue(hp, cont, c, b, x, y) ==
  Reach(hp, cont[c].edges[b][x], Lowest(c \ b)) + Translations(b, c)[y].score + FutureScore(c)

\* Hypotheses of one coverage differ by their total scores as by their scores.
TotalOK(g) == g.total = g.score + (IF g.cov = {} THEN 0 ELSE FutureScore(g.cov))

Totals(hp) == \A h \in 1..Len(hp) : TotalOK(hp[h])

\* The hypotheses of an edge are sorted by what they bring to it.
EdgeSorted(hp, e, start) ==
  \A i \in 1..Len(e), j \in 1..Len(e) : i <= j => Reach(hp, e[i], start) >= Reach(hp, e[j], start)

Sorted(hp, cont) ==
  \A c \in DOMAIN cont : \A b \in DOMAIN cont[c].edges :
    EdgeSorted(hp, cont[c].edges[b], Lowest(c \ b))

InGrid(cont, c, b, x, y) ==
  /\ b \in DOMAIN cont[c].edges
  /\ x \in 1..Len(cont[c].edges[b]) /\ y \in 1..Len(Translations(b, c))

CellOf(item) == <<item.from, item.x, item.y>>

Popped(cont, c) == cont[c].seen \ {CellOf(item) : item \in cont[c].queue}

\* Every grid has been entered at its best cell, and after a cell its neighbours are
\* seen; what waits is known by its score.
GridsOK(hp, cont, c) ==
  /\ \A cell \in cont[c].seen : \E b, x, y : cell = <<b, x, y>> /\ InGrid(cont, c, b, x, y)
  /\ \A item \in cont[c].queue :
       /\ CellOf(item) \in cont[c].seen
       /\ hp[item.hypo].total = CellValue(hp, cont, c, item.from, item.x, item.y)
  /\ \A b \in DOMAIN cont[c].edges : cont[c].edges[b] # <<>> => <<b, 1, 1>> \in cont[c].seen
  /\ \A b, x, y : <<b, x, y>> \in Popped(cont, c) =>
       /\ InGrid(cont, c, b, x + 1, y) => <<b, x + 1, y>> \in cont[c].seen
       /\ InGrid(cont, c, b, x, y + 1) => <<b, x, y + 1>> \in cont[c].seen

\* What has been popped is as good as what waits, in whatever container.
BestFirst(hp, cont, c, d) ==
  \A b, x, y : <<b, x, y>> \in Popped(cont, c) =>
    \A item \in cont[d].queue : CellValue(hp, cont, c, b, x, y) >= hp[item.hypo].total

OfStack(cont, n) == {c \in DOMAIN cont : Cardinality(c) = n}

Popping(hp, cont, q, n) ==
  \A c \in OfStack(cont, n) :
    /\ GridsOK(hp, cont, c)
    /\ cont[c].queue # {} => c \in q
    /\ \A d \in OfStack(cont, n) : BestFirst(hp, cont, c, d)

BestInv ==
  /\ Totals(heap)
  /\ LocalScores => Sorted(heap, container)
  /\ LocalScores /\ pc = "pop" => Popping(heap, container, queue, stackNo)

\* Whoever comes before another has fewer before it.
LEMMA BeforeIsLess ==
  ASSUME NEW S, IsFiniteSet(S), S \subseteq Int, NEW F \in [S -> Int],
         NEW h \in S, NEW g \in Before(S, F, h)
  PROVE  /\ Cardinality(Before(S, F, g)) \in Nat /\ Cardinality(Before(S, F, h)) \in Nat
         /\ Cardinality(Before(S, F, g)) < Cardinality(Before(S, F, h))
<1>1. \A x \in S : x \in Int /\ F[x] \in Int
  OBVIOUS
<1>2. g \in S /\ g \notin Before(S, F, g)
  BY <1>1 DEF Before
<1>3. ASSUME NEW x \in Before(S, F, g) PROVE x \in Before(S, F, h)
  <2>1. x \in S /\ (F[x] > F[g] \/ (F[x] = F[g] /\ x < g))
    BY <1>3 DEF Before
  <2>2. F[g] > F[h] \/ (F[g] = F[h] /\ g < h)
    BY DEF Before
  <2>3. F[x] \in Int /\ F[g] \in Int /\ F[h] \in Int /\ x \in Int /\ g \in Int /\ h \in Int
    BY <1>1, <1>2, <2>1
  <2>4. F[x] > F[h] \/ (F[x] = F[h] /\ x < h)
    BY <2>1, <2>2, <2>3
  <2> QED BY <2>1, <2>4 DEF Before
<1>4. IsFiniteSet(Before(S, F, h))
  <2>1. Before(S, F, h) \subseteq S
    BY DEF Before
  <2> QED BY <2>1, FS_Subset
<1>5. /\ IsFiniteSet(Before(S, F, h) \ {g})
      /\ Cardinality(Before(S, F, h) \ {g}) = Cardinality(Before(S, F, h)) - 1
  BY <1>4, TakenOut
<1>6. Before(S, F, g) \subseteq Before(S, F, h) \ {g}
  BY <1>2, <1>3
<1>7. /\ IsFiniteSet(Before(S, F, g))
      /\ Cardinality(Before(S, F, g)) <= Cardinality(Before(S, F, h) \ {g})
  BY <1>5, <1>6, FS_Subset
<1>8. Cardinality(Before(S, F, g)) \in Nat /\ Cardinality(Before(S, F, h)) \in Nat
  BY <1>4, <1>7, FS_CardinalityType
<1> QED BY <1>5, <1>7, <1>8

\* The other way round: of two ranks the smaller one has the higher score.
LEMMA RanksFall ==
  ASSUME NEW S, IsFiniteSet(S), S \subseteq Int, NEW F \in [S -> Int], NEW g \in S, NEW h \in S,
         Cardinality(Before(S, F, g)) <= Cardinality(Before(S, F, h))
  PROVE  F[g] >= F[h]
<1>1. SUFFICES ASSUME ~(F[g] >= F[h]) PROVE FALSE
  OBVIOUS
<1>2. F[g] \in Int /\ F[h] \in Int
  OBVIOUS
<1>3. h \in Before(S, F, g)
  BY <1>1, <1>2 DEF Before
<1>4. /\ Cardinality(Before(S, F, g)) \in Nat /\ Cardinality(Before(S, F, h)) \in Nat
      /\ Cardinality(Before(S, F, h)) < Cardinality(Before(S, F, g))
  BY <1>3, BeforeIsLess
<1> QED BY <1>4

\* A set sorted by the total score: the score never rises.
LEMMA TotalFalls ==
  ASSUME NEW S, IsFiniteSet(S), S \subseteq Int, \A h \in S : TotalScore(h) \in Int,
         NEW q, q = SortedBy(S, TotalScore)
  PROVE  \A i, j \in 1..Cardinality(S) : i <= j => TotalScore(q[i]) >= TotalScore(q[j])
<1> DEFINE before(h) == {g \in S : \/ TotalScore(g) > TotalScore(h)
                                   \/ TotalScore(g) = TotalScore(h) /\ g < h}
           F == [h \in S |-> TotalScore(h)]
           sorted == [i \in 1..Cardinality(S) |-> CHOOSE h \in S : Cardinality(before(h)) = i - 1]
<1>1. F \in [S -> Int] /\ \A h \in S : F[h] = TotalScore(h)
  OBVIOUS
<1>2. \A h \in S : Before(S, F, h) = before(h)
  BY DEF Before
<1>3. q = sorted
  BY DEF SortedBy
<1> HIDE DEF before, F
<1>4. ASSUME NEW i \in 1..Cardinality(S)
      PROVE  q[i] \in S /\ Cardinality(Before(S, F, q[i])) = i - 1
  <2>1. \E h \in S : Cardinality(before(h)) = i - 1
    BY <1>1, <1>2, AllRanks
  <2>2. q[i] = CHOOSE h \in S : Cardinality(before(h)) = i - 1
    BY <1>3
  <2>3. q[i] \in S /\ Cardinality(before(q[i])) = i - 1
    BY <2>1, <2>2
  <2> QED BY <1>2, <2>3
<1>5. ASSUME NEW i \in 1..Cardinality(S), NEW j \in 1..Cardinality(S), i <= j
      PROVE  TotalScore(q[i]) >= TotalScore(q[j])
  <2>1. Cardinality(Before(S, F, q[i])) <= Cardinality(Before(S, F, q[j]))
    <3>1. i - 1 <= j - 1
      BY <1>5, FS_CardinalityType
    <3> QED BY <1>4, <3>1
  <2>2. F[q[i]] >= F[q[j]]
    BY <1>1, <1>4, <2>1, RanksFall
  <2> QED BY <1>1, <1>4, <2>2
<1> QED BY <1>5

\* What a hypothesis brings to an edge is a number.
LEMMA ReachType ==
  ASSUME conf \in Settings, heap \in Seq(HypoType), NEW h \in Created, NEW start \in Int
  PROVE  Reach(heap, h, start) \in Int
<1>1. heap[h].score \in Int /\ DistortionDistance(heap[h].end, start) \in Int
      /\ conf.weightDistortion \in Nat
  BY HypoIs, DistanceType, SettingsType
<1>2. PICK a \in Int, w \in Int, d \in Int :
        heap[h].score = a /\ conf.weightDistortion = w /\ DistortionDistance(heap[h].end, start) = d
  BY <1>1
<1>3. w * d \in Int
  BY <1>2
<1>4. a - w * d \in Int
  BY <1>2, <1>3
<1> QED BY <1>2, <1>4 DEF Reach

\* So does what hypotheses bring to an edge they are sorted for.
LEMMA ReachFalls ==
  ASSUME conf \in Settings, heap \in Seq(HypoType), NEW hypos, NEW start \in Int,
         ~(conf.maxDistortion < 0), ToSet(hypos) \subseteq Created
  PROVE  EdgeSorted(heap, EdgeHypotheses(hypos, start), start)
<1> DEFINE S == {h \in ToSet(hypos) :
                   DistortionDistance(heap[h].end, start) <= conf.maxDistortion}
           f(h) == heap[h].score - conf.weightDistortion * DistortionDistance(heap[h].end, start)
           before(h) == {g \in S : f(g) > f(h) \/ (f(g) = f(h) /\ g < h)}
           F == [h \in S |-> Reach(heap, h, start)]
           sorted == [i \in 1..Cardinality(S) |-> CHOOSE h \in S : Cardinality(before(h)) = i - 1]
           q == EdgeHypotheses(hypos, start)
<1>1. q = sorted
  BY DEF EdgeHypotheses, SortedBy
<1>2. S \subseteq Created
  OBVIOUS
<1> HIDE DEF S, q
<1>3. IsFiniteSet(S) /\ S \subseteq Int
  BY <1>2, HyposFinite
<1>4. \A h \in S : Reach(heap, h, start) \in Int
  BY <1>2, ReachType
<1>5. F \in [S -> Int] /\ \A h \in S : F[h] = Reach(heap, h, start)
  BY <1>4
<1>6. \A h \in S : Before(S, F, h) = before(h)
  <2>1. \A h : f(h) = Reach(heap, h, start)
    BY DEF Reach
  <2> HIDE DEF f, F
  <2> QED BY <1>5, <2>1 DEF Before
<1> HIDE DEF before, F
<1>7. ASSUME NEW i \in 1..Cardinality(S)
      PROVE  q[i] \in S /\ Cardinality(Before(S, F, q[i])) = i - 1
  <2>1. \E h \in S : Cardinality(before(h)) = i - 1
    BY <1>3, <1>5, <1>6, AllRanks
  <2>2. q[i] = CHOOSE h \in S : Cardinality(before(h)) = i - 1
    BY <1>1
  <2>3. q[i] \in S /\ Cardinality(before(q[i])) = i - 1
    BY <2>1, <2>2
  <2> QED BY <1>6, <2>3
<1>8. Len(q) = Cardinality(S)
  <2>1. \A i \in 1..Cardinality(S) : q[i] \in S
    BY <1>7
  <2>2. DOMAIN q = 1..Cardinality(S) /\ q = [i \in 1..Cardinality(S) |-> q[i]]
    BY <1>1
  <2>3. q \in [1..Cardinality(S) -> S]
    BY <2>1, <2>2
  <2> QED BY <1>3, <2>3, FS_CardinalityType, FunctionIsSeq
<1>9. ASSUME NEW i \in 1..Cardinality(S), NEW j \in 1..Cardinality(S), i <= j
      PROVE  Reach(heap, q[i], start) >= Reach(heap, q[j], start)
  <2>1. Cardinality(Before(S, F, q[i])) <= Cardinality(Before(S, F, q[j]))
    <3>1. i - 1 <= j - 1
      BY <1>3, <1>9, FS_CardinalityType
    <3> QED BY <1>7, <3>1
  <2>2. F[q[i]] >= F[q[j]]
    BY <1>3, <1>5, <1>7, <2>1, RanksFall
  <2> QED BY <1>5, <1>7, <2>2
<1> QED BY <1>8, <1>9 DEF EdgeSorted, q

\* Either way an edge is sorted as it should be when it is made.
LEMMA EdgeIsSorted ==
  ASSUME conf \in Settings, heap \in Seq(HypoType), Totals(heap), LocalScores,
         NEW hypos \in SUBSET Created, NEW b, NEW start \in Int
  PROVE  EdgeSorted(heap, EdgeHypotheses(Own(hypos, b), start), start)
<1> DEFINE S == {h \in hypos : heap[h].cov = b}
           q == Own(hypos, b)
<1>1. S \subseteq Created
  OBVIOUS
<1>2. \A h \in S : heap[h].cov = b /\ TotalScore(h) \in Int
  BY HypoIs
<1>3. q = SortedBy(S, TotalScore)
  BY DEF Own
<1> HIDE DEF S, q
<1>4. IsFiniteSet(S) /\ S \subseteq Int
  BY <1>1, HyposFinite
<1>5. q \in Seq(S) /\ Len(q) = Cardinality(S)
  BY <1>2, <1>3, <1>4, SortedByTotal
<1>6. \A i, j \in 1..Cardinality(S) : i <= j => TotalScore(q[i]) >= TotalScore(q[j])
  BY <1>2, <1>3, <1>4, TotalFalls
<1>7. CASE conf.maxDistortion < 0
  <2>1. EdgeHypotheses(q, start) = q
    BY <1>7 DEF EdgeHypotheses
  <2>2. conf.weightDistortion = 0
    <3>1. conf.maxDistortion \in Int
      BY SettingsType
    <3> QED BY <1>7, <3>1 DEF LocalScores
  <2>3. ASSUME NEW h \in S PROVE Reach(heap, h, start) = heap[h].score /\ heap[h].score \in Int
    <3>1. heap[h].score \in Int /\ DistortionDistance(heap[h].end, start) \in Int
      BY <1>1, HypoIs, DistanceType
    <3>2. PICK a \in Int, d \in Int : heap[h].score = a /\ DistortionDistance(heap[h].end, start) = d
      BY <3>1
    <3>3. a - 0 * d = a
      BY <3>2
    <3> QED BY <2>2, <3>2, <3>3 DEF Reach
  <2>4. PICK k \in Int : \A h \in S : TotalScore(h) = heap[h].score + k
    <3> DEFINE k == IF b = {} THEN 0 ELSE FutureScore(b)
    <3>1. k \in Int
      BY FutureScoreType
    <3>2. \A h \in S : TotalScore(h) = heap[h].score + k
      BY <1>1, <1>2 DEF Totals, TotalOK, TotalScore, Created
    <3> HIDE DEF k
    <3> QED BY <3>1, <3>2
  <2>5. ASSUME NEW i \in 1..Len(q), NEW j \in 1..Len(q), i <= j
        PROVE  Reach(heap, q[i], start) >= Reach(heap, q[j], start)
    <3>1. q[i] \in S /\ q[j] \in S
      BY <1>5
    <3>2. TotalScore(q[i]) >= TotalScore(q[j])
      BY <1>5, <1>6, <2>5
    <3>3. PICK x \in Int, y \in Int : x = heap[q[i]].score /\ y = heap[q[j]].score
      BY <2>3, <3>1
    <3>4. x + k >= y + k
      BY <2>4, <3>1, <3>2, <3>3
    <3>5. x >= y
      BY <3>4
    <3> QED BY <2>3, <3>1, <3>3, <3>5
  <2> QED BY <2>1, <2>5 DEF EdgeSorted, q
<1>8. CASE ~(conf.maxDistortion < 0)
  <2>1. ToSet(q) \subseteq Created
    BY <1>1, <1>5 DEF ToSet
  <2> QED BY <1>8, <2>1, ReachFalls DEF q
<1> QED BY <1>7, <1>8

\* What a cell of a grid is made of.
LEMMA GridIs ==
  ASSUME conf \in Settings, heap \in Seq(HypoType), Stacked(heap, stack, freed),
         NEW n, EdgesFrom(container, stack, n), NEW c \in DOMAIN container,
         NEW b, NEW x, NEW y, InGrid(container, c, b, x, y)
  PROVE  /\ container[c].edges[b][x] \in Covering(Created, b)
         /\ container[c].edges[b][x] \in Created
         /\ Lowest(c \ b) \in Int /\ c # {} /\ b # c
         /\ Translations(b, c)[y].word \in Word /\ Translations(b, c)[y].score \in Int
         /\ x \in Nat \ {0} /\ y \in Nat \ {0}
         /\ Len(container[c].edges[b]) \in Nat /\ Len(Translations(b, c)) \in Nat
<1> DEFINE e == container[c].edges[b]
           C == Covering(stack[Cardinality(b)], b)
           R == [word : Word, score : Int]
           opts == Translations(b, c)
           new == c \ b
<1>1. EdgeOK(container, stack, n, c, b) /\ c \in Coverages /\ b \in Coverages
  BY DEF EdgesFrom, EdgeOK, InGrid
<1>2. e \in Seq(C) /\ opts \in Seq(R) /\ x \in 1..Len(e) /\ y \in 1..Len(opts)
  BY <1>1, TranslationsType DEF EdgeOK, InGrid
<1>3. e[x] \in C /\ opts[y] \in R /\ Len(e) \in Nat /\ Len(opts) \in Nat
      /\ x \in Nat \ {0} /\ y \in Nat \ {0}
  <2> HIDE DEF e, C, R, opts
  <2> QED BY <1>2
<1>4. e[x] \in Created /\ e[x] \in Covering(Created, b)
  <2>1. Cardinality(b) \in 0..Size
    BY <1>1, CoverageIs
  <2> QED BY <1>3, <2>1 DEF Covering, Stacked, Created
<1>5. opts[y].word \in Word /\ opts[y].score \in Int
  <2> HIDE DEF opts
  <2> QED BY <1>3
<1>6. PICK span \in DOMAIN conf.options : new = span[1]..span[2]
  BY <1>1 DEF EdgeOK
<1>7. new # {} /\ new \subseteq Nat
  <2>1. span[1] \in Int /\ span[2] \in Int /\ span[1] <= span[2]
    BY SettingsType DEF Cells
  <2>2. span[1] \in span[1]..span[2]
    BY <2>1
  <2>3. c \subseteq Nat
    BY <1>1, CoverageIs
  <2>4. span[1] \in new
    BY <1>6, <2>2
  <2>5. new # {} /\ new \subseteq c
    BY <2>4
  <2> HIDE DEF new
  <2> QED BY <2>3, <2>5
<1>8. Lowest(new) \in Int
  <2> HIDE DEF new
  <2>1. Lowest(new) \in new
    BY <1>7, LowestIs
  <2>2. Lowest(new) \in Nat
    BY <1>7, <2>1, Zenon
  <2> QED BY <2>2
<1> QED BY <1>3, <1>4, <1>5, <1>7, <1>8

\* What a cell is worth is a number.
LEMMA CellValueType ==
  ASSUME conf \in Settings, heap \in Seq(HypoType), Stacked(heap, stack, freed),
         NEW n, EdgesFrom(container, stack, n), NEW c \in DOMAIN container,
         NEW b, NEW x, NEW y, InGrid(container, c, b, x, y)
  PROVE  CellValue(heap, container, c, b, x, y) \in Int
<1>1. /\ container[c].edges[b][x] \in Created /\ Lowest(c \ b) \in Int
      /\ Translations(b, c)[y].score \in Int
  BY GridIs
<1>2. Reach(heap, container[c].edges[b][x], Lowest(c \ b)) \in Int /\ FutureScore(c) \in Int
  BY <1>1, ReachType, FutureScoreType
<1> QED BY <1>1, <1>2 DEF CellValue

\* The hypothesis of a cell, and its score when the scores are local.
LEMMA CellHypothesis ==
  ASSUME conf \in Settings, heap \in Seq(HypoType), Stacked(heap, stack, freed),
         NEW n, EdgesFrom(container, stack, n), NEW c \in DOMAIN container,
         NEW b, NEW x, NEW y, InGrid(container, c, b, x, y)
  PROVE  /\ TotalOK(Extended(container[c].edges[b][x], c, y))
         /\ LocalScores =>
              /\ Extended(container[c].edges[b][x], c, y).total
                   = CellValue(heap, container, c, b, x, y)
              /\ CellScore(c, <<b, x, y>>) = CellValue(heap, container, c, b, x, y)
<1> DEFINE h == container[c].edges[b][x]
           new == c \ heap[h].cov
           opt == Translations(heap[h].cov, c)[y]
           dist == DistortionDistance(heap[h].end, Lowest(new))
           pair == conf.bigrams[<<heap[h].word, opt.word>>]
           score == heap[h].score + opt.score - conf.weightDistortion * dist + pair
           g == Extended(h, c, y)
<1>1. /\ h \in Created /\ heap[h].cov = b /\ Lowest(c \ b) \in Int /\ c # {}
      /\ Translations(b, c)[y].word \in Word /\ Translations(b, c)[y].score \in Int
  <2>1. container[c].edges[b][x] \in Created
    BY GridIs
  <2>4. heap[container[c].edges[b][x]].cov = b
    <3>1. container[c].edges[b][x] \in Covering(Created, b)
      BY GridIs
    <3> QED BY <3>1 DEF Covering
  <2>2. Lowest(c \ b) \in Int /\ c # {}
    BY GridIs
  <2>3. Translations(b, c)[y].word \in Word /\ Translations(b, c)[y].score \in Int
    BY GridIs
  <2> QED BY <2>1, <2>2, <2>3, <2>4
<1>2. g = [cov |-> c, end |-> Highest(new), word |-> opt.word, prev |-> h, option |-> y,
           score |-> score, total |-> score + FutureScore(c), arcs |-> <<>>]
  BY DEF Extended
<1>3. g.cov = c /\ g.score = score /\ g.total = score + FutureScore(c)
  <2> HIDE DEF score, opt, new
  <2> QED BY <1>2
<1>4. TotalOK(g)
  BY <1>1, <1>3 DEF TotalOK
<1>5. ASSUME LocalScores PROVE score + FutureScore(c) = CellValue(heap, container, c, b, x, y)
  <2>1. opt = Translations(b, c)[y] /\ dist = DistortionDistance(heap[h].end, Lowest(c \ b))
    BY <1>1
  <2>2. opt.word \in Word /\ opt.score \in Int
    BY <1>1, <2>1
  <2>3. heap[h].word \in Word /\ heap[h].score \in Int /\ heap[h].end \in Int
        /\ conf.weightDistortion \in Nat
    BY <1>1, HypoIs, SettingsType
  <2>4. pair = 0
    <3> HIDE DEF opt
    <3> QED BY <1>5, <2>2, <2>3 DEF LocalScores
  <2>5. dist \in Int /\ FutureScore(c) \in Int
    BY <1>1, <2>1, <2>3, DistanceType, FutureScoreType
  <2>6. CellValue(heap, container, c, b, x, y)
          = heap[h].score - conf.weightDistortion * dist + opt.score + FutureScore(c)
    BY <2>1 DEF CellValue, Reach
  <2> HIDE DEF dist, opt, pair, h
  <2>7. PICK s \in Int, o \in Int, w \in Int, d \in Int, f \in Int :
          /\ s = heap[h].score /\ o = opt.score /\ w = conf.weightDistortion
          /\ d = dist /\ f = FutureScore(c)
    BY <2>2, <2>3, <2>5
  <2>8. PICK z \in Int : z = w * d
    BY <2>7
  <2>9. s + o - z + 0 + f = s - z + o + f
    OBVIOUS
  <2> QED BY <2>4, <2>6, <2>7, <2>8, <2>9
<1>6. CellScore(c, <<b, x, y>>) = score + FutureScore(c)
  BY <1>3 DEF CellScore
<1> HIDE DEF score
<1> QED BY <1>3, <1>4, <1>5, <1>6

\* The score falls along both sides of a grid.
LEMMA GridFalls ==
  ASSUME conf \in Settings, heap \in Seq(HypoType), Stacked(heap, stack, freed),
         NEW n, EdgesFrom(container, stack, n), Sorted(heap, container),
         NEW c \in DOMAIN container, NEW b, NEW x, NEW y, NEW v, NEW w,
         InGrid(container, c, b, x, y), InGrid(container, c, b, v, w), x <= v, y <= w
  PROVE  CellValue(heap, container, c, b, x, y) >= CellValue(heap, container, c, b, v, w)
<1> DEFINE e == container[c].edges[b]
           opts == Translations(b, c)
           start == Lowest(c \ b)
<1>1. /\ e[x] \in Created /\ e[v] \in Created /\ start \in Int
      /\ opts[y].score \in Int /\ opts[w].score \in Int /\ y \in Nat /\ w \in Nat
  BY GridIs
<1>2. Reach(heap, e[x], start) >= Reach(heap, e[v], start)
  BY DEF Sorted, EdgeSorted, InGrid
<1>3. opts[y].score >= opts[w].score
  <2>1. EdgeOK(container, stack, n, c, b)
    BY DEF EdgesFrom, InGrid
  <2>2. PICK span \in DOMAIN conf.options : c \ b = span[1]..span[2]
    BY <2>1 DEF EdgeOK
  <2>3. opts = conf.options[span]
    BY <2>2, TranslationsOfSpan
  <2>4. y \in DOMAIN opts /\ w \in DOMAIN opts
    <3> DEFINE R == [word : Word, score : Int]
    <3>1. opts \in Seq(R)
      BY TranslationsType
    <3> HIDE DEF R
    <3> QED BY <3>1 DEF InGrid
  <2>5. \A i, j \in DOMAIN conf.options[span] :
          i < j => conf.options[span][i].score >= conf.options[span][j].score
    BY CubeAssumption
  <2>6. CASE y = w
    BY <1>1, <2>6
  <2>7. CASE y # w
    <3>1. y < w
      BY <1>1, <2>7
    <3> QED BY <2>3, <2>4, <2>5, <3>1
  <2> QED BY <2>6, <2>7
<1>4. Reach(heap, e[x], start) \in Int /\ Reach(heap, e[v], start) \in Int /\ FutureScore(c) \in Int
  BY <1>1, ReachType, FutureScoreType
<1>5. /\ CellValue(heap, container, c, b, x, y)
           = Reach(heap, e[x], start) + opts[y].score + FutureScore(c)
      /\ CellValue(heap, container, c, b, v, w)
           = Reach(heap, e[v], start) + opts[w].score + FutureScore(c)
  BY DEF CellValue
<1> HIDE DEF e, opts, start
<1> QED BY <1>1, <1>2, <1>3, <1>4, <1>5

\* A cell that has not been popped has one before it that waits.
LEMMA WaitsBefore ==
  ASSUME conf \in Settings, heap \in Seq(HypoType), Stacked(heap, stack, freed),
         NEW n, EdgesFrom(container, stack, n), NEW c \in DOMAIN container,
         GridsOK(heap, container, c),
         NEW b, NEW x, NEW y, InGrid(container, c, b, x, y), <<b, x, y>> \notin Popped(container, c)
  PROVE  \E item \in container[c].queue :
           item.from = b /\ item.x <= x /\ item.y <= y /\ InGrid(container, c, b, item.x, item.y)
<1> DEFINE seen == container[c].seen
           e == container[c].edges[b]
           opts == Translations(b, c)
           Reached == {k \in 0..x + y : \E v \in 1..x, w \in 1..y : v + w = k /\ <<b, v, w>> \in seen}
           k == Highest(Reached)
<1>1. /\ x \in Nat \ {0} /\ y \in Nat \ {0} /\ Len(e) \in Nat /\ Len(opts) \in Nat
      /\ x <= Len(e) /\ y <= Len(opts) /\ b \in DOMAIN container[c].edges
  BY GridIs DEF InGrid
<1>2. \A v \in 1..x, w \in 1..y : InGrid(container, c, b, v, w)
  BY <1>1 DEF InGrid
<1>3. ASSUME NEW v \in 1..x, NEW w \in 1..y, <<b, v, w>> \in seen,
             <<b, v, w>> \notin Popped(container, c)
      PROVE  \E item \in container[c].queue :
               item.from = b /\ item.x <= x /\ item.y <= y /\ InGrid(container, c, b, item.x, item.y)
  <2>1. PICK item \in container[c].queue : CellOf(item) = <<b, v, w>>
    BY <1>3 DEF Popped
  <2>2. item.from = b /\ item.x = v /\ item.y = w
    BY <2>1 DEF CellOf
  <2> QED BY <1>1, <1>2, <2>2
<1>4. CASE <<b, x, y>> \in seen
  <2>1. x \in 1..x /\ y \in 1..y
    BY <1>1
  <2> QED BY <1>3, <1>4, <2>1
<1>5. CASE <<b, x, y>> \notin seen
  <2>1. Reached # {} /\ Reached \subseteq Int /\ IsFiniteSet(Reached)
    <3>1. <<b, 1, 1>> \in seen
      <4>1. e # <<>>
        BY <1>1
      <4> QED BY <1>1, <4>1 DEF GridsOK
    <3>2. 1 \in 1..x /\ 1 \in 1..y /\ 1 + 1 \in 0..x + y
      BY <1>1
    <3>3. Reached # {}
      BY <3>1, <3>2
    <3>4. IsFiniteSet(0..x + y) /\ 0..x + y \subseteq Int /\ Reached \subseteq 0..x + y
      <4>1. 0 \in Int /\ x + y \in Int
        BY <1>1
      <4>2. IsFiniteSet(0..x + y)
        BY <4>1, FS_Interval
      <4> QED BY <4>2
    <3> QED BY <3>3, <3>4, FS_Subset
  <2>2. k \in Reached /\ \A j \in Reached : j <= k
    <3> HIDE DEF Reached
    <3> QED BY <2>1, HighestIs
  <2> HIDE DEF k
  <2>3. PICK v \in 1..x, w \in 1..y : v + w = k /\ <<b, v, w>> \in seen
    BY <2>2
  <2>4. v \in Nat /\ w \in Nat /\ k = v + w
    BY <1>1, <2>3
  <2>6. x \in Nat /\ y \in Nat /\ v <= x /\ w <= y
    BY <1>1
  <2>5. ASSUME <<b, v, w>> \in Popped(container, c) PROVE FALSE
    <3>1. CASE v < x
      <4>1. v + 1 \in 1..x
        BY <1>1, <2>4, <3>1
      <4>2. InGrid(container, c, b, v + 1, w)
        BY <1>2, <4>1
      <4>3. <<b, v + 1, w>> \in seen
        BY <2>5, <4>2 DEF GridsOK
      <4>4. k + 1 = v + 1 + w /\ k + 1 \in 0..x + y
        BY <2>4, <2>6, <3>1
      <4>5. k + 1 \in Reached
        BY <4>1, <4>3, <4>4
      <4>6. k + 1 <= k
        BY <2>2, <4>5
      <4> QED BY <2>4, <4>6
    <3>2. CASE ~(v < x) /\ w < y
      <4>1. w + 1 \in 1..y
        BY <1>1, <2>4, <3>2
      <4>2. InGrid(container, c, b, v, w + 1)
        BY <1>2, <4>1
      <4>3. <<b, v, w + 1>> \in seen
        BY <2>5, <4>2 DEF GridsOK
      <4>4. k + 1 = v + (w + 1) /\ k + 1 \in 0..x + y
        BY <2>4, <2>6, <3>2
      <4>5. k + 1 \in Reached
        BY <4>1, <4>3, <4>4
      <4>6. k + 1 <= k
        BY <2>2, <4>5
      <4> QED BY <2>4, <4>6
    <3>3. CASE ~(v < x) /\ ~(w < y)
      <4>1. v = x /\ w = y
        BY <1>1, <2>3, <3>3
      <4> QED BY <1>5, <2>3, <4>1
    <3> QED BY <3>1, <3>2, <3>3
  <2> QED BY <1>3, <2>3, <2>5
<1> QED BY <1>4, <1>5

\* What has not been popped is behind a cell that waits, which is not better than
\* what has been popped.
LEMMA BestInvIsSafe == CubeInv /\ BestInv => BestCellsPopped
<1> SUFFICES ASSUME CubeInv, BestInv, pc = "pop", LocalScores,
                    NEW c \in Containers(stackNo), NEW d \in Containers(stackNo),
                    NEW p \in PoppedCells(c), NEW q \in CellsOf(d) \ PoppedCells(d)
             PROVE  CellScore(c, p) >= CellScore(d, q)
  BY DEF BestCellsPopped
<1>1. /\ conf \in Settings /\ heap \in Seq(HypoType) /\ Stacked(heap, stack, freed)
      /\ EdgesFrom(container, stack, stackNo) /\ Queued(container, heap, stack, freed)
  BY InvFacts
<1>2. Sorted(heap, container) /\ Popping(heap, container, queue, stackNo)
  BY DEF BestInv
<1>3. c \in DOMAIN container /\ d \in DOMAIN container
  BY DEF Containers
<1>4. GridsOK(heap, container, c) /\ GridsOK(heap, container, d) /\ BestFirst(heap, container, c, d)
  BY <1>2 DEF Popping, OfStack, Containers
<1>5. p \in Popped(container, c) /\ q \notin Popped(container, d)
  BY DEF PoppedCells, Popped, CellOf
<1>6. PICK b, x, y : p = <<b, x, y>> /\ InGrid(container, c, b, x, y)
  BY <1>4, <1>5 DEF GridsOK, Popped
<1>7. PICK a, v, w : q = <<a, v, w>> /\ InGrid(container, d, a, v, w)
  <2>1. PICK a \in DOMAIN container[d].edges :
          q \in {a} \X (1..Len(container[d].edges[a])) \X (1..Len(Translations(a, d)))
    BY DEF CellsOf
  <2>2. q = <<a, q[2], q[3]>> /\ InGrid(container, d, a, q[2], q[3])
    BY <2>1 DEF InGrid
  <2> QED BY <2>2
<1>8. PICK item \in container[d].queue :
        item.from = a /\ item.x <= v /\ item.y <= w /\ InGrid(container, d, a, item.x, item.y)
  BY <1>1, <1>3, <1>4, <1>5, <1>7, WaitsBefore
<1>9. heap[item.hypo].total = CellValue(heap, container, d, a, item.x, item.y)
  BY <1>4, <1>8 DEF GridsOK
<1>10. CellValue(heap, container, c, b, x, y) >= heap[item.hypo].total
  BY <1>4, <1>5, <1>6 DEF BestFirst
<1>11. CellValue(heap, container, d, a, item.x, item.y) >= CellValue(heap, container, d, a, v, w)
  BY <1>1, <1>2, <1>3, <1>7, <1>8, GridFalls
<1>12. /\ CellScore(c, p) = CellValue(heap, container, c, b, x, y)
       /\ CellScore(d, q) = CellValue(heap, container, d, a, v, w)
  BY <1>1, <1>3, <1>6, <1>7, CellHypothesis
<1>13. /\ CellValue(heap, container, c, b, x, y) \in Int
       /\ CellValue(heap, container, d, a, v, w) \in Int
       /\ CellValue(heap, container, d, a, item.x, item.y) \in Int
  BY <1>1, <1>3, <1>6, <1>7, <1>8, CellValueType
<1> QED BY <1>9, <1>10, <1>11, <1>12, <1>13

-----------------------------------------------------------------------------
(* What a step leaves of the scores and the edges.                               *)

\* Scores depend on the settings only.
LEMMA ScoresStay ==
  ASSUME conf' = conf
  PROVE  /\ LocalScores' = LocalScores
         /\ \A c : FutureScore(c)' = FutureScore(c)
         /\ \A b, c : Translations(b, c)' = Translations(b, c)
<1>1. LocalScores' = LocalScores
  BY DEF LocalScores
<1>2. Size' = Size
  BY DEF Size
<1>3. SpanEstimate' = SpanEstimate
  BY <1>2 DEF SpanEstimate, Highest
<1>4. ASSUME NEW c PROVE FutureScore(c)' = FutureScore(c)
  BY <1>2, <1>3 DEF FutureScore, FoldSet, MapThenFoldSet
<1>5. ASSUME NEW b, NEW c PROVE Translations(b, c)' = Translations(b, c)
  BY DEF Translations
<1> QED BY <1>1, <1>4, <1>5

\* The invariant after a step, stated of the state after it.
LEMMA BestLater ==
  ASSUME conf' = conf, Totals(heap'), LocalScores => Sorted(heap', container'),
         LocalScores /\ pc' = "pop" => Popping(heap', container', queue', stackNo')
  PROVE  BestInv'
<1>1. /\ LocalScores' = LocalScores
      /\ \A c : FutureScore(c)' = FutureScore(c)
      /\ \A b, c : Translations(b, c)' = Translations(b, c)
  BY ScoresStay
<1>2. Totals(heap)'
  BY <1>1 DEF Totals, TotalOK
<1>3. ASSUME NEW h, NEW start PROVE Reach(heap, h, start)' = Reach(heap', h, start)
  BY DEF Reach
<1>4. LocalScores => Sorted(heap, container)'
  BY <1>3 DEF Sorted, EdgeSorted
<1>5. ASSUME NEW c, NEW b, NEW x, NEW y
      PROVE  /\ CellValue(heap, container, c, b, x, y)' = CellValue(heap', container', c, b, x, y)
             /\ InGrid(container, c, b, x, y)' = InGrid(container', c, b, x, y)
  BY <1>1 DEF CellValue, Reach, InGrid
<1>6. ASSUME Popping(heap', container', queue', stackNo') PROVE Popping(heap, container, queue, stackNo)'
  <2>1. OfStack(container, stackNo)' = OfStack(container', stackNo')
    BY DEF OfStack
  <2>2. ASSUME NEW c \in OfStack(container', stackNo')
        PROVE  /\ GridsOK(heap, container, c)'
               /\ container'[c].queue # {} => c \in queue'
               /\ \A d \in OfStack(container', stackNo') : BestFirst(heap, container, c, d)'
    <3>1. /\ GridsOK(heap', container', c)
          /\ container'[c].queue # {} => c \in queue'
          /\ \A d \in OfStack(container', stackNo') : BestFirst(heap', container', c, d)
      BY <1>6, <2>2 DEF Popping
    <3>2. Popped(container, c)' = Popped(container', c)
      BY DEF Popped, CellOf
    <3>3. GridsOK(heap, container, c)'
      BY <1>5, <3>1, <3>2 DEF GridsOK, CellOf
    <3>4. ASSUME NEW d \in OfStack(container', stackNo') PROVE BestFirst(heap, container, c, d)'
      BY <1>5, <3>1, <3>2 DEF BestFirst
    <3> QED BY <3>1, <3>3, <3>4
  <2> QED BY <2>1, <2>2 DEF Popping
<1> QED BY <1>1, <1>2, <1>4, <1>6 DEF BestInv

\* What a step of a stack leaves of the heap.
Grown(hp, new) ==
  /\ Len(new) \in Nat /\ Len(hp) = Len(heap) + Len(new)
  /\ SameScores(hp)
  /\ \A i \in 1..Len(new) : hp[Len(heap) + i] = new[i]

\* A step of a stack only adds to the heap.
LEMMA StepGrows ==
  ASSUME heap \in Seq(HypoType), NEW n, NEW t, NEW X, NEW new, StepOf(n, t, X, new)
  PROVE  Grown(HeapAfter(t, new), new)
<1>1. t.arcs \in [Created -> Seq(Nat)] /\ new \in Seq(HypoType)
  BY DEF StepOf, Tidy, StackType
<1>2. /\ Len(HeapAfter(t, new)) = Len(heap) + Len(new)
      /\ SameScores(HeapAfter(t, new))
      /\ \A i \in 1..Len(new) : HeapAfter(t, new)[Len(heap) + i] = new[i]
  BY <1>1, HeapAfterIs
<1>3. Len(new) \in Nat
  <2> DEFINE R == HypoType
  <2>1. new \in Seq(R)
    BY <1>1
  <2> HIDE DEF R
  <2> QED BY <2>1
<1> QED BY <1>2, <1>3 DEF Grown

\* Total scores stay right when right ones are added.
LEMMA TotalsGrow ==
  ASSUME heap \in Seq(HypoType), Totals(heap), NEW hp, NEW new, Grown(hp, new),
         \A i \in 1..Len(new) : TotalOK(new[i])
  PROVE  Totals(hp)
<1>1. Len(heap) \in Nat /\ Len(new) \in Nat /\ Len(hp) = Len(heap) + Len(new)
  <2> DEFINE R == HypoType
  <2>1. heap \in Seq(R)
    OBVIOUS
  <2> HIDE DEF R
  <2>2. Len(heap) \in Nat
    BY <2>1
  <2> QED BY <2>2 DEF Grown
<1>2. ASSUME NEW h \in 1..Len(hp) PROVE TotalOK(hp[h])
  <2>1. CASE h \in Created
    <3>1. TotalOK(heap[h])
      BY <2>1 DEF Totals, Created
    <3>2. hp[h].cov = heap[h].cov /\ hp[h].score = heap[h].score /\ hp[h].total = heap[h].total
      BY <2>1 DEF Grown, SameScores
    <3> QED BY <3>1, <3>2 DEF TotalOK
  <2>2. CASE h \notin Created
    <3> DEFINE i == h - Len(heap)
    <3>1. i \in 1..Len(new) /\ h = Len(heap) + i
      BY <1>1, <2>2 DEF Created
    <3> HIDE DEF i
    <3>2. hp[h] = new[i]
      BY <3>1 DEF Grown
    <3> QED BY <3>1, <3>2
  <2> QED BY <2>1, <2>2
<1> QED BY <1>2 DEF Totals

\* The hypotheses of an edge are there, and the next phrase has a start.
LEMMA EdgeFacts ==
  ASSUME conf \in Settings, NEW st \in [0..Size -> SUBSET Created], NEW n, NEW cont,
         EdgesFrom(cont, st, n), NEW c \in DOMAIN cont, NEW b \in DOMAIN cont[c].edges
  PROVE  /\ \A i \in 1..Len(cont[c].edges[b]) : cont[c].edges[b][i] \in Created
         /\ Lowest(c \ b) \in Int
<1> DEFINE e == cont[c].edges[b]
           C == Covering(st[Cardinality(b)], b)
           new == c \ b
<1>1. EdgeOK(cont, st, n, c, b) /\ c \in Coverages /\ b \in Coverages
  BY DEF EdgesFrom, EdgeOK
<1>2. e \in Seq(C)
  BY <1>1 DEF EdgeOK
<1>3. C \subseteq Created
  BY <1>1, CoverageIs DEF Covering
<1>4. \A i \in 1..Len(e) : e[i] \in Created
  <2> HIDE DEF e, C
  <2> QED BY <1>2, <1>3
<1>5. PICK span \in DOMAIN conf.options : new = span[1]..span[2]
  BY <1>1 DEF EdgeOK
<1>6. new # {} /\ new \subseteq Nat
  <2>1. span[1] \in Int /\ span[2] \in Int /\ span[1] <= span[2]
    BY SettingsType DEF Cells
  <2>2. span[1] \in span[1]..span[2]
    BY <2>1
  <2>3. c \subseteq Nat
    BY <1>1, CoverageIs
  <2>4. span[1] \in new
    BY <1>5, <2>2
  <2>5. new # {} /\ new \subseteq c
    BY <2>4
  <2> HIDE DEF new
  <2> QED BY <2>3, <2>5
<1>7. Lowest(new) \in Int
  <2> HIDE DEF new
  <2>1. Lowest(new) \in new
    BY <1>6, LowestIs
  <2>2. Lowest(new) \in Nat
    BY <1>6, <2>1, Zenon
  <2> QED BY <2>2
<1> QED BY <1>4, <1>7

\* Edges stay sorted while the heap grows.
LEMMA SortedKept ==
  ASSUME conf \in Settings, NEW st \in [0..Size -> SUBSET Created], NEW n, NEW cont,
         EdgesFrom(cont, st, n), Sorted(heap, cont), NEW hp, NEW new, Grown(hp, new)
  PROVE  Sorted(hp, cont)
<1> SUFFICES ASSUME NEW c \in DOMAIN cont, NEW b \in DOMAIN cont[c].edges
             PROVE  EdgeSorted(hp, cont[c].edges[b], Lowest(c \ b))
  BY DEF Sorted
<1> DEFINE e == cont[c].edges[b]
           start == Lowest(c \ b)
<1>1. \A i \in 1..Len(e) : e[i] \in Created
  BY EdgeFacts
<1>2. EdgeSorted(heap, e, start)
  BY DEF Sorted
<1> HIDE DEF e, start
<1>3. \A h \in Created : Reach(hp, h, start) = Reach(heap, h, start)
  BY DEF Grown, SameScores, Reach
<1>4. EdgeSorted(hp, e, start)
  BY <1>1, <1>2, <1>3 DEF EdgeSorted
<1> QED BY <1>4 DEF e, start

\* The forward edges of a finished stack are sorted.
LEMMA ForwardSorted ==
  ASSUME conf \in Settings, heap \in Seq(HypoType), NEW n \in 0..Size,
         NEW st \in [0..Size -> SUBSET Created], EdgesFrom(container, st, n),
         Totals(heap), LocalScores, Sorted(heap, container)
  PROVE  Sorted(heap, ForwardTodos(n, st[n]))
<1> DEFINE F == ForwardTodos(n, st[n])
<1>1. /\ EdgesFrom(F, st, n + 1)
      /\ \A c \in DOMAIN container :
           /\ c \in DOMAIN F
           /\ \A b \in DOMAIN container[c].edges : b \in DOMAIN F[c].edges
                                                   /\ F[c].edges[b] = container[c].edges[b]
      /\ \A c \in DOMAIN F : \A b \in DOMAIN F[c].edges :
           \/ c \in DOMAIN container /\ b \in DOMAIN container[c].edges
           \/ F[c].edges[b] = EdgeHypotheses(Own(st[n], b), Lowest(c \ b))
  BY ForwardTodosAre
<1> HIDE DEF F
<1>2. ASSUME NEW c \in DOMAIN F, NEW b \in DOMAIN F[c].edges
      PROVE  EdgeSorted(heap, F[c].edges[b], Lowest(c \ b))
  <2>1. CASE c \in DOMAIN container /\ b \in DOMAIN container[c].edges
    BY <1>1, <2>1 DEF Sorted
  <2>2. CASE F[c].edges[b] = EdgeHypotheses(Own(st[n], b), Lowest(c \ b))
    <3>1. Lowest(c \ b) \in Int
      BY <1>1, EdgeFacts
    <3>2. EdgeSorted(heap, EdgeHypotheses(Own(st[n], b), Lowest(c \ b)), Lowest(c \ b))
      BY <3>1, EdgeIsSorted
    <3> QED BY <2>2, <3>2
  <2> QED BY <1>1, <2>1, <2>2
<1>3. Sorted(heap, F)
  BY <1>2 DEF Sorted
<1> QED BY <1>3 DEF F

-----------------------------------------------------------------------------
(* The start of a stack.                                                         *)

\* What the proofs use of CubeInv.
LEMMA BestFacts ==
  ASSUME CubeInv
  PROVE  /\ conf \in Settings /\ heap \in Seq(HypoType) /\ Stacked(heap, stack, freed)
         /\ EdgesFrom(container, stack, stackNo) /\ Len(heap) \in Nat
         /\ stack \in [0..Size -> SUBSET Created]
<1> DEFINE R == HypoType
<1>1. heap \in Seq(R)
  BY InvFacts
<1>2. Len(heap) \in Nat
  <2> HIDE DEF R
  <2> QED BY <1>1
<1> QED BY <1>2, InvFacts

FilledEdges(c) == {b \in DOMAIN container[c].edges : container[c].edges[b] # <<>>}

\* The cells a stack starts with.
LEMMA StartStackIs ==
  ASSUME CubeInv, StartStack
  PROVE  \E new \in Seq(HypoType) :
           /\ StepOf(stackNo, StackNow(stackNo), {}, new)
           /\ heap' = HeapAfter(StackNow(stackNo), new)
           /\ \A i \in 1..Len(new) :
                \E c \in DOMAIN container, b \in Coverages :
                  InGrid(container, c, b, 1, 1) /\ new[i] = Extended(container[c].edges[b][1], c, 1)
           /\ \A c \in Containers(stackNo) : \A item \in container'[c].queue :
                /\ item.x = 1 /\ item.y = 1 /\ item.from \in FilledEdges(c)
                /\ \E i \in 1..Len(new) : /\ item.hypo = Len(heap) + i
                                          /\ new[i] = Extended(container[c].edges[item.from][1], c, 1)
<1> DEFINE n == stackNo
           cells == {grid \in Containers(stackNo) \X Coverages :
                       grid[2] \in DOMAIN container[grid[1]].edges
                         /\ container[grid[1]].edges[grid[2]] # <<>>}
           grids == Listing(cells)
           index(c, b) == CHOOSE i \in DOMAIN grids : grids[i] = <<c, b>>
           filled(c) == {b \in DOMAIN container[c].edges : container[c].edges[b] # <<>>}
           first(i) == Extended(container[grids[i][1]].edges[grids[i][2]][1], grids[i][1], 1)
           new == [i \in DOMAIN grids |-> first(i)]
           Item(c, b) == [x |-> 1, y |-> 1, hypo |-> Len(heap) + index(c, b), from |-> b]
<1>1. n \in 1..Size /\ n \in 0..Size /\ conf \in Settings
  <2>1. pc = "stack" /\ stackNo <= Size
    BY DEF StartStack
  <2> QED BY <2>1, InvFacts DEF CubeInv, Position
<1>2. /\ heap' = heap \o new
      /\ container' = [c \in DOMAIN container |->
               IF c \notin Containers(stackNo) THEN container[c]
               ELSE [container[c] EXCEPT !.queue = {Item(c, b) : b \in filled(c)},
                                         !.seen = {<<b, 1, 1>> : b \in filled(c)}]]
  BY DEF StartStack
<1>3. \A c \in Containers(n) : c \in DOMAIN container /\ c \in Coverages
  BY InvFacts DEF Containers, EdgesFrom
<1>4. IsFiniteSet(cells)
  <2>1. cells \subseteq Coverages \X Coverages
    BY <1>3
  <2>2. IsFiniteSet(Coverages \X Coverages)
    BY <1>1, CoveragesFinite, FS_Product
  <2> HIDE DEF cells
  <2> QED BY <2>1, <2>2, FS_Subset
<1>5. /\ grids \in Seq(cells) /\ \A x \in cells : \E i \in DOMAIN grids : grids[i] = x
  <2> HIDE DEF cells
  <2> QED BY <1>4, ListingIs
<1>6. Len(grids) \in Nat /\ DOMAIN grids = 1..Len(grids)
  <2> HIDE DEF cells, grids
  <2> QED BY <1>5
<1>7. ASSUME NEW i \in DOMAIN grids
      PROVE  /\ grids[i][1] \in Containers(n) /\ grids[i][2] \in DOMAIN container[grids[i][1]].edges
             /\ container[grids[i][1]].edges[grids[i][2]] # <<>>
  <2>1. grids[i] \in cells
    <3> HIDE DEF cells, grids
    <3> QED BY <1>5
  <2> HIDE DEF grids
  <2> QED BY <2>1
<1> HIDE DEF grids
<1>8. ASSUME NEW c \in Containers(n), NEW b \in DOMAIN container[c].edges,
             container[c].edges[b] # <<>>
      PROVE  /\ InGrid(container, c, b, 1, 1) /\ b \in Coverages
             /\ Extended(container[c].edges[b][1], c, 1) \in HypoType
             /\ <<c, b>> \in cells
  <2>1. EdgeOK(container, stack, n, c, b)
    BY <1>3, InvFacts DEF EdgesFrom
  <2>2. 1 \in 1..Len(container[c].edges[b])
    <3> DEFINE C == Covering(stack[Cardinality(b)], b)
               e == container[c].edges[b]
    <3>1. e \in Seq(C) /\ e # <<>>
      BY <1>8, <2>1 DEF EdgeOK
    <3> HIDE DEF C, e
    <3>2. 1 \in 1..Len(e)
      BY <3>1
    <3> QED BY <3>2 DEF e
  <2>3. 1 \in 1..Len(Translations(b, c))
    <3> DEFINE R == [word : Word, score : Int]
               e == Translations(b, c)
    <3>1. e \in Seq(R) /\ e # <<>>
      BY <1>1, <2>1, TranslationsType DEF EdgeOK
    <3> HIDE DEF R, e
    <3>2. 1 \in 1..Len(e)
      BY <3>1
    <3> QED BY <3>2 DEF e
  <2>4. b \in Coverages
    BY <2>1 DEF EdgeOK
  <2>5. InGrid(container, c, b, 1, 1)
    BY <2>2, <2>3 DEF InGrid
  <2>6. Extended(container[c].edges[b][1], c, 1) \in HypoType
    <3>1. 1 \in Nat \ {0} /\ 1 <= Len(container[c].edges[b]) /\ 1 <= Len(Translations(b, c))
      BY <2>2, <2>3
    <3>2. Extending(Extended(container[c].edges[b][1], c, 1), n)
      BY <1>3, <3>1, InvFacts, CellIs
    <3> QED BY <3>2 DEF Extending
  <2> QED BY <1>8, <2>4, <2>5, <2>6
<1> HIDE DEF cells
<1>9. ASSUME NEW i \in DOMAIN grids PROVE first(i) \in HypoType
  BY <1>7, <1>8
<1>10. ASSUME NEW i \in DOMAIN grids
       PROVE  \E c \in DOMAIN container, b \in Coverages :
                InGrid(container, c, b, 1, 1) /\ first(i) = Extended(container[c].edges[b][1], c, 1)
  <2>1. grids[i][1] \in DOMAIN container /\ grids[i][2] \in Coverages
        /\ InGrid(container, grids[i][1], grids[i][2], 1, 1)
    BY <1>3, <1>7, <1>8
  <2> QED BY <2>1
<1>11. ASSUME NEW c \in Containers(n), NEW b \in filled(c)
       PROVE  /\ index(c, b) \in DOMAIN grids
              /\ first(index(c, b)) = Extended(container[c].edges[b][1], c, 1)
  <2> DEFINE i == index(c, b)
  <2>1. <<c, b>> \in cells
    BY <1>8
  <2>2. i \in DOMAIN grids /\ grids[i] = <<c, b>>
    BY <1>5, <2>1
  <2>3. grids[i][1] = c /\ grids[i][2] = b
    <3> HIDE DEF i
    <3> QED BY <2>2
  <2> QED BY <2>2, <2>3
<1> HIDE DEF first
<1>12. new \in [1..Len(grids) -> HypoType]
  BY <1>6, <1>9
<1>13. new \in Seq(HypoType) /\ Len(new) = Len(grids) /\ \A i \in DOMAIN grids : new[i] = first(i)
  <2>1. \A i \in DOMAIN grids : new[i] = first(i)
    OBVIOUS
  <2> HIDE DEF new
  <2> QED BY <1>6, <1>12, <2>1, FunctionIsSeq
<1> HIDE DEF new
<1>14. /\ StepOf(n, StackNow(n), {}, new) /\ heap' = HeapAfter(StackNow(n), new)
  BY <1>1, <1>2, <1>13, IdleStep
<1>15. ASSUME NEW i \in 1..Len(new)
       PROVE  \E c \in DOMAIN container, b \in Coverages :
                InGrid(container, c, b, 1, 1) /\ new[i] = Extended(container[c].edges[b][1], c, 1)
  BY <1>6, <1>10, <1>13
<1>16. ASSUME NEW c \in Containers(n), NEW item \in container'[c].queue
       PROVE  /\ item.x = 1 /\ item.y = 1 /\ item.from \in FilledEdges(c)
              /\ \E i \in 1..Len(new) : /\ item.hypo = Len(heap) + i
                                        /\ new[i] = Extended(container[c].edges[item.from][1], c, 1)
  <2>1. container'[c].queue = {Item(c, b) : b \in filled(c)}
    <3>1. DOMAIN container[c] = Fields /\ c \in DOMAIN container
      BY <1>3, InvFacts DEF EdgesFrom
    <3> HIDE DEF Item, filled
    <3> QED BY <1>2, <3>1 DEF Fields
  <2>2. PICK b \in filled(c) : item = Item(c, b)
    BY <2>1
  <2>3. item.x = 1 /\ item.y = 1 /\ item.from = b /\ item.hypo = Len(heap) + index(c, b)
    <3> HIDE DEF index
    <3> QED BY <2>2
  <2>4. index(c, b) \in 1..Len(new) /\ new[index(c, b)] = Extended(container[c].edges[b][1], c, 1)
    BY <1>6, <1>11, <1>13
  <2>5. b \in FilledEdges(c)
    BY DEF FilledEdges
  <2> HIDE DEF index
  <2> QED BY <2>3, <2>4, <2>5
<1> QED BY <1>13, <1>14, <1>15, <1>16

\* The total score of the hypothesis of a cell is what the cell is worth.
LEMMA CellTotal ==
  ASSUME CubeInv, LocalScores, NEW c \in DOMAIN container,
         NEW b, NEW x, NEW y, InGrid(container, c, b, x, y)
  PROVE  Extended(container[c].edges[b][x], c, y).total = CellValue(heap, container, c, b, x, y)
BY BestFacts, CellHypothesis

\* What the containers of the stack then are.
LEMMA StartGrids ==
  ASSUME CubeInv, StartStack
  PROVE  /\ DOMAIN container' = DOMAIN container
         /\ \A c \in DOMAIN container : container'[c].edges = container[c].edges
         /\ \A c \in Containers(stackNo) :
              /\ c \in DOMAIN container
              /\ container'[c].seen = {<<b, 1, 1>> : b \in FilledEdges(c)}
              /\ \A b \in FilledEdges(c) : \E item \in container'[c].queue : CellOf(item) = <<b, 1, 1>>
<1> DEFINE grids == Listing({grid \in Containers(stackNo) \X Coverages :
                                grid[2] \in DOMAIN container[grid[1]].edges
                                  /\ container[grid[1]].edges[grid[2]] # <<>>})
           number(c, b) == Len(heap) + (CHOOSE i \in DOMAIN grids : grids[i] = <<c, b>>)
           filled(c) == {b \in DOMAIN container[c].edges : container[c].edges[b] # <<>>}
           Item(c, b) == [x |-> 1, y |-> 1, hypo |-> number(c, b), from |-> b]
<1>1. container' = [c \in DOMAIN container |->
               IF c \notin Containers(stackNo) THEN container[c]
               ELSE [container[c] EXCEPT !.queue = {Item(c, b) : b \in filled(c)},
                                         !.seen = {<<b, 1, 1>> : b \in filled(c)}]]
  BY DEF StartStack
<1>2. \A c \in Containers(stackNo) : c \in DOMAIN container
  BY DEF Containers
<1>3. \A c \in DOMAIN container : DOMAIN container[c] = Fields
  BY InvFacts DEF EdgesFrom
<1> HIDE DEF grids, number
<1>4. \A c, b : CellOf(Item(c, b)) = <<b, 1, 1>>
  BY DEF CellOf
<1> HIDE DEF Item, filled
<1>5. /\ DOMAIN container' = DOMAIN container
      /\ \A c \in DOMAIN container : container'[c].edges = container[c].edges
      /\ \A c \in Containers(stackNo) : /\ container'[c].seen = {<<b, 1, 1>> : b \in filled(c)}
                                        /\ container'[c].queue = {Item(c, b) : b \in filled(c)}
  BY <1>1, <1>2, <1>3 DEF Fields
<1>6. \A c : filled(c) = FilledEdges(c)
  BY DEF filled, FilledEdges
<1>7. ASSUME NEW c \in Containers(stackNo), NEW b \in FilledEdges(c)
      PROVE  \E item \in container'[c].queue : CellOf(item) = <<b, 1, 1>>
  <2>1. Item(c, b) \in container'[c].queue
    BY <1>5, <1>6
  <2> QED BY <1>4, <2>1
<1> QED BY <1>2, <1>5, <1>6, <1>7

\* When a stack is started nothing has been popped yet.
LEMMA StartBest == CubeInv /\ BestInv /\ StartStack => BestInv'
<1> SUFFICES ASSUME CubeInv, BestInv, StartStack PROVE BestInv'
  OBVIOUS
<1>1. PICK new \in Seq(HypoType) :
           /\ StepOf(stackNo, StackNow(stackNo), {}, new)
           /\ heap' = HeapAfter(StackNow(stackNo), new)
           /\ \A i \in 1..Len(new) :
                \E c \in DOMAIN container, b \in Coverages :
                  InGrid(container, c, b, 1, 1) /\ new[i] = Extended(container[c].edges[b][1], c, 1)
           /\ \A c \in Containers(stackNo) : \A item \in container'[c].queue :
                /\ item.x = 1 /\ item.y = 1 /\ item.from \in FilledEdges(c)
                /\ \E i \in 1..Len(new) : /\ item.hypo = Len(heap) + i
                                          /\ new[i] = Extended(container[c].edges[item.from][1], c, 1)
  BY StartStackIs
<1>2. Grown(heap', new)
  BY <1>1, BestFacts, StepGrows
<1>3. /\ conf \in Settings /\ heap \in Seq(HypoType) /\ Stacked(heap, stack, freed)
      /\ EdgesFrom(container, stack, stackNo) /\ Len(heap) \in Nat
      /\ stack \in [0..Size -> SUBSET Created]
  BY BestFacts
<1>4. /\ DOMAIN container' = DOMAIN container
      /\ \A c \in DOMAIN container : container'[c].edges = container[c].edges
      /\ \A c \in Containers(stackNo) :
              /\ c \in DOMAIN container
              /\ container'[c].seen = {<<b, 1, 1>> : b \in FilledEdges(c)}
              /\ \A b \in FilledEdges(c) : \E item \in container'[c].queue : CellOf(item) = <<b, 1, 1>>
  BY StartGrids
<1>5. conf' = conf /\ stackNo' = stackNo /\ queue' = Containers(stackNo)
  BY DEF StartStack
<1>6. Totals(heap')
  <2>1. ASSUME NEW i \in 1..Len(new) PROVE TotalOK(new[i])
    <3>1. PICK c \in DOMAIN container, b \in Coverages :
            InGrid(container, c, b, 1, 1) /\ new[i] = Extended(container[c].edges[b][1], c, 1)
      BY <1>1
    <3>2. TotalOK(Extended(container[c].edges[b][1], c, 1))
      BY <1>3, <3>1, CellHypothesis
    <3> QED BY <3>1, <3>2
  <2> QED BY <1>2, <1>3, <2>1, TotalsGrow DEF BestInv
<1>7. ASSUME LocalScores PROVE Sorted(heap', container')
  <2>1. Sorted(heap', container)
    BY <1>2, <1>3, <1>7, SortedKept DEF BestInv
  <2> QED BY <1>4, <2>1 DEF Sorted
<1>8. ASSUME NEW c \in Containers(stackNo) PROVE Popped(container', c) = {}
  <2>1. \A cell \in container'[c].seen : \E item \in container'[c].queue : CellOf(item) = cell
    BY <1>4
  <2> QED BY <2>1 DEF Popped
<1>9. ASSUME NEW c \in Containers(stackNo), NEW b \in FilledEdges(c) PROVE InGrid(container', c, b, 1, 1)
  <2>1. PICK item \in container'[c].queue : CellOf(item) = <<b, 1, 1>>
    BY <1>4
  <2>2. b \in DOMAIN container[c].edges /\ container[c].edges[b] # <<>> /\ c \in DOMAIN container
    BY <1>4 DEF FilledEdges
  <2>3. EdgeOK(container, stack, stackNo, c, b)
    BY <1>3, <2>2 DEF EdgesFrom
  <2>4. 1 \in 1..Len(container[c].edges[b])
    <3> DEFINE C == Covering(stack[Cardinality(b)], b)
               e == container[c].edges[b]
    <3>1. e \in Seq(C) /\ e # <<>>
      BY <2>2, <2>3 DEF EdgeOK
    <3> HIDE DEF C, e
    <3>2. 1 \in 1..Len(e)
      BY <3>1
    <3> QED BY <3>2 DEF e
  <2>5. 1 \in 1..Len(Translations(b, c))
    <3> DEFINE R == [word : Word, score : Int]
               e == Translations(b, c)
    <3>1. e \in Seq(R) /\ e # <<>>
      BY <1>3, <2>3, TranslationsType DEF EdgeOK
    <3> HIDE DEF R, e
    <3>2. 1 \in 1..Len(e)
      BY <3>1
    <3> QED BY <3>2 DEF e
  <2> QED BY <1>4, <2>2, <2>4, <2>5 DEF InGrid
<1>10. ASSUME LocalScores, NEW c \in Containers(stackNo), NEW item \in container'[c].queue
       PROVE  /\ CellOf(item) \in container'[c].seen
              /\ heap'[item.hypo].total = CellValue(heap', container', c, item.from, item.x, item.y)
  <2>1. item.x = 1 /\ item.y = 1 /\ item.from \in FilledEdges(c) /\ c \in DOMAIN container
    BY <1>1, <1>4
  <2>2. CellOf(item) \in container'[c].seen
    BY <1>4, <2>1 DEF CellOf
  <2>3. PICK i \in 1..Len(new) : /\ item.hypo = Len(heap) + i
                                 /\ new[i] = Extended(container[c].edges[item.from][1], c, 1)
    BY <1>1
  <2> DEFINE b == item.from
             h == container[c].edges[b][1]
  <2>4. InGrid(container, c, b, 1, 1)
    BY <1>4, <1>9, <2>1 DEF InGrid
  <2> HIDE DEF b
  <2>5. heap'[item.hypo].total = CellValue(heap, container, c, b, 1, 1)
    <3>1. heap'[item.hypo] = new[i]
      BY <1>2, <2>3 DEF Grown
    <3>2. Extended(container[c].edges[b][1], c, 1).total = CellValue(heap, container, c, b, 1, 1)
      BY <1>10, <2>1, <2>4, CellTotal
    <3> QED BY <2>3, <3>1, <3>2 DEF b
  <2>6. CellValue(heap', container', c, b, 1, 1) = CellValue(heap, container, c, b, 1, 1)
    <3>1. h \in Created
      BY <1>3, <2>1, <2>4, GridIs
    <3>2. Reach(heap', h, Lowest(c \ b)) = Reach(heap, h, Lowest(c \ b))
      BY <1>2, <3>1 DEF Grown, SameScores, Reach
    <3>3. container'[c].edges[b][1] = h
      BY <1>4, <2>1
    <3> QED BY <3>2, <3>3 DEF CellValue
  <2> QED BY <2>1, <2>2, <2>5, <2>6 DEF b
<1>11. ASSUME LocalScores PROVE Popping(heap', container', queue', stackNo')
  <2>1. OfStack(container', stackNo') = Containers(stackNo)
    BY <1>4, <1>5 DEF OfStack, Containers
  <2>2. ASSUME NEW c \in Containers(stackNo) PROVE GridsOK(heap', container', c)
    <3>1. ASSUME NEW cell \in container'[c].seen
          PROVE  \E b, x, y : cell = <<b, x, y>> /\ InGrid(container', c, b, x, y)
      <4>1. PICK b \in FilledEdges(c) : cell = <<b, 1, 1>>
        BY <1>4
      <4>2. InGrid(container', c, b, 1, 1)
        BY <1>9
      <4> QED BY <4>1, <4>2
    <3>2. ASSUME NEW b \in DOMAIN container'[c].edges, container'[c].edges[b] # <<>>
          PROVE  <<b, 1, 1>> \in container'[c].seen
      BY <1>4, <3>2 DEF FilledEdges
    <3> QED BY <1>8, <1>10, <1>11, <3>1, <3>2 DEF GridsOK
  <2>3. ASSUME NEW c \in Containers(stackNo), NEW d \in Containers(stackNo)
        PROVE  BestFirst(heap', container', c, d)
    BY <1>8 DEF BestFirst
  <2> QED BY <1>5, <2>1, <2>2, <2>3 DEF Popping
<1> QED BY <1>5, <1>6, <1>7, <1>11, BestLater

-----------------------------------------------------------------------------
(* A round: a cell is popped and its neighbours are created.                     *)

\* Hypothesis number i is that of the waiting cell it, next to that of item.
NextTo(c, item, new, it) ==
  /\ it.from = item.from /\ <<it.x, it.y>> \in NextCells(c, item)
  /\ \E i \in 1..Len(new) : /\ it.hypo = Len(heap) + i
                            /\ new[i] = Extended(container[c].edges[item.from][it.x], c, it.y)

\* What a round does to the container c, when item is popped and new is created.
Round(c, item, new) ==
  /\ item \in container[c].queue
  /\ \A other \in container[c].queue : TotalScore(other.hypo) <= TotalScore(item.hypo)
  /\ Grown(heap', new) /\ \A i \in 1..Len(new) : TotalOK(new[i])
  /\ DOMAIN container' = DOMAIN container
  /\ \A d \in DOMAIN container : container'[d].edges = container[d].edges
  /\ \A d \in DOMAIN container : d # c => container'[d] = container[d]
  /\ container[c].queue \ {item} \subseteq container'[c].queue
  /\ \A it \in container'[c].queue :
       it \in container[c].queue \ {item}
         \/ (NextTo(c, item, new, it) /\ CellOf(it) \in container'[c].seen)
  /\ container[c].seen \subseteq container'[c].seen
  /\ \A cell \in container'[c].seen \ container[c].seen :
       \E it \in container'[c].queue : CellOf(it) = cell /\ NextTo(c, item, new, it)
  /\ \A next \in NextCells(c, item) : <<item.from, next[1], next[2]>> \in container'[c].seen

\* Processing the best hypothesis of a container is a round.
LEMMA ProcessBestIsRound ==
  ASSUME CubeInv, stackNo \in 1..Size, NEW c \in Containers(stackNo), ProcessBestHypothesis(c)
  PROVE  \E item, new : Round(c, item, new)
<1>0. /\ conf \in Settings /\ heap \in Seq(HypoType) /\ Stacked(heap, stack, freed)
      /\ EdgesFrom(container, stack, stackNo) /\ Queued(container, heap, stack, freed)
  BY InvFacts
<1>1. c \in DOMAIN container
  BY DEF Containers
<1>2. PICK item \in container[c].queue :
        /\ \A other \in container[c].queue : TotalScore(other.hypo) <= TotalScore(item.hypo)
        /\ LET added == AddPrune(StackNow(stackNo), item.hypo)
               cells == Listing(NextCells(c, item))
               e == container[c].edges[item.from]
           IN /\ heap' = HeapAfter(added.s, [i \in DOMAIN cells |->
                            Extended(e[cells[i][1]], c, cells[i][2])])
              /\ container' = [container EXCEPT
                   ![c].queue = (@ \ {item}) \union
                      {[x |-> cells[i][1], y |-> cells[i][2], hypo |-> Len(heap) + i,
                        from |-> item.from] : i \in DOMAIN cells},
                   ![c].seen = @ \union {<<item.from, cells[i][1], cells[i][2]>> :
                                           i \in DOMAIN cells},
                   ![c].insertions = IF added.new THEN @ + 1 ELSE @]
  BY DEF ProcessBestHypothesis
<1> DEFINE t == AddPrune(StackNow(stackNo), item.hypo).s
           N == NextCells(c, item)
           cells == Listing(N)
           new == Successors(c, item)
           Item(i) == [x |-> cells[i][1], y |-> cells[i][2], hypo |-> Len(heap) + i,
                       from |-> item.from]
           Cell(i) == <<item.from, cells[i][1], cells[i][2]>>
<1>3. heap' = HeapAfter(t, new)
  BY <1>2 DEF Successors
<1>4. new = [i \in DOMAIN cells |->
               Extended(container[c].edges[item.from][cells[i][1]], c, cells[i][2])]
  BY DEF Successors
<1>5. /\ DOMAIN container' = DOMAIN container
      /\ \A d \in DOMAIN container : d # c => container'[d] = container[d]
      /\ container'[c].edges = container[c].edges
      /\ container'[c].queue = (container[c].queue \ {item}) \union {Item(i) : i \in DOMAIN cells}
      /\ container'[c].seen = container[c].seen \union {Cell(i) : i \in DOMAIN cells}
  <2>1. DOMAIN container[c] = Fields
    BY <1>0, <1>1 DEF EdgesFrom
  <2> QED BY <1>1, <1>2, <2>1 DEF Fields
<1>6. StepOf(stackNo, t, {item.hypo}, new) /\ DOMAIN cells = 1..Len(new)
  BY PopIsStep
<1>7. ItemOK(container, c, item)
  BY <1>0, <1>1 DEF Queued, QueueOK
<1>8. /\ cells \in Seq(N)
      /\ \A cell \in N : InGrid(container, c, item.from, cell[1], cell[2]) /\ cell = <<cell[1], cell[2]>>
  <2>1. /\ cells \in Seq(N)
        /\ \A cell \in N :
              /\ cell[1] \in Nat \ {0} /\ cell[1] <= Len(container[c].edges[item.from])
              /\ cell[2] \in Nat \ {0} /\ cell[2] <= Len(Translations(item.from, c))
    BY <1>7, NextCellsAre
  <2>2. \A cell \in N : cell = <<cell[1], cell[2]>>
    BY DEF NextCells
  <2>3. item.from \in DOMAIN container[c].edges
    BY <1>7 DEF ItemOK
  <2>4. \A cell \in N : cell[1] \in Nat /\ cell[2] \in Nat /\ cell[1] >= 1 /\ cell[2] >= 1
    BY <2>1
  <2>5. Len(container[c].edges[item.from]) \in Nat /\ Len(Translations(item.from, c)) \in Nat
    <3> DEFINE R == [word : Word, score : Int]
               C == Covering(stack[Cardinality(item.from)], item.from)
               e == container[c].edges[item.from]
               opts == Translations(item.from, c)
    <3>1. EdgeOK(container, stack, stackNo, c, item.from)
      BY <1>0, <1>1, <2>3 DEF EdgesFrom
    <3>2. e \in Seq(C) /\ opts \in Seq(R)
      BY <1>0, <3>1, TranslationsType DEF EdgeOK
    <3>3. Len(e) \in Nat /\ Len(opts) \in Nat
      <4> HIDE DEF C, R, e, opts
      <4> QED BY <3>2
    <3> QED BY <3>3
  <2> HIDE DEF N, cells
  <2> QED BY <2>1, <2>2, <2>3, <2>4, <2>5 DEF InGrid
<1>9. \A next \in N : \E i \in DOMAIN cells : cells[i] = next
  <2>1. IsFiniteSet(N)
    <3> DEFINE a == <<item.x, item.y + 1>>
               b == <<item.x + 1, item.y>>
    <3>1. N \subseteq ({} \union {a}) \union {b}
      BY DEF NextCells
    <3> HIDE DEF a, b, N
    <3>2. IsFiniteSet({} \union {a})
      BY FS_EmptySet, FS_AddElement
    <3>3. IsFiniteSet(({} \union {a}) \union {b})
      BY <3>2, FS_AddElement
    <3> QED BY <3>1, <3>3, FS_Subset
  <2> HIDE DEF N
  <2> QED BY <2>1, ListingIs
<1> HIDE DEF t, N, cells, new
<1>10. ASSUME NEW i \in DOMAIN cells
       PROVE  /\ cells[i] \in N /\ cells[i] = <<cells[i][1], cells[i][2]>>
              /\ InGrid(container, c, item.from, cells[i][1], cells[i][2])
              /\ new[i] = Extended(container[c].edges[item.from][cells[i][1]], c, cells[i][2])
              /\ i \in 1..Len(new)
  <2>1. cells[i] \in N
    BY <1>8
  <2>2. new[i] = Extended(container[c].edges[item.from][cells[i][1]], c, cells[i][2])
    BY <1>4
  <2> QED BY <1>6, <1>8, <2>1, <2>2
<1>11. ASSUME NEW i \in DOMAIN cells
       PROVE  CellOf(Item(i)) = Cell(i) /\ NextTo(c, item, new, Item(i))
  <2>1. Item(i).from = item.from /\ Item(i).x = cells[i][1] /\ Item(i).y = cells[i][2]
        /\ Item(i).hypo = Len(heap) + i
    OBVIOUS
  <2> HIDE DEF Item
  <2>2. CellOf(Item(i)) = Cell(i)
    BY <2>1 DEF CellOf
  <2>3. <<Item(i).x, Item(i).y>> \in NextCells(c, item)
    BY <1>10, <2>1 DEF N
  <2> QED BY <1>10, <2>1, <2>2, <2>3 DEF NextTo
<1>12. Grown(heap', new)
  BY <1>0, <1>3, <1>6, StepGrows
<1>13. ASSUME NEW i \in 1..Len(new) PROVE TotalOK(new[i])
  <2>1. i \in DOMAIN cells
    BY <1>6
  <2>2. TotalOK(Extended(container[c].edges[item.from][cells[i][1]], c, cells[i][2]))
    BY <1>0, <1>1, <1>10, <2>1, CellHypothesis
  <2> QED BY <1>10, <2>1, <2>2
<1> HIDE DEF Item, Cell
<1>14. /\ container[c].queue \ {item} \subseteq container'[c].queue
       /\ \A it \in container'[c].queue :
            it \in container[c].queue \ {item}
              \/ (NextTo(c, item, new, it) /\ CellOf(it) \in container'[c].seen)
  BY <1>5, <1>11
<1>15. /\ container[c].seen \subseteq container'[c].seen
       /\ \A cell \in container'[c].seen \ container[c].seen :
            \E it \in container'[c].queue : CellOf(it) = cell /\ NextTo(c, item, new, it)
  BY <1>5, <1>11
<1>16. ASSUME NEW next \in NextCells(c, item)
       PROVE  <<item.from, next[1], next[2]>> \in container'[c].seen
  <2>1. PICK i \in DOMAIN cells : cells[i] = next
    BY <1>9 DEF N
  <2>2. Cell(i) = <<item.from, next[1], next[2]>>
    BY <2>1 DEF Cell
  <2> QED BY <1>5, <2>2
<1>17. \A d \in DOMAIN container : container'[d].edges = container[d].edges
  BY <1>5
<1>18. Round(c, item, new)
  BY <1>2, <1>5, <1>12, <1>13, <1>14, <1>15, <1>16, <1>17 DEF Round
<1> QED BY <1>18

\* A round leaves the grids and what their cells are worth.
LEMMA RoundKeeps ==
  ASSUME CubeInv, NEW c \in DOMAIN container, NEW item, NEW new, Round(c, item, new)
  PROVE  /\ Totals(heap) => Totals(heap')
         /\ Sorted(heap, container) => Sorted(heap', container')
         /\ \A h \in Created : heap'[h].total = heap[h].total
         /\ \A d \in DOMAIN container : \A b, x, y :
              /\ InGrid(container', d, b, x, y) = InGrid(container, d, b, x, y)
              /\ InGrid(container, d, b, x, y) =>
                   CellValue(heap', container', d, b, x, y) = CellValue(heap, container, d, b, x, y)
<1>1. /\ Grown(heap', new) /\ \A i \in 1..Len(new) : TotalOK(new[i])
      /\ DOMAIN container' = DOMAIN container
      /\ \A d \in DOMAIN container : container'[d].edges = container[d].edges
  BY DEF Round
<1>2. Totals(heap) => Totals(heap')
  BY <1>1, BestFacts, TotalsGrow
<1>3. ASSUME Sorted(heap, container) PROVE Sorted(heap', container')
  <2>1. Sorted(heap', container)
    BY <1>1, <1>3, BestFacts, SortedKept
  <2> SUFFICES ASSUME NEW d \in DOMAIN container', NEW b \in DOMAIN container'[d].edges
               PROVE  EdgeSorted(heap', container'[d].edges[b], Lowest(d \ b))
    BY DEF Sorted
  <2>2. d \in DOMAIN container /\ container'[d].edges = container[d].edges
    BY <1>1
  <2>3. EdgeSorted(heap', container[d].edges[b], Lowest(d \ b))
    BY <2>1, <2>2 DEF Sorted
  <2> QED BY <2>2, <2>3
<1>4. \A h \in Created : heap'[h].total = heap[h].total
  BY <1>1 DEF Grown, SameScores
<1>5. ASSUME NEW d \in DOMAIN container, NEW b, NEW x, NEW y
      PROVE  InGrid(container', d, b, x, y) = InGrid(container, d, b, x, y)
  BY <1>1 DEF InGrid
<1>6. ASSUME NEW d \in DOMAIN container, NEW b, NEW x, NEW y, InGrid(container, d, b, x, y)
      PROVE  CellValue(heap', container', d, b, x, y) = CellValue(heap, container, d, b, x, y)
  <2> DEFINE h == container[d].edges[b][x]
  <2>1. h \in Created
    BY <1>6, BestFacts, GridIs
  <2>2. container'[d].edges[b][x] = h
    BY <1>1
  <2> HIDE DEF h
  <2>3. Reach(heap', h, Lowest(d \ b)) = Reach(heap, h, Lowest(d \ b))
    BY <1>1, <2>1 DEF Grown, SameScores, Reach
  <2> QED BY <2>2, <2>3 DEF CellValue, h
<1> QED BY <1>2, <1>3, <1>4, <1>5, <1>6

\* A hypothesis that waits is there, in its cell.
LEMMA WaitingIs ==
  ASSUME CubeInv, NEW c \in DOMAIN container, NEW item \in container[c].queue
  PROVE  item.hypo \in Created /\ InGrid(container, c, item.from, item.x, item.y)
<1>1. ItemOK(container, c, item) /\ item.hypo \in Created
  BY InvFacts DEF Queued, QueueOK, Fresh, Created
<1>2. item.from \in DOMAIN container[c].edges
  BY <1>1 DEF ItemOK
<1>3. EdgeOK(container, stack, stackNo, c, item.from)
  BY <1>2, InvFacts DEF EdgesFrom
<1>4. Len(container[c].edges[item.from]) \in Nat /\ Len(Translations(item.from, c)) \in Nat
  <2> DEFINE R == [word : Word, score : Int]
             C == Covering(stack[Cardinality(item.from)], item.from)
             e == container[c].edges[item.from]
             opts == Translations(item.from, c)
  <2>1. e \in Seq(C) /\ opts \in Seq(R)
    BY <1>3, InvFacts, TranslationsType DEF EdgeOK
  <2>2. Len(e) \in Nat /\ Len(opts) \in Nat
    <3> HIDE DEF C, R, e, opts
    <3> QED BY <2>1
  <2> QED BY <2>2
<1> QED BY <1>1, <1>2, <1>4 DEF ItemOK, InGrid

\* What a round creates waits in a cell of its grid, and is not better than what it
\* has popped.
LEMMA RoundCreates ==
  ASSUME CubeInv, LocalScores, Sorted(heap, container),
         NEW c \in DOMAIN container, GridsOK(heap, container, c),
         NEW item, NEW new, Round(c, item, new), NEW it, NextTo(c, item, new, it)
  PROVE  /\ InGrid(container, c, it.from, it.x, it.y)
         /\ heap'[it.hypo].total = CellValue(heap, container, c, it.from, it.x, it.y)
         /\ heap'[it.hypo].total \in Int
         /\ heap[item.hypo].total >= heap'[it.hypo].total
<1>1. item \in container[c].queue /\ Grown(heap', new)
  BY DEF Round
<1>2. PICK b, x, y, v, w :
        /\ b = item.from /\ x = item.x /\ y = item.y /\ v = it.x /\ w = it.y
        /\ it.from = b /\ <<v, w>> \in NextCells(c, item)
  BY DEF NextTo
<1>3. InGrid(container, c, b, x, y)
  BY <1>1, <1>2, WaitingIs
<1>4. x \in Nat \ {0} /\ y \in Nat \ {0} /\ Len(container[c].edges[b]) \in Nat
      /\ Len(Translations(b, c)) \in Nat
  BY <1>3, BestFacts, GridIs
<1>5. /\ (v = x /\ w = y + 1) \/ (v = x + 1 /\ w = y)
      /\ v <= Len(container[c].edges[b]) /\ w <= Len(Translations(b, c))
  <2> DEFINE q == <<v, w>>
  <2>1. /\ q = <<x, y + 1>> \/ q = <<x + 1, y>>
        /\ q[1] <= Len(container[c].edges[b]) /\ q[2] <= Len(Translations(b, c))
    BY <1>2 DEF NextCells
  <2>2. q[1] = v /\ q[2] = w
    OBVIOUS
  <2>3. q = <<x, y + 1>> => v = x /\ w = y + 1
    OBVIOUS
  <2>4. q = <<x + 1, y>> => v = x + 1 /\ w = y
    OBVIOUS
  <2> HIDE DEF q
  <2> QED BY <2>1, <2>2, <2>3, <2>4
<1>6. InGrid(container, c, b, v, w) /\ x <= v /\ y <= w
  <2>1. b \in DOMAIN container[c].edges
    BY <1>3 DEF InGrid
  <2>2. v \in 1..Len(container[c].edges[b]) /\ w \in 1..Len(Translations(b, c))
    BY <1>4, <1>5
  <2> QED BY <1>4, <1>5, <2>1, <2>2 DEF InGrid
<1>7. PICK i \in 1..Len(new) : /\ it.hypo = Len(heap) + i
                               /\ new[i] = Extended(container[c].edges[b][v], c, w)
  BY <1>2 DEF NextTo
<1>8. heap'[it.hypo] = new[i]
  BY <1>1, <1>7 DEF Grown
<1>9. Extended(container[c].edges[b][v], c, w).total = CellValue(heap, container, c, b, v, w)
  BY <1>6, CellTotal
<1>10. heap'[it.hypo].total = CellValue(heap, container, c, b, v, w)
  BY <1>7, <1>8, <1>9
<1>11. CellValue(heap, container, c, b, x, y) >= CellValue(heap, container, c, b, v, w)
  BY <1>3, <1>6, BestFacts, GridFalls
<1>12. heap[item.hypo].total = CellValue(heap, container, c, b, x, y)
  BY <1>1, <1>2 DEF GridsOK
<1>13. CellValue(heap, container, c, b, v, w) \in Int
  BY <1>6, BestFacts, CellValueType
<1> QED BY <1>2, <1>6, <1>10, <1>11, <1>12, <1>13

\* What is popped after a round was popped before it, or in it.
LEMMA RoundPops ==
  ASSUME NEW c \in DOMAIN container, NEW item, NEW new, Round(c, item, new),
         NEW p \in Popped(container', c)
  PROVE  p \in container[c].seen /\ (p \in Popped(container, c) \/ p = CellOf(item))
<1>1. p \in container'[c].seen /\ \A it \in container'[c].queue : CellOf(it) # p
  BY DEF Popped
<1>2. p \in container[c].seen
  BY <1>1 DEF Round
<1>3. ASSUME p \notin Popped(container, c) PROVE p = CellOf(item)
  <2>1. PICK it \in container[c].queue : p = CellOf(it)
    BY <1>2, <1>3 DEF Popped
  <2>2. it \notin container[c].queue \ {item}
    BY <1>1, <2>1 DEF Round
  <2> QED BY <2>1, <2>2
<1> QED BY <1>2, <1>3

\* A round keeps the grids in order.
LEMMA RoundGrids ==
  ASSUME CubeInv, LocalScores, Sorted(heap, container),
         NEW c \in DOMAIN container, NEW item, NEW new, Round(c, item, new),
         NEW d \in DOMAIN container, GridsOK(heap, container, d)
  PROVE  GridsOK(heap', container', d)
<1>1. /\ \A h \in Created : heap'[h].total = heap[h].total
      /\ \A b, x, y :
           /\ InGrid(container', d, b, x, y) = InGrid(container, d, b, x, y)
           /\ InGrid(container, d, b, x, y) =>
                CellValue(heap', container', d, b, x, y) = CellValue(heap, container, d, b, x, y)
  BY RoundKeeps
<1>2. ASSUME NEW it \in container[d].queue
      PROVE  /\ CellOf(it) \in container[d].seen
             /\ heap'[it.hypo].total = CellValue(heap', container', d, it.from, it.x, it.y)
  <2>1. /\ CellOf(it) \in container[d].seen
        /\ heap[it.hypo].total = CellValue(heap, container, d, it.from, it.x, it.y)
    BY DEF GridsOK
  <2>2. it.hypo \in Created /\ InGrid(container, d, it.from, it.x, it.y)
    BY WaitingIs
  <2> QED BY <1>1, <2>1, <2>2
<1>3. container'[d].edges = container[d].edges
  BY DEF Round
<1>4. CASE d # c
  <2>1. container'[d] = container[d]
    BY <1>4 DEF Round
  <2>2. Popped(container', d) = Popped(container, d)
    BY <2>1 DEF Popped
  <2> QED BY <1>1, <1>2, <2>1, <2>2 DEF GridsOK
<1>5. CASE d = c
  <2>1. ASSUME NEW cell \in container'[c].seen
        PROVE  \E b, x, y : cell = <<b, x, y>> /\ InGrid(container', c, b, x, y)
    <3>1. CASE cell \in container[c].seen
      <4>1. PICK b, x, y : cell = <<b, x, y>> /\ InGrid(container, c, b, x, y)
        BY <1>5, <3>1 DEF GridsOK
      <4> QED BY <1>1, <1>5, <4>1
    <3>2. CASE cell \notin container[c].seen
      <4>1. PICK it \in container'[c].queue : CellOf(it) = cell /\ NextTo(c, item, new, it)
        BY <3>2 DEF Round
      <4>2. InGrid(container, c, it.from, it.x, it.y)
        BY <1>5, <4>1, RoundCreates
      <4> QED BY <1>1, <1>5, <4>1, <4>2 DEF CellOf
    <3> QED BY <3>1, <3>2
  <2>2. ASSUME NEW it \in container'[c].queue
        PROVE  /\ CellOf(it) \in container'[c].seen
               /\ heap'[it.hypo].total = CellValue(heap', container', c, it.from, it.x, it.y)
    <3>1. CASE it \in container[c].queue \ {item}
      <4>1. container[c].seen \subseteq container'[c].seen
        BY DEF Round
      <4> QED BY <1>2, <1>5, <3>1, <4>1
    <3>2. CASE NextTo(c, item, new, it) /\ CellOf(it) \in container'[c].seen
      <4>1. /\ InGrid(container, c, it.from, it.x, it.y)
            /\ heap'[it.hypo].total = CellValue(heap, container, c, it.from, it.x, it.y)
        BY <1>5, <3>2, RoundCreates
      <4> QED BY <1>1, <1>5, <3>2, <4>1
    <3> QED BY <3>1, <3>2 DEF Round
  <2>3. ASSUME NEW b \in DOMAIN container'[c].edges, container'[c].edges[b] # <<>>
        PROVE  <<b, 1, 1>> \in container'[c].seen
    <3>1. <<b, 1, 1>> \in container[c].seen
      BY <1>3, <1>5, <2>3 DEF GridsOK
    <3> QED BY <3>1 DEF Round
  <2>4. ASSUME NEW b, NEW x, NEW y, <<b, x, y>> \in Popped(container', c)
        PROVE  /\ InGrid(container', c, b, x + 1, y) => <<b, x + 1, y>> \in container'[c].seen
               /\ InGrid(container', c, b, x, y + 1) => <<b, x, y + 1>> \in container'[c].seen
    <3>1. CASE <<b, x, y>> \in Popped(container, c)
      <4>1. /\ InGrid(container, c, b, x + 1, y) => <<b, x + 1, y>> \in container[c].seen
            /\ InGrid(container, c, b, x, y + 1) => <<b, x, y + 1>> \in container[c].seen
        BY <1>5, <3>1 DEF GridsOK
      <4>2. container[c].seen \subseteq container'[c].seen
        BY DEF Round
      <4> QED BY <1>1, <1>5, <4>1, <4>2
    <3>2. CASE <<b, x, y>> = CellOf(item)
      <4>1. item.from = b /\ item.x = x /\ item.y = y
        BY <3>2 DEF CellOf
      <4>2. ASSUME NEW v, NEW w, <<v, w>> \in {<<x, y + 1>>, <<x + 1, y>>},
                   InGrid(container, c, b, v, w)
            PROVE  <<b, v, w>> \in container'[c].seen
        <5>0. container[c].seen \subseteq container'[c].seen
              /\ \A next \in NextCells(c, item) : <<item.from, next[1], next[2]>> \in container'[c].seen
          BY DEF Round
        <5>1. CASE <<b, v, w>> \in container[c].seen
          BY <5>0, <5>1
        <5>2. CASE <<b, v, w>> \notin container[c].seen
          <6> DEFINE q == <<v, w>>
          <6>1. q[1] = v /\ q[2] = w
            OBVIOUS
          <6>2. b \in DOMAIN container[c].edges /\ v <= Len(container[c].edges[b])
                /\ w <= Len(Translations(b, c))
            BY <4>2, BestFacts, GridIs DEF InGrid
          <6>3. q \in {<<item.x, item.y + 1>>, <<item.x + 1, item.y>>}
            BY <4>1, <4>2
          <6> HIDE DEF q
          <6>4. q \in NextCells(c, item)
            BY <4>1, <5>2, <6>1, <6>2, <6>3 DEF NextCells
          <6>5. <<item.from, q[1], q[2]>> \in container'[c].seen
            BY <5>0, <6>4
          <6> QED BY <4>1, <6>1, <6>5
        <5> QED BY <5>1, <5>2
      <4>3. InGrid(container, c, b, x + 1, y) => <<b, x + 1, y>> \in container'[c].seen
        BY <4>2
      <4>4. InGrid(container, c, b, x, y + 1) => <<b, x, y + 1>> \in container'[c].seen
        BY <4>2
      <4> QED BY <1>1, <1>5, <4>3, <4>4
    <3> QED BY <2>4, <3>1, <3>2, RoundPops
  <2> QED BY <1>5, <2>1, <2>2, <2>3, <2>4 DEF GridsOK
<1> QED BY <1>4, <1>5

\* The highest score waiting is the score of a hypothesis that waits.
LEMMA TopScoreIs ==
  ASSUME CubeInv, NEW c \in DOMAIN container, NEW item \in container[c].queue
  PROVE  /\ TotalScore(item.hypo) <= TopScore(c)
         /\ \E best \in container[c].queue : TopScore(c) = TotalScore(best.hypo)
<1> DEFINE S == {TotalScore(it.hypo) : it \in container[c].queue}
           All == {TotalScore(h) : h \in Created}
           f == [h \in Created |-> TotalScore(h)]
<1>1. \A it \in container[c].queue : it.hypo \in Created
  BY WaitingIs
<1>2. \A h \in Created : TotalScore(h) \in Int
  BY BestFacts, HypoIs
<1>3. IsFiniteSet(All)
  <2>1. f \in Surjection(Created, All)
    <3>1. f \in [Created -> All]
      OBVIOUS
    <3>2. \A t \in All : \E h \in Created : f[h] = t
      OBVIOUS
    <3> HIDE DEF f, All
    <3> QED BY <3>1, <3>2 DEF Surjection
  <2>2. IsFiniteSet(Created)
    BY BestFacts, FS_Interval DEF Created
  <2> HIDE DEF f, All
  <2> QED BY <2>1, <2>2, FS_Surjection
<1>4. S \subseteq All /\ S \subseteq Int /\ TotalScore(item.hypo) \in S
  BY <1>1, <1>2
<1> HIDE DEF All
<1>5. IsFiniteSet(S) /\ S # {}
  BY <1>3, <1>4, FS_Subset
<1>6. Highest(S) \in S /\ \A y \in S : y <= Highest(S)
  <2> HIDE DEF S
  <2> QED BY <1>4, <1>5, HighestIs
<1>7. TopScore(c) = Highest(S)
  BY DEF TopScore
<1> QED BY <1>4, <1>6, <1>7

\* What a round pops is at least as good as what waits in any container.
LEMMA PoppedIsBest ==
  ASSUME CubeInv, Popping(heap, container, queue, stackNo),
         NEW c \in Containers(stackNo),
         \A d \in queue : container[d].queue # {} => TopScore(d) <= TopScore(c),
         NEW item \in container[c].queue,
         \A other \in container[c].queue : TotalScore(other.hypo) <= TotalScore(item.hypo),
         NEW d \in Containers(stackNo), NEW it \in container[d].queue
  PROVE  heap[it.hypo].total <= heap[item.hypo].total
<1>1. c \in DOMAIN container /\ d \in DOMAIN container
  BY DEF Containers
<1>2. d \in OfStack(container, stackNo)
  BY DEF OfStack, Containers
<1>3. d \in queue
  BY <1>2 DEF Popping
<1>4. TopScore(d) <= TopScore(c)
  BY <1>3
<1>5. PICK best \in container[c].queue : TopScore(c) = TotalScore(best.hypo)
  BY <1>1, TopScoreIs
<1>6. PICK top \in container[d].queue : TopScore(d) = TotalScore(top.hypo)
  BY <1>1, TopScoreIs
<1>7. TotalScore(it.hypo) <= TopScore(d)
  BY <1>1, TopScoreIs
<1>8. TotalScore(best.hypo) <= TotalScore(item.hypo)
  OBVIOUS
<1>9. /\ TotalScore(it.hypo) \in Int /\ TotalScore(item.hypo) \in Int
      /\ TotalScore(best.hypo) \in Int /\ TotalScore(top.hypo) \in Int
  BY <1>1, WaitingIs, BestFacts, HypoIs
<1>10. TotalScore(it.hypo) <= TotalScore(item.hypo)
  BY <1>4, <1>5, <1>6, <1>7, <1>8, <1>9
<1> QED BY <1>10 DEF TotalScore

\* After a round, what was popped, now or before, is as good as what waits.
LEMMA RoundBest ==
  ASSUME CubeInv, LocalScores, Sorted(heap, container),
         Popping(heap, container, queue, stackNo),
         NEW c \in Containers(stackNo),
         \A d \in queue : container[d].queue # {} => TopScore(d) <= TopScore(c),
         NEW item, NEW new, Round(c, item, new),
         NEW a \in Containers(stackNo), NEW d \in Containers(stackNo)
  PROVE  BestFirst(heap', container', a, d)
<1>1. /\ c \in DOMAIN container /\ a \in DOMAIN container /\ d \in DOMAIN container
      /\ a \in OfStack(container, stackNo) /\ d \in OfStack(container, stackNo)
      /\ c \in OfStack(container, stackNo)
  BY DEF Containers, OfStack
<1>2. /\ GridsOK(heap, container, a) /\ GridsOK(heap, container, c)
      /\ BestFirst(heap, container, a, c) /\ BestFirst(heap, container, a, d)
  BY <1>1 DEF Popping
<1>3. /\ item \in container[c].queue
      /\ \A other \in container[c].queue : TotalScore(other.hypo) <= TotalScore(item.hypo)
      /\ \A e \in DOMAIN container : e # c => container'[e] = container[e]
  BY DEF Round
<1>4. /\ \A h \in Created : heap'[h].total = heap[h].total
      /\ \A b, x, y : InGrid(container, a, b, x, y) =>
           CellValue(heap', container', a, b, x, y) = CellValue(heap, container, a, b, x, y)
  BY <1>1, RoundKeeps
<1>5. heap[item.hypo].total \in Int
  BY <1>1, <1>3, WaitingIs, BestFacts, HypoIs DEF TotalScore
<1> SUFFICES ASSUME NEW b, NEW x, NEW y, <<b, x, y>> \in Popped(container', a),
                    NEW it \in container'[d].queue
             PROVE  CellValue(heap', container', a, b, x, y) >= heap'[it.hypo].total
  BY DEF BestFirst
<1>6. /\ <<b, x, y>> \in container[a].seen
      /\ \/ <<b, x, y>> \in Popped(container, a)
         \/ a = c /\ <<b, x, y>> = CellOf(item)
  <2>1. CASE a = c
    BY <1>1, <2>1, RoundPops
  <2>2. CASE a # c
    <3>1. container'[a] = container[a]
      BY <1>1, <1>3, <2>2
    <3> QED BY <3>1 DEF Popped
  <2> QED BY <2>1, <2>2
<1>7. InGrid(container, a, b, x, y)
  <2>1. PICK b1, x1, y1 : <<b, x, y>> = <<b1, x1, y1>> /\ InGrid(container, a, b1, x1, y1)
    BY <1>2, <1>6 DEF GridsOK
  <2> QED BY <2>1
<1>8. PICK v \in Int : /\ CellValue(heap, container, a, b, x, y) = v
                       /\ CellValue(heap', container', a, b, x, y) = v
  BY <1>1, <1>4, <1>7, BestFacts, CellValueType
<1>9. v >= heap[item.hypo].total
  <2>1. CASE <<b, x, y>> \in Popped(container, a)
    BY <1>2, <1>3, <1>8, <2>1 DEF BestFirst
  <2>2. CASE a = c /\ <<b, x, y>> = CellOf(item)
    <3>1. b = item.from /\ x = item.x /\ y = item.y
      BY <2>2 DEF CellOf
    <3>2. heap[item.hypo].total = CellValue(heap, container, c, item.from, item.x, item.y)
      BY <1>2, <1>3 DEF GridsOK
    <3> QED BY <1>5, <1>8, <2>2, <3>1, <3>2
  <2> QED BY <1>6, <2>1, <2>2
<1>10. CASE it \in container[d].queue
  <2>1. it.hypo \in Created
    BY <1>1, <1>10, WaitingIs
  <2>2. heap'[it.hypo].total = heap[it.hypo].total
    BY <1>4, <2>1
  <2>3. heap[it.hypo].total <= heap[item.hypo].total
    BY <1>3, <1>10, PoppedIsBest
  <2>4. heap[it.hypo].total \in Int
    BY <2>1, BestFacts, HypoIs DEF TotalScore
  <2> QED BY <1>5, <1>8, <1>9, <2>2, <2>3, <2>4
<1>11. CASE it \notin container[d].queue
  <2>1. d = c
    BY <1>1, <1>3, <1>11
  <2>2. NextTo(c, item, new, it)
    BY <1>11, <2>1 DEF Round
  <2>3. heap[item.hypo].total >= heap'[it.hypo].total /\ heap'[it.hypo].total \in Int
    BY <1>1, <1>2, <2>2, RoundCreates
  <2> QED BY <1>5, <1>8, <1>9, <2>3
<1> QED BY <1>10, <1>11

-----------------------------------------------------------------------------
(* The actions again, now for the best cells.                                    *)

\* Popping the best of all containers keeps the best first.
LEMMA PopBestBest == CubeInv /\ BestInv /\ PopBest => BestInv'
<1> SUFFICES ASSUME CubeInv, BestInv, PopBest PROVE BestInv'
  OBVIOUS
<1>1. PICK c \in queue :
        /\ \A d \in queue : container[d].queue # {} => TopScore(d) <= TopScore(c)
        /\ ProcessBestHypothesis(c)
        /\ queue' = IF container'[c].queue = {} THEN queue \ {c} ELSE queue
  BY DEF PopBest
<1>2. pc = "pop" /\ conf' = conf /\ stackNo' = stackNo
  BY DEF PopBest
<1>3. stackNo \in 1..Size /\ c \in Containers(stackNo)
  BY <1>2 DEF CubeInv, Position
<1>4. PICK item, new : Round(c, item, new)
  BY <1>1, <1>3, ProcessBestIsRound
<1>5. c \in DOMAIN container
  BY <1>3 DEF Containers
<1>6. Totals(heap') /\ (LocalScores => Sorted(heap', container'))
  BY <1>4, <1>5, RoundKeeps DEF BestInv
<1>7. ASSUME LocalScores PROVE Popping(heap', container', queue', stackNo')
  <2>1. Sorted(heap, container) /\ Popping(heap, container, queue, stackNo)
    BY <1>2, <1>7 DEF BestInv
  <2>2. /\ OfStack(container', stackNo') = OfStack(container, stackNo)
        /\ OfStack(container, stackNo) = Containers(stackNo)
    BY <1>2, <1>4 DEF OfStack, Containers, Round
  <2>3. ASSUME NEW d \in Containers(stackNo)
        PROVE  /\ GridsOK(heap', container', d)
               /\ container'[d].queue # {} => d \in queue'
    <3>1. d \in DOMAIN container /\ GridsOK(heap, container, d)
          /\ (container[d].queue # {} => d \in queue)
      BY <2>1, <2>2 DEF Popping, Containers
    <3>2. GridsOK(heap', container', d)
      BY <1>4, <1>5, <1>7, <2>1, <3>1, RoundGrids
    <3>3. CASE d = c
      BY <1>1, <3>2, <3>3
    <3>4. CASE d # c
      <4>1. container'[d] = container[d]
        BY <1>4, <3>1, <3>4 DEF Round
      <4> QED BY <1>1, <3>1, <3>2, <3>4, <4>1
    <3> QED BY <3>3, <3>4
  <2>4. ASSUME NEW a \in Containers(stackNo), NEW d \in Containers(stackNo)
        PROVE  BestFirst(heap', container', a, d)
    BY <1>1, <1>3, <1>4, <1>7, <2>1, RoundBest
  <2> QED BY <2>2, <2>3, <2>4 DEF Popping
<1> QED BY <1>2, <1>6, <1>7, BestLater

\* The minimum of a container may be popped out of turn: popping is over.
LEMMA EnsureMinBest == CubeInv /\ BestInv /\ EnsureMin => BestInv'
<1> SUFFICES ASSUME CubeInv, BestInv, EnsureMin PROVE BestInv'
  OBVIOUS
<1>1. PICK c \in Containers(stackNo) : ProcessBestHypothesis(c)
  BY DEF EnsureMin
<1>2. conf' = conf /\ pc' = "ensure" /\ stackNo \in 1..Size
  BY DEF EnsureMin, CubeInv, Position
<1>3. PICK item, new : Round(c, item, new)
  BY <1>1, <1>2, ProcessBestIsRound
<1>4. Totals(heap') /\ (LocalScores => Sorted(heap', container'))
  BY <1>3, RoundKeeps DEF BestInv, Containers
<1> QED BY <1>2, <1>4, BestLater

\* Each of the other actions.
LEMMA FirstStackBest == CubeInv /\ BestInv /\ FirstStack => BestInv'
<1> SUFFICES ASSUME CubeInv, BestInv, FirstStack PROVE BestInv'
  OBVIOUS
<1>1. /\ stackNo = 0 /\ conf' = conf /\ heap' = heap /\ pc' = "stack"
      /\ container' = ForwardTodos(0, stack[0])
  BY DEF FirstStack, CubeInv, Position
<1>2. 0 \in 0..Size
  BY InvFacts
<1>3. EdgesFrom(container, stack, 0)
  BY <1>1, InvFacts
<1>4. LocalScores => Sorted(heap', container')
  BY <1>1, <1>2, <1>3, BestFacts, ForwardSorted DEF BestInv
<1> QED BY <1>1, <1>4, BestLater DEF BestInv

LEMMA FinishStackBest == CubeInv /\ BestInv /\ FinishStack => BestInv'
<1> SUFFICES ASSUME CubeInv, BestInv, FinishStack PROVE BestInv'
  OBVIOUS
<1> DEFINE n == stackNo
           s == StackNow(n)
           p == PruneToSize(s, conf.maxHypoStackSize)
           t == CleanupArcList(p)
           st == StackAfter(n, t)
           F == ForwardTodos(n, st[n])
           none == <<>>
<1>1. n \in 0..Size /\ conf' = conf /\ pc' = "stack"
  BY InvFacts DEF CubeInv, Position, FinishStack
<1>2. heap' = HeapAfter(t, none) /\ container' = ForwardTodos(n, t.hypos)
  BY DEF FinishStack
<1>3. Tidy(s)
  BY <1>1, InvFacts, StackNowIsTidy
<1> HIDE DEF s
<1>4. Tidy(p) /\ Settles(s, p, {})
  BY <1>3, PrunedIsTidy
<1> HIDE DEF p
<1>5. Tidy(t) /\ Settles(p, t, {})
  BY <1>4, InvFacts, CleanedIsTidy
<1> HIDE DEF t
<1>6. Settles(s, t, {})
  BY <1>4, <1>5, KeptIs, SettlesThen
<1>7. none \in Seq(HypoType) /\ Len(none) = 0
  OBVIOUS
<1> HIDE DEF none
<1>8. StepOf(n, t, {}, none)
  BY <1>5, <1>6, <1>7 DEF StepOf, s
<1>9. Grown(heap', none)
  BY <1>2, <1>8, BestFacts, StepGrows
<1>10. st \in [0..Size -> SUBSET Created] /\ st[n] = t.hypos
  <2>1. t.hypos \subseteq Created
    BY <1>5 DEF Tidy, StackType
  <2> QED BY <1>1, <2>1, InvFacts DEF StackAfter
<1>11. EdgesFrom(container, st, n)
  <2>1. conf \in Settings /\ Stacked(heap, stack, freed) /\ EdgesFrom(container, stack, n)
    BY InvFacts
  <2> QED BY <1>1, <2>1, StepEdges
<1> HIDE DEF st
<1>12. conf \in Settings /\ heap \in Seq(HypoType)
  BY BestFacts
<1>13. EdgesFrom(F, st, n + 1)
  BY <1>1, <1>10, <1>11, <1>12, ForwardTodosAre
<1>14. container' = F
  BY <1>2, <1>10
<1>15. ASSUME LocalScores PROVE Sorted(heap', container')
  <2>1. Totals(heap) /\ Sorted(heap, container)
    BY <1>15 DEF BestInv
  <2>2. Sorted(heap, F)
    BY <1>1, <1>10, <1>11, <1>12, <1>15, <2>1, ForwardSorted
  <2> HIDE DEF F
  <2>3. Sorted(heap', F)
    BY <1>9, <1>10, <1>12, <1>13, <2>2, SortedKept
  <2> QED BY <1>14, <2>3
<1>16. Totals(heap')
  <2>1. \A i \in 1..Len(none) : TotalOK(none[i])
    BY <1>7
  <2> QED BY <1>9, <1>12, <2>1, TotalsGrow DEF BestInv
<1> QED BY <1>1, <1>15, <1>16, BestLater

LEMMA PopEmptyBest == CubeInv /\ BestInv /\ PopEmpty => BestInv'
<1> SUFFICES ASSUME CubeInv, BestInv, PopEmpty PROVE BestInv'
  OBVIOUS
<1>1. PICK c \in queue : /\ \A d \in queue : container[d].queue = {}
                         /\ queue' = queue \ {c}
  BY DEF PopEmpty
<1>2. /\ conf' = conf /\ heap' = heap /\ container' = container /\ stackNo' = stackNo
      /\ pc = "pop" /\ pc' = "pop"
  BY DEF PopEmpty
<1>3. ASSUME LocalScores PROVE Popping(heap', container', queue', stackNo')
  <2>1. Popping(heap, container, queue, stackNo)
    BY <1>2, <1>3 DEF BestInv
  <2>2. \A d \in OfStack(container, stackNo) : container[d].queue # {} => d \in queue'
    BY <1>1, <2>1 DEF Popping
  <2> QED BY <1>2, <2>1, <2>2 DEF Popping
<1> QED BY <1>2, <1>3, BestLater DEF BestInv

LEMMA BestInvInit == NBestInit => BestInv
<1> SUFFICES ASSUME NBestInit PROVE BestInv
  OBVIOUS
<1> DEFINE empty == [cov |-> {}, end |-> -1, word |-> BeginWord, prev |-> 0, option |-> 0,
                     score |-> 0, total |-> 0, arcs |-> <<>>]
<1>1. /\ heap = <<empty>> /\ container = [c \in {{}} |-> NoContainer] /\ pc = "first"
  BY DEF NBestInit, SearchInit
<1>2. TotalOK(empty)
  BY DEF TotalOK
<1> HIDE DEF empty
<1>3. Len(heap) = 1 /\ heap[1] = empty
  BY <1>1
<1>4. Totals(heap)
  BY <1>2, <1>3 DEF Totals
<1>5. \A c \in DOMAIN container : container[c] = NoContainer
  BY <1>1
<1>6. DOMAIN NoContainer.edges = {}
  BY DEF NoContainer
<1>7. Sorted(heap, container)
  BY <1>5, <1>6 DEF Sorted
<1> QED BY <1>1, <1>4, <1>7 DEF BestInv

LEMMA BestInvNext == CubeInv /\ BestInv /\ [NBestNext]_allVars => BestInv'
<1> SUFFICES ASSUME CubeInv, BestInv, [NBestNext]_allVars PROVE BestInv'
  OBVIOUS
<1>1. ASSUME UNCHANGED <<conf, heap, container>>, pc' # "pop" PROVE BestInv'
  BY <1>1, BestLater DEF BestInv
<1>2. ASSUME UNCHANGED searchVars PROVE BestInv'
  <2>1. UNCHANGED <<conf, heap, container, queue, stackNo, pc>>
    BY <1>2 DEF searchVars
  <2> QED BY <2>1, BestLater DEF BestInv
<1>3. CASE FirstStack
  BY <1>3, FirstStackBest
<1>4. CASE StartStack
  BY <1>4, StartBest
<1>5. CASE PopBest
  BY <1>5, PopBestBest
<1>6. CASE PopEmpty
  BY <1>6, PopEmptyBest
<1>7. CASE EnsureMin
  BY <1>7, EnsureMinBest
<1>8. CASE FinishStack
  BY <1>8, FinishStackBest
<1>9. CASE OutOfTime \/ EndSearch \/ StopPopping
  BY <1>1, <1>9 DEF OutOfTime, EndSearch, StopPopping
<1>10. CASE StartNBest \/ NoNBest \/ EndNBest
  BY <1>1, <1>10 DEF StartNBest, NoNBest, EndNBest
<1>11. CASE TakeBest
  BY <1>2, <1>11 DEF TakeBest
<1>12. CASE UNCHANGED allVars
  BY <1>2, <1>12 DEF allVars
<1> QED BY <1>3, <1>4, <1>5, <1>6, <1>7, <1>8, <1>9, <1>10, <1>11, <1>12 DEF NBestNext, SearchNext

-----------------------------------------------------------------------------
(* The theorems of cube pruning. *)

(* The inductive invariant of cube pruning: the stacks, the edges between the         *)
(* containers and the queues only know hypotheses that are there, each with its       *)
(* coverage, and none is kept in two places.                                          *)
THEOREM CubeInvHolds == NBestSpec => []CubeInv
BY CubeInvInit, CubeInvNext, PTL DEF NBestSpec

(* Whatever is pruned, recombined or cut from the lists of arcs, and wherever the     *)
(* search is stopped: no hypothesis is deleted that a stack, a list of arcs, an edge, *)
(* a queue or a later hypothesis still leads to, in the search or in the n-best list. *)
THEOREM NothingDangles == NBestSpec => []NoDangling
BY CubeInvHolds, CubeInvIsSafe, PTL

(* Where the scores are local (word pairs count for nothing), the edges of every      *)
(* container are sorted by what their hypotheses bring to it; while a stack is filled *)
(* every grid has been entered at its best cell and the neighbours of what has been   *)
(* popped wait, or have been popped; and what has been popped is as good as what      *)
(* waits, in whatever container of the stack.                                         *)
THEOREM BestInvHolds == NBestSpec => [](CubeInv /\ BestInv)
<1>1. NBestInit => CubeInv /\ BestInv
  BY CubeInvInit, BestInvInit
<1>2. CubeInv /\ BestInv /\ [NBestNext]_allVars => (CubeInv /\ BestInv)'
  BY CubeInvNext, BestInvNext
<1> QED BY <1>1, <1>2, PTL DEF NBestSpec

(* Where the scores are local, a stack is filled from the best cell down: whatever    *)
(* has been popped from the grids of its containers scores as well as any cell of any *)
(* of them that has not, however large the grids and wherever popping is stopped.     *)
THEOREM BestArePopped == NBestSpec => []BestCellsPopped
BY BestInvHolds, BestInvIsSafe, PTL
=============================================================================
