------------------------------ MODULE StackProofs ------------------------------
(* Proofs about HypothesisStack for any classes and coverages, any scores, limit,  *)
(* beam and diversity, and whatever order the hypotheses come in.                  *)
(*                                                                                 *)
(* AddPrune decides by two thresholds taken from earlier prunings.  The invariant  *)
(* says what they stand for: above m_worstScore the stack is full, or it is the    *)
(* end of the beam (WorstIsFull), and m_diversityWorstScore of a coverage is       *)
(* reached by as many hypotheses as the diversity asks for (FloorIsReached); so    *)
(* that what is lost is below the beam or below a full stack (LostBelow), and its  *)
(* coverage holds as many as good ones (LostOfMany).                               *)
(*                                                                                 *)
(* Which hypotheses are kept for diversity is a choice between equals, and changes *)
(* with every hypothesis added.  Full therefore speaks of every choice, and        *)
(* ChoiceBefore exchanges one: a choice after a score was raised becomes a choice  *)
(* before it that fills the stack no further.                                      *)
EXTENDS HypothesisStack, TLAPS, FiniteSetTheorems, WellFoundedInduction

(* The hypotheses of S that score at least x. *)
Good(h, S, x) == {c \in S : h[c] >= x}

\* The hypotheses that score at least x fill the stack together with those kept
\* for diversity, whichever these are.
Full(h, x) == \A T \in Diverse(h) : Cardinality(Good(h, DOMAIN h, x) \cup T) >= MaxSize

LostFrom(h, off) ==
  {c \in Classes : off[c] # NegInf /\ (c \in DOMAIN h => h[c] < off[c])}

HyposOK(h) ==
  /\ DOMAIN h \subseteq Classes /\ IsFiniteSet(DOMAIN h)
  /\ h = [c \in DOMAIN h |-> h[c]]
  /\ \A c \in DOMAIN h : h[c] \in Scores

StackTypes(s, off) ==
  /\ s = [hypos |-> s.hypos, best |-> s.best, worst |-> s.worst, floor |-> s.floor]
  /\ HyposOK(s.hypos)
  /\ s.best \in Scores \cup {NegInf} /\ s.worst \in Int
  /\ s.floor \in [Coverages -> Scores \cup {NegInf}]
  /\ off \in [Classes -> Scores \cup {NegInf}]
  /\ \A c \in DOMAIN s.hypos : s.hypos[c] <= off[c]

\* m_worstScore is the lower end of the beam, or the stack is full above it.
WorstIsFull(s) ==
  s.worst # NegInf /\ s.worst > s.best + BeamWidth => MaxSize > 0 /\ Full(s.hypos, s.worst)

\* A coverage whose m_diversityWorstScore is set has as many as are asked for.
FloorIsReached(s) ==
  \A v \in Coverages : s.floor[v] # NegInf =>
    Cardinality(Good(s.hypos, Covering(s.hypos, v), s.floor[v])) >= Diversity

LostBelow(s, off) ==
  \A c \in LostFrom(s.hypos, off) :
    off[c] <= s.best + BeamWidth \/ (MaxSize > 0 /\ Full(s.hypos, off[c]))

LostOfMany(s, off) ==
  \A c \in LostFrom(s.hypos, off) :
    Cardinality(Good(s.hypos, Covering(s.hypos, Coverage(c)), off[c])) >= Diversity

StackInv(s, off) ==
  /\ StackTypes(s, off) /\ WorstIsFull(s) /\ FloorIsReached(s)
  /\ LostBelow(s, off) /\ LostOfMany(s, off)

-----------------------------------------------------------------------------
(* Scores, and the best of a set. *)

LEMMA ScoreTypes ==
  /\ MaxScore \in Nat /\ BeamWidth \in Int /\ BeamWidth < 0
  /\ MaxSize \in Nat /\ Diversity \in Nat
  /\ NegInf \in Int /\ NegInf < BeamWidth
  /\ \A x \in Scores : x \in Nat /\ x > 0 /\ x <= MaxScore
BY StackAssumption DEF Scores, NegInf

LEMMA LeastOf ==
  ASSUME NEW S, S \subseteq Nat, S # {}
  PROVE  \E x \in S : \A y \in S : x <= y
<1> DEFINE R == {ss \in Nat \X Nat : ss[1] < ss[2]}
<1>1. IsWellFoundedOn(R, Nat)
  BY NatLessThanWellFounded DEF OpToRel
<1>2. \E x \in S : \A y \in S : ~(<<y, x>> \in R)
  <2> HIDE DEF R
  <2> QED BY <1>1, WFMin
<1>3. PICK x \in S : \A y \in S : ~(<<y, x>> \in R)
  BY <1>2
<1>4. ASSUME NEW y \in S PROVE x <= y
  <2>1. x \in Nat /\ y \in Nat
    OBVIOUS
  <2>2. <<y, x>> \in Nat \X Nat /\ <<y, x>>[1] = y /\ <<y, x>>[2] = x
    BY <2>1
  <2>3. ~(y < x)
    BY <1>3, <2>2
  <2> QED BY <2>1, <2>3
<1> QED BY <1>4

LEMMA LowestIs ==
  ASSUME NEW h, HyposOK(h), NEW S \in SUBSET DOMAIN h, S # {}
  PROVE  Lowest(h, S) \in Scores /\ \A c \in S : Lowest(h, S) <= h[c]
<1> DEFINE V == {h[c] : c \in S}
<1>1. V \subseteq Scores /\ V # {}
  BY DEF HyposOK
<1>2. V \subseteq Nat
  BY <1>1, ScoreTypes
<1>3. Lowest(h, S) = Min(V)
  BY DEF Lowest
<1> HIDE DEF V
<1>4. \E x \in V : \A y \in V : x <= y
  BY <1>1, <1>2, LeastOf
<1>5. Min(V) \in V /\ \A y \in V : Min(V) <= y
  BY <1>4 DEF Min
<1>6. \A c \in S : h[c] \in V
  BY DEF V
<1> QED BY <1>1, <1>3, <1>5, <1>6

LEMMA BestHypo ==
  ASSUME NEW h, HyposOK(h), NEW S \in SUBSET DOMAIN h, S # {}
  PROVE  \E m \in S : \A d \in S : h[m] >= h[d]
<1> DEFINE V == {MaxScore - h[c] : c \in S}
<1>1. \A c \in S : h[c] \in Nat /\ h[c] <= MaxScore
  BY ScoreTypes DEF HyposOK
<1>2. \A c \in S : MaxScore - h[c] \in Nat
  BY <1>1, ScoreTypes
<1>3. V \subseteq Nat /\ V # {}
  BY <1>2
<1>4. PICK x \in V : \A y \in V : x <= y
  <2> HIDE DEF V
  <2> QED BY <1>3, LeastOf
<1>5. PICK m \in S : x = MaxScore - h[m]
  OBVIOUS
<1>6. ASSUME NEW d \in S PROVE h[m] >= h[d]
  <2>1. MaxScore - h[m] <= MaxScore - h[d]
    BY <1>4, <1>5
  <2> QED BY <2>1, <1>1, ScoreTypes
<1> QED BY <1>6

LEMMA MinOfTwo ==
  ASSUME NEW a \in Nat, NEW b \in Nat
  PROVE  Min({a, b}) = IF a <= b THEN a ELSE b
<1> DEFINE m == IF a <= b THEN a ELSE b
<1>1. m \in {a, b} /\ \A y \in {a, b} : m <= y
  OBVIOUS
<1>2. \A x \in {a, b} : (\A y \in {a, b} : x <= y) => x = m
  OBVIOUS
<1> HIDE DEF m
<1>3. Min({a, b}) \in {a, b} /\ \A y \in {a, b} : Min({a, b}) <= y
  BY <1>1 DEF Min
<1> QED BY <1>2, <1>3 DEF m

\* What it means to be the n best.
LEMMA BestOfIs ==
  ASSUME NEW h, NEW S, IsFiniteSet(S), NEW n \in Nat, NEW T \in BestOf(h, S, n)
  PROVE  /\ T \subseteq S /\ IsFiniteSet(T) /\ Cardinality(T) \in Nat
         /\ Cardinality(T) <= n /\ Cardinality(T) <= Cardinality(S)
         /\ T = S \/ Cardinality(T) = n
         /\ \A c \in T : \A d \in S \ T : h[c] >= h[d]
<1>1. /\ T \subseteq S /\ Cardinality(T) = Min({n, Cardinality(S)})
      /\ \A c \in T : \A d \in S \ T : h[c] >= h[d]
  BY DEF BestOf
<1>2. Cardinality(S) \in Nat
  BY FS_CardinalityType
<1>3. Cardinality(T) = IF n <= Cardinality(S) THEN n ELSE Cardinality(S)
  BY <1>1, <1>2, MinOfTwo
<1>4. IsFiniteSet(T)
  BY <1>1, FS_Subset
<1>5. T = S \/ Cardinality(T) # Cardinality(S)
  BY <1>1, FS_Subset
<1> QED BY <1>1, <1>2, <1>3, <1>4, <1>5

LEMMA IsBestOf ==
  ASSUME NEW h, NEW S, IsFiniteSet(S), NEW n \in Nat, NEW T \in SUBSET S,
         Cardinality(T) <= n, T = S \/ Cardinality(T) = n,
         \A c \in T : \A d \in S \ T : h[c] >= h[d]
  PROVE  T \in BestOf(h, S, n)
<1>1. Cardinality(S) \in Nat /\ Cardinality(T) <= Cardinality(S)
  BY FS_CardinalityType, FS_Subset
<1>2. Cardinality(T) \in Nat
  BY FS_CardinalityType, FS_Subset
<1>3. Cardinality(T) = IF n <= Cardinality(S) THEN n ELSE Cardinality(S)
  BY <1>1, <1>2
<1>4. Cardinality(T) = Min({n, Cardinality(S)})
  BY <1>1, <1>3, MinOfTwo
<1> QED BY <1>4 DEF BestOf

\* A finite set that is no larger than another and not contained in it leaves
\* an element of the other out.
LEMMA LeftOut ==
  ASSUME NEW A, NEW B, IsFiniteSet(A), Cardinality(A) <= Cardinality(B),
         NEW a \in A, a \notin B
  PROVE  \E b \in B : b \notin A
<1>1. SUFFICES ASSUME B \subseteq A PROVE FALSE
  OBVIOUS
<1>2. IsFiniteSet(B) /\ Cardinality(B) <= Cardinality(A) /\ Cardinality(A) # Cardinality(B)
  BY <1>1, FS_Subset
<1>3. Cardinality(A) \in Nat /\ Cardinality(B) \in Nat
  BY <1>2, FS_CardinalityType
<1> QED BY <1>2, <1>3

\* There are n best of every finite set.
LEMMA BestOfExists ==
  ASSUME NEW h, HyposOK(h), NEW S \in SUBSET DOMAIN h
  PROVE  \A n \in Nat : BestOf(h, S, n) # {}
<1> DEFINE Bad == {n \in Nat : BestOf(h, S, n) = {}}
<1>1. IsFiniteSet(S) /\ Cardinality(S) \in Nat
  BY FS_Subset, FS_CardinalityType DEF HyposOK
<1>2. SUFFICES ASSUME Bad # {} PROVE FALSE
  OBVIOUS
<1>3. PICK m \in Bad : \A y \in Bad : m <= y
  <2>1. Bad \subseteq Nat
    OBVIOUS
  <2> HIDE DEF Bad
  <2> QED BY <1>2, <2>1, LeastOf
<1>4. m \in Nat /\ BestOf(h, S, m) = {}
  BY <1>3
<1>5. CASE m = 0
  <2>1. {} \in BestOf(h, S, 0)
    BY <1>1, FS_EmptySet, IsBestOf
  <2> QED BY <1>4, <1>5, <2>1
<1>6. CASE m # 0
  <2>1. m - 1 \in Nat /\ ~(m <= m - 1)
    BY <1>4, <1>6
  <2>2. m - 1 \notin Bad
    BY <1>3, <2>1
  <2>3. PICK T : T \in BestOf(h, S, m - 1)
    BY <2>1, <2>2
  <2>4. /\ T \subseteq S /\ IsFiniteSet(T) /\ Cardinality(T) \in Nat
        /\ Cardinality(T) <= m - 1
        /\ T = S \/ Cardinality(T) = m - 1
        /\ \A c \in T : \A d \in S \ T : h[c] >= h[d]
    BY <1>1, <2>1, <2>3, BestOfIs
  <2>5. CASE T = S
    <3>1. Cardinality(S) <= m
      BY <1>4, <2>4, <2>5
    <3>2. S \in BestOf(h, S, m)
      BY <1>1, <1>4, <3>1, IsBestOf
    <3> QED BY <1>4, <3>2
  <2>6. CASE T # S
    <3>1. S \ T \in SUBSET DOMAIN h /\ S \ T # {}
      BY <2>4, <2>6
    <3>2. PICK x \in S \ T : \A d \in S \ T : h[x] >= h[d]
      BY <3>1, BestHypo
    <3> DEFINE U == T \cup {x}
    <3>3. Cardinality(U) = m
      <4>1. Cardinality(U) = Cardinality(T) + 1
        BY <2>4, <3>2, FS_AddElement
      <4> QED BY <1>4, <2>4, <2>6, <4>1
    <3>4. U \in SUBSET S /\ \A c \in U : \A d \in S \ U : h[c] >= h[d]
      BY <2>4, <3>2
    <3> HIDE DEF U
    <3>5. U \in BestOf(h, S, m)
      <4>1. Cardinality(U) <= m
        BY <1>4, <3>3
      <4> QED BY <1>1, <1>4, <3>3, <3>4, <4>1, IsBestOf
    <3> QED BY <1>4, <3>5
  <2> QED BY <2>5, <2>6
<1> QED BY <1>5, <1>6

-----------------------------------------------------------------------------
(* The hypotheses kept for diversity. *)

LEMMA CoveringTypes ==
  ASSUME NEW h, HyposOK(h), NEW v
  PROVE  /\ Covering(h, v) \subseteq DOMAIN h /\ IsFiniteSet(Covering(h, v))
         /\ Cardinality(Covering(h, v)) \in Nat
<1>1. Covering(h, v) \subseteq DOMAIN h /\ IsFiniteSet(DOMAIN h)
  BY DEF Covering, HyposOK
<1> QED BY <1>1, FS_Subset, FS_CardinalityType

LEMMA CoverageOfHypo ==
  ASSUME NEW h, HyposOK(h), NEW c \in DOMAIN h
  PROVE  c \in Classes /\ Coverage(c) \in Coverages /\ c \in Covering(h, Coverage(c))
BY DEF HyposOK, Coverages, Covering

LEMMA DiverseIs ==
  ASSUME NEW h, HyposOK(h), NEW T \in Diverse(h), NEW v \in Coverages
  PROVE  LET C == Covering(h, v)
             B == T \cap C
         IN  /\ T \subseteq DOMAIN h /\ IsFiniteSet(T)
             /\ B \in BestOf(h, C, Diversity)
             /\ IsFiniteSet(B) /\ Cardinality(B) \in Nat /\ Cardinality(B) <= Diversity
             /\ B = C \/ Cardinality(B) = Diversity
             /\ \A c \in B : \A d \in C \ B : h[c] >= h[d]
<1>1. T \subseteq DOMAIN h /\ T \cap Covering(h, v) \in BestOf(h, Covering(h, v), Diversity)
  BY DEF Diverse
<1>2. IsFiniteSet(T)
  BY <1>1, FS_Subset DEF HyposOK
<1> QED BY <1>1, <1>2, CoveringTypes, BestOfIs, ScoreTypes

LEMMA DiverseExists ==
  ASSUME NEW h, HyposOK(h)
  PROVE  Diverse(h) # {}
<1> DEFINE B(v) == CHOOSE T : T \in BestOf(h, Covering(h, v), Diversity)
           T == {c \in DOMAIN h : c \in B(Coverage(c))}
<1>1. ASSUME NEW v \in Coverages
      PROVE  B(v) \in BestOf(h, Covering(h, v), Diversity) /\ B(v) \subseteq Covering(h, v)
  <2>1. BestOf(h, Covering(h, v), Diversity) # {}
    BY CoveringTypes, BestOfExists, ScoreTypes
  <2>2. B(v) \in BestOf(h, Covering(h, v), Diversity)
    BY <2>1
  <2> QED BY <2>2 DEF BestOf
<1>2. ASSUME NEW v \in Coverages PROVE T \cap Covering(h, v) = B(v)
  <2> HIDE DEF B
  <2> QED BY <1>1 DEF Covering
<1> HIDE DEF B
<1>3. T \in Diverse(h)
  BY <1>1, <1>2 DEF Diverse
<1> QED BY <1>3

\* Two choices of what is kept for diversity are of a size in each coverage.
LEMMA DiverseSizes ==
  ASSUME NEW h, HyposOK(h), NEW S \in Diverse(h), NEW T \in Diverse(h), NEW v \in Coverages
  PROVE  Cardinality(S \cap Covering(h, v)) = Cardinality(T \cap Covering(h, v))
BY DEF Diverse, BestOf

LEMMA OnlyIs ==
  ASSUME NEW h, HyposOK(h), NEW M \in SUBSET DOMAIN h
  PROVE  /\ DOMAIN Only(h, M) = M /\ (\A c \in M : Only(h, M)[c] = h[c])
         /\ HyposOK(Only(h, M))
         /\ \A v : Covering(Only(h, M), v) = Covering(h, v) \cap M
<1>1. DOMAIN Only(h, M) = M /\ \A c \in M : Only(h, M)[c] = h[c]
  BY DEF Only
<1>2. HyposOK(Only(h, M))
  <2>1. M \subseteq Classes /\ IsFiniteSet(M)
    BY FS_Subset DEF HyposOK
  <2>2. \A c \in M : h[c] \in Scores
    BY DEF HyposOK
  <2>3. Only(h, M) = [c \in M |-> Only(h, M)[c]]
    BY <1>1 DEF Only
  <2> QED BY <1>1, <2>1, <2>2, <2>3 DEF HyposOK
<1> QED BY <1>1, <1>2 DEF Covering

\* A pruned stack that still holds one choice has no choices of its own.
LEMMA KeptDiverse ==
  ASSUME NEW h, HyposOK(h), NEW S \in Diverse(h), NEW M \in SUBSET DOMAIN h,
         S \subseteq M, NEW T \in Diverse(Only(h, M))
  PROVE  T \in Diverse(h)
<1> DEFINE g == Only(h, M)
<1>1. DOMAIN g = M /\ (\A c \in M : g[c] = h[c]) /\ HyposOK(g)
      /\ \A v : Covering(g, v) = Covering(h, v) \cap M
  BY OnlyIs
<1> HIDE DEF g
<1>2. T \in Diverse(g) /\ T \subseteq M
  BY <1>1 DEF g, Diverse
<1>3. SUFFICES ASSUME NEW v \in Coverages
               PROVE  T \cap Covering(h, v) \in BestOf(h, Covering(h, v), Diversity)
  BY <1>2 DEF Diverse
<1> DEFINE C == Covering(h, v)
           D == Covering(g, v)
           A == S \cap C
           B == T \cap D
<1>4. D = C \cap M /\ B = T \cap C /\ A \subseteq D
  BY <1>1, <1>2
<1>5. /\ IsFiniteSet(A) /\ Cardinality(A) \in Nat /\ Cardinality(A) <= Diversity
      /\ A = C \/ Cardinality(A) = Diversity
      /\ \A c \in A : \A d \in C \ A : h[c] >= h[d]
  BY DiverseIs
<1>6. /\ IsFiniteSet(B) /\ Cardinality(B) \in Nat /\ Cardinality(B) <= Diversity
      /\ B = D \/ Cardinality(B) = Diversity
      /\ \A c \in B : \A d \in D \ B : g[c] >= g[d]
  BY <1>1, <1>2, DiverseIs
<1>7. IsFiniteSet(C) /\ C \subseteq DOMAIN h /\ IsFiniteSet(D) /\ Cardinality(D) \in Nat
  BY <1>1, CoveringTypes
<1>8. \A c \in DOMAIN h : h[c] \in Int
  BY ScoreTypes DEF HyposOK
<1> HIDE DEF C, D, A, B
<1>9. CASE A = C
  <2>1. D = C
    BY <1>4, <1>9
  <2>2. \A c \in B : \A d \in C \ B : h[c] >= h[d]
    BY <1>1, <1>4, <1>6, <2>1
  <2>3. B \in BestOf(h, C, Diversity)
    BY <1>4, <1>6, <1>7, <2>1, <2>2, IsBestOf, ScoreTypes
  <2> QED BY <1>4, <2>3 DEF C
<1>10. CASE A # C
  <2>1. Cardinality(A) = Diversity
    BY <1>5, <1>10
  <2>2. Cardinality(D) >= Diversity
    <3>1. Cardinality(A) <= Cardinality(D)
      BY <1>4, <1>7, FS_Subset
    <3> QED BY <2>1, <3>1
  <2>3. Cardinality(B) = Diversity
    BY <1>6, <1>7, <2>2, ScoreTypes
  <2>4. ASSUME NEW c \in B, NEW d \in C \ B PROVE h[c] >= h[d]
    <3>1. CASE d \in D
      <4>1. c \in B /\ d \in D \ B /\ c \in M /\ d \in M
        BY <1>4, <2>4, <3>1 DEF B
      <4>2. g[c] = h[c] /\ g[d] = h[d] /\ g[c] >= g[d]
        BY <1>1, <1>6, <4>1
      <4> QED BY <4>2
    <3>2. CASE d \notin D /\ c \in A
      BY <1>4, <1>5, <2>4, <3>2
    <3>3. CASE d \notin D /\ c \notin A
      <4>1. Cardinality(B) <= Cardinality(A) /\ IsFiniteSet(B)
        BY <1>6, <2>1, <2>3, ScoreTypes
      <4>2. PICK a \in A : a \notin B
        BY <3>3, <4>1, LeftOut
      <4>3. a \in D /\ c \in D
        BY <1>4, <4>2 DEF B
      <4>4. h[c] >= h[a]
        BY <1>1, <1>4, <1>6, <4>2, <4>3
      <4>5. h[a] >= h[d]
        BY <1>4, <1>5, <2>4, <3>3, <4>2
      <4>6. h[c] \in Int /\ h[a] \in Int /\ h[d] \in Int
        BY <1>4, <1>7, <1>8, <2>4, <4>3
      <4> QED BY <4>4, <4>5, <4>6
    <3> QED BY <3>1, <3>2, <3>3
  <2>5. B \in SUBSET C
    BY <1>4
  <2>6. B \in BestOf(h, C, Diversity)
    BY <1>6, <1>7, <2>3, <2>4, <2>5, IsBestOf, ScoreTypes
  <2> QED BY <1>4, <2>6 DEF C
<1> QED BY <1>9, <1>10

-----------------------------------------------------------------------------
(* Pruning. *)

\* The hypotheses left fill the stack above x if the stack is no smaller than its
\* limit and all that is not kept for diversity scores at least x.
LEMMA PrunedFull ==
  ASSUME NEW h, HyposOK(h), NEW P \in Diverse(h), NEW M \in SUBSET DOMAIN h, P \subseteq M,
         NEW x \in Int, \A c \in M \ P : h[c] >= x, Cardinality(M) >= MaxSize
  PROVE  Full(Only(h, M), x)
<1> DEFINE g == Only(h, M)
<1>1. DOMAIN g = M /\ (\A c \in M : g[c] = h[c]) /\ HyposOK(g)
  BY OnlyIs
<1>2. SUFFICES ASSUME NEW T \in Diverse(g)
               PROVE  Cardinality(Good(g, M, x) \cup T) >= MaxSize
  BY <1>1 DEF Full
<1>3. T \in Diverse(h) /\ T \subseteq M /\ IsFiniteSet(T)
  <2>1. T \in Diverse(h)
    BY <1>2, KeptDiverse
  <2>2. T \subseteq M /\ M \subseteq DOMAIN h /\ IsFiniteSet(DOMAIN h)
    BY <1>1, <1>2 DEF Diverse, HyposOK
  <2> QED BY <2>1, <2>2, FS_Subset
<1>4. \A c \in DOMAIN h : h[c] \in Int
  BY ScoreTypes DEF HyposOK
<1>5. ASSUME NEW d \in M, d \notin T PROVE h[d] >= x
  <2>1. CASE d \notin P
    BY <2>1
  <2>2. CASE d \in P
    <3> DEFINE v == Coverage(d)
               A == P \cap Covering(h, v)
               B == T \cap Covering(h, v)
    <3>1. v \in Coverages /\ d \in A /\ d \notin B
      BY <1>5, <2>2, CoverageOfHypo
    <3>2. IsFiniteSet(A) /\ Cardinality(A) \in Nat /\ Cardinality(A) = Cardinality(B)
      <4>1. v \in Coverages
        BY <3>1
      <4> HIDE DEF v
      <4>2. IsFiniteSet(A) /\ Cardinality(A) \in Nat
        BY <4>1, DiverseIs
      <4>3. Cardinality(A) = Cardinality(B)
        BY <1>3, <4>1, DiverseSizes
      <4> QED BY <4>2, <4>3
    <3>3. PICK b \in B : b \notin A
      <4> HIDE DEF A, B
      <4>1. Cardinality(A) <= Cardinality(B)
        BY <3>2
      <4> QED BY <3>1, <3>2, <4>1, LeftOut
    <3>4. b \in M \ P /\ b \in Covering(h, v) \ A
      BY <1>3, <3>3
    <3>5. h[d] >= h[b]
      BY <3>1, <3>4, DiverseIs
    <3>6. h[b] >= x /\ h[b] \in Int /\ h[d] \in Int
      BY <1>4, <3>4
    <3> QED BY <3>5, <3>6
  <2> QED BY <2>1, <2>2
<1>6. M \subseteq Good(g, M, x) \cup T
  BY <1>1, <1>5 DEF Good
<1>7. IsFiniteSet(Good(g, M, x) \cup T) /\ IsFiniteSet(M)
  <2>1. IsFiniteSet(M) /\ Good(g, M, x) \cup T \subseteq M
    BY <1>1, <1>3 DEF HyposOK, Good
  <2> QED BY <2>1, FS_Subset
<1>8. Cardinality(M) <= Cardinality(Good(g, M, x) \cup T)
  BY <1>6, <1>7, FS_Subset
<1>9. Cardinality(M) \in Nat /\ Cardinality(Good(g, M, x) \cup T) \in Nat
  BY <1>7, FS_CardinalityType
<1> HIDE DEF g
<1> QED BY <1>8, <1>9, ScoreTypes

\* Nothing changes above x if all that is left out is below x.
LEMMA NothingPruned ==
  ASSUME NEW h, HyposOK(h), NEW P \in Diverse(h), NEW M \in SUBSET DOMAIN h, P \subseteq M,
         NEW x \in Int, \A c \in DOMAIN h \ M : ~(h[c] >= x), Full(h, x)
  PROVE  Full(Only(h, M), x)
<1> DEFINE g == Only(h, M)
<1>1. DOMAIN g = M /\ (\A c \in M : g[c] = h[c])
  BY OnlyIs
<1>2. Good(g, DOMAIN g, x) = Good(h, DOMAIN h, x)
  BY <1>1 DEF Good
<1>3. \A T \in Diverse(g) : T \in Diverse(h)
  BY KeptDiverse
<1> QED BY <1>2, <1>3 DEF Full

\* What PruneToSize keeps.
Prunes(s, P, R) ==
  /\ MaxSize > 0 /\ P \in Diverse(s.hypos)
  /\ R \in BestOf(s.hypos, InBeam(s, P), Larger(MaxSize - Cardinality(P), 0))

\* What is left out although it is in the beam finds the stack full of better ones.
LeavesOutTheWorst(s, M, R) ==
  \A c \in DOMAIN s.hypos \ M : s.hypos[c] > s.best + BeamWidth =>
    Cardinality(M) >= MaxSize /\ \A r \in R : s.hypos[r] >= s.hypos[c]

LEMMA PrunesIs ==
  ASSUME NEW s, NEW off, StackTypes(s, off), NEW P, NEW R, Prunes(s, P, R)
  PROVE  LET h == s.hypos
             M == P \cup R
         IN  /\ HyposOK(h) /\ P \in Diverse(h) /\ M \subseteq DOMAIN h /\ R \subseteq M
             /\ IsFiniteSet(M) /\ P \subseteq M /\ M \ P = R /\ \A r \in R : r \notin P
             /\ LeavesOutTheWorst(s, M, R)
<1> DEFINE h == s.hypos
           M == P \cup R
           S == InBeam(s, P)
           n == Larger(MaxSize - Cardinality(P), 0)
<1>1. HyposOK(h) /\ P \in Diverse(h) /\ P \subseteq DOMAIN h /\ IsFiniteSet(DOMAIN h)
  BY DEF StackTypes, Prunes, HyposOK, Diverse
<1>2. IsFiniteSet(P) /\ Cardinality(P) \in Nat
  BY <1>1, FS_Subset, FS_CardinalityType
<1>3. n \in Nat /\ Cardinality(P) + n >= MaxSize
  BY <1>2, ScoreTypes DEF Larger
<1>4. S \subseteq DOMAIN h \ P /\ IsFiniteSet(S)
  <2>1. S \subseteq DOMAIN h \ P
    BY DEF InBeam
  <2> QED BY <1>1, <2>1, FS_Subset
<1>5. R \in BestOf(h, S, n)
  BY DEF Prunes
<1> HIDE DEF n, S
<1>6. /\ R \subseteq S /\ IsFiniteSet(R) /\ Cardinality(R) \in Nat
      /\ R = S \/ Cardinality(R) = n
      /\ \A c \in R : \A d \in S \ R : h[c] >= h[d]
  <2> HIDE DEF h
  <2> QED BY <1>3, <1>4, <1>5, BestOfIs
<1>7. P \cap R = {} /\ M \subseteq DOMAIN h
  BY <1>1, <1>4, <1>6
<1>8. IsFiniteSet(M) /\ Cardinality(M) = Cardinality(P) + Cardinality(R)
  <2>1. /\ IsFiniteSet(M) /\ Cardinality(P \cap R) = 0
        /\ Cardinality(M) = Cardinality(P) + Cardinality(R) - Cardinality(P \cap R)
    BY <1>2, <1>6, <1>7, FS_Union, FS_EmptySet
  <2> QED BY <1>2, <1>6, <2>1
<1>9. ASSUME NEW c \in DOMAIN h \ M, h[c] > s.best + BeamWidth
      PROVE  Cardinality(M) >= MaxSize /\ \A r \in R : h[r] >= h[c]
  <2>1. c \in S \ R
    BY <1>9 DEF InBeam, S
  <2>2. Cardinality(R) = n /\ \A r \in R : h[r] >= h[c]
    BY <1>6, <2>1
  <2> HIDE DEF M
  <2> QED BY <1>2, <1>3, <1>6, <1>8, <2>2, ScoreTypes
<1> QED BY <1>1, <1>6, <1>7, <1>8, <1>9 DEF LeavesOutTheWorst

\* A stack that is full above x, or of which something above x is pruned, is full
\* above x afterwards.
LEMMA StaysFull ==
  ASSUME NEW s, NEW off, StackTypes(s, off), NEW P, NEW R, Prunes(s, P, R),
         NEW x \in Int, x > s.best + BeamWidth,
         \/ Full(s.hypos, x)
         \/ \E c \in DOMAIN s.hypos \ (P \cup R) : s.hypos[c] >= x
  PROVE  Full(Only(s.hypos, P \cup R), x)
<1> DEFINE h == s.hypos
           M == P \cup R
<1>1. /\ HyposOK(h) /\ P \in Diverse(h) /\ M \in SUBSET DOMAIN h /\ R \subseteq M
      /\ P \subseteq M /\ M \ P = R
      /\ \A c \in DOMAIN h \ M : h[c] > s.best + BeamWidth =>
           Cardinality(M) >= MaxSize /\ \A r \in R : h[r] >= h[c]
  <2>1. HyposOK(h) /\ P \in Diverse(h) /\ M \subseteq DOMAIN h /\ R \subseteq M
        /\ P \subseteq M /\ M \ P = R
    <3>1. HyposOK(h) /\ P \in Diverse(h)
      BY PrunesIs, Zenon
    <3>2. M \subseteq DOMAIN h /\ R \subseteq M
      BY PrunesIs, Zenon
    <3>3. \A r \in R : r \notin P
      BY PrunesIs, Zenon
    <3>4. P \subseteq M /\ M \ P = R
      BY <3>3
    <3> QED BY <3>1, <3>2, <3>4
  <2>2. \A c \in DOMAIN h \ M : h[c] > s.best + BeamWidth =>
           Cardinality(M) >= MaxSize /\ \A r \in R : h[r] >= h[c]
    <3>1. LeavesOutTheWorst(s, M, R)
      BY PrunesIs, Zenon
    <3> QED BY <3>1 DEF LeavesOutTheWorst
  <2>3. M \in SUBSET DOMAIN h
    BY <2>1
  <2> QED BY <2>1, <2>2, <2>3
<1>2. s.best + BeamWidth \in Int
  BY ScoreTypes DEF StackTypes
<1>3. \A c \in DOMAIN h : h[c] \in Int
  BY <1>1, ScoreTypes DEF HyposOK
<1> DEFINE low == s.best + BeamWidth
<1> HIDE DEF M, h, low
<1>4. CASE \E c \in DOMAIN h \ M : h[c] >= x
  <2>1. PICK c \in DOMAIN h \ M : h[c] >= x
    BY <1>4
  <2>2. h[c] \in Int /\ h[c] > low
    BY <1>2, <1>3, <2>1 DEF low
  <2>3. Cardinality(M) >= MaxSize /\ \A r \in R : h[r] >= h[c]
    BY <1>1, <2>2 DEF low
  <2>4. \A r \in M \ P : h[r] >= x
    BY <1>1, <1>3, <2>1, <2>2, <2>3
  <2>5. Full(Only(h, M), x)
    BY <1>1, <2>3, <2>4, PrunedFull
  <2> QED BY <2>5 DEF h, M
<1>5. CASE ~ \E c \in DOMAIN h \ M : h[c] >= x
  <2>1. Full(h, x)
    BY <1>5 DEF h, M
  <2>2. Full(Only(h, M), x)
    BY <1>1, <1>5, <2>1, NothingPruned
  <2> QED BY <2>2 DEF h, M
<1> QED BY <1>4, <1>5

\* As many as the diversity asks for stay as good as x, if there were as many.
LEMMA StaysOfMany ==
  ASSUME NEW h, HyposOK(h), NEW P \in Diverse(h), NEW M \in SUBSET DOMAIN h, P \subseteq M,
         NEW v \in Coverages, NEW x \in Int,
         \/ Cardinality(Good(h, Covering(h, v), x)) >= Diversity
         \/ \E c \in Covering(h, v) \ M : h[c] >= x
  PROVE  Cardinality(Good(Only(h, M), Covering(Only(h, M), v), x)) >= Diversity
<1> DEFINE g == Only(h, M)
           C == Covering(h, v)
           D == Covering(g, v)
           A == P \cap C
           G == Good(h, C, x)
           Q == Good(g, D, x)
<1>1. /\ (\A c \in M : g[c] = h[c]) /\ D = C \cap M /\ C \subseteq DOMAIN h
      /\ IsFiniteSet(C) /\ Cardinality(C) \in Nat
  BY OnlyIs, CoveringTypes
<1>2. /\ IsFiniteSet(A) /\ Cardinality(A) \in Nat
      /\ A = C \/ Cardinality(A) = Diversity
      /\ \A c \in A : \A d \in C \ A : h[c] >= h[d]
  BY DiverseIs
<1>3. \A c \in DOMAIN h : h[c] \in Int
  BY ScoreTypes DEF HyposOK
<1>4. Q = {c \in C \cap M : h[c] >= x} /\ G = {c \in C : h[c] >= x}
  BY <1>1 DEF Good
<1>5. IsFiniteSet(Q) /\ IsFiniteSet(G) /\ Cardinality(Q) \in Nat /\ Cardinality(G) \in Nat
  <2>1. Q \subseteq C /\ G \subseteq C
    BY <1>4
  <2> HIDE DEF Q, G, C
  <2> QED BY <1>1, <2>1, FS_Subset, FS_CardinalityType
<1>6. A \subseteq C \cap M
  OBVIOUS
<1> SUFFICES Cardinality(Q) >= Diversity
  OBVIOUS
<1> HIDE DEF g, C, D, A, G, Q
<1>7. CASE A = C
  <2>1. \/ Cardinality(G) >= Diversity
        \/ \E c \in C \ M : h[c] >= x
    BY DEF G, C
  <2>2. C \ M = {} /\ Q = G
    BY <1>4, <1>6, <1>7
  <2> QED BY <2>1, <2>2
<1>8. CASE A # C /\ \A c \in A : h[c] >= x
  <2>1. Cardinality(A) = Diversity /\ A \subseteq Q
    BY <1>2, <1>4, <1>6, <1>8
  <2>2. Cardinality(A) <= Cardinality(Q)
    BY <1>5, <2>1, FS_Subset
  <2> QED BY <1>2, <1>5, <2>1, <2>2
<1>9. CASE A # C /\ \E c \in A : ~(h[c] >= x)
  <2>1. PICK a \in A : ~(h[a] >= x)
    BY <1>9
  <2>2. \E b \in C \ A : h[b] >= x
    <3>1. CASE \E c \in C \ M : h[c] >= x
      BY <1>6, <3>1
    <3>2. CASE ~ \E c \in C \ M : h[c] >= x
      <4>1. Cardinality(G) >= Diversity
        BY <3>2 DEF G, C
      <4>2. Cardinality(A) <= Cardinality(G) /\ a \notin G
        BY <1>2, <1>4, <1>5, <1>9, <2>1, <4>1
      <4>3. \E b \in G : b \notin A
        BY <1>2, <2>1, <4>2, LeftOut
      <4> QED BY <1>4, <4>3
    <3> QED BY <3>1, <3>2
  <2>3. PICK b \in C \ A : h[b] >= x
    BY <2>2
  <2>4. h[a] >= h[b] /\ h[a] \in Int /\ h[b] \in Int
    BY <1>1, <1>2, <1>3, <1>6, <2>1, <2>3
  <2> QED BY <2>1, <2>3, <2>4
<1> QED BY <1>7, <1>8, <1>9

LEMMA PruneTypes ==
  ASSUME NEW s, NEW off, StackTypes(s, off), NEW P, NEW R, Prunes(s, P, R)
  PROVE  /\ StackTypes(Keeping(s, P, R, MaxSize), off)
         /\ Keeping(s, P, R, MaxSize).hypos = Only(s.hypos, P \cup R)
         /\ Keeping(s, P, R, MaxSize).best = s.best
<1> DEFINE h == s.hypos
           M == P \cup R
           t == Keeping(s, P, R, MaxSize)
<1>1. HyposOK(h) /\ M \in SUBSET DOMAIN h /\ R \in SUBSET DOMAIN h /\ P \subseteq DOMAIN h
  <2>1. HyposOK(h) /\ M \subseteq DOMAIN h /\ R \subseteq M
    BY PrunesIs, Zenon
  <2> QED BY <2>1
<1>2. t.hypos = Only(h, M) /\ t.best = s.best
      /\ t = [hypos |-> t.hypos, best |-> t.best, worst |-> t.worst, floor |-> t.floor]
  BY DEF Keeping
<1>3. DOMAIN t.hypos = M /\ (\A c \in M : t.hypos[c] = h[c]) /\ HyposOK(t.hypos)
  BY <1>1, <1>2, OnlyIs
<1>4. t.worst \in Int
  <2>1. R # {} => Lowest(h, R) \in Int
    BY <1>1, LowestIs, ScoreTypes
  <2>2. s.worst \in Int
    BY DEF StackTypes
  <2>3. t.worst = s.worst \/ (R # {} /\ t.worst = Lowest(h, R))
    BY DEF Keeping
  <2> QED BY <2>1, <2>2, <2>3
<1>5. t.floor \in [Coverages -> Scores \cup {NegInf}]
  <2> DEFINE top(v) == P \cap Covering(h, v)
             f(v) == IF top(v) # {} /\ Cardinality(top(v)) = Diversity
                      THEN Lowest(h, top(v)) ELSE s.floor[v]
  <2>1. t.floor = [v \in Coverages |-> f(v)]
    BY DEF Keeping
  <2>2. ASSUME NEW v \in Coverages PROVE f(v) \in Scores \cup {NegInf}
    <3>1. top(v) \in SUBSET DOMAIN h /\ s.floor[v] \in Scores \cup {NegInf}
      BY <1>1 DEF StackTypes
    <3>2. top(v) # {} => Lowest(h, top(v)) \in Scores
      <4> HIDE DEF top
      <4> QED BY <1>1, <3>1, LowestIs
    <3> QED BY <3>1, <3>2
  <2> HIDE DEF f
  <2> QED BY <2>1, <2>2
<1>6. t.best \in Scores \cup {NegInf} /\ off \in [Classes -> Scores \cup {NegInf}]
      /\ \A c \in M : t.hypos[c] <= off[c]
  BY <1>1, <1>2, <1>3 DEF StackTypes
<1> HIDE DEF t, M
<1>7. StackTypes(t, off)
  BY <1>2, <1>3, <1>4, <1>5, <1>6 DEF StackTypes
<1> QED BY <1>2, <1>7 DEF M, t

\* Pruning keeps the invariant.
LEMMA PruneKeeps ==
  ASSUME NEW s, NEW off, StackInv(s, off), NEW P, NEW R, Prunes(s, P, R)
  PROVE  StackInv(Keeping(s, P, R, MaxSize), off)
<1> DEFINE h == s.hypos
           M == P \cup R
           g == Only(h, M)
           t == Keeping(s, P, R, MaxSize)
           low == s.best + BeamWidth
<1>1. /\ StackTypes(s, off) /\ HyposOK(h) /\ P \in Diverse(h) /\ M \in SUBSET DOMAIN h
      /\ R \in SUBSET DOMAIN h /\ R \subseteq M /\ P \subseteq M /\ M \ P = R
  <2>1. StackTypes(s, off)
    BY DEF StackInv
  <2>2. HyposOK(h) /\ P \in Diverse(h) /\ M \subseteq DOMAIN h /\ R \subseteq M
        /\ P \subseteq M /\ M \ P = R
    BY <2>1, PrunesIs, Zenon
  <2> QED BY <2>1, <2>2
<1>2. StackTypes(t, off) /\ t.hypos = g /\ t.best = s.best
  <2>1. StackTypes(t, off)
    BY <1>1, PruneTypes, Zenon
  <2>2. t.hypos = g /\ t.best = s.best
    BY DEF Keeping
  <2> QED BY <2>1, <2>2
<1>3. DOMAIN g = M /\ \A c \in M : g[c] = h[c]
  BY <1>1, OnlyIs
<1>4. \A c \in DOMAIN h : h[c] \in Int /\ h[c] <= off[c] /\ off[c] \in Int
  BY <1>1, ScoreTypes DEF HyposOK, StackTypes
<1>5. MaxSize > 0 /\ low \in Int
  BY <1>1, ScoreTypes DEF Prunes, StackTypes
<1>6. ASSUME NEW x \in Int, x > low, Full(h, x) \/ \E c \in DOMAIN h \ M : h[c] >= x
      PROVE  Full(g, x)
  BY <1>1, <1>6, StaysFull
<1>7. ASSUME NEW v \in Coverages, NEW x \in Int,
             \/ Cardinality(Good(h, Covering(h, v), x)) >= Diversity
             \/ \E c \in Covering(h, v) \ M : h[c] >= x
      PROVE  Cardinality(Good(g, Covering(g, v), x)) >= Diversity
  BY <1>1, <1>7, StaysOfMany
<1>8. WorstIsFull(t)
  <2>1. SUFFICES ASSUME t.worst # NegInf, t.worst > low PROVE Full(g, t.worst)
    BY <1>2, <1>5 DEF WorstIsFull
  <2>2. CASE R # {} /\ Cardinality(M) = MaxSize
    <3>1. t.worst = Lowest(h, R)
      BY <2>2 DEF Keeping
    <3>2. Lowest(h, R) \in Int /\ \A c \in R : Lowest(h, R) <= h[c]
      BY <1>1, <2>2, LowestIs, ScoreTypes
    <3>3. \A c \in M \ P : h[c] >= t.worst
      BY <1>1, <1>4, <3>1, <3>2
    <3>4. Cardinality(M) >= MaxSize
      BY <2>2, ScoreTypes
    <3> QED
      <4> HIDE DEF t, M, h
      <4> QED BY <1>1, <3>1, <3>2, <3>3, <3>4, PrunedFull DEF g
  <2>3. CASE ~(R # {} /\ Cardinality(M) = MaxSize)
    <3>1. t.worst = s.worst
      BY <2>3 DEF Keeping
    <3>2. Full(h, s.worst) /\ s.worst \in Int
      BY <1>1, <2>1, <3>1 DEF StackInv, WorstIsFull, StackTypes
    <3> QED BY <1>6, <2>1, <3>1, <3>2
  <2> QED BY <2>2, <2>3
<1>9. FloorIsReached(t)
  <2>1. SUFFICES ASSUME NEW v \in Coverages, t.floor[v] # NegInf
                 PROVE  Cardinality(Good(g, Covering(g, v), t.floor[v])) >= Diversity
    BY <1>2 DEF FloorIsReached
  <2> DEFINE top == P \cap Covering(h, v)
  <2>2. CASE top # {} /\ Cardinality(top) = Diversity
    <3>1. t.floor[v] = Lowest(h, top)
      BY <2>2 DEF Keeping
    <3>2. top \in SUBSET DOMAIN h /\ top \subseteq Covering(g, v)
      BY <1>1, OnlyIs
    <3>3. Lowest(h, top) \in Int /\ \A c \in top : Lowest(h, top) <= h[c]
      BY <1>1, <2>2, <3>2, LowestIs, ScoreTypes
    <3>4. top \subseteq Good(g, Covering(g, v), t.floor[v])
      BY <1>1, <1>3, <1>4, <3>1, <3>2, <3>3 DEF Good
    <3>5. IsFiniteSet(Good(g, Covering(g, v), t.floor[v]))
      <4>1. HyposOK(g)
        BY <1>1, OnlyIs
      <4>2. IsFiniteSet(Covering(g, v))
        BY <4>1, CoveringTypes
      <4> QED BY <4>2, FS_Subset DEF Good
    <3>6. Cardinality(top) <= Cardinality(Good(g, Covering(g, v), t.floor[v]))
      BY <3>4, <3>5, FS_Subset
    <3> QED BY <2>2, <3>6
  <2>3. CASE ~(top # {} /\ Cardinality(top) = Diversity)
    <3>1. t.floor[v] = s.floor[v]
      BY <2>3 DEF Keeping
    <3>2. Cardinality(Good(h, Covering(h, v), s.floor[v])) >= Diversity
      BY <2>1, <3>1 DEF StackInv, FloorIsReached
    <3>3. s.floor[v] \in Int
      BY <1>1, ScoreTypes DEF StackTypes
    <3> QED BY <1>7, <3>1, <3>2, <3>3
  <2> QED BY <2>2, <2>3
\* What is lost was lost, or is left out now.
<1>10. ASSUME NEW c \in LostFrom(g, off)
       PROVE  off[c] \in Int /\ (c \in LostFrom(h, off)
                                 \/ (c \in DOMAIN h \ M /\ h[c] = off[c] /\ c \in Classes))
  <2>1. c \in Classes /\ off[c] # NegInf /\ (c \in M => g[c] < off[c])
    BY <1>3 DEF LostFrom
  <2>2. off[c] \in Int
    BY <1>1, <2>1, ScoreTypes DEF StackTypes
  <2>3. CASE c \in DOMAIN h \ M /\ ~(h[c] < off[c])
    BY <1>4, <2>1, <2>2, <2>3
  <2>4. CASE c \in DOMAIN h => h[c] < off[c]
    BY <2>1, <2>2, <2>4 DEF LostFrom
  <2> QED BY <1>3, <2>1, <2>3, <2>4
<1>11. LostBelow(t, off)
  <2>1. SUFFICES ASSUME NEW c \in LostFrom(g, off), ~(off[c] <= low)
                 PROVE  Full(g, off[c])
    BY <1>2, <1>5 DEF LostBelow
  <2>2. off[c] \in Int /\ off[c] > low
    BY <1>5, <1>10, <2>1
  <2>3. CASE c \in LostFrom(h, off)
    <3>1. Full(h, off[c])
      BY <2>1, <2>3 DEF StackInv, LostBelow
    <3> QED BY <1>6, <2>2, <3>1
  <2>4. CASE c \in DOMAIN h \ M /\ h[c] = off[c]
    <3>1. h[c] >= off[c]
      BY <2>2, <2>4
    <3> QED BY <1>6, <2>2, <2>4, <3>1
  <2> QED BY <1>10, <2>3, <2>4
<1>12. LostOfMany(t, off)
  <2>1. SUFFICES ASSUME NEW c \in LostFrom(g, off)
                 PROVE  Cardinality(Good(g, Covering(g, Coverage(c)), off[c])) >= Diversity
    BY <1>2 DEF LostOfMany
  <2>2. off[c] \in Int /\ Coverage(c) \in Coverages
    BY <1>10 DEF LostFrom, Coverages
  <2>3. CASE c \in LostFrom(h, off)
    <3>1. Cardinality(Good(h, Covering(h, Coverage(c)), off[c])) >= Diversity
      BY <2>3 DEF StackInv, LostOfMany
    <3> QED BY <1>7, <2>2, <3>1
  <2>4. CASE c \in DOMAIN h \ M /\ h[c] = off[c]
    <3>1. h[c] >= off[c] /\ c \in Covering(h, Coverage(c)) \ M
      BY <2>2, <2>4 DEF Covering
    <3> QED BY <1>7, <2>2, <3>1
  <2> QED BY <1>10, <2>3, <2>4
<1> HIDE DEF t
<1> QED BY <1>2, <1>8, <1>9, <1>11, <1>12 DEF StackInv, t

-----------------------------------------------------------------------------
(* Adding a hypothesis, in place of the one of its class. *)

\* h becomes k: the hypothesis of class c scores score.
Raises(h, k, c, score) ==
  /\ HyposOK(k)
  /\ DOMAIN k = DOMAIN h \cup {c} /\ k[c] = score
  /\ \A d \in DOMAIN h : d # c => k[d] = h[d]

LEMMA WithRaises ==
  ASSUME NEW h, HyposOK(h), NEW c \in Classes, NEW score \in Scores
  PROVE  Raises(h, With(Only(h, DOMAIN h \ {c}), c, score), c, score)
<1> DEFINE o == Only(h, DOMAIN h \ {c})
           k == With(o, c, score)
<1>1. DOMAIN o = DOMAIN h \ {c} /\ (\A d \in DOMAIN h \ {c} : o[d] = h[d]) /\ HyposOK(o)
  <2>1. DOMAIN h \ {c} \in SUBSET DOMAIN h
    OBVIOUS
  <2> QED BY <2>1, OnlyIs
<1>2. k = [d \in DOMAIN o \cup {c} |-> IF d = c THEN score ELSE o[d]]
  BY DEF With
<1> HIDE DEF k, o
<1>3. DOMAIN k = DOMAIN h \cup {c} /\ k[c] = score /\ \A d \in DOMAIN h : d # c => k[d] = h[d]
  BY <1>1, <1>2
<1>4. HyposOK(k)
  <2>1. DOMAIN k \subseteq Classes /\ IsFiniteSet(DOMAIN k)
    <3>1. IsFiniteSet(DOMAIN h) /\ DOMAIN h \subseteq Classes
      BY DEF HyposOK
    <3>2. IsFiniteSet(DOMAIN h \cup {c})
      BY <3>1, FS_AddElement
    <3> QED BY <1>3, <3>1, <3>2
  <2>2. \A d \in DOMAIN k : k[d] \in Scores
    BY <1>3 DEF HyposOK
  <2>3. k = [d \in DOMAIN k |-> k[d]]
    BY <1>2
  <2> QED BY <2>1, <2>2, <2>3 DEF HyposOK
<1> QED BY <1>3, <1>4 DEF k, o, Raises

\* Only the coverage of the hypothesis is affected.
LEMMA SameElsewhere ==
  ASSUME NEW h, HyposOK(h), NEW c \in Classes, NEW score \in Scores,
         NEW k, Raises(h, k, c, score), NEW U \in Diverse(k), NEW T \in SUBSET DOMAIN h,
         \A d : Coverage(d) # Coverage(c) => (d \in T <=> d \in U),
         T \cap Covering(h, Coverage(c)) \in BestOf(h, Covering(h, Coverage(c)), Diversity)
  PROVE  T \in Diverse(h)
<1>1. SUFFICES ASSUME NEW w \in Coverages, w # Coverage(c)
               PROVE  T \cap Covering(h, w) \in BestOf(h, Covering(h, w), Diversity)
  BY DEF Diverse
<1> DEFINE E == Covering(h, w)
<1>2. Covering(k, w) = E /\ \A d \in E : k[d] = h[d]
  <2>1. E \subseteq DOMAIN h /\ c \notin E
    BY <1>1 DEF Covering
  <2>2. /\ DOMAIN k = DOMAIN h \cup {c}
        /\ \A d \in DOMAIN h : d # c => k[d] = h[d]
    BY DEF Raises
  <2>3. Covering(k, w) = E
    BY <1>1, <2>2 DEF Covering
  <2> QED BY <2>1, <2>2, <2>3
<1>3. T \cap E = U \cap E
  <2>1. \A d \in E : Coverage(d) = w
    BY DEF Covering
  <2> QED BY <1>1, <2>1
<1>4. U \cap E \in BestOf(k, E, Diversity)
  BY <1>2 DEF Diverse
<1>5. BestOf(k, E, Diversity) = BestOf(h, E, Diversity)
  BY <1>2 DEF BestOf
<1> QED BY <1>3, <1>4, <1>5

\* What a choice on the stack with the hypothesis corresponds to without it: a
\* choice that fills no more above x.
LEMMA ChoiceBefore ==
  ASSUME NEW h, HyposOK(h), NEW c \in Classes, NEW score \in Scores,
         c \in DOMAIN h => h[c] < score,
         NEW k, Raises(h, k, c, score), NEW U \in Diverse(k), NEW x \in Int
  PROVE  \E T \in Diverse(h) :
           \/ Good(h, DOMAIN h, x) \cup T \subseteq Good(k, DOMAIN k, x) \cup U
           \/ \E m \in T : /\ c \in U /\ c \notin Good(h, DOMAIN h, x) \cup T
                           /\ (Good(h, DOMAIN h, x) \cup T) \ {m} \subseteq
                                Good(k, DOMAIN k, x) \cup U
<1> DEFINE v == Coverage(c)
           C == Covering(h, v)
           D == Covering(k, v)
           B == U \cap D
           G == Good(h, DOMAIN h, x)
           K == Good(k, DOMAIN k, x)
<1>1. /\ DOMAIN k = DOMAIN h \cup {c} /\ k[c] = score
      /\ \A d \in DOMAIN h : d # c => k[d] = h[d]
  BY DEF Raises
<1>2. HyposOK(k)
  BY DEF Raises
<1>3. D = C \cup {c} /\ C \subseteq DOMAIN h /\ v \in Coverages
  BY <1>1 DEF Covering, Coverages
<1>4. /\ U \subseteq DOMAIN k /\ IsFiniteSet(B) /\ Cardinality(B) \in Nat
      /\ Cardinality(B) <= Diversity
      /\ B = D \/ Cardinality(B) = Diversity
      /\ \A a \in B : \A d \in D \ B : k[a] >= k[d]
  BY <1>2, <1>3, DiverseIs
<1>5. /\ \A d \in DOMAIN h : h[d] \in Int
      /\ \A d \in DOMAIN k : k[d] \in Int
      /\ score \in Int
  BY <1>2, ScoreTypes DEF HyposOK
<1>6. G \subseteq K
  BY <1>1, <1>5 DEF Good
<1>7. IsFiniteSet(C)
  BY CoveringTypes
<1>8. \A d \in DOMAIN h : d \in C <=> Coverage(d) = v
  BY DEF Covering
<1>9. ASSUME NEW T \in SUBSET DOMAIN h, \A d : d \notin D => (d \in T <=> d \in U),
             T \cap C \in BestOf(h, C, Diversity)
      PROVE  T \in Diverse(h)
  <2>1. \A d : Coverage(d) # v => d \notin D
    BY DEF Covering
  <2> QED BY <1>9, <2>1, SameElsewhere
<1> HIDE DEF v, C, D, B, G, K
<1>10. CASE c \notin U
  <2>1. U \in SUBSET DOMAIN h /\ U \cap C = B /\ c \in D \ B
    BY <1>1, <1>3, <1>4, <1>10 DEF B
  <2>2. Cardinality(B) = Diversity
    BY <1>4, <2>1
  <2>3. ASSUME NEW a \in B, NEW d \in C \ B PROVE h[a] >= h[d]
    <3>1. a # c /\ a \in DOMAIN h /\ d \in DOMAIN h /\ d \in D \ B /\ k[a] = h[a]
      BY <1>1, <1>3, <2>1 DEF B
    <3>2. k[a] >= k[d] /\ k[a] >= score
      BY <1>1, <1>4, <2>1, <3>1
    <3>3. CASE d = c
      BY <1>1, <1>5, <3>1, <3>2, <3>3
    <3>4. CASE d # c
      BY <1>1, <3>1, <3>2, <3>4
    <3> QED BY <3>3, <3>4
  <2>4. U \cap C \in BestOf(h, C, Diversity)
    <3>1. B \in SUBSET C
      BY <2>1
    <3> QED BY <1>4, <1>7, <2>1, <2>2, <2>3, <3>1, IsBestOf, ScoreTypes
  <2>5. U \in Diverse(h)
    BY <1>9, <2>1, <2>4
  <2> QED BY <1>6, <2>5 DEF G, K
<1>11. CASE c \in U /\ c \in DOMAIN h /\ \A d \in C \ U : ~(h[d] > h[c])
  <2>1. C = D /\ U \in SUBSET DOMAIN h /\ U \cap C = B /\ c \in C
    BY <1>1, <1>3, <1>4, <1>8, <1>11 DEF B, v
  <2>2. ASSUME NEW a \in B, NEW d \in C \ B PROVE h[a] >= h[d]
    <3>1. a \in DOMAIN h /\ d \in DOMAIN h /\ d # c /\ d \in C \ U
      BY <1>3, <1>11, <2>1, <2>2
    <3>2. k[a] >= k[d] /\ k[d] = h[d]
      BY <1>1, <1>4, <2>1, <3>1
    <3>3. CASE a = c
      BY <1>5, <1>11, <3>1, <3>3
    <3>4. CASE a # c
      BY <1>1, <3>1, <3>2, <3>4
    <3> QED BY <3>3, <3>4
  <2>3. U \cap C \in BestOf(h, C, Diversity)
    <3>1. B \in SUBSET C
      BY <2>1
    <3> QED BY <1>4, <1>7, <2>1, <2>2, <3>1, IsBestOf, ScoreTypes
  <2>4. U \in Diverse(h)
    BY <1>9, <2>1, <2>3
  <2> QED BY <1>6, <2>4 DEF G, K
<1>12. CASE c \in U /\ (c \in DOMAIN h => \E d \in C \ U : h[d] > h[c]) /\ C \ U # {}
  <2>1. PICK m \in C \ U : \A d \in C \ U : h[m] >= h[d]
    <3>1. C \ U \in SUBSET DOMAIN h
      BY <1>3
    <3> HIDE DEF C
    <3> QED BY <1>12, <3>1, BestHypo
  <2>2. m \in DOMAIN h /\ m # c /\ m \in D \ B /\ h[m] \in Int /\ k[m] = h[m]
    BY <1>1, <1>3, <1>5, <1>12, <2>1 DEF B
  <2>3. c \in DOMAIN h => h[m] > h[c]
    <3>1. SUFFICES ASSUME c \in DOMAIN h PROVE h[m] > h[c]
      OBVIOUS
    <3>2. PICK d \in C \ U : h[d] > h[c]
      BY <1>12, <3>1
    <3>3. h[m] >= h[d] /\ h[d] \in Int /\ h[c] \in Int
      BY <1>3, <1>5, <2>1, <3>1
    <3> QED BY <2>2, <3>2, <3>3
  <2> DEFINE T == (U \ {c}) \cup {m}
             A == (B \ {c}) \cup {m}
  <2>4. T \in SUBSET DOMAIN h /\ T \cap C = A /\ A \subseteq C /\ c \in B
    BY <1>1, <1>3, <1>4, <1>8, <1>12, <2>1, <2>2 DEF B
  <2>5. IsFiniteSet(A) /\ Cardinality(A) = Diversity
    <3>1. Cardinality(B) = Diversity
      BY <1>4, <2>2
    <3>2. IsFiniteSet(B \ {c}) /\ Cardinality(B \ {c}) = Cardinality(B) - 1
      BY <1>4, <2>4, FS_RemoveElement
    <3>3. m \notin B \ {c}
      BY <2>2
    <3>4. IsFiniteSet(A) /\ Cardinality(A) = Cardinality(B \ {c}) + 1
      BY <3>2, <3>3, FS_AddElement
    <3> QED BY <1>4, <3>1, <3>2, <3>4
  <2>6. ASSUME NEW a \in A, NEW d \in C \ A PROVE h[a] >= h[d]
    <3>1. a \in DOMAIN h /\ d \in DOMAIN h /\ a # c /\ k[a] = h[a] /\ d # m
      BY <1>1, <1>3, <2>2, <2>4
    <3>2. a = m \/ (a \in B /\ h[a] >= h[m])
      BY <1>4, <2>2, <3>1
    <3>3. CASE d = c
      BY <1>5, <2>2, <2>3, <3>1, <3>2, <3>3
    <3>4. CASE d # c
      <4>1. d \in C \ U /\ d \in D \ B /\ k[d] = h[d]
        BY <1>1, <1>3, <3>1, <3>4 DEF B
      <4> QED BY <1>4, <2>1, <3>1, <3>2, <4>1
    <3> QED BY <3>3, <3>4
  <2>7. T \cap C \in BestOf(h, C, Diversity)
    <3>1. A \in SUBSET C /\ Cardinality(A) <= Diversity
      BY <2>4, <2>5, ScoreTypes
    <3> HIDE DEF A, T
    <3>2. A \in BestOf(h, C, Diversity)
      BY <1>7, <2>5, <2>6, <3>1, IsBestOf, ScoreTypes
    <3> QED BY <2>4, <3>2
  <2>8. T \in Diverse(h)
    <3>1. \A d : d \notin D => (d \in T <=> d \in U)
      BY <1>3, <2>2
    <3> HIDE DEF T
    <3> QED BY <1>9, <2>4, <2>7, <3>1
  <2>9. CASE h[m] >= x
    <3>1. m \in K
      BY <1>1, <2>2, <2>9 DEF K, Good
    <3>2. G \cup T \subseteq K \cup U
      BY <1>6, <3>1
    <3> QED BY <2>8, <3>2 DEF G, K
  <2>10. CASE ~(h[m] >= x)
    <3>1. c \notin G
      <4>1. CASE c \in DOMAIN h
        <5>1. ~(h[c] >= x)
          BY <1>5, <2>2, <2>3, <2>10, <4>1
        <5> QED BY <5>1 DEF G, Good
      <4>2. CASE c \notin DOMAIN h
        BY <4>2 DEF G, Good
      <4> QED BY <4>1, <4>2
    <3>2. c \in U /\ c \notin G \cup T /\ (G \cup T) \ {m} \subseteq K \cup U /\ m \in T
      BY <1>6, <1>12, <2>2, <3>1
    <3> QED BY <2>8, <3>2 DEF G, K
  <2> QED BY <2>9, <2>10
<1>13. CASE c \in U /\ c \notin DOMAIN h /\ C \ U = {}
  <2> DEFINE T == U \ {c}
  <2>1. T \in SUBSET DOMAIN h /\ T \cap C = C /\ c \notin C /\ B = C \cup {c}
    BY <1>1, <1>3, <1>4, <1>13 DEF B
  <2>2. Cardinality(C) <= Diversity
    <3>1. Cardinality(C) <= Cardinality(B) /\ Cardinality(C) \in Nat
      BY <1>4, <2>1, FS_Subset, FS_CardinalityType
    <3> QED BY <1>4, <3>1, ScoreTypes
  <2>3. T \cap C \in BestOf(h, C, Diversity)
    <3>1. C \in SUBSET C
      OBVIOUS
    <3>2. \A a \in C : \A d \in C \ C : h[a] >= h[d]
      OBVIOUS
    <3>3. C \in BestOf(h, C, Diversity)
      BY <1>7, <2>2, <3>1, <3>2, IsBestOf, ScoreTypes
    <3> QED BY <2>1, <3>3
  <2>4. T \in Diverse(h)
    <3>1. \A d : d \notin D => (d \in T <=> d \in U)
      BY <1>3
    <3> HIDE DEF T
    <3> QED BY <1>9, <2>1, <2>3, <3>1
  <2>5. G \cup T \subseteq K \cup U
    BY <1>6
  <2> QED BY <2>4, <2>5 DEF G, K
<1> QED BY <1>10, <1>11, <1>12, <1>13

\* A better hypothesis, or one more, leaves the stack as full as it was.
LEMMA RaisedStaysFull ==
  ASSUME NEW h, HyposOK(h), NEW c \in Classes, NEW score \in Scores,
         c \in DOMAIN h => h[c] < score,
         NEW k, Raises(h, k, c, score), NEW x \in Int, Full(h, x)
  PROVE  Full(k, x)
<1>1. SUFFICES ASSUME NEW U \in Diverse(k)
               PROVE  Cardinality(Good(k, DOMAIN k, x) \cup U) >= MaxSize
  BY DEF Full
<1> DEFINE G == Good(h, DOMAIN h, x)
           W == Good(k, DOMAIN k, x) \cup U
<1>2. PICK T \in Diverse(h) :
        \/ G \cup T \subseteq W
        \/ \E m \in T : c \in U /\ c \notin G \cup T /\ (G \cup T) \ {m} \subseteq W
  BY ChoiceBefore
<1> DEFINE V == G \cup T
<1>3. Cardinality(V) >= MaxSize
  BY DEF Full
<1>4. IsFiniteSet(V) /\ IsFiniteSet(W)
  <2>1. V \subseteq DOMAIN h /\ IsFiniteSet(DOMAIN h)
    BY DEF Good, Diverse, HyposOK
  <2>2. W \subseteq DOMAIN k /\ IsFiniteSet(DOMAIN k)
    BY DEF Good, Diverse, HyposOK, Raises
  <2> HIDE DEF V, W
  <2> QED BY <2>1, <2>2, FS_Subset
<1>5. c \in U => c \in W
  OBVIOUS
<1> HIDE DEF V, W
<1>6. Cardinality(V) \in Nat /\ Cardinality(W) \in Nat
  BY <1>4, FS_CardinalityType
<1>7. CASE V \subseteq W
  <2>1. Cardinality(V) <= Cardinality(W)
    BY <1>4, <1>7, FS_Subset
  <2> QED BY <1>3, <1>6, <2>1, ScoreTypes DEF W
<1>8. CASE \E m \in T : c \in U /\ c \notin V /\ V \ {m} \subseteq W
  <2>1. PICK m \in T : c \in U /\ c \notin V /\ V \ {m} \subseteq W
    BY <1>8
  <2>2. m \in V /\ c \in W
    BY <1>5, <2>1 DEF V
  <2>3. V \ {m} \subseteq W \ {c}
    BY <2>1
  <2>4. IsFiniteSet(V \ {m}) /\ Cardinality(V \ {m}) = Cardinality(V) - 1
    BY <1>4, <2>2, FS_RemoveElement
  <2>5. IsFiniteSet(W \ {c}) /\ Cardinality(W \ {c}) = Cardinality(W) - 1
    BY <1>4, <2>2, FS_RemoveElement
  <2>6. Cardinality(V \ {m}) <= Cardinality(W \ {c})
    BY <2>3, <2>5, FS_Subset
  <2> QED BY <1>3, <1>6, <2>4, <2>5, <2>6, ScoreTypes DEF W
<1> QED BY <1>2, <1>7, <1>8 DEF V, W

LEMMA RaisedStaysMany ==
  ASSUME NEW h, HyposOK(h), NEW c \in Classes, NEW score \in Scores,
         c \in DOMAIN h => h[c] < score,
         NEW k, Raises(h, k, c, score), NEW v, NEW x \in Int,
         Cardinality(Good(h, Covering(h, v), x)) >= Diversity
  PROVE  Cardinality(Good(k, Covering(k, v), x)) >= Diversity
<1> DEFINE G == Good(h, Covering(h, v), x)
           K == Good(k, Covering(k, v), x)
<1>1. /\ HyposOK(k) /\ DOMAIN k = DOMAIN h \cup {c} /\ k[c] = score
      /\ \A d \in DOMAIN h : d # c => k[d] = h[d]
  BY DEF Raises
<1>2. (\A d \in DOMAIN h : h[d] \in Int) /\ score \in Int
  BY ScoreTypes DEF HyposOK
<1>3. G \subseteq K
  BY <1>1, <1>2 DEF Good, Covering
<1>4. IsFiniteSet(K)
  <2>1. IsFiniteSet(Covering(k, v)) /\ K \subseteq Covering(k, v)
    BY <1>1, CoveringTypes DEF Good
  <2> QED BY <2>1, FS_Subset
<1> HIDE DEF G, K
<1>5. Cardinality(G) <= Cardinality(K) /\ Cardinality(G) \in Nat /\ Cardinality(K) \in Nat
  BY <1>3, <1>4, FS_Subset, FS_CardinalityType
<1> QED BY <1>5, ScoreTypes DEF G, K

Offering(off, c, score) == [off EXCEPT ![c] = Larger(@, score)]

\* Adding a hypothesis keeps the invariant.
LEMMA InsertKeeps ==
  ASSUME NEW s, NEW off, StackInv(s, off), NEW c \in Classes, NEW score \in Scores,
         c \in DOMAIN s.hypos => s.hypos[c] < score
  PROVE  StackInv(Inserted([s EXCEPT !.hypos = Only(@, DOMAIN @ \ {c})], c, score),
                  Offering(off, c, score))
<1> DEFINE h == s.hypos
           s1 == [s EXCEPT !.hypos = Only(@, DOMAIN @ \ {c})]
           t == Inserted(s1, c, score)
           k == With(Only(h, DOMAIN h \ {c}), c, score)
           new == Offering(off, c, score)
           v == Coverage(c)
<1>1. StackTypes(s, off) /\ HyposOK(h) /\ v \in Coverages
  BY DEF StackInv, StackTypes, Coverages
<1>2. s1 = [hypos |-> Only(h, DOMAIN h \ {c}), best |-> s.best, worst |-> s.worst,
            floor |-> s.floor]
  BY <1>1 DEF StackTypes
<1>3. /\ t = [hypos |-> t.hypos, best |-> t.best, worst |-> t.worst, floor |-> t.floor]
      /\ t.hypos = k /\ t.best = Larger(s.best, score)
      /\ t.worst = IF score > s.best THEN Larger(s.worst, t.best + BeamWidth) ELSE s.worst
      /\ t.floor = IF Diversity = 1 /\ score > s.floor[v] THEN With(s.floor, v, score)
                                                          ELSE s.floor
  BY <1>2 DEF Inserted
<1>4. Raises(h, k, c, score)
  BY <1>1, WithRaises
<1> HIDE DEF s1, t, k, new
<1>5. /\ HyposOK(k) /\ DOMAIN k = DOMAIN h \cup {c} /\ k[c] = score
      /\ \A d \in DOMAIN h : d # c => k[d] = h[d]
  BY <1>4 DEF Raises
<1>6. /\ s.best \in Int /\ s.worst \in Int /\ score \in Int /\ score > NegInf
      /\ BeamWidth \in Int /\ NegInf \in Int
      /\ \A d \in Classes : off[d] \in Int
      /\ \A d \in DOMAIN h : h[d] \in Int
      /\ \A w \in Coverages : s.floor[w] \in Int
  BY <1>1, ScoreTypes DEF StackTypes, HyposOK
<1>7. /\ new[c] = Larger(off[c], score) /\ \A d \in Classes : d # c => new[d] = off[d]
      /\ new \in [Classes -> Scores \cup {NegInf}]
  <2>1. off \in [Classes -> Scores \cup {NegInf}]
    BY <1>1 DEF StackTypes
  <2>2. new = [off EXCEPT ![c] = Larger(off[c], score)]
    BY DEF new, Offering
  <2>3. Larger(off[c], score) \in Scores \cup {NegInf}
    BY <2>1 DEF Larger
  <2> QED BY <2>1, <2>2, <2>3
<1>8. t.best \in Int /\ t.best >= s.best /\ t.best \in Scores \cup {NegInf}
  BY <1>1, <1>3, <1>6 DEF Larger, StackTypes
<1>9. StackTypes(t, new)
  <2>1. t.worst \in Int
    BY <1>3, <1>6, <1>8 DEF Larger
  <2>2. t.floor \in [Coverages -> Scores \cup {NegInf}]
    <3>1. s.floor \in [Coverages -> Scores \cup {NegInf}]
      BY <1>1 DEF StackTypes
    <3>2. With(s.floor, v, score) \in [Coverages -> Scores \cup {NegInf}]
      BY <1>1, <3>1 DEF With
    <3> QED BY <1>3, <3>1, <3>2
  <2>3. ASSUME NEW d \in DOMAIN k PROVE k[d] <= new[d]
    <3>1. CASE d = c
      BY <1>5, <1>6, <1>7, <3>1 DEF Larger
    <3>2. CASE d # c
      <4>1. d \in DOMAIN h /\ d \in Classes /\ h[d] <= off[d]
        BY <1>1, <1>5, <3>2 DEF StackTypes, HyposOK
      <4> QED BY <1>5, <1>7, <3>2, <4>1
    <3> QED BY <3>1, <3>2
  <2>4. \A d \in DOMAIN t.hypos : t.hypos[d] <= new[d]
    BY <1>3, <2>3
  <2> QED BY <1>3, <1>5, <1>7, <1>8, <2>1, <2>2, <2>4 DEF StackTypes
<1>10. ASSUME NEW x \in Int, Full(h, x) PROVE Full(k, x)
  BY <1>1, <1>4, <1>10, RaisedStaysFull
<1>11. ASSUME NEW w, NEW x \in Int, Cardinality(Good(h, Covering(h, w), x)) >= Diversity
       PROVE  Cardinality(Good(k, Covering(k, w), x)) >= Diversity
  BY <1>1, <1>4, <1>11, RaisedStaysMany
<1>12. WorstIsFull(t)
  <2>1. SUFFICES ASSUME t.worst # NegInf, t.worst > t.best + BeamWidth
                 PROVE  MaxSize > 0 /\ Full(k, t.worst)
    BY <1>3 DEF WorstIsFull
  <2>2. t.worst = s.worst /\ s.worst > s.best + BeamWidth
    BY <1>3, <1>6, <1>8, <2>1 DEF Larger
  <2>3. MaxSize > 0 /\ Full(h, s.worst)
    BY <2>1, <2>2 DEF StackInv, WorstIsFull
  <2> QED BY <1>6, <1>10, <2>2, <2>3
<1>13. FloorIsReached(t)
  <2>1. SUFFICES ASSUME NEW w \in Coverages, t.floor[w] # NegInf
                 PROVE  Cardinality(Good(k, Covering(k, w), t.floor[w])) >= Diversity
    BY <1>3 DEF FloorIsReached
  <2>2. CASE t.floor[w] = s.floor[w]
    <3>1. Cardinality(Good(h, Covering(h, w), s.floor[w])) >= Diversity
      BY <2>1, <2>2 DEF StackInv, FloorIsReached
    <3> QED BY <1>6, <1>11, <2>2, <3>1
  <2>3. CASE t.floor[w] # s.floor[w]
    <3> DEFINE K == Good(k, Covering(k, w), t.floor[w])
    <3>1. Diversity = 1 /\ w = v /\ t.floor[w] = score
      <4>1. DOMAIN s.floor = Coverages
        BY <1>1 DEF StackTypes
      <4>2. Diversity = 1 /\ t.floor = With(s.floor, v, score)
        BY <1>3, <2>3
      <4> QED BY <1>1, <2>3, <4>1, <4>2 DEF With
    <3>2. c \in K
      BY <1>5, <1>6, <3>1 DEF Good, Covering
    <3>3. IsFiniteSet(K)
      <4>1. IsFiniteSet(Covering(k, w)) /\ K \subseteq Covering(k, w)
        BY <1>5, CoveringTypes DEF Good
      <4> QED BY <4>1, FS_Subset
    <3> HIDE DEF K
    <3>4. {c} \subseteq K /\ Cardinality({c}) = 1
      BY <3>2, FS_Singleton
    <3>5. Cardinality({c}) <= Cardinality(K) /\ Cardinality(K) \in Nat
      BY <3>3, <3>4, FS_Subset, FS_CardinalityType
    <3> QED BY <3>1, <3>4, <3>5 DEF K
  <2> QED BY <2>2, <2>3
\* What is lost was lost.
<1>14. ASSUME NEW d \in LostFrom(k, new)
       PROVE  d \in LostFrom(h, off) /\ new[d] = off[d] /\ d \in Classes
  <2>1. d \in Classes /\ new[d] # NegInf /\ (d \in DOMAIN k => k[d] < new[d])
    BY DEF LostFrom
  <2>2. CASE d = c
    <3>1. score < Larger(off[c], score)
      BY <1>5, <1>7, <2>1, <2>2
    <3>2. off[c] > score /\ Larger(off[c], score) = off[c]
      BY <1>6, <3>1 DEF Larger
    <3>3. off[c] # NegInf /\ (c \in DOMAIN h => h[c] < off[c])
      BY <1>6, <3>2
    <3> QED BY <1>7, <2>2, <3>2, <3>3 DEF LostFrom
  <2>3. CASE d # c
    <3>1. d \in DOMAIN h => d \in DOMAIN k /\ k[d] = h[d]
      BY <1>5, <2>3
    <3> QED BY <1>7, <2>1, <2>3, <3>1 DEF LostFrom
  <2> QED BY <2>2, <2>3
<1>15. LostBelow(t, new)
  <2>1. SUFFICES ASSUME NEW d \in LostFrom(k, new)
                 PROVE  off[d] <= t.best + BeamWidth \/ (MaxSize > 0 /\ Full(k, off[d]))
    BY <1>3, <1>14 DEF LostBelow
  <2>2. d \in LostFrom(h, off) /\ off[d] \in Int
    BY <1>6, <1>14
  <2>3. off[d] <= s.best + BeamWidth \/ (MaxSize > 0 /\ Full(h, off[d]))
    BY <2>2 DEF StackInv, LostBelow
  <2> QED BY <1>6, <1>8, <1>10, <2>2, <2>3
<1>16. LostOfMany(t, new)
  <2>1. SUFFICES ASSUME NEW d \in LostFrom(k, new)
                 PROVE  Cardinality(Good(k, Covering(k, Coverage(d)), off[d])) >= Diversity
    BY <1>3, <1>14 DEF LostOfMany
  <2>2. d \in LostFrom(h, off) /\ off[d] \in Int
    BY <1>6, <1>14
  <2>3. Cardinality(Good(h, Covering(h, Coverage(d)), off[d])) >= Diversity
    BY <2>2 DEF StackInv, LostOfMany
  <2> QED BY <1>11, <2>2, <2>3
<1> QED BY <1>9, <1>12, <1>13, <1>15, <1>16 DEF StackInv, t, s1, new

-----------------------------------------------------------------------------
(* Turning a hypothesis away. *)

\* A hypothesis that is too bad for the stack and for its coverage, or no better
\* than the one of its class, is no loss.
LEMMA DiscardKeeps ==
  ASSUME NEW s, NEW off, StackInv(s, off), NEW c \in Classes, NEW score \in Scores,
         \/ score < s.worst /\ (Diversity > 0 => score < s.floor[Coverage(c)])
         \/ c \in DOMAIN s.hypos /\ s.hypos[c] >= score
  PROVE  StackInv(s, Offering(off, c, score))
<1> DEFINE h == s.hypos
           new == Offering(off, c, score)
           v == Coverage(c)
<1>1. StackTypes(s, off) /\ HyposOK(h) /\ v \in Coverages
  BY DEF StackInv, StackTypes, Coverages
<1>2. /\ s.best \in Int /\ s.worst \in Int /\ score \in Int /\ score > NegInf
      /\ BeamWidth \in Int /\ NegInf \in Int /\ Diversity \in Nat
      /\ \A d \in Classes : off[d] \in Int
      /\ \A d \in DOMAIN h : d \in Classes /\ h[d] \in Int /\ h[d] <= off[d]
      /\ \A w \in Coverages : s.floor[w] \in Int
  BY <1>1, ScoreTypes DEF StackTypes, HyposOK
<1>3. off \in [Classes -> Scores \cup {NegInf}]
  BY <1>1 DEF StackTypes
<1>4. CASE off[c] >= score
  <2>1. Larger(off[c], score) = off[c]
    BY <1>2, <1>4 DEF Larger
  <2>2. new = off
    BY <1>3, <2>1 DEF Offering
  <2> QED BY <2>2
<1>5. CASE ~(off[c] >= score)
  <2>1. new[c] = score /\ (\A d \in Classes : d # c => new[d] = off[d])
        /\ new \in [Classes -> Scores \cup {NegInf}]
    <3>1. Larger(off[c], score) = score
      BY <1>2, <1>5 DEF Larger
    <3> QED BY <1>3, <3>1 DEF Offering
  <2> HIDE DEF new, v, h
  <2>2. score < s.worst /\ (Diversity > 0 => score < s.floor[v])
    <3>1. ~(c \in DOMAIN h /\ h[c] >= score)
      BY <1>2, <1>5
    <3> QED BY <3>1 DEF h, v
  <2>3. StackTypes(s, new)
    <3>1. \A d \in DOMAIN h : h[d] <= new[d]
      BY <1>2, <1>5, <2>1
    <3> QED BY <1>1, <2>1, <3>1 DEF StackTypes, h
  <2>4. ASSUME NEW d \in LostFrom(h, new), d # c PROVE d \in LostFrom(h, off) /\ new[d] = off[d]
    BY <2>1, <2>4 DEF LostFrom
  <2>5. LostBelow(s, new)
    <3>1. SUFFICES ASSUME NEW d \in LostFrom(h, new), ~(new[d] <= s.best + BeamWidth)
                   PROVE  MaxSize > 0 /\ Full(h, new[d])
      BY DEF LostBelow, h
    <3>2. CASE d # c
      BY <2>4, <3>1, <3>2 DEF StackInv, LostBelow, h
    <3>3. CASE d = c
      <4>1. s.worst # NegInf /\ s.worst > s.best + BeamWidth
        BY <1>2, <2>1, <2>2, <3>1, <3>3
      <4>2. MaxSize > 0 /\ Full(h, s.worst)
        BY <4>1 DEF StackInv, WorstIsFull, h
      <4>3. ASSUME NEW T \in Diverse(h)
            PROVE  Cardinality(Good(h, DOMAIN h, score) \cup T) >= MaxSize
        <5> DEFINE X == Good(h, DOMAIN h, s.worst) \cup T
                   Y == Good(h, DOMAIN h, score) \cup T
        <5>1. Cardinality(X) >= MaxSize
          BY <4>2 DEF Full
        <5>2. X \subseteq Y
          BY <1>2, <2>2 DEF Good
        <5>3. IsFiniteSet(Y)
          <6>1. Y \subseteq DOMAIN h /\ IsFiniteSet(DOMAIN h)
            BY <1>1 DEF Good, Diverse, HyposOK, h
          <6> QED BY <6>1, FS_Subset
        <5> HIDE DEF X, Y
        <5>4. Cardinality(X) <= Cardinality(Y) /\ Cardinality(X) \in Nat /\ Cardinality(Y) \in Nat
          BY <5>2, <5>3, FS_Subset, FS_CardinalityType
        <5> QED BY <5>1, <5>4, ScoreTypes DEF Y
      <4> QED BY <2>1, <3>3, <4>2, <4>3 DEF Full
    <3> QED BY <3>2, <3>3
  <2>6. LostOfMany(s, new)
    <3>1. SUFFICES ASSUME NEW d \in LostFrom(h, new)
                   PROVE  Cardinality(Good(h, Covering(h, Coverage(d)), new[d])) >= Diversity
      BY DEF LostOfMany, h
    <3>2. CASE d # c
      BY <2>4, <3>1, <3>2 DEF StackInv, LostOfMany, h
    <3>3. CASE d = c
      <4> DEFINE X == Good(h, Covering(h, v), s.floor[v])
                 Y == Good(h, Covering(h, v), score)
      <4>1. IsFiniteSet(Y) /\ Y \subseteq DOMAIN h
        <5>1. IsFiniteSet(Covering(h, v)) /\ Y \subseteq Covering(h, v)
              /\ Covering(h, v) \subseteq DOMAIN h
          BY <1>1, CoveringTypes DEF Good, h
        <5> QED BY <5>1, FS_Subset
      <4>2. Cardinality(Y) \in Nat
        BY <4>1, FS_CardinalityType
      <4>3. CASE Diversity = 0
        BY <2>1, <3>3, <4>2, <4>3 DEF v
      <4>4. CASE Diversity > 0
        <5>1. score < s.floor[v] /\ s.floor[v] # NegInf
          BY <1>1, <1>2, <2>2, <4>4 DEF v
        <5>2. Cardinality(X) >= Diversity
          BY <1>1, <5>1 DEF StackInv, FloorIsReached, h, v
        <5>3. X \subseteq Y
          <6>1. s.floor[v] \in Int /\ Covering(h, v) \subseteq DOMAIN h
            BY <1>1, <1>2 DEF Covering, v
          <6> QED BY <1>2, <5>1, <6>1 DEF Good
        <5> HIDE DEF X, Y
        <5>4. Cardinality(X) <= Cardinality(Y) /\ Cardinality(X) \in Nat
          BY <4>1, <5>3, FS_Subset, FS_CardinalityType
        <5>5. Cardinality(Y) >= Diversity
          BY <1>2, <4>2, <5>2, <5>4
        <5> QED BY <2>1, <3>3, <5>5 DEF Y, v
      <4> QED BY <1>2, <4>3, <4>4
    <3> QED BY <3>2, <3>3
  <2> QED BY <2>3, <2>5, <2>6 DEF StackInv, WorstIsFull, FloorIsReached, h, new
<1> QED BY <1>4, <1>5

-----------------------------------------------------------------------------
(* The invariant of the specification. *)

IInv == StackInv(stack, offered) /\ expanded \in BOOLEAN

LEMMA PruneToSizeKeeps ==
  ASSUME NEW s, NEW off, StackInv(s, off), NEW t \in PruneToSize(s, MaxSize)
  PROVE  StackInv(t, off)
<1>1. CASE MaxSize = 0 \/ Cardinality(DOMAIN s.hypos) <= MaxSize
  BY <1>1 DEF PruneToSize
<1>2. CASE ~(MaxSize = 0 \/ Cardinality(DOMAIN s.hypos) <= MaxSize)
  <2>1. PICK P \in Diverse(s.hypos) :
          \E R \in BestOf(s.hypos, InBeam(s, P), Larger(MaxSize - Cardinality(P), 0)) :
            t = Keeping(s, P, R, MaxSize)
    BY <1>2 DEF PruneToSize
  <2>2. PICK R \in BestOf(s.hypos, InBeam(s, P), Larger(MaxSize - Cardinality(P), 0)) :
            t = Keeping(s, P, R, MaxSize)
    BY <2>1
  <2>3. MaxSize > 0
    BY <1>2, ScoreTypes
  <2>4. Prunes(s, P, R)
    BY <2>2, <2>3 DEF Prunes
  <2> QED BY <2>2, <2>4, PruneKeeps
<1> QED BY <1>1, <1>2

LEMMA InitStack == Init => IInv
<1> SUFFICES ASSUME Init PROVE IInv
  OBVIOUS
<1>1. stack = [hypos |-> <<>>, best |-> NegInf, worst |-> NegInf,
               floor |-> [v \in Coverages |-> NegInf]]
      /\ offered = [c \in Classes |-> NegInf] /\ expanded = FALSE
  BY DEF Init
<1>2. stack.hypos = <<>> /\ stack.best = NegInf /\ stack.worst = NegInf
      /\ stack.floor = [v \in Coverages |-> NegInf]
  BY <1>1
<1>3. DOMAIN stack.hypos = {}
  BY <1>2
<1>4. HyposOK(stack.hypos)
  <2>1. stack.hypos = [c \in DOMAIN stack.hypos |-> stack.hypos[c]]
    BY <1>2
  <2>2. IsFiniteSet(DOMAIN stack.hypos)
    BY <1>3, FS_EmptySet
  <2> QED BY <1>3, <2>1, <2>2 DEF HyposOK
<1>5. StackTypes(stack, offered)
  BY <1>1, <1>2, <1>3, <1>4, ScoreTypes DEF StackTypes
<1>6. LostFrom(stack.hypos, offered) = {}
  BY <1>1 DEF LostFrom
<1>7. WorstIsFull(stack) /\ FloorIsReached(stack)
  BY <1>2 DEF WorstIsFull, FloorIsReached
<1> QED BY <1>1, <1>5, <1>6, <1>7 DEF IInv, StackInv, LostBelow, LostOfMany

LEMMA OfferKeeps ==
  ASSUME IInv, NEW c \in Classes, NEW score \in Scores, Offer(c, score)
  PROVE  IInv'
<1>1. StackInv(stack, offered) /\ expanded \in BOOLEAN
  BY DEF IInv
<1>2. AddPrune(c, score) /\ offered' = Offering(offered, c, score) /\ expanded' = expanded
  BY DEF Offer, Offering
<1>3. StackInv(stack', offered')
  <2>1. CASE TooBad(c, score) \/ (c \in DOMAIN stack.hypos /\ stack.hypos[c] >= score)
    <3>1. stack' = stack
      BY <1>2, <2>1 DEF AddPrune
    <3>2. \/ score < stack.worst /\ (Diversity > 0 => score < stack.floor[Coverage(c)])
          \/ c \in DOMAIN stack.hypos /\ stack.hypos[c] >= score
      <4>1. Coverage(c) \in Coverages /\ stack.floor[Coverage(c)] \in Int /\ score \in Int
        BY <1>1, ScoreTypes DEF StackInv, StackTypes, Coverages
      <4> QED BY <2>1, <4>1 DEF TooBad
    <3>3. StackInv(stack, Offering(offered, c, score))
      BY <1>1, <3>2, DiscardKeeps
    <3> QED BY <1>2, <3>1, <3>3
  <2>2. CASE ~(TooBad(c, score) \/ (c \in DOMAIN stack.hypos /\ stack.hypos[c] >= score))
    <3> DEFINE t == Inserted([stack EXCEPT !.hypos = Only(@, DOMAIN @ \ {c})], c, score)
    <3>1. stack' \in Add([stack EXCEPT !.hypos = Only(@, DOMAIN @ \ {c})], c, score)
      BY <1>2, <2>2 DEF AddPrune
    <3>2. stack' \in PruneToSize(t, MaxSize) \/ stack' = t
      BY <3>1 DEF Add
    <3>3. c \in DOMAIN stack.hypos => stack.hypos[c] < score
      <4>1. c \in DOMAIN stack.hypos => stack.hypos[c] \in Int /\ score \in Int
        BY <1>1, ScoreTypes DEF StackInv, StackTypes, HyposOK
      <4> QED BY <2>2, <4>1
    <3>4. StackInv(t, Offering(offered, c, score))
      BY <1>1, <3>3, InsertKeeps
    <3> HIDE DEF t
    <3> QED BY <1>2, <3>2, <3>4, PruneToSizeKeeps
  <2> QED BY <2>1, <2>2
<1> QED BY <1>1, <1>2, <1>3 DEF IInv

LEMMA NextKeepsStack == IInv /\ [Next]_vars => IInv'
<1> SUFFICES ASSUME IInv, [Next]_vars PROVE IInv'
  OBVIOUS
<1>1. CASE Expand
  BY <1>1, PruneToSizeKeeps DEF Expand, IInv
<1>2. ASSUME NEW c \in Classes, NEW score \in Scores, Offer(c, score) PROVE IInv'
  BY <1>2, OfferKeeps
<1>3. CASE UNCHANGED vars
  BY <1>3 DEF vars, IInv
<1>4. CASE Expanded
  BY <1>4 DEF Expanded, vars, IInv
<1> QED BY <1>1, <1>2, <1>3, <1>4 DEF Next

\* What the stack knows of what it has turned away: m_worstScore is the lower end
\* of the beam or the stack is full above it, m_diversityWorstScore of a coverage is
\* reached by as many as the diversity asks for, and whatever is lost is outside the
\* beam or below a full stack, and below as many of its coverage.
THEOREM StackInvariance == Spec => []IInv
<1>1. Init => IInv
  BY InitStack
<1>2. IInv /\ [Next]_vars => IInv'
  BY NextKeepsStack
<1> QED BY <1>1, <1>2, PTL DEF Spec

-----------------------------------------------------------------------------
(* What it promises. *)

LEMMA ChoiceIsKept ==
  ASSUME HyposOK(stack.hypos), NEW T \in Diverse(stack.hypos)
  PROVE  T \subseteq KeptForDiversity
<1> DEFINE h == stack.hypos
<1>1. SUFFICES ASSUME NEW c \in T PROVE c \in KeptForDiversity
  OBVIOUS
<1>2. T \subseteq DOMAIN h
  BY DEF Diverse
<1> DEFINE v == Coverage(c)
           B == T \cap Covering(h, v)
           X == {d \in Covering(h, v) : h[d] > h[c]}
<1>3. v \in Coverages /\ c \in B
  BY <1>2, CoverageOfHypo
<1>4. /\ IsFiniteSet(B) /\ Cardinality(B) \in Nat /\ Cardinality(B) <= Diversity
      /\ \A a \in B : \A d \in Covering(h, v) \ B : h[a] >= h[d]
  BY <1>3, DiverseIs
<1>5. \A d \in DOMAIN h : h[d] \in Int
  BY ScoreTypes DEF HyposOK
<1>6. X \subseteq B \ {c}
  BY <1>2, <1>3, <1>4, <1>5 DEF Covering
<1>7. IsFiniteSet(B \ {c}) /\ Cardinality(B \ {c}) = Cardinality(B) - 1
  BY <1>3, <1>4, FS_RemoveElement
<1>8. Cardinality(X) <= Cardinality(B \ {c}) /\ Cardinality(X) \in Nat
  <2> HIDE DEF X, B
  <2> QED BY <1>6, <1>7, FS_Subset, FS_CardinalityType
<1>9. Cardinality(X) < Diversity
  BY <1>4, <1>7, <1>8, ScoreTypes
<1> QED BY <1>2, <1>9 DEF KeptForDiversity

LEMMA LostIs == Lost = LostFrom(stack.hypos, offered)
BY DEF Lost, LostFrom

\* Lazy pruning, discarding and recombination lose nothing that a search with one
\* pruning at the end would keep: a class whose best hypothesis is gone is outside the
\* beam, or as many as the stack may hold are as good or kept for diversity.
THEOREM LosesOnlyTheWorst == Spec => []OnlyWorstPruned
<1>1. IInv => OnlyWorstPruned
  <2> DEFINE h == stack.hypos
  <2>1. SUFFICES ASSUME IInv, NEW c \in Lost, ~(offered[c] <= stack.best + BeamWidth)
                 PROVE  /\ MaxSize > 0
                        /\ Cardinality(AsGood(DOMAIN h, offered[c]) \cup KeptForDiversity) >= MaxSize
    BY DEF OnlyWorstPruned
  <2>2. HyposOK(h) /\ MaxSize > 0 /\ Full(h, offered[c])
    BY <2>1, LostIs DEF IInv, StackInv, StackTypes, LostBelow
  <2>3. PICK T : T \in Diverse(h)
    BY <2>2, DiverseExists
  <2> DEFINE X == Good(h, DOMAIN h, offered[c]) \cup T
             Y == AsGood(DOMAIN h, offered[c]) \cup KeptForDiversity
  <2>4. Cardinality(X) >= MaxSize
    BY <2>2, <2>3 DEF Full
  <2>5. X \subseteq Y
    <3>1. T \subseteq KeptForDiversity
      BY <2>2, <2>3, ChoiceIsKept
    <3> QED BY <3>1 DEF Good, AsGood
  <2>6. IsFiniteSet(Y)
    <3>1. Y \subseteq DOMAIN h /\ IsFiniteSet(DOMAIN h)
      BY <2>2 DEF AsGood, KeptForDiversity, HyposOK
    <3> HIDE DEF Y
    <3> QED BY <3>1, FS_Subset
  <2> HIDE DEF X, Y
  <2>7. Cardinality(X) <= Cardinality(Y) /\ Cardinality(X) \in Nat /\ Cardinality(Y) \in Nat
    BY <2>5, <2>6, FS_Subset, FS_CardinalityType
  <2>8. Cardinality(Y) >= MaxSize
    BY <2>4, <2>7, ScoreTypes
  <2> QED BY <2>2, <2>8 DEF Y
<1> QED BY <1>1, StackInvariance, PTL

\* Stack diversity: a hypothesis is lost only if as many as the diversity asks for
\* are as good and translate the same words.
THEOREM KeepsDiversity == Spec => []DiversityKept
<1>1. IInv => DiversityKept
  <2>1. SUFFICES ASSUME IInv, NEW c \in Lost
                 PROVE  Cardinality(AsGood(Covering(stack.hypos, Coverage(c)), offered[c]))
                          >= Diversity
    BY DEF DiversityKept
  <2>2. Cardinality(Good(stack.hypos, Covering(stack.hypos, Coverage(c)), offered[c]))
          >= Diversity
    BY <2>1, LostIs DEF IInv, StackInv, LostOfMany
  <2> QED BY <2>2 DEF Good, AsGood
<1> QED BY <1>1, StackInvariance, PTL

=============================================================================
