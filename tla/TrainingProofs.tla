--------------------------- MODULE TrainingProofs ---------------------------
(***************************************************************************)
(* What symal keeps, for sentence pairs of any length and any pair of      *)
(* alignments: the types, the bound by the union, the agreement of the     *)
(* covered words and of the matrix with the set of points, and that the    *)
(* unrestricted final step leaves no aligned word uncovered.  The copies   *)
(* (CopiesAgree) carry the argument: the code decides by them, the         *)
(* properties speak of the set.  For the final step, what lies behind the  *)
(* iterator has been dealt with (Settled).                                 *)
(*                                                                         *)
(* And what extract does with the alignment that symal has left, for       *)
(* sentences and phrases of any length: its loops find the consistent      *)
(* pairs and no other, and the three reordering models do not contradict   *)
(* each other.  The loops pass over no consistent block (NothingPassed),   *)
(* and of the two corners on one side of a pair, the monotone one and the  *)
(* swapped one, only one can be taken by a block (Exclusive).              *)
(***************************************************************************)
EXTENDS TrainingPipeline, TLAPS, WellFoundedInduction

\* Nothing the final step could add.
Dealt(p) == \/ p \in currentpoints
            \/ IF opt.bothuncovered THEN p[1] \in ea \/ p[2] \in fa ELSE BothCovered(p)

\* Behind the iterator of a final loop every point has been dealt with.
Settled ==
    /\ pc = "inverse" => \A p \in Inverse : ~Before(k, p) => Dealt(p)
    /\ pc = "direct" => /\ \A p \in Inverse : Dealt(p)
                        /\ \A p \in Direct : ~Before(k, p) => Dealt(p)
    /\ pc = "print" /\ opt.final => \A p \in Unionalignment : Dealt(p)

NeighborOf(q, x) == <<q[1] + Neighbors[x][1], q[2] + Neighbors[x][2]>>

\* In a scan that has added nothing, no point passed has a point to add.
Scanned ==
    /\ pc = "start" => k = Begin
    /\ pc \in {"inverse", "direct"} => opt.final
    /\ pc = "grow" =>
         /\ k # Begin => k \in currentpoints
         /\ ~added => \A q \in currentpoints :
              /\ Before(q, k) => \A x \in 1..NeighborsUsed : ~Addable(NeighborOf(q, x))
              /\ q = k => \A x \in 1..o : ~Addable(NeighborOf(q, x))

IInv == TypeOK /\ WithinUnion /\ CopiesAgree /\ Settled /\ Scanned

(***************************************************************************)
(* The order of std::set.                                                  *)
(***************************************************************************)
LEMMA OrderFacts ==
    ASSUME NEW p \in Matrix, NEW q \in Matrix
    PROVE  /\ Before(Begin, p)
           /\ Before(p, q) \/ Before(q, p) \/ p = q
  <1>1. p[1] \in 1..N /\ p[2] \in 1..M /\ q[1] \in 1..N /\ q[2] \in 1..M
        /\ p = <<p[1], p[2]>> /\ q = <<q[1], q[2]>>
    BY DEF Matrix
  <1>2. p[1] = q[1] /\ p[2] = q[2] => p = q
    BY <1>1
  <1>3. \A x \in 1..N : x > 0 /\ x \in Int
    BY SymalAssumption
  <1>4. \A x \in 1..M : x \in Int
    BY SymalAssumption
  <1>5. Begin[1] = 0
    BY DEF Begin
  <1>6. p[1] > 0 /\ p[1] \in Int /\ q[1] \in Int /\ p[2] \in Int /\ q[2] \in Int
    BY <1>1, <1>3, <1>4
  <1>7. Before(Begin, p)
    BY <1>5, <1>6 DEF Before
  <1>8. Before(p, q) \/ Before(q, p) \/ (p[1] = q[1] /\ p[2] = q[2])
    BY <1>6 DEF Before
  <1> QED
    BY <1>2, <1>7, <1>8

(***************************************************************************)
(* The points of the two alignments.                                       *)
(***************************************************************************)
LEMMA PointsInMatrix ==
    /\ Direct \subseteq Matrix /\ Inverse \subseteq Matrix
    /\ Unionalignment \subseteq Matrix /\ Intersection \subseteq Unionalignment
  BY DEF Direct, Inverse, Unionalignment, Intersection

LEMMA OutInRange ==
    ASSUME NEW S \in SUBSET Matrix
    PROVE  Out(S) \subseteq (0..M - 1) \X (0..N - 1)
  <1> SUFFICES ASSUME NEW p \in S
               PROVE  <<p[2] - 1, p[1] - 1>> \in (0..M - 1) \X (0..N - 1)
    BY DEF Out
  <1>1. p[1] \in 1..N /\ p[2] \in 1..M
    BY DEF Matrix
  <1>2. p[2] - 1 \in 0..M - 1
    BY <1>1, SymalAssumption
  <1>3. p[1] - 1 \in 0..N - 1
    BY <1>1, SymalAssumption
  <1> QED
    BY <1>2, <1>3

(***************************************************************************)
(* Inserting a point of the union updates the set and its copies together. *)
(***************************************************************************)
LEMMA InsertKeeps ==
    ASSUME TypeOK, WithinUnion, CopiesAgree,
           NEW p \in Unionalignment, Insert(p), UNCHANGED <<opt, a, b, pc, printed>>,
           pc \in {"grow", "inverse", "direct"}
    PROVE  /\ currentpoints' \subseteq Matrix /\ ea' \subseteq 1..N /\ fa' \subseteq 1..M
           /\ A' \in [Matrix -> {-1, 0, 1, 2}]
           /\ WithinUnion' /\ CopiesAgree'
           /\ Dealt(p)'
           /\ \A q : Dealt(q) => Dealt(q)'
  <1>1. p \in Matrix
    BY PointsInMatrix
  <1>2. p[1] \in 1..N /\ p[2] \in 1..M
    BY <1>1 DEF Matrix
  <1>3. Direct' = Direct /\ Inverse' = Inverse /\ Unionalignment' = Unionalignment
        /\ Intersection' = Intersection
    BY DEF Direct, Inverse, Unionalignment, Intersection
  <1>4. currentpoints' \subseteq Matrix /\ ea' \subseteq 1..N /\ fa' \subseteq 1..M
    BY <1>1, <1>2 DEF Insert, TypeOK
  <1>5. A' \in [Matrix -> {-1, 0, 1, 2}]
    BY <1>1 DEF Insert, TypeOK
  <1>6. WithinUnion'
    BY <1>3 DEF Insert, WithinUnion
  <1>7. ea' = {q[1] : q \in currentpoints'} /\ fa' = {q[2] : q \in currentpoints'}
    BY DEF Insert, CopiesAgree
  <1>8. ASSUME NEW q \in Matrix
        PROVE  /\ (A'[q] = 2) <=> (q \in currentpoints')
               /\ (A'[q] = -1) <=> (q \in Direct' \ currentpoints')
               /\ (A'[q] = 1) <=> (q \in Inverse' \ currentpoints')
    <2>1. /\ (A[q] = 2) <=> (q \in currentpoints)
          /\ (A[q] = -1) <=> (q \in Direct \ currentpoints)
          /\ (A[q] = 1) <=> (q \in Inverse \ currentpoints)
      BY DEF CopiesAgree
    <2>2. A'[q] = IF q = p THEN 2 ELSE A[q]
      BY DEF Insert, TypeOK
    <2>3. q \in currentpoints' <=> (q \in currentpoints \/ q = p)
      BY DEF Insert
    <2> QED
      BY <2>1, <2>2, <2>3, <1>3
  <1>9. CopiesAgree'
    BY <1>7, <1>8 DEF CopiesAgree
  <1>10. Dealt(p)'
    BY DEF Dealt, Insert
  <1>11. \A q : Dealt(q) => Dealt(q)'
    BY DEF Dealt, BothCovered, Insert
  <1> QED
    BY <1>4, <1>5, <1>6, <1>9, <1>10, <1>11

LEMMA AddableInUnion ==
    ASSUME NEW p, Addable(p)
    PROVE  p \in Unionalignment
  BY DEF Addable, Unionalignment, Direct, Inverse

\* A point of the set covers its words.
LEMMA PointsCovered ==
    ASSUME CopiesAgree, pc \in {"grow", "inverse", "direct", "print"},
           NEW p \in currentpoints
    PROVE  BothCovered(p)
  BY DEF CopiesAgree, BothCovered

\* A point a final loop has passed over leaves nothing to add.
LEMMA NotAddedDealt ==
    ASSUME TypeOK, CopiesAgree, pc \in {"inverse", "direct"}, NEW q \in Matrix,
           q \in IF pc = "inverse" THEN Inverse ELSE Direct,
           ~FinalAdds(q)
    PROVE  Dealt(q)
  <1>1. A[q] # FinalMark => q \in currentpoints
    BY DEF FinalMark, CopiesAgree
  <1> QED
    BY <1>1 DEF FinalAdds, Dealt

LEMMA BeginOutside ==
    /\ Begin \notin Matrix
    /\ \A p \in Matrix : ~Before(p, Begin)
  <1>1. \A p \in Matrix : p[1] \in 1..N
    BY DEF Matrix
  <1>2. \A x \in 1..N : x # 0 /\ ~(x < 0)
    BY SymalAssumption
  <1>3. Begin[1] = 0
    BY DEF Begin
  <1> QED
    BY <1>1, <1>2, <1>3 DEF Before

\* When the iterator moves on in a scan without additions, every point up to
\* it has been tried with all its neighbours.
LEMMA PassedClosed ==
    ASSUME TypeOK, Scanned, pc = "grow", ~added, NoneToAdd,
           NEW q \in currentpoints, ~Before(k, q)
    PROVE  \A x \in 1..NeighborsUsed : ~Addable(NeighborOf(q, x))
  <1>1. q \in Matrix
    BY DEF TypeOK
  <1>2. k # Begin
    BY <1>1, OrderFacts
  <1>3. k \in Matrix
    BY <1>2 DEF TypeOK
  <1>4. Before(q, k) \/ q = k
    BY <1>1, <1>3, OrderFacts
  <1>5. CASE Before(q, k)
    BY <1>5 DEF Scanned
  <1>6. CASE q = k
    <2>1. \A x \in 1..o : ~Addable(NeighborOf(q, x))
      BY <1>6 DEF Scanned
    <2>2. \A x \in o + 1..NeighborsUsed : ~Addable(NeighborOf(q, x))
      BY <1>2, <1>6 DEF NoneToAdd, Neighbor, NeighborOf
    <2>3. o \in Int /\ NeighborsUsed \in Int
      BY DEF TypeOK, NeighborsUsed
    <2>4. \A x \in 1..NeighborsUsed : x \in 1..o \/ x \in o + 1..NeighborsUsed
      BY <2>3
    <2> QED
      BY <2>1, <2>2, <2>4
  <1> QED
    BY <1>4, <1>5, <1>6

(***************************************************************************)
(* The invariant.                                                          *)
(***************************************************************************)
LEMMA InitIInv == Init => IInv
  <1> SUFFICES ASSUME Init PROVE IInv
    OBVIOUS
  <1>1. TypeOK
    <2>1. A \in [Matrix -> {-1, 0, 1, 2}]
      BY DEF Init
    <2>2. o \in 0..8 /\ printed \subseteq (0..M - 1) \X (0..N - 1)
      BY DEF Init
    <2>3. k \in Matrix \union {Begin} /\ added \in BOOLEAN /\ opt \in Options
      BY DEF Init
    <2>4. a \in [1..M -> 0..N] /\ b \in [1..N -> 0..M]
      BY DEF Init
    <2> QED
      BY <2>1, <2>2, <2>3, <2>4 DEF Init, TypeOK
  <1>2. WithinUnion /\ CopiesAgree /\ Settled /\ Scanned
    BY DEF Init, WithinUnion, CopiesAgree, Settled, Scanned
  <1> QED
    BY <1>1, <1>2 DEF IInv

\* The number of a neighbour.
LEMMA NeighborNumber ==
    ASSUME o \in 0..8, NEW x \in o + 1..NeighborsUsed
    PROVE  x \in 0..8
  <1>1. NeighborsUsed \in Int /\ NeighborsUsed <= 8
    BY DEF NeighborsUsed
  <1> QED
    BY <1>1

LEMMA StepIInv == IInv /\ [Next]_vars => IInv'
  <1> SUFFICES ASSUME IInv, [Next]_vars
               PROVE  IInv'
    OBVIOUS
  <1> USE DEF IInv
  <1>0. ASSUME UNCHANGED <<opt, a, b>>
        PROVE  /\ Direct' = Direct /\ Inverse' = Inverse
               /\ Unionalignment' = Unionalignment /\ Intersection' = Intersection
    BY <1>0 DEF Direct, Inverse, Unionalignment, Intersection
  <1>1. CASE PrintPlain
    <2>1. printed' \subseteq (0..M - 1) \X (0..N - 1)
      <3>1. \A x \in {Unionalignment, Intersection, Direct, Inverse} : x \subseteq Matrix
        BY PointsInMatrix
      <3>2. opt \in Options /\ opt.alignment \in {"union", "intersect", "srctotgt", "tgttosrc"}
        BY <1>1, SymalAssumption DEF PrintPlain, TypeOK
      <3>3. \E x \in {Unionalignment, Intersection, Direct, Inverse} : printed' = Out(x)
        BY <1>1, <3>2 DEF PrintPlain
      <3> QED
        BY <3>1, <3>3, OutInRange
    <2>2. TypeOK'
      BY <1>1, <2>1 DEF PrintPlain, TypeOK
    <2>3. WithinUnion' /\ CopiesAgree' /\ Settled' /\ Scanned'
      BY <1>1, <1>0 DEF PrintPlain, WithinUnion, CopiesAgree, Settled, Scanned
    <2> QED
      BY <2>2, <2>3
  <1>2. CASE Fill
    <2>1. currentpoints' = Intersection /\ Intersection \subseteq Matrix
      BY <1>2, PointsInMatrix DEF Fill
    <2>2. \A p \in Matrix : p[1] \in 1..N /\ p[2] \in 1..M
      BY DEF Matrix
    <2>3. ea' \subseteq 1..N /\ fa' \subseteq 1..M
      BY <1>2, <2>1, <2>2 DEF Fill
    <2>4. A' \in [Matrix -> {-1, 0, 1, 2}]
      BY <1>2 DEF Fill
    <2>5. TypeOK'
      BY <1>2, <2>1, <2>3, <2>4 DEF Fill, TypeOK
    <2>6. WithinUnion'
      BY <1>2, <1>0, PointsInMatrix DEF Fill, WithinUnion
    <2>7. ea' = {p[1] : p \in currentpoints'} /\ fa' = {p[2] : p \in currentpoints'}
      BY <1>2 DEF Fill
    <2>8. ASSUME NEW p \in Matrix
          PROVE  /\ (A'[p] = 2) <=> (p \in currentpoints')
                 /\ (A'[p] = -1) <=> (p \in Direct' \ currentpoints')
                 /\ (A'[p] = 1) <=> (p \in Inverse' \ currentpoints')
      <3>1. Direct' = Direct /\ Inverse' = Inverse
        BY <1>0, <1>2 DEF Fill
      <3>2. A'[p] = IF p \in Intersection THEN 2
                    ELSE IF p \in Direct THEN -1
                    ELSE IF p \in Inverse THEN 1 ELSE 0
        BY <1>2 DEF Fill
      <3>3. p \in Intersection <=> (p \in Direct /\ p \in Inverse)
        BY DEF Intersection
      <3> QED
        BY <3>1, <3>2, <3>3, <2>1
    <2>9. CopiesAgree'
      BY <2>7, <2>8 DEF CopiesAgree
    <2>10. Settled'
      BY <1>2 DEF Fill, Settled
    <2>11. Scanned'
      <3>1. k' = Begin /\ pc' = "grow"
        BY <1>2 DEF Fill, Scanned
      <3>2. \A q \in currentpoints' : q # Begin /\ ~Before(q, Begin)
        BY <2>1, BeginOutside
      <3> QED
        BY <3>1, <3>2 DEF Scanned
    <2> QED
      BY <2>5, <2>6, <2>9, <2>10, <2>11
  <1>3. CASE AddNeighbor
    <2>1. PICK x \in o + 1..NeighborsUsed :
             Addable(Neighbor(x)) /\ Insert(Neighbor(x)) /\ o' = x
      BY <1>3 DEF AddNeighbor, AddsNext
    <2>2. pc = "grow" /\ UNCHANGED <<opt, a, b, k, pc, printed>> /\ added' = TRUE
      BY <1>3 DEF AddNeighbor
    <2>3. Neighbor(x) \in Unionalignment
      BY <2>1, AddableInUnion
    <2>4. /\ currentpoints' \subseteq Matrix /\ ea' \subseteq 1..N /\ fa' \subseteq 1..M
          /\ A' \in [Matrix -> {-1, 0, 1, 2}]
          /\ WithinUnion' /\ CopiesAgree'
      BY <2>1, <2>2, <2>3, InsertKeeps
    <2>5. o' \in 0..8
      BY <2>1, NeighborNumber DEF TypeOK
    <2>6. TypeOK'
      BY <2>2, <2>4, <2>5 DEF TypeOK
    <2>7. Settled'
      BY <2>2 DEF Settled
    <2>8. Scanned'
      <3>1. k # Begin /\ k \in currentpoints /\ currentpoints \subseteq currentpoints'
        BY <1>3, <2>1 DEF AddNeighbor, Insert, Scanned
      <3> QED
        BY <2>2, <3>1 DEF Scanned
    <2> QED
      BY <2>4, <2>6, <2>7, <2>8
  <1>4. CASE NextPoint
    <2>1. k' \in currentpoints /\ o' = 0 /\ pc = "grow" /\ NoneToAdd
          /\ FirstAfter(k, currentpoints, k')
          /\ UNCHANGED <<opt, a, b, ea, fa, A, currentpoints, added, pc, printed>>
      BY <1>4 DEF NextPoint
    <2>2. TypeOK'
      BY <2>1 DEF TypeOK
    <2>3. WithinUnion' /\ CopiesAgree'
      BY <2>1, <1>0 DEF WithinUnion, CopiesAgree
    <2>4. Settled'
      BY <2>1 DEF Settled
    <2>5. ASSUME ~added, NEW q \in currentpoints, Before(q, k')
          PROVE  \A x \in 1..NeighborsUsed : ~Addable(NeighborOf(q, x))
      BY <2>1, <2>5, PassedClosed DEF FirstAfter
    <2>6. \A q, x : Addable(NeighborOf(q, x))' <=> Addable(NeighborOf(q, x))
      BY <2>1 DEF Addable, BothCovered, NeighborOf
    <2>7. k' # Begin
      BY <2>1, BeginOutside DEF TypeOK
    <2>8. NeighborsUsed' = NeighborsUsed /\ \A x : x \notin 1..o'
      BY <2>1 DEF NeighborsUsed
    <2>9. Scanned'
      BY <2>1, <2>5, <2>6, <2>7, <2>8 DEF Scanned
    <2> QED
      BY <2>2, <2>3, <2>4, <2>9
  <1>5. CASE ScanAgain
    <2>1. pc = "grow" /\ k' = Begin /\ o' = 0 /\ added' = FALSE
          /\ UNCHANGED <<opt, a, b, ea, fa, A, currentpoints, pc, printed>>
      BY <1>5 DEF ScanAgain, ScanEnds
    <2>2. TypeOK'
      <3>1. added' \in BOOLEAN
        BY <2>1, Zenon
      <3>2. k' \in Matrix \union {Begin} /\ o' \in 0..8
        BY <2>1
      <3> QED
        BY <2>1, <3>1, <3>2, Zenon DEF TypeOK
    <2>3. WithinUnion' /\ CopiesAgree'
      BY <2>1, <1>0 DEF WithinUnion, CopiesAgree
    <2>4. Settled'
      BY <2>1 DEF Settled
    <2>5. ASSUME NEW q \in currentpoints
          PROVE  q # Begin /\ ~Before(q, Begin)
      BY BeginOutside DEF TypeOK
    <2>6. Scanned'
      BY <2>1, <2>5 DEF Scanned
    <2> QED
      BY <2>2, <2>3, <2>4, <2>6
  <1>6. CASE Grown
    <2>1. pc = "grow" /\ k' = Begin /\ o' = 0
          /\ pc' = (IF opt.final THEN "inverse" ELSE "print")
          /\ UNCHANGED <<opt, a, b, ea, fa, A, currentpoints, added, printed>>
      BY <1>6 DEF Grown, ScanEnds
    <2>2. TypeOK'
      BY <2>1 DEF TypeOK
    <2>3. WithinUnion' /\ CopiesAgree'
      BY <2>1, <1>0 DEF WithinUnion, CopiesAgree
    <2>4. Settled'
      <3>1. \A p \in Inverse : Before(Begin, p)
        BY PointsInMatrix, OrderFacts
      <3>2. Inverse' = Inverse
        BY <2>1, <1>0
      <3> QED
        BY <2>1, <3>1, <3>2 DEF Settled, Before
    <2>5. Scanned'
      BY <2>1 DEF Scanned
    <2> QED
      BY <2>2, <2>3, <2>4, <2>5
  <1>7. CASE AddFinal
    <2>1. PICK p \in Unionalignment :
             /\ FirstAfter(k, {q \in Unionalignment : FinalAdds(q)}, p)
             /\ Insert(p) /\ k' = p
      BY <1>7 DEF AddFinal
    <2>2. pc \in {"inverse", "direct"} /\ UNCHANGED <<opt, a, b, o, added, pc, printed>>
      BY <1>7 DEF AddFinal
    <2>3. /\ currentpoints' \subseteq Matrix /\ ea' \subseteq 1..N /\ fa' \subseteq 1..M
          /\ A' \in [Matrix -> {-1, 0, 1, 2}]
          /\ WithinUnion' /\ CopiesAgree'
          /\ Dealt(p)'
          /\ \A q : Dealt(q) => Dealt(q)'
      BY <2>1, <2>2, InsertKeeps
    <2>4. TypeOK'
      BY <2>1, <2>2, <2>3, PointsInMatrix DEF TypeOK
    <2>5. ASSUME NEW q \in Unionalignment, ~Before(p, q),
                 q \in IF pc = "inverse" THEN Inverse ELSE Direct
          PROVE  Dealt(q)'
      <3>1. p \in Matrix /\ q \in Matrix
        BY PointsInMatrix
      <3>2. CASE q = p
        BY <3>2, <2>3
      <3>3. CASE ~Before(k, q)
        <4>1. Dealt(q)
          BY <3>3, <2>2, <2>5 DEF Settled
        <4> QED
          BY <4>1, <2>3
      <3>4. CASE q # p /\ Before(k, q)
        <4>1. Before(q, p)
          BY <3>1, <3>4, <2>5, OrderFacts
        <4>2. ~FinalAdds(q)
          BY <2>1, <3>4, <4>1 DEF FirstAfter
        <4>3. Dealt(q)
          BY <4>2, <2>2, <2>5, <3>1, NotAddedDealt
        <4> QED
          BY <4>3, <2>3
      <3> QED
        BY <3>2, <3>3, <3>4
    <2>6. Settled'
      <3>1. Direct' = Direct /\ Inverse' = Inverse
        BY <2>2, <1>0
      <3>2. Direct \subseteq Unionalignment /\ Inverse \subseteq Unionalignment
        BY DEF Unionalignment
      <3>3. ASSUME pc = "inverse", NEW q \in Inverse, ~Before(p, q)
            PROVE  Dealt(q)'
        BY <3>2, <3>3, <2>5
      <3>4. ASSUME pc = "direct", NEW q \in Direct, ~Before(p, q)
            PROVE  Dealt(q)'
        BY <3>2, <3>4, <2>5
      <3>5. ASSUME pc = "direct", NEW q \in Inverse
            PROVE  Dealt(q)'
        BY <3>5, <2>3 DEF Settled
      <3>6. pc' = pc /\ k' = p
        BY <2>1, <2>2
      <3> QED
        BY <3>1, <3>3, <3>4, <3>5, <3>6, <2>2 DEF Settled
    <2>7. Scanned'
      BY <2>2 DEF Scanned
    <2> QED
      BY <2>3, <2>4, <2>6, <2>7
  <1>8. CASE FinalEnds
    <2>1. pc \in {"inverse", "direct"} /\ k' = Begin
          /\ pc' = (IF pc = "inverse" THEN "direct" ELSE "print")
          /\ UNCHANGED <<opt, a, b, ea, fa, A, currentpoints, o, added, printed>>
      BY <1>8 DEF FinalEnds
    <2>2. TypeOK'
      BY <2>1 DEF TypeOK
    <2>3. Direct' = Direct /\ Inverse' = Inverse /\ Unionalignment' = Unionalignment
          /\ Intersection' = Intersection
      BY <2>1, <1>0
    <2>4. WithinUnion' /\ CopiesAgree'
      BY <2>1, <2>3 DEF WithinUnion, CopiesAgree
    <2>5. ASSUME NEW q \in (IF pc = "inverse" THEN Inverse ELSE Direct)
          PROVE  Dealt(q)
      <3>1. q \in Unionalignment /\ q \in Matrix
        BY PointsInMatrix DEF Unionalignment
      <3>2. CASE ~Before(k, q)
        BY <3>2, <2>1, <2>5 DEF Settled
      <3>3. CASE Before(k, q)
        <4>1. ~FinalAdds(q)
          BY <1>8, <3>1, <3>3 DEF FinalEnds
        <4> QED
          BY <4>1, <2>1, <2>5, <3>1, NotAddedDealt
      <3> QED
        BY <3>2, <3>3
    <2>6. \A q : Dealt(q)' <=> Dealt(q)
      BY <2>1 DEF Dealt, BothCovered
    <2>7. ASSUME pc = "inverse"
          PROVE  Settled'
      <3>1. \A q \in Direct : Before(k', q)
        BY <2>1, PointsInMatrix, OrderFacts
      <3>2. \A q \in Inverse : Dealt(q)
        BY <2>5, <2>7
      <3>3. pc' = "direct"
        BY <2>1, <2>7
      <3>4. \A q \in Direct' : Before(k, q)'
        BY <3>1, <2>3 DEF Before
      <3> QED
        BY <3>2, <3>3, <3>4, <2>3, <2>6 DEF Settled
    <2>8. ASSUME pc = "direct"
          PROVE  Settled'
      <3>1. \A q \in Inverse : Dealt(q)
        BY <2>8 DEF Settled
      <3>2. \A q \in Direct : Dealt(q)
        BY <2>5, <2>8
      <3>3. \A q \in Unionalignment : Dealt(q)
        BY <3>1, <3>2 DEF Unionalignment
      <3>4. pc' = "print"
        BY <2>1, <2>8
      <3> QED
        BY <3>3, <3>4, <2>3, <2>6 DEF Settled
    <2>9. Scanned'
      BY <2>1 DEF Scanned
    <2> QED
      BY <2>1, <2>2, <2>4, <2>7, <2>8, <2>9
  <1>9. CASE PrintGrown
    <2>1. printed' \subseteq (0..M - 1) \X (0..N - 1)
      BY <1>9, OutInRange DEF PrintGrown, TypeOK
    <2>2. TypeOK'
      BY <1>9, <2>1 DEF PrintGrown, TypeOK
    <2>3. WithinUnion' /\ CopiesAgree' /\ Settled' /\ Scanned'
      BY <1>9, <1>0 DEF PrintGrown, WithinUnion, CopiesAgree, Settled, Scanned
    <2> QED
      BY <2>2, <2>3
  <1>10. CASE Exit
    <2>1. a' \in [1..M -> 0..N] /\ b' \in [1..N -> 0..M]
      BY <1>10, SymalAssumption DEF Exit
    <2>2. A' \in [Matrix -> {-1, 0, 1, 2}]
      BY <1>10 DEF Exit
    <2>3. opt' \in Options
      BY <1>10 DEF Exit, TypeOK
    <2>4. pc' = "exited" /\ ea' = {} /\ fa' = {} /\ currentpoints' = {} /\ k' = Begin
          /\ o' = 0 /\ added' = FALSE /\ printed' = printed
      BY <1>10 DEF Exit
    <2>5. TypeOK'
      <3>1. added' \in BOOLEAN
        BY <2>4, Zenon
      <3>2. k' \in Matrix \union {Begin} /\ o' \in 0..8
        BY <2>4
      <3>3. printed' \subseteq (0..M - 1) \X (0..N - 1)
        BY <2>4 DEF TypeOK
      <3>4. ea' \subseteq 1..N /\ fa' \subseteq 1..M /\ currentpoints' \subseteq Matrix
        BY <2>4
      <3>5. pc' \in {"start", "grow", "inverse", "direct", "print", "done", "exited"}
        BY <2>4
      <3> QED
        BY <2>1, <2>2, <2>3, <3>1, <3>2, <3>3, <3>4, <3>5, Zenon DEF TypeOK
    <2>6. WithinUnion' /\ CopiesAgree' /\ Settled' /\ Scanned'
      BY <2>4 DEF WithinUnion, CopiesAgree, Settled, Scanned
    <2> QED
      BY <2>5, <2>6
  <1>11. CASE UNCHANGED vars
    <2>1. UNCHANGED <<opt, a, b, ea, fa, A, currentpoints, k, o, added, pc, printed>>
      BY <1>11 DEF vars
    <2>2. \A q : Dealt(q)' <=> Dealt(q)
      BY <2>1 DEF Dealt, BothCovered
    <2>3. \A q, x : Addable(NeighborOf(q, x))' <=> Addable(NeighborOf(q, x))
      BY <2>1 DEF Addable, BothCovered, NeighborOf
    <2>4. NeighborsUsed' = NeighborsUsed
      BY <2>1 DEF NeighborsUsed
    <2>5. TypeOK' /\ WithinUnion' /\ CopiesAgree'
      BY <2>1, <1>0 DEF TypeOK, WithinUnion, CopiesAgree
    <2>6. Settled'
      BY <2>1, <2>2, <1>0 DEF Settled
    <2>7. Scanned'
      BY <2>1, <2>3, <2>4 DEF Scanned
    <2> QED
      BY <2>5, <2>6, <2>7
  <1> QED
    BY <1>1, <1>2, <1>3, <1>4, <1>5, <1>6, <1>7, <1>8, <1>9, <1>10, <1>11 DEF Next, Step

THEOREM Invariance == Spec => []IInv
  BY InitIInv, StepIInv, PTL DEF Spec

-----------------------------------------------------------------------------
(***************************************************************************)
(* The types: in particular a line printed names only words of the pair.   *)
(***************************************************************************)
THEOREM TypeCorrect == Spec => []TypeOK
  BY Invariance, PTL DEF IInv

(***************************************************************************)
(* Growing never leaves the union and never loses the intersection, for    *)
(* any two alignments (the comment at symal.cpp:224).                      *)
(***************************************************************************)
THEOREM StaysWithinUnion == Spec => []WithinUnion
  BY Invariance, PTL DEF IInv

(***************************************************************************)
(* The covered words and the matrix always say what the set of points says.*)
(***************************************************************************)
THEOREM CopiesAlwaysAgree == Spec => []CopiesAgree
  BY Invariance, PTL DEF IInv

(***************************************************************************)
(* The unrestricted final step leaves no aligned word without a point.     *)
(***************************************************************************)
THEOREM FinalCoversUnion == Spec => []FinalCovers
  <1>1. IInv => FinalCovers
    <2> SUFFICES ASSUME IInv, pc = "print", opt.final, ~opt.bothuncovered,
                        NEW p \in Unionalignment
                 PROVE  BothCovered(p)
      BY DEF FinalCovers
    <2>1. Dealt(p)
      BY DEF IInv, Settled
    <2>2. p \in currentpoints => BothCovered(p)
      BY PointsCovered DEF IInv
    <2> QED
      BY <2>1, <2>2 DEF Dealt
  <1> QED
    BY Invariance, <1>1, PTL

-----------------------------------------------------------------------------
(***************************************************************************)
(* The refinement: every step of symal is a step of GrowingAlignment or    *)
(* changes nothing it speaks of.                                           *)
(***************************************************************************)
LEMMA SamePoints ==
    /\ Growing!GMatrix = Matrix /\ Growing!GDirect = Direct /\ Growing!GInverse = Inverse
    /\ Growing!GrowsTo = Unionalignment
  BY DEF Growing!GMatrix, Matrix, Growing!GDirect, Direct, Growing!GInverse, Inverse,
     Growing!GrowsTo, Unionalignment

LEMMA SameCover ==
    ASSUME CopiesAgree, pc \in {"grow", "inverse", "direct", "print"}, NEW p
    PROVE  /\ Growing!Covered(p) <=> BothCovered(p)
           /\ Growing!Fresh(p) <=> (p[1] \notin ea /\ p[2] \notin fa)
  BY DEF CopiesAgree, BothCovered, Growing!Covered, Growing!Fresh

\* The neighbours tried are the points next to a point.
LEMMA NeighborsAreClose ==
    ASSUME NEW p \in Matrix, NEW q \in Matrix
    PROVE  Growing!Close(p, q) <=> \E x \in 1..NeighborsUsed : p = NeighborOf(q, x)
  <1>1. /\ p[1] \in Int /\ p[2] \in Int /\ q[1] \in Int /\ q[2] \in Int
        /\ p = <<p[1], p[2]>>
    BY SymalAssumption DEF Matrix
  <1>2. \A x : p = NeighborOf(q, x) <=> /\ p[1] = q[1] + Neighbors[x][1]
                                        /\ p[2] = q[2] + Neighbors[x][2]
    BY <1>1 DEF NeighborOf
  <1> DEFINE At(x) == p[1] = q[1] + Neighbors[x][1] /\ p[2] = q[2] + Neighbors[x][2]
  <1>3. /\ At(1) <=> (p[1] = q[1] - 1 /\ p[2] = q[2])
        /\ At(2) <=> (p[1] = q[1] /\ p[2] = q[2] - 1)
        /\ At(3) <=> (p[1] = q[1] + 1 /\ p[2] = q[2])
        /\ At(4) <=> (p[1] = q[1] /\ p[2] = q[2] + 1)
    BY <1>1 DEF Neighbors
  <1>4. /\ At(5) <=> (p[1] = q[1] - 1 /\ p[2] = q[2] - 1)
        /\ At(6) <=> (p[1] = q[1] - 1 /\ p[2] = q[2] + 1)
        /\ At(7) <=> (p[1] = q[1] + 1 /\ p[2] = q[2] - 1)
        /\ At(8) <=> (p[1] = q[1] + 1 /\ p[2] = q[2] + 1)
    BY <1>1 DEF Neighbors
  <1>5. Growing!Close(p, q) <=>
           \/ At(1) \/ At(2) \/ At(3) \/ At(4)
           \/ opt.diagonal /\ (At(5) \/ At(6) \/ At(7) \/ At(8))
    <2> HIDE DEF At
    <2>1. (p[1] = q[1] /\ p[2] - q[2] \in {-1, 1}) <=> (At(2) \/ At(4))
      BY <1>1, <1>3
    <2>2. (p[2] = q[2] /\ p[1] - q[1] \in {-1, 1}) <=> (At(1) \/ At(3))
      BY <1>1, <1>3
    <2>3. (p[1] - q[1] \in {-1, 1} /\ p[2] - q[2] \in {-1, 1})
             <=> (At(5) \/ At(6) \/ At(7) \/ At(8))
      BY <1>1, <1>4
    <2> QED
      BY <2>1, <2>2, <2>3 DEF Growing!Close
  <1>6. 1..4 = {1, 2, 3, 4} /\ 1..8 = {1, 2, 3, 4, 5, 6, 7, 8}
    OBVIOUS
  <1>7. (\E x \in 1..NeighborsUsed : At(x)) <=>
           \/ At(1) \/ At(2) \/ At(3) \/ At(4)
           \/ opt.diagonal /\ (At(5) \/ At(6) \/ At(7) \/ At(8))
    <2> HIDE DEF At
    <2>1. CASE opt.diagonal
      BY <2>1, <1>6 DEF NeighborsUsed
    <2>2. CASE ~opt.diagonal
      BY <2>2, <1>6 DEF NeighborsUsed
    <2> QED
      BY <2>1, <2>2
  <1> QED
    BY <1>2, <1>5, <1>7

LEMMA SameGrowth ==
    ASSUME TypeOK, CopiesAgree, pc = "grow", NEW q \in currentpoints,
           NEW x \in 1..NeighborsUsed, Addable(NeighborOf(q, x))
    PROVE  Growing!Grows(NeighborOf(q, x))
  <1> DEFINE p == NeighborOf(q, x)
  <1>1. p \in Matrix /\ q \in Matrix
    BY DEF Addable, TypeOK
  <1>2. p \in Growing!GrowsTo
    BY AddableInUnion, SamePoints
  <1>3. ~Growing!Covered(p)
    BY SameCover DEF Addable
  <1>4. Growing!Close(p, q)
    BY <1>1, NeighborsAreClose
  <1> QED
    BY <1>2, <1>3, <1>4 DEF Growing!Grows

LEMMA SpecInit == Init => Growing!GInit
  BY DEF Init, Growing!GInit

LEMMA StepRefines == IInv /\ [Next]_vars => [Growing!GNext]_(Growing!gvars)
  <1> SUFFICES ASSUME IInv, [Next]_vars
               PROVE  Growing!GNext \/ UNCHANGED Growing!gvars
    OBVIOUS
  <1> USE DEF IInv
  <1>1. CASE PrintPlain
    <2>1. Growing!GSkip
      BY <1>1 DEF PrintPlain, Growing!GSkip
    <2> QED
      BY <2>1 DEF Growing!GNext
  <1>2. CASE Fill
    <2>1. Growing!GStart
      BY <1>2, SamePoints DEF Fill, Intersection, Growing!GStart
    <2> QED
      BY <2>1 DEF Growing!GNext
  <1>3. CASE AddNeighbor
    <2>1. PICK x \in o + 1..NeighborsUsed :
             Addable(Neighbor(x)) /\ Insert(Neighbor(x))
      BY <1>3 DEF AddNeighbor, AddsNext
    <2>2. pc = "grow" /\ k \in currentpoints /\ UNCHANGED <<opt, a, b, pc>>
      BY <1>3 DEF AddNeighbor, Scanned
    <2>3. x \in 1..NeighborsUsed
      BY DEF TypeOK, NeighborsUsed
    <2>4. Neighbor(x) = NeighborOf(k, x)
      BY DEF Neighbor, NeighborOf
    <2>5. Growing!Grows(Neighbor(x))
      BY <2>1, <2>2, <2>3, <2>4, SameGrowth
    <2>6. Neighbor(x) \in Growing!GMatrix
      BY <2>1, SamePoints DEF Addable
    <2>7. Growing!GGrow
      BY <2>1, <2>2, <2>5, <2>6 DEF Insert, Growing!GGrow
    <2> QED
      BY <2>7 DEF Growing!GNext
  <1>4. CASE NextPoint
    BY <1>4 DEF NextPoint, Growing!gvars
  <1>5. CASE ScanAgain
    BY <1>5 DEF ScanAgain, ScanEnds, Growing!gvars
  <1>6. CASE Grown
    <2>1. pc = "grow" /\ ~added /\ NoneToAdd /\ (\A q \in currentpoints : ~Before(k, q))
          /\ pc' \in {"inverse", "print"} /\ UNCHANGED <<opt, a, b, currentpoints>>
      BY <1>6 DEF Grown, ScanEnds
    <2>2. ASSUME NEW p \in Matrix, Growing!Grows(p)
          PROVE  FALSE
      <3>1. PICK q \in currentpoints : Growing!Close(p, q)
        BY <2>2 DEF Growing!Grows
      <3>2. PICK x \in 1..NeighborsUsed : p = NeighborOf(q, x)
        BY <3>1, NeighborsAreClose DEF TypeOK
      <3>3. ~Addable(p)
        BY <2>1, <3>2, PassedClosed
      <3>4. p \in Unionalignment /\ ~BothCovered(p)
        BY <2>1, <2>2, SamePoints, SameCover DEF Growing!Grows
      <3>5. Addable(p)
        BY <3>4 DEF Addable, Unionalignment, Direct, Inverse
      <3> QED
        BY <3>3, <3>5
    <2>3. Growing!GGrown
      BY <2>1, <2>2, SamePoints DEF Growing!GGrown
    <2> QED
      BY <2>3 DEF Growing!GNext
  <1>7. CASE AddFinal
    <2>1. PICK p \in Unionalignment : FinalAdds(p) /\ Insert(p)
      BY <1>7 DEF AddFinal, FirstAfter
    <2>2. pc \in {"inverse", "direct"} /\ UNCHANGED <<opt, a, b, pc>>
      BY <1>7 DEF AddFinal
    <2>3. p \in Matrix
      BY PointsInMatrix
    <2>4. p \notin currentpoints
      BY <2>1, <2>2, <2>3 DEF FinalAdds, FinalMark, CopiesAgree
    <2>5. Growing!Completes(p)
      BY <2>1, <2>2, <2>4, SamePoints, SameCover DEF FinalAdds, Growing!Completes
    <2>6. opt.final
      BY <2>2 DEF Scanned
    <2>7. Growing!GFinal
      BY <2>1, <2>2, <2>3, <2>5, <2>6, SamePoints DEF Insert, Growing!GFinal
    <2> QED
      BY <2>7 DEF Growing!GNext
  <1>8. CASE FinalEnds
    BY <1>8 DEF FinalEnds, Growing!gvars
  <1>9. CASE PrintGrown
    <2>1. ASSUME opt.final, NEW p \in Matrix
          PROVE  ~Growing!Completes(p)
      <3>1. pc = "print"
        BY <1>9 DEF PrintGrown
      <3>2. p \in Unionalignment => Dealt(p)
        BY <2>1, <3>1 DEF Settled
      <3>3. Dealt(p) => \/ p \in currentpoints
                       \/ IF opt.bothuncovered THEN ~Growing!Fresh(p) ELSE Growing!Covered(p)
        BY <3>1, SameCover DEF Dealt
      <3> QED
        BY <3>2, <3>3, SamePoints DEF Growing!Completes
    <2>2. Growing!GPrint
      BY <1>9, <2>1, SamePoints DEF PrintGrown, Growing!GPrint
    <2> QED
      BY <2>2 DEF Growing!GNext
  <1>10. CASE Exit
    <2>1. Growing!GExit
      BY <1>10 DEF Exit, Growing!GExit
    <2> QED
      BY <2>1 DEF Growing!GNext
  <1>11. CASE UNCHANGED vars
    BY <1>11 DEF vars, Growing!gvars
  <1> QED
    BY <1>1, <1>2, <1>3, <1>4, <1>5, <1>6, <1>7, <1>8, <1>9, <1>10, <1>11 DEF Next, Step

(***************************************************************************)
(* symal implements GrowingAlignment: no scan of the growing set ends the  *)
(* loop too early, and the final step leaves nothing it should have added. *)
(***************************************************************************)
THEOREM SymalImplementsGrowing == Spec => ImplementsGrowing
  BY SpecInit, StepRefines, Invariance, PTL DEF Spec, ImplementsGrowing, Growing!GSpec

-----------------------------------------------------------------------------
(***************************************************************************)
(* Phrase extraction.  What the loops over the target spans have found,    *)
(* told from the alignment alone.                                          *)
(***************************************************************************)

\* The blocks the loops have to find.
Extractable ==
    {p \in Blocks : /\ StartF(p) <= EndF(p) /\ StartE(p) <= EndE(p)
                    /\ RelaxLimit \/ WithinLimit(p)
                    /\ Consistent(p)}

\* Its target span lies behind the loops.
Passed(p) == \/ StartE(p) < span[1]
             \/ StartE(p) = span[1] /\ EndE(p) < span[2]

Found == {p \in Extractable : Passed(p)}

\* The loops stay inside the sentence and below the length limit.
SpanInRange ==
    /\ span \in (0..CountE) \X (0..CountE)
    /\ span[1] <= span[2]
    /\ span[1] < CountE =>
         span[2] < CountE /\ (RelaxLimit \/ span[2] < span[1] + Limit)

ExtractTypeOK ==
    /\ stage \in {"wait", "spans", "orient", "written"}
    /\ alignedToT \in [0..CountE - 1 -> SUBSET (0..CountF - 1)]
    /\ stage = "wait" => /\ span = <<0, 0>>
                         /\ inbound = {} /\ outbound = {} /\ extracted = {}
    /\ stage # "wait" => m_options \in ExtractOptions /\ SpanInRange
    /\ stage \in {"orient", "written"} => span[1] = CountE
    /\ stage = "orient" => BuildExtraStructure

\* What the blocks found so far have been made of.
FoundIsKept ==
    stage # "wait" =>
       IF BuildExtraStructure
       THEN /\ inbound = {p \in Found : WithinLimit(p)}
            /\ outbound = {p \in Found : ~WithinLimit(p)}
            /\ extracted = IF stage = "written" THEN {Line(p) : p \in inbound} ELSE {}
       ELSE {x.block : x \in extracted} = Found

ExtractInv == ExtractTypeOK /\ FoundIsKept

(***************************************************************************)
(* Spans of natural numbers and blocks.                                    *)
(***************************************************************************)
LEMMA LeastAndGreatest ==
    ASSUME NEW n \in Nat, NEW S, S \subseteq 0..n - 1, S # {}
    PROVE  \E lo, hi \in S : \A f \in S : lo <= f /\ f <= hi
  <1> DEFINE R == {ss \in Nat \X Nat : ss[1] < ss[2]}
             T == {n - f : f \in S}
  <1>1. IsWellFoundedOn(R, Nat)
    BY NatLessThanWellFounded DEF OpToRel
  <1>2. ASSUME NEW U, U \subseteq Nat, U # {}
        PROVE  \E x \in U : \A y \in U : x <= y
    <2>1. \E x \in U : \A y \in U : ~(<<y, x>> \in R)
      <3> HIDE DEF R
      <3> QED
        BY <1>1, <1>2, WFMin
    <2>2. PICK x \in U : \A y \in U : ~(<<y, x>> \in R)
      BY <2>1
    <2>3. ASSUME NEW y \in U
          PROVE  x <= y
      <3>1. x \in Nat /\ y \in Nat
        BY <1>2
      <3>2. <<y, x>> \in Nat \X Nat /\ <<y, x>>[1] = y /\ <<y, x>>[2] = x
        BY <3>1
      <3>3. ~(y < x)
        BY <2>2, <3>2
      <3> QED
        BY <3>1, <3>3
    <2> QED
      BY <2>3
  <1>3. \A f \in S : f \in Nat /\ f <= n
    OBVIOUS
  <1>4. T \subseteq Nat /\ T # {}
    <2>1. \A f \in S : n - f \in Nat
      BY <1>3
    <2> QED
      BY <2>1
  <1>5. PICK lo \in S : \A f \in S : lo <= f
    BY <1>2, <1>3
  <1>6. PICK t \in T : \A x \in T : t <= x
    <2> HIDE DEF T
    <2> QED
      BY <1>2, <1>4
  <1>7. PICK hi \in S : t = n - hi
    OBVIOUS
  <1>8. ASSUME NEW f \in S
        PROVE  f <= hi
    <2>1. n - hi <= n - f
      BY <1>6, <1>7
    <2> QED
      BY <2>1, <1>3
  <1> QED
    BY <1>5, <1>8

LEMMA BlockTypes ==
    ASSUME NEW p \in Blocks
    PROVE  /\ StartF(p) \in 0..CountF - 1 /\ EndF(p) \in 0..CountF - 1
           /\ StartE(p) \in 0..CountE - 1 /\ EndE(p) \in 0..CountE - 1
           /\ StartF(p) \in Nat /\ EndF(p) \in Nat
           /\ StartE(p) \in Nat /\ EndE(p) \in Nat
           /\ StartF(p) < CountF /\ EndF(p) < CountF
           /\ StartE(p) < CountE /\ EndE(p) < CountE
  <1>1. /\ StartF(p) \in 0..CountF - 1 /\ EndF(p) \in 0..CountF - 1
        /\ StartE(p) \in 0..CountE - 1 /\ EndE(p) \in 0..CountE - 1
    BY DEF Blocks, StartF, EndF, StartE, EndE
  <1>2. CountF \in Nat /\ CountE \in Nat
    BY ExtractAssumption
  <1>3. ASSUME NEW c \in Nat, NEW x \in 0..c - 1
        PROVE  x \in Nat /\ x < c
    OBVIOUS
  <1> QED
    BY <1>1, <1>2, <1>3

LEMMA SettingTypes ==
    ASSUME m_options \in ExtractOptions
    PROVE  /\ Limit \in Nat /\ Limit > 0
           /\ m_options.models \in SUBSET {"word", "phrase", "hier"}
           /\ m_options.type \in {"mono", "msd", "mslr"}
  <1>1. m_options \in [models : SUBSET {"word", "phrase", "hier"},
                       type : {"mono", "msd", "mslr"},
                       maxPhraseLength : Nat \ {0}]
    BY ExtractAssumption
  <1> QED
    BY <1>1 DEF Limit

\* The source words of the target words from s to e.
LEMMA SourceOfSpan ==
    ASSUME NEW s, NEW e, NEW f
    PROVE  f \in SourceOf(s, e) <=> \E x \in s..e : f \in alignedToT[x]
  BY DEF SourceOf

\* A block the loops find has a point inside and none half inside.
LEMMA FoundConsistent ==
    ASSUME ExtractTypeOK, m_options \in ExtractOptions,
           NEW s \in 0..CountE - 1, NEW e \in 0..CountE - 1, NEW p \in BlocksOf(s, e)
    PROVE  /\ StartF(p) <= EndF(p) /\ StartE(p) <= EndE(p)
           /\ RelaxLimit \/ EndF(p) - StartF(p) < Limit
           /\ Consistent(p)
  <1>1. p \in Blocks /\ StartE(p) = s /\ EndE(p) = e
    BY DEF BlocksOf
  <1>2. PICK minF, maxF \in SourceOf(s, e) :
             /\ \A f \in SourceOf(s, e) : minF <= f /\ f <= maxF
             /\ \A f \in minF..maxF : ~OutOfBounds(f, s, e)
             /\ StartF(p) <= minF /\ Retreat(minF, maxF, StartF(p))
             /\ EndF(p) >= maxF /\ Advance(maxF, StartF(p), EndF(p))
    BY DEF BlocksOf
  <1>3. CountF \in Nat /\ CountE \in Nat
    BY ExtractAssumption
  <1>4. \A x \in s..e : x \in 0..CountE - 1
    BY <1>3
  <1>5. \A x \in 0..CountE - 1 : alignedToT[x] \subseteq 0..CountF - 1
    BY DEF ExtractTypeOK
  <1>6. SourceOf(s, e) \subseteq 0..CountF - 1
    BY <1>4, <1>5, SourceOfSpan
  <1>7. minF \in Int /\ maxF \in Int /\ StartF(p) \in Int /\ EndF(p) \in Int
    BY <1>1, <1>6, BlockTypes
  <1>8. PICK y \in s..e : minF \in alignedToT[y]
    BY SourceOfSpan
  <1>9. minF <= maxF
    BY <1>2
  <1>10. StartF(p) <= EndF(p) /\ minF \in StartF(p)..EndF(p)
    BY <1>2, <1>7, <1>9
  <1>11. s <= e
    BY <1>3, <1>8
  <1>12. RelaxLimit \/ EndF(p) - StartF(p) < Limit
    BY <1>2, <1>7, SettingTypes DEF Advance
  <1>13. ASSUME NEW x \in s..e
         PROVE  alignedToT[x] \subseteq StartF(p)..EndF(p)
    <2>1. SUFFICES ASSUME NEW f \in alignedToT[x]
                   PROVE  f \in StartF(p)..EndF(p)
      OBVIOUS
    <2>2. f \in SourceOf(s, e)
      BY SourceOfSpan
    <2>3. minF <= f /\ f <= maxF /\ f \in Int
      BY <1>2, <1>6, <2>2
    <2> QED
      BY <1>2, <1>7, <2>3
  <1>14. ASSUME NEW x \in (0..CountE - 1) \ (s..e), NEW f \in alignedToT[x],
                f \in StartF(p)..EndF(p)
         PROVE  FALSE
    <2>1. f \in Int
      BY <1>14, <1>7
    <2>2. AlignedS(f)
      BY DEF AlignedS
    <2>3. CASE f < minF
      <3>1. f \in StartF(p)..minF - 1
        BY <1>7, <1>14, <2>1, <2>3
      <3> QED
        BY <1>2, <2>2, <3>1 DEF Retreat
    <2>4. CASE f > maxF
      <3>1. f \in maxF + 1..EndF(p)
        BY <1>7, <1>14, <2>1, <2>4
      <3> QED
        BY <1>2, <2>2, <3>1 DEF Advance
    <2>5. CASE minF <= f /\ f <= maxF
      <3>1. OutOfBounds(f, s, e)
        BY DEF OutOfBounds
      <3>2. f \in minF..maxF
        BY <1>7, <2>1, <2>5
      <3> QED
        BY <1>2, <3>1, <3>2
    <2> QED
      BY <1>7, <2>1, <2>3, <2>4, <2>5
  <1>15. Consistent(p)
    <2>1. \E x \in StartE(p)..EndE(p) : alignedToT[x] \intersect (StartF(p)..EndF(p)) # {}
      BY <1>1, <1>8, <1>10
    <2> QED
      BY <1>1, <1>13, <1>14, <2>1 DEF Consistent
  <1> QED
    BY <1>1, <1>10, <1>11, <1>12, <1>15

\* The loops miss no consistent block of the target span they are at.
LEMMA ConsistentFound ==
    ASSUME ExtractTypeOK, m_options \in ExtractOptions,
           NEW p \in Blocks, StartF(p) <= EndF(p), StartE(p) <= EndE(p),
           RelaxLimit \/ EndF(p) - StartF(p) < Limit,
           Consistent(p)
    PROVE  p \in BlocksOf(StartE(p), EndE(p))
  <1> DEFINE s == StartE(p)
             e == EndE(p)
             S == SourceOf(s, e)
  <1>1. CountF \in Nat /\ CountE \in Nat
    BY ExtractAssumption
  <1>2. s \in 0..CountE - 1 /\ e \in 0..CountE - 1
    BY BlockTypes
  <1>3. \A x \in s..e : alignedToT[x] \subseteq StartF(p)..EndF(p)
    <2>1. \A x \in s..e : x \in 0..CountE - 1
      BY <1>1, <1>2
    <2> QED
      BY <2>1 DEF Consistent
  <1>4. \A x \in (0..CountE - 1) \ (s..e) :
           alignedToT[x] \intersect (StartF(p)..EndF(p)) = {}
    BY DEF Consistent
  <1>5. S \subseteq StartF(p)..EndF(p)
    BY <1>3, SourceOfSpan
  <1>6. S # {}
    <2>1. PICK x \in s..e : alignedToT[x] \intersect (StartF(p)..EndF(p)) # {}
      BY DEF Consistent
    <2> QED
      BY <2>1, SourceOfSpan
  <1>7. StartF(p) \in Int /\ EndF(p) \in Int /\ StartF(p) >= 0 /\ EndF(p) < CountF
    BY BlockTypes
  <1>8. S \subseteq 0..CountF - 1
    BY <1>1, <1>5, <1>7
  <1>9. PICK minF, maxF \in S : \A f \in S : minF <= f /\ f <= maxF
    <2> HIDE DEF S
    <2> QED
      BY <1>1, <1>6, <1>8, LeastAndGreatest
  <1>10. /\ minF \in Int /\ maxF \in Int /\ minF <= maxF
         /\ StartF(p) <= minF /\ maxF <= EndF(p)
    BY <1>5, <1>7, <1>9
  <1>11. ASSUME NEW f \in StartF(p)..EndF(p)
         PROVE  ~OutOfBounds(f, s, e)
    BY <1>4 DEF OutOfBounds
  <1>12. ASSUME NEW f \in StartF(p)..EndF(p), AlignedS(f)
         PROVE  minF <= f /\ f <= maxF
    <2>1. PICK x \in 0..CountE - 1 : f \in alignedToT[x]
      BY <1>12 DEF AlignedS
    <2>2. x \in s..e
      BY <1>4, <2>1
    <2>3. f \in S
      BY <2>1, <2>2, SourceOfSpan
    <2> QED
      BY <1>9, <2>3
  <1>13. RelaxLimit \/ maxF - minF < Limit
    BY <1>7, <1>10, SettingTypes
  <1>14. \A f \in minF..maxF : ~OutOfBounds(f, s, e)
    BY <1>7, <1>10, <1>11
  <1>15. Retreat(minF, maxF, StartF(p))
    <2>1. RelaxLimit \/ StartF(p) > maxF - Limit
      BY <1>7, <1>10, SettingTypes
    <2>2. ASSUME NEW x \in StartF(p)..minF - 1
          PROVE  ~AlignedS(x)
      <3>1. x \in StartF(p)..EndF(p) /\ ~(minF <= x)
        BY <1>7, <1>10
      <3> QED
        BY <1>12, <3>1
    <2> QED
      BY <2>1, <2>2 DEF Retreat
  <1>16. Advance(maxF, StartF(p), EndF(p))
    <2>1. RelaxLimit \/ EndF(p) < StartF(p) + Limit
      BY <1>7, SettingTypes
    <2>2. ASSUME NEW x \in maxF + 1..EndF(p)
          PROVE  ~AlignedS(x)
      <3>1. x \in StartF(p)..EndF(p) /\ ~(x <= maxF)
        BY <1>7, <1>10
      <3> QED
        BY <1>12, <3>1
    <2> QED
      BY <2>1, <2>2 DEF Advance
  <1>17. EndF(p) >= maxF /\ StartF(p) <= minF
    BY <1>7, <1>10
  <1> QED
    BY <1>9, <1>13, <1>14, <1>15, <1>16, <1>17 DEF BlocksOf

(***************************************************************************)
(* The invariant of the extraction.                                        *)
(***************************************************************************)
LEMMA NothingPassed ==
    ASSUME span = <<0, 0>>
    PROVE  Found = {}
  <1>1. ASSUME NEW p \in Extractable
        PROVE  ~Passed(p)
    <2>1. StartE(p) \in Nat /\ EndE(p) \in Nat
      BY BlockTypes DEF Extractable
    <2> QED
      BY <2>1 DEF Passed
  <1> QED
    BY <1>1 DEF Found

LEMMA AllPassed ==
    ASSUME span[1] = CountE
    PROVE  Found = Extractable
  <1>1. ASSUME NEW p \in Extractable
        PROVE  Passed(p)
    BY BlockTypes DEF Extractable, Passed
  <1> QED
    BY <1>1 DEF Found

\* What a target span yields.
Yield == {p \in BlocksOf(span[1], span[2]) : RelaxLimit \/ WithinLimit(p)}

LEMMA SpanTypes ==
    ASSUME SpanInRange
    PROVE  /\ span[1] \in Nat /\ span[2] \in Nat /\ CountE \in Nat
           /\ span[1] <= CountE /\ span[2] <= CountE /\ span[1] <= span[2]
           /\ span[1] < CountE => /\ span[1] \in 0..CountE - 1
                                  /\ span[2] \in 0..CountE - 1
  <1>1. CountE \in Nat
    BY ExtractAssumption
  <1>2. span[1] \in 0..CountE /\ span[2] \in 0..CountE
    BY DEF SpanInRange
  <1>3. span[1] \in Nat /\ span[2] \in Nat /\ span[1] <= CountE /\ span[2] <= CountE
    BY <1>1, <1>2
  <1>4. span[1] <= span[2] /\ (span[1] < CountE => span[2] < CountE)
    BY DEF SpanInRange
  <1> QED
    BY <1>1, <1>3, <1>4

\* No block of a target span the loops are at is too long for the target.
LEMMA YieldIsAll ==
    ASSUME ExtractTypeOK, stage = "spans", span[1] < CountE
    PROVE  BlocksOf(span[1], span[2]) = Yield
  <1>1. m_options \in ExtractOptions /\ SpanInRange
    BY DEF ExtractTypeOK
  <1>2. ASSUME NEW p \in BlocksOf(span[1], span[2]), ~RelaxLimit
        PROVE  WithinLimit(p)
    <2>1. EndF(p) - StartF(p) < Limit
      BY <1>1, <1>2, SpanTypes, FoundConsistent
    <2>2. StartE(p) = span[1] /\ EndE(p) = span[2]
      BY DEF BlocksOf
    <2>3. span[2] < span[1] + Limit
      BY <1>1, <1>2 DEF SpanInRange
    <2>4. EndE(p) - StartE(p) < Limit
      BY <1>1, <2>2, <2>3, SpanTypes, SettingTypes
    <2> QED
      BY <2>1, <2>4 DEF WithinLimit
  <1> QED
    BY <1>2 DEF Yield

\* The blocks to be found in a target span are those of its loop body.
LEMMA YieldIsExtractable ==
    ASSUME ExtractTypeOK, stage = "spans", span[1] < CountE
    PROVE  Yield = {p \in Extractable : StartE(p) = span[1] /\ EndE(p) = span[2]}
  <1>1. m_options \in ExtractOptions /\ SpanInRange
    BY DEF ExtractTypeOK
  <1>2. ASSUME NEW p \in Yield
        PROVE  p \in Extractable /\ StartE(p) = span[1] /\ EndE(p) = span[2]
    <2>1. p \in BlocksOf(span[1], span[2]) /\ (RelaxLimit \/ WithinLimit(p))
      BY DEF Yield
    <2>2. p \in Blocks /\ StartE(p) = span[1] /\ EndE(p) = span[2]
      BY <2>1 DEF BlocksOf
    <2>3. StartF(p) <= EndF(p) /\ StartE(p) <= EndE(p) /\ Consistent(p)
      BY <1>1, <2>1, SpanTypes, FoundConsistent
    <2> QED
      BY <2>1, <2>2, <2>3 DEF Extractable
  <1>3. ASSUME NEW p \in Extractable, StartE(p) = span[1], EndE(p) = span[2]
        PROVE  p \in Yield
    <2>1. /\ p \in Blocks /\ StartF(p) <= EndF(p) /\ StartE(p) <= EndE(p)
          /\ RelaxLimit \/ WithinLimit(p)
          /\ Consistent(p)
      BY DEF Extractable
    <2>2. RelaxLimit \/ EndF(p) - StartF(p) < Limit
      BY <2>1 DEF WithinLimit
    <2>3. p \in BlocksOf(StartE(p), EndE(p))
      BY <1>1, <2>1, <2>2, ConsistentFound
    <2> QED
      BY <1>3, <2>1, <2>3 DEF Yield
  <1> QED
    BY <1>2, <1>3 DEF Extractable

\* The next target span lies behind no block that the loops have not found.
LEMMA NextSpanPasses ==
    ASSUME ExtractTypeOK, stage = "spans", span[1] < CountE,
           NEW next, next = NextSpan
    PROVE  /\ next \in (0..CountE) \X (0..CountE)
           /\ next[1] <= next[2]
           /\ next[1] < CountE =>
                next[2] < CountE /\ (RelaxLimit \/ next[2] < next[1] + Limit)
           /\ \A p \in Extractable :
                 (StartE(p) < next[1] \/ (StartE(p) = next[1] /\ EndE(p) < next[2]))
                    <=> (Passed(p) \/ (StartE(p) = span[1] /\ EndE(p) = span[2]))
  <1>1. m_options \in ExtractOptions /\ SpanInRange
    BY DEF ExtractTypeOK
  <1>2. PICK s \in Nat, e \in Nat, c \in Nat, l \in Nat :
           s = span[1] /\ e = span[2] /\ c = CountE /\ l = Limit
    BY <1>1, SpanTypes, SettingTypes
  <1>3. s < c /\ e < c /\ s <= e /\ l > 0 /\ (RelaxLimit \/ e < s + l)
    BY <1>1, <1>2, SpanTypes, SettingTypes DEF SpanInRange
  <1>4. ASSUME NEW p \in Extractable
        PROVE  /\ StartE(p) \in Nat /\ EndE(p) \in Nat
               /\ StartE(p) <= EndE(p) /\ EndE(p) < c
               /\ RelaxLimit \/ EndE(p) < StartE(p) + l
    <2>1. /\ p \in Blocks /\ StartE(p) <= EndE(p)
          /\ RelaxLimit \/ EndE(p) - StartE(p) < l
      BY <1>2 DEF Extractable, WithinLimit
    <2>2. StartE(p) \in Nat /\ EndE(p) \in Nat /\ EndE(p) < c
      BY <1>2, <2>1, BlockTypes
    <2> QED
      BY <2>1, <2>2
  <1>5. CASE e + 1 < c /\ (RelaxLimit \/ e + 1 < s + l)
    <2>1. next = <<s, e + 1>>
      BY <1>2, <1>5 DEF NextSpan
    <2>2. s \in 0..c /\ e + 1 \in 0..c /\ s <= e + 1
      BY <1>3, <1>5
    <2>3. ASSUME NEW p \in Extractable
          PROVE  (StartE(p) < s \/ (StartE(p) = s /\ EndE(p) < e + 1))
                    <=> (Passed(p) \/ (StartE(p) = s /\ EndE(p) = e))
      BY <1>2, <1>4 DEF Passed
    <2> QED
      BY <1>2, <1>5, <2>1, <2>2, <2>3
  <1>6. CASE ~(e + 1 < c /\ (RelaxLimit \/ e + 1 < s + l))
    <2>1. next = <<s + 1, s + 1>>
      BY <1>2, <1>6 DEF NextSpan
    <2>2. s + 1 \in 0..c /\ (s + 1 < s + 1 + l)
      BY <1>3
    <2>3. ASSUME NEW p \in Extractable
          PROVE  (StartE(p) < s + 1 \/ (StartE(p) = s + 1 /\ EndE(p) < s + 1))
                    <=> (Passed(p) \/ (StartE(p) = s /\ EndE(p) = e))
      <3>1. PICK x \in Nat, y \in Nat : x = StartE(p) /\ y = EndE(p)
        BY <1>4
      <3>2. x <= y /\ y < c /\ (RelaxLimit \/ y < x + l)
        BY <1>4, <3>1
      <3>3. x = s => y < e + 1
        BY <1>3, <1>6, <3>2
      <3>4. (x < s + 1 \/ (x = s + 1 /\ y < s + 1))
               <=> ((x < s \/ (x = s /\ y < e)) \/ (x = s /\ y = e))
        BY <1>3, <3>2, <3>3
      <3> QED
        BY <1>2, <3>1, <3>4 DEF Passed
    <2> QED
      BY <1>2, <2>1, <2>2, <2>3
  <1> QED
    BY <1>5, <1>6

\* The lines depend on the settings, the alignment and the corners only.
LEMMA SameLines ==
    ASSUME UNCHANGED <<m_options, alignedToT, inbound, outbound>>
    PROVE  \A p : Line(p)' = Line(p)
  <1>1. SUFFICES ASSUME NEW p
                 PROVE  Line(p)' = Line(p)
    OBVIOUS
  <1>2. ASSUME NEW f, NEW e
        PROVE  IsAligned(f, e)' = IsAligned(f, e)
    BY DEF IsAligned
  <1>3. ASSUME NEW u
        PROVE  /\ LeftTop(p, u)' = LeftTop(p, u)
               /\ RightTop(p, u)' = RightTop(p, u)
    BY <1>2 DEF LeftTop, RightTop, Near, Far, Beside, StartF, EndF, StartE, EndE
  <1>5. ASSUME NEW x
        PROVE  GetOrientString(x)' = GetOrientString(x)
    BY DEF GetOrientString
  <1>6. ASSUME NEW u
        PROVE  GetOrientWordModel(p, u)' = GetOrientWordModel(p, u)
    BY <1>2, <1>3 DEF GetOrientWordModel, Orientation, BeyondNear, BeyondFar, Near, Far,
                      Beside, StartF, EndF, StartE, EndE
  <1>7. ASSUME NEW u
        PROVE  GetOrientPhraseModel(p, u, inbound)' = GetOrientPhraseModel(p, u, inbound)
    BY <1>3 DEF GetOrientPhraseModel, Orientation, CornerLeft, CornerRight, BeyondNear,
                BeyondFar, Near, Far, Beside, StartF, EndF, StartE, EndE
  <1>8. ASSUME NEW u, NEW x
        PROVE  GetOrientHierModel(p, u, x)' = GetOrientHierModel(p, u, x)
    BY <1>3 DEF GetOrientHierModel, Orientation, CornerLeft, CornerRight, BeyondNear,
                BeyondFar, Near, Far, Beside, StartF, EndF, StartE, EndE
  <1> QED
    BY <1>5, <1>6, <1>7, <1>8 DEF Line, None, Directions

LEMMA SameBlocks ==
    ASSUME UNCHANGED <<m_options, alignedToT>>
    PROVE  /\ Extractable' = Extractable
           /\ RelaxLimit' = RelaxLimit /\ Limit' = Limit
           /\ BuildExtraStructure' = BuildExtraStructure
           /\ \A p : WithinLimit(p)' = WithinLimit(p)
  <1>1. RelaxLimit' = RelaxLimit /\ Limit' = Limit
    BY DEF RelaxLimit, Limit
  <1>2. BuildExtraStructure' = BuildExtraStructure
    BY DEF BuildExtraStructure
  <1>3. \A p : WithinLimit(p)' = WithinLimit(p)
    BY <1>1 DEF WithinLimit, StartF, EndF, StartE, EndE
  <1>4. \A p : Consistent(p)' = Consistent(p)
    BY DEF Consistent, StartF, EndF, StartE, EndE
  <1>5. Extractable' = Extractable
    BY <1>1, <1>3, <1>4 DEF Extractable, Blocks, StartF, EndF, StartE, EndE
  <1> QED
    BY <1>1, <1>2, <1>3, <1>5

LEMMA SameFound ==
    ASSUME UNCHANGED <<m_options, alignedToT, span>>
    PROVE  Found' = Found
  <1>1. \A p : Passed(p)' = Passed(p)
    BY DEF Passed, StartE, EndE
  <1>2. Extractable' = Extractable
    BY SameBlocks
  <1> QED
    BY <1>1, <1>2 DEF Found

LEMMA InitExtractInv == ExtractInit => ExtractInv
  <1>1. SUFFICES ASSUME ExtractInit
                 PROVE  ExtractInv
    OBVIOUS
  <1>2. alignedToT \in [0..CountE - 1 -> SUBSET (0..CountF - 1)]
    BY <1>1 DEF ExtractInit
  <1> QED
    BY <1>1, <1>2 DEF ExtractInit, ExtractInv, ExtractTypeOK, FoundIsKept

LEMMA CreateExtractInv ==
    ASSUME ExtractInv, NEW points, Create(points)
    PROVE  ExtractInv'
  <1>1. /\ m_options' \in ExtractOptions /\ stage' = "spans"
        /\ span' = <<0, 0>>
        /\ inbound' = {} /\ outbound' = {} /\ extracted' = {}
    BY DEF Create, ExtractInv, ExtractTypeOK
  <1>2. alignedToT' \in [0..CountE - 1 -> SUBSET (0..CountF - 1)]
    BY DEF Create
  <1>3. SpanInRange'
    <2>1. (m_options')["maxPhraseLength"] \in Nat /\ (m_options')["maxPhraseLength"] > 0
      BY <1>1, ExtractAssumption
    <2>2. Limit' > 0 /\ Limit' \in Nat
      BY <2>1 DEF Limit
    <2>3. CountE \in Nat /\ CountE > 0
      BY ExtractAssumption
    <2>4. span' \in (0..CountE) \X (0..CountE) /\ span'[1] = 0 /\ span'[2] = 0
      BY <1>1, <2>3
    <2>5. span'[1] <= span'[2] /\ span'[2] < CountE
      BY <2>3, <2>4
    <2>6. PICK l \in Nat : l = Limit' /\ 0 < 0 + l
      BY <2>2
    <2>7. span'[2] < span'[1] + Limit'
      BY <2>4, <2>6, Zenon
    <2> QED
      BY <2>4, <2>5, <2>7 DEF SpanInRange
  <1>4. ExtractTypeOK'
    BY <1>1, <1>2, <1>3 DEF ExtractTypeOK
  <1>5. Found' = {}
    <2>1. ASSUME NEW p \in Extractable'
          PROVE  ~Passed(p)'
      <3>1. p \in Blocks
        BY DEF Extractable, Blocks
      <3>2. StartE(p) \in Nat /\ EndE(p) \in Nat
        BY <3>1, BlockTypes
      <3> QED
        BY <1>1, <3>2 DEF Passed, StartE, EndE
    <2> QED
      BY <2>1 DEF Found
  <1>6. FoundIsKept'
    BY <1>1, <1>5 DEF FoundIsKept
  <1> QED
    BY <1>4, <1>6 DEF ExtractInv

\* A step of the loops: what they have found grows by the yield of the span.
LEMMA LoopStep ==
    ASSUME ExtractTypeOK, stage = "spans", span[1] < CountE,
           span' = NextSpan, UNCHANGED <<m_options, alignedToT, stage>>
    PROVE  ExtractTypeOK' /\ Found' = Found \union BlocksOf(span[1], span[2])
  <1>1. PICK next : next = NextSpan
    OBVIOUS
  <1>2. SpanInRange'
    BY <1>1, NextSpanPasses, SameBlocks DEF SpanInRange
  <1>3. ExtractTypeOK'
    BY <1>2 DEF ExtractTypeOK
  <1>4. \A p \in Extractable :
           Passed(p)' <=> (Passed(p) \/ (StartE(p) = span[1] /\ EndE(p) = span[2]))
    BY <1>1, NextSpanPasses DEF Passed, StartE, EndE
  <1>5. Found' = {p \in Extractable :
                    Passed(p) \/ (StartE(p) = span[1] /\ EndE(p) = span[2])}
    BY <1>4, SameBlocks DEF Found
  <1>6. BlocksOf(span[1], span[2])
           = {p \in Extractable : StartE(p) = span[1] /\ EndE(p) = span[2]}
    BY YieldIsAll, YieldIsExtractable
  <1> QED
    BY <1>3, <1>5, <1>6 DEF Found

LEMMA NextExtractInv ==
    ASSUME ExtractInv, ExtractNext
    PROVE  ExtractInv'
  <1>1. ExtractTypeOK /\ FoundIsKept
    BY DEF ExtractInv
  <1>2. CASE ExtractSpan
    <2>1. /\ stage = "spans" /\ span[1] < CountE /\ ~BuildExtraStructure
          /\ extracted' = extracted \union {Line(p) : p \in BlocksOf(span[1], span[2])}
          /\ span' = NextSpan /\ UNCHANGED <<m_options, alignedToT, stage>>
      BY <1>2 DEF ExtractSpan
    <2>2. ExtractTypeOK' /\ Found' = Found \union BlocksOf(span[1], span[2])
      BY <1>1, <2>1, LoopStep
    <2>3. {x.block : x \in extracted} = Found
      BY <1>1, <2>1 DEF FoundIsKept
    <2>4. \A p : Line(p).block = p
      BY DEF Line
    <2>5. {x.block : x \in extracted'} = Found \union BlocksOf(span[1], span[2])
      BY <2>1, <2>3, <2>4
    <2>6. ~BuildExtraStructure'
      BY <2>1, SameBlocks
    <2>7. FoundIsKept'
      BY <2>2, <2>5, <2>6 DEF FoundIsKept
    <2> QED
      BY <2>2, <2>7 DEF ExtractInv
  <1>3. CASE KeepSpan
    <2>1. /\ stage = "spans" /\ span[1] < CountE /\ BuildExtraStructure
          /\ inbound' = inbound \union {p \in BlocksOf(span[1], span[2]) : WithinLimit(p)}
          /\ outbound' = outbound \union {p \in BlocksOf(span[1], span[2]) : ~WithinLimit(p)}
          /\ span' = NextSpan /\ UNCHANGED <<m_options, alignedToT, stage, extracted>>
      BY <1>3 DEF KeepSpan
    <2>2. ExtractTypeOK' /\ Found' = Found \union BlocksOf(span[1], span[2])
      BY <1>1, <2>1, LoopStep
    <2>3. /\ inbound = {p \in Found : WithinLimit(p)}
          /\ outbound = {p \in Found : ~WithinLimit(p)}
          /\ extracted = {}
      BY <1>1, <2>1 DEF FoundIsKept
    <2>4. BuildExtraStructure' /\ (\A p : WithinLimit(p)' = WithinLimit(p))
      BY <2>1, SameBlocks
    <2>5. inbound' = {p \in Found' : WithinLimit(p)'}
      BY <2>1, <2>2, <2>3, <2>4
    <2>6. outbound' = {p \in Found' : ~WithinLimit(p)'}
      BY <2>1, <2>2, <2>3, <2>4
    <2>7. FoundIsKept'
      BY <2>1, <2>3, <2>4, <2>5, <2>6 DEF FoundIsKept
    <2> QED
      BY <2>2, <2>7 DEF ExtractInv
  <1>4. CASE SpansEnd
    <2>1. /\ stage = "spans" /\ span[1] = CountE
          /\ stage' = IF BuildExtraStructure THEN "orient" ELSE "written"
          /\ UNCHANGED <<m_options, alignedToT, span, inbound, outbound, extracted>>
      BY <1>4 DEF SpansEnd
    <2>2. /\ Found' = Found /\ BuildExtraStructure' = BuildExtraStructure
          /\ \A p : WithinLimit(p)' = WithinLimit(p)
      BY <2>1, SameFound, SameBlocks
    <2>3. SpanInRange'
      BY <1>1, <2>1, SameBlocks DEF ExtractTypeOK, SpanInRange
    <2>4. ExtractTypeOK'
      BY <1>1, <2>1, <2>2, <2>3 DEF ExtractTypeOK
    <2>5. FoundIsKept'
      BY <1>1, <2>1, <2>2 DEF FoundIsKept
    <2> QED
      BY <2>4, <2>5 DEF ExtractInv
  <1>5. CASE Orient
    <2>1. /\ stage = "orient" /\ stage' = "written"
          /\ extracted' = {Line(p) : p \in inbound}
          /\ UNCHANGED <<m_options, alignedToT, span, inbound, outbound>>
      BY <1>5 DEF Orient
    <2>2. /\ Found' = Found /\ BuildExtraStructure' = BuildExtraStructure
          /\ \A p : WithinLimit(p)' = WithinLimit(p)
      BY <2>1, SameFound, SameBlocks
    <2>3. SpanInRange'
      BY <1>1, <2>1, SameBlocks DEF ExtractTypeOK, SpanInRange
    <2>4. ExtractTypeOK'
      BY <1>1, <2>1, <2>2, <2>3 DEF ExtractTypeOK
    <2>5. BuildExtraStructure
      BY <1>1, <2>1 DEF ExtractTypeOK
    <2>6. /\ inbound = {p \in Found : WithinLimit(p)}
          /\ outbound = {p \in Found : ~WithinLimit(p)}
      BY <1>1, <2>1, <2>5 DEF FoundIsKept
    <2>7. \A p : Line(p)' = Line(p)
      BY <2>1, SameLines
    <2>8. extracted' = {Line(p)' : p \in inbound'}
      BY <2>1, <2>7
    <2>9. FoundIsKept'
      BY <2>1, <2>2, <2>5, <2>6, <2>8 DEF FoundIsKept
    <2> QED
      BY <2>4, <2>9 DEF ExtractInv
  <1> QED
    BY <1>2, <1>3, <1>4, <1>5 DEF ExtractNext

(***************************************************************************)
(* No pair is lost and none let in, for sentences of any length and any    *)
(* length limit: the blocks extracted are those within the limit that      *)
(* cover a point and split none.                                           *)
(***************************************************************************)
LEMMA WrittenBlocks ==
    ASSUME ExtractInv, stage = "written"
    PROVE  /\ Found = Extractable
           /\ {x.block : x \in extracted} = {p \in Extractable : WithinLimit(p)}
  <1>1. /\ FoundIsKept /\ m_options \in ExtractOptions /\ span[1] = CountE
    BY DEF ExtractInv, ExtractTypeOK
  <1>2. Found = Extractable
    BY <1>1, AllPassed
  <1>3. CASE BuildExtraStructure
    <2>1. inbound = {p \in Extractable : WithinLimit(p)}
          /\ extracted = {Line(p) : p \in inbound}
      BY <1>1, <1>2, <1>3 DEF FoundIsKept
    <2>2. \A p : Line(p).block = p
      BY DEF Line
    <2>3. {x.block : x \in extracted} = inbound
      BY <2>1, <2>2
    <2> QED
      BY <1>2, <2>1, <2>3
  <1>4. CASE ~BuildExtraStructure
    <2>1. {x.block : x \in extracted} = Extractable
      BY <1>1, <1>2, <1>4 DEF FoundIsKept
    <2>2. ~RelaxLimit
      BY <1>4 DEF BuildExtraStructure, RelaxLimit
    <2>3. Extractable = {p \in Extractable : WithinLimit(p)}
      BY <2>2 DEF Extractable
    <2> QED
      BY <1>2, <2>1, <2>3
  <1> QED
    BY <1>2, <1>3, <1>4

LEMMA PairsExact == ExtractInv => ExtractedExactly
  <1>1. SUFFICES ASSUME ExtractInv, stage = "written"
                 PROVE  {x.block : x \in extracted} =
                          {p \in Blocks : /\ StartF(p) <= EndF(p) /\ StartE(p) <= EndE(p)
                                          /\ WithinLimit(p) /\ Consistent(p)}
    BY DEF ExtractedExactly
  <1>2. {x.block : x \in extracted} = {p \in Extractable : WithinLimit(p)}
    BY <1>1, WrittenBlocks
  <1> QED
    BY <1>2 DEF Extractable

(***************************************************************************)
(* Corners.                                                                *)
(***************************************************************************)

\* Consistent blocks that end at the same target word share a source word.
LEMMA ConsistentMeet ==
    ASSUME ExtractTypeOK, NEW p \in Blocks, NEW q \in Blocks,
           Consistent(p), Consistent(q),
           StartE(p) <= EndE(p), StartE(q) <= EndE(q), EndE(p) = EndE(q)
    PROVE  \E f \in Int : /\ StartF(p) <= f /\ f <= EndF(p)
                          /\ StartF(q) <= f /\ f <= EndF(q)
  <1>1. ASSUME NEW x \in Blocks, NEW y \in Blocks, Consistent(x), Consistent(y),
               EndE(x) = EndE(y), StartE(y) <= StartE(x)
        PROVE  \E f \in Int : /\ StartF(x) <= f /\ f <= EndF(x)
                              /\ StartF(y) <= f /\ f <= EndF(y)
    <2>1. PICK e \in StartE(x)..EndE(x) : alignedToT[e] \intersect (StartF(x)..EndF(x)) # {}
      BY <1>1 DEF Consistent
    <2>2. e \in StartE(y)..EndE(y) /\ e \in 0..CountE - 1
      BY <1>1, <2>1, BlockTypes, ExtractAssumption
    <2>3. alignedToT[e] \subseteq StartF(y)..EndF(y)
      BY <1>1, <2>2 DEF Consistent
    <2>4. PICK f \in StartF(x)..EndF(x) : f \in StartF(y)..EndF(y)
      BY <2>1, <2>3
    <2>5. /\ StartF(x) \in Int /\ EndF(x) \in Int
          /\ StartF(y) \in Int /\ EndF(y) \in Int
      BY BlockTypes
    <2> QED
      BY <2>4, <2>5
  <1>2. CASE StartE(q) <= StartE(p)
    BY <1>1, <1>2
  <1>3. CASE ~(StartE(q) <= StartE(p))
    <2>1. StartE(p) <= StartE(q)
      BY <1>3, BlockTypes
    <2>2. \E f \in Int : /\ StartF(q) <= f /\ f <= EndF(q)
                         /\ StartF(p) <= f /\ f <= EndF(p)
      BY <1>1, <2>1
    <2> QED
      BY <2>2
  <1> QED
    BY <1>2, <1>3

\* A source word aligned to the last target word of a consistent block is in it.
LEMMA AlignedInside ==
    ASSUME ExtractTypeOK, NEW q \in Blocks, Consistent(q), StartE(q) <= EndE(q),
           NEW f, f \in alignedToT[EndE(q)]
    PROVE  f \in Int /\ StartF(q) <= f /\ f <= EndF(q)
  <1>1. EndE(q) \in StartE(q)..EndE(q) /\ EndE(q) \in 0..CountE - 1
    BY BlockTypes
  <1>2. f \in StartF(q)..EndF(q)
    BY <1>1 DEF Consistent
  <1> QED
    BY <1>2, BlockTypes

\* What makes a block follow its neighbour, and what makes it change places
\* with it, when the corners of blocks are looked at.
Follows(p, u, blocks) ==
    \/ LeftTop(p, u) /\ ~RightTop(p, u)
    \/ <<Near(p, u) - u, Beside(p, u)>> \in CornerLeft(blocks, u)

Swaps(p, u, blocks) ==
    \/ ~LeftTop(p, u) /\ RightTop(p, u)
    \/ <<Far(p, u) + u, Beside(p, u)>> \in CornerRight(blocks, u)

LEMMA ExtractableTypes ==
    ASSUME NEW p \in Extractable
    PROVE  /\ p \in Blocks /\ Consistent(p)
           /\ StartF(p) <= EndF(p) /\ StartE(p) <= EndE(p)
  BY DEF Extractable

LEMMA CornerBlock ==
    ASSUME NEW u \in Directions, NEW blocks, NEW f, NEW e
    PROVE  /\ <<f, e>> \in CornerLeft(blocks, u) <=>
                \E q \in blocks : (IF u = 1 THEN EndF(q) ELSE StartF(q)) = f /\ EndE(q) = e
           /\ <<f, e>> \in CornerRight(blocks, u) <=>
                \E q \in blocks : (IF u = 1 THEN StartF(q) ELSE EndF(q)) = f /\ EndE(q) = e
  BY DEF CornerLeft, CornerRight

LEMMA Exclusive ==
    ASSUME ExtractTypeOK, NEW p \in Extractable, NEW u \in Directions,
           NEW blocks \in SUBSET Extractable
    PROVE  ~(Follows(p, u, blocks) /\ Swaps(p, u, blocks))
  <1>1. u = 1 \/ u = -1
    BY DEF Directions
  <1>2. StartF(p) \in Int /\ EndF(p) \in Int /\ StartF(p) <= EndF(p)
    BY ExtractableTypes, BlockTypes
  <1>3. ASSUME NEW q \in Extractable, EndE(q) = Beside(p, u), NEW f,
               IsAligned(f, Beside(p, u))
        PROVE  f \in Int /\ StartF(q) <= f /\ f <= EndF(q)
    <2>1. EndE(q) \in 0..CountE - 1 /\ EndE(q) # -1 /\ EndE(q) # CountE
      BY ExtractableTypes, BlockTypes, ExtractAssumption
    <2>2. f \in alignedToT[EndE(q)]
      BY <1>3, <2>1 DEF IsAligned
    <2> QED
      BY <2>2, ExtractableTypes, AlignedInside
  <1>4. ASSUME NEW q \in Extractable, EndE(q) = Beside(p, u),
               (IF u = 1 THEN EndF(q) ELSE StartF(q)) = Near(p, u) - u
        PROVE  ~RightTop(p, u)
    <2>1. ASSUME RightTop(p, u)
          PROVE  StartF(q) <= Far(p, u) + u /\ Far(p, u) + u <= EndF(q)
      BY <1>3, <1>4, <2>1 DEF RightTop
    <2> QED
      BY <1>1, <1>2, <1>4, <2>1 DEF Near, Far
  <1>5. ASSUME NEW q \in Extractable, EndE(q) = Beside(p, u),
               (IF u = 1 THEN StartF(q) ELSE EndF(q)) = Far(p, u) + u
        PROVE  ~LeftTop(p, u)
    <2>1. ASSUME LeftTop(p, u)
          PROVE  StartF(q) <= Near(p, u) - u /\ Near(p, u) - u <= EndF(q)
      BY <1>3, <1>5, <2>1 DEF LeftTop
    <2> QED
      BY <1>1, <1>2, <1>5, <2>1 DEF Near, Far
  <1>6. ASSUME NEW q \in Extractable, EndE(q) = Beside(p, u),
               (IF u = 1 THEN EndF(q) ELSE StartF(q)) = Near(p, u) - u,
               NEW y \in Extractable, EndE(y) = Beside(p, u),
               (IF u = 1 THEN StartF(y) ELSE EndF(y)) = Far(p, u) + u
        PROVE  FALSE
    <2>1. PICK f \in Int : /\ StartF(q) <= f /\ f <= EndF(q)
                           /\ StartF(y) <= f /\ f <= EndF(y)
      BY <1>6, ExtractableTypes, ConsistentMeet
    <2>2. /\ StartF(q) \in Int /\ EndF(q) \in Int
          /\ StartF(y) \in Int /\ EndF(y) \in Int
      BY ExtractableTypes, BlockTypes
    <2> QED
      BY <1>1, <1>2, <1>6, <2>1, <2>2 DEF Near, Far
  <1>7. <<Near(p, u) - u, Beside(p, u)>> \in CornerLeft(blocks, u) =>
           \E q \in Extractable :
              /\ EndE(q) = Beside(p, u)
              /\ (IF u = 1 THEN EndF(q) ELSE StartF(q)) = Near(p, u) - u
    BY CornerBlock
  <1>8. <<Far(p, u) + u, Beside(p, u)>> \in CornerRight(blocks, u) =>
           \E q \in Extractable :
              /\ EndE(q) = Beside(p, u)
              /\ (IF u = 1 THEN StartF(q) ELSE EndF(q)) = Far(p, u) + u
    BY CornerBlock
  <1> QED
    BY <1>4, <1>5, <1>6, <1>7, <1>8 DEF Follows, Swaps

(***************************************************************************)
(* Orientations and the words for them.                                    *)
(***************************************************************************)
Orientations == {"left", "right", "dright", "dleft", "unknown"}

LEMMA OrientationIs ==
    ASSUME m_options \in ExtractOptions, NEW l \in BOOLEAN, NEW r \in BOOLEAN,
           NEW dr \in BOOLEAN, NEW dl \in BOOLEAN
    PROVE  /\ Orientation(l, r, dr, dl) \in Orientations
           /\ Orientation(l, r, dr, dl) = "left" <=> l
           /\ Orientation(l, r, dr, dl) = "right" <=>
                ~l /\ m_options.type # "mono" /\ r
  BY SettingTypes DEF Orientation, Orientations

LEMMA StringIs ==
    ASSUME m_options \in ExtractOptions, NEW x \in Orientations
    PROVE  /\ GetOrientString(x) = "mono" <=> x = "left"
           /\ GetOrientString(x) = "swap" <=> x = "right"
  BY SettingTypes DEF GetOrientString, Orientations

LEMMA WordOrientation ==
    ASSUME m_options \in ExtractOptions, NEW p, NEW u
    PROVE  /\ GetOrientWordModel(p, u) \in Orientations
           /\ GetOrientWordModel(p, u) = "left" => LeftTop(p, u) /\ ~RightTop(p, u)
           /\ GetOrientWordModel(p, u) = "right" =>
                ~LeftTop(p, u) /\ RightTop(p, u) /\ m_options.type # "mono"
  BY OrientationIs DEF GetOrientWordModel

LEMMA PhraseOrientation ==
    ASSUME m_options \in ExtractOptions, NEW p, NEW u, NEW in
    PROVE  /\ GetOrientPhraseModel(p, u, in) \in Orientations
           /\ GetOrientPhraseModel(p, u, in) = "left" <=> Follows(p, u, in)
           /\ GetOrientPhraseModel(p, u, in) = "right" <=>
                ~Follows(p, u, in) /\ m_options.type # "mono" /\ Swaps(p, u, in)
  BY OrientationIs DEF GetOrientPhraseModel, Follows, Swaps

LEMMA HierOrientation ==
    ASSUME m_options \in ExtractOptions, NEW p, NEW u, NEW x \in Orientations
    PROVE  LET all == inbound \union outbound
               y == GetOrientHierModel(p, u, x)
           IN /\ y \in Orientations
              /\ y = "left" <=> x = "left" \/ Follows(p, u, all)
              /\ y = "right" <=> /\ ~(x = "left" \/ Follows(p, u, all))
                                 /\ m_options.type # "mono"
                                 /\ x = "right" \/ Swaps(p, u, all)
  BY OrientationIs DEF GetOrientHierModel, Follows, Swaps

\* When the blocks are kept, nothing is extracted before all of them are known.
LEMMA KeptBlocks ==
    ASSUME ExtractInv, BuildExtraStructure, NEW x \in extracted
    PROVE  /\ stage = "written" /\ m_options \in ExtractOptions
           /\ inbound \in SUBSET Extractable
           /\ inbound \union outbound = Extractable
           /\ \E p \in inbound : x = Line(p)
  <1>1. stage # "wait" /\ FoundIsKept /\ m_options \in ExtractOptions
    BY DEF ExtractInv, ExtractTypeOK
  <1>2. stage = "written" /\ \E p \in inbound : x = Line(p)
    BY <1>1 DEF FoundIsKept
  <1>3. Found = Extractable
    BY <1>2, WrittenBlocks
  <1> QED
    BY <1>1, <1>2, <1>3 DEF FoundIsKept

LEMMA LineParts ==
    ASSUME NEW p, NEW u \in Directions
    PROVE  LET phrase == IF "phrase" \in m_options.models
                         THEN GetOrientPhraseModel(p, u, inbound) ELSE "unknown"
           IN /\ Line(p).block = p
              /\ "word" \in m_options.models =>
                   Line(p).word[u] = GetOrientString(GetOrientWordModel(p, u))
              /\ "phrase" \in m_options.models =>
                   Line(p).phrase[u] = GetOrientString(GetOrientPhraseModel(p, u, inbound))
              /\ "hier" \in m_options.models =>
                   Line(p).hier[u] = GetOrientString(GetOrientHierModel(p, u, phrase))
  BY DEF Line

LEMMA ModelsAlwaysAgree == ExtractInv => ModelsAgree
  <1>1. SUFFICES ASSUME ExtractInv, NEW x \in extracted, NEW u \in Directions,
                        {"word", "phrase"} \subseteq m_options.models
                 PROVE  /\ Agrees(x.word[u], x.phrase[u])
                        /\ "hier" \in m_options.models => Agrees(x.phrase[u], x.hier[u])
    BY DEF ModelsAgree
  <1>2. BuildExtraStructure
    BY <1>1 DEF BuildExtraStructure
  <1>3. /\ m_options \in ExtractOptions /\ ExtractTypeOK
        /\ inbound \in SUBSET Extractable
        /\ inbound \union outbound = Extractable
    BY <1>1, <1>2, KeptBlocks DEF ExtractInv
  <1>4. PICK p \in inbound : x = Line(p)
    BY <1>1, <1>2, KeptBlocks
  <1> DEFINE all == inbound \union outbound
             wordO == GetOrientWordModel(p, u)
             phraseO == GetOrientPhraseModel(p, u, inbound)
             hierO == GetOrientHierModel(p, u, phraseO)
  <1>5. p \in Extractable /\ all \in SUBSET Extractable
    BY <1>3
  <1>6. /\ x.word[u] = GetOrientString(wordO)
        /\ x.phrase[u] = GetOrientString(phraseO)
        /\ "hier" \in m_options.models => x.hier[u] = GetOrientString(hierO)
    BY <1>1, <1>4, LineParts
  <1>7. ~(Follows(p, u, inbound) /\ Swaps(p, u, inbound))
    BY <1>3, <1>5, Exclusive
  <1>8. ~(Follows(p, u, all) /\ Swaps(p, u, all))
    BY <1>3, <1>5, Exclusive
  <1>9. /\ Follows(p, u, inbound) => Follows(p, u, all)
        /\ Swaps(p, u, inbound) => Swaps(p, u, all)
    BY CornerBlock DEF Follows, Swaps
  <1>10. /\ wordO \in Orientations /\ phraseO \in Orientations
         /\ wordO = "left" => Follows(p, u, inbound)
         /\ wordO = "right" => Swaps(p, u, inbound) /\ m_options.type # "mono"
         /\ phraseO = "left" <=> Follows(p, u, inbound)
         /\ phraseO = "right" <=>
              ~Follows(p, u, inbound) /\ m_options.type # "mono" /\ Swaps(p, u, inbound)
    BY <1>3, WordOrientation, PhraseOrientation DEF Follows, Swaps
  <1>11. /\ hierO \in Orientations
         /\ hierO = "left" <=> phraseO = "left" \/ Follows(p, u, all)
         /\ hierO = "right" <=> /\ ~(phraseO = "left" \/ Follows(p, u, all))
                                /\ m_options.type # "mono"
                                /\ phraseO = "right" \/ Swaps(p, u, all)
    BY <1>3, <1>10, HierOrientation
  <1>12. Agrees(x.word[u], x.phrase[u])
    <2>1. wordO = "left" => phraseO = "left"
      BY <1>10
    <2>2. wordO = "right" => phraseO = "right"
      BY <1>7, <1>10
    <2> QED
      BY <1>3, <1>6, <1>10, <2>1, <2>2, StringIs DEF Agrees
  <1>13. ASSUME "hier" \in m_options.models
         PROVE  Agrees(x.phrase[u], x.hier[u])
    <2>1. phraseO = "left" => hierO = "left"
      BY <1>11
    <2>2. phraseO = "right" => hierO = "right"
      BY <1>8, <1>9, <1>10, <1>11
    <2> QED
      BY <1>3, <1>6, <1>10, <1>11, <1>13, <2>1, <2>2, StringIs DEF Agrees
  <1> QED
    BY <1>12, <1>13

LEMMA HierSeesAll == ExtractInv => HierSeesAnyLength
  <1>1. SUFFICES ASSUME ExtractInv, "hier" \in m_options.models, NEW x \in extracted,
                        NEW q \in Blocks, StartF(q) <= EndF(q), StartE(q) <= EndE(q),
                        EndE(q) = StartE(x.block) - 1, Consistent(q)
                 PROVE  /\ EndF(q) = StartF(x.block) - 1 => x.hier[1] = "mono"
                        /\ m_options.type # "mono" /\ StartF(q) = EndF(x.block) + 1
                              => x.hier[1] = "swap"
    BY DEF HierSeesAnyLength
  <1>2. BuildExtraStructure /\ RelaxLimit
    BY <1>1 DEF BuildExtraStructure, RelaxLimit
  <1>3. /\ m_options \in ExtractOptions /\ ExtractTypeOK
        /\ inbound \in SUBSET Extractable
        /\ inbound \union outbound = Extractable
    BY <1>1, <1>2, KeptBlocks DEF ExtractInv
  <1>4. PICK p \in inbound : x = Line(p)
    BY <1>1, <1>2, KeptBlocks
  <1> DEFINE all == inbound \union outbound
             phraseO == IF "phrase" \in m_options.models
                        THEN GetOrientPhraseModel(p, 1, inbound) ELSE "unknown"
             hierO == GetOrientHierModel(p, 1, phraseO)
  <1>5. p \in Extractable /\ all \in SUBSET Extractable /\ 1 \in Directions
    BY <1>3 DEF Directions
  <1>6. x.block = p /\ x.hier[1] = GetOrientString(hierO)
    BY <1>1, <1>4, <1>5, LineParts
  <1>7. q \in all
    BY <1>1, <1>2, <1>3 DEF Extractable
  <1>8. ~(Follows(p, 1, all) /\ Swaps(p, 1, all))
    BY <1>3, <1>5, Exclusive
  <1>9. phraseO \in Orientations /\ (phraseO = "left" => Follows(p, 1, all))
    <2>1. Follows(p, 1, inbound) => Follows(p, 1, all)
      BY <1>5, CornerBlock DEF Follows
    <2> QED
      BY <1>3, <2>1, PhraseOrientation DEF Orientations
  <1>10. /\ hierO \in Orientations
         /\ hierO = "left" <=> phraseO = "left" \/ Follows(p, 1, all)
         /\ hierO = "right" <=> /\ ~(phraseO = "left" \/ Follows(p, 1, all))
                                /\ m_options.type # "mono"
                                /\ phraseO = "right" \/ Swaps(p, 1, all)
    BY <1>3, <1>9, HierOrientation
  <1>11. Beside(p, 1) = StartE(p) - 1 /\ Near(p, 1) = StartF(p) /\ Far(p, 1) = EndF(p)
    BY DEF Beside, Near, Far
  <1>12. EndF(q) = StartF(p) - 1 => Follows(p, 1, all)
    BY <1>1, <1>5, <1>6, <1>7, <1>11, CornerBlock DEF Follows
  <1>13. StartF(q) = EndF(p) + 1 => Swaps(p, 1, all)
    BY <1>1, <1>5, <1>6, <1>7, <1>11, CornerBlock DEF Swaps
  <1>14. EndF(q) = StartF(p) - 1 => hierO = "left"
    BY <1>10, <1>12
  <1>15. m_options.type # "mono" /\ StartF(q) = EndF(p) + 1 => hierO = "right"
    BY <1>8, <1>9, <1>10, <1>13
  <1> QED
    BY <1>3, <1>6, <1>10, <1>14, <1>15, StringIs

-----------------------------------------------------------------------------
(***************************************************************************)
(* The two programs in sequence.                                           *)
(***************************************************************************)
LEMMA PipelineInitInv == PipelineInit => IInv /\ ExtractInv
  BY InitIInv, InitExtractInv DEF PipelineInit

LEMMA PipelineStepInv ==
    IInv /\ ExtractInv /\ [PipelineNext]_pipelineVars => IInv' /\ ExtractInv'
  <1>1. SUFFICES ASSUME IInv, ExtractInv, [PipelineNext]_pipelineVars
                 PROVE  IInv' /\ ExtractInv'
    OBVIOUS
  <1>2. ASSUME UNCHANGED extractVars
        PROVE  ExtractInv'
    <2>1. UNCHANGED <<m_options, alignedToT, span, inbound, outbound, extracted, stage>>
      BY <1>2 DEF extractVars
    <2>2. /\ Found' = Found /\ BuildExtraStructure' = BuildExtraStructure
          /\ \A p : WithinLimit(p)' = WithinLimit(p)
          /\ \A p : Line(p)' = Line(p)
      BY <2>1, SameFound, SameBlocks, SameLines
    <2>3. SpanInRange => SpanInRange'
      BY <2>1, SameBlocks DEF SpanInRange
    <2>4. ExtractTypeOK'
      BY <1>1, <2>1, <2>2, <2>3 DEF ExtractInv, ExtractTypeOK
    <2>5. FoundIsKept'
      BY <1>1, <2>1, <2>2 DEF ExtractInv, FoundIsKept
    <2> QED
      BY <2>4, <2>5 DEF ExtractInv
  <1>3. CASE Symmetrise
    <2>1. [Next]_vars /\ UNCHANGED extractVars
      BY <1>3 DEF Symmetrise, Next
    <2> QED
      BY <1>1, <1>2, <2>1, StepIInv
  <1>4. CASE ReadAlignment
    <2>1. [Next]_vars /\ Create(printed)
      BY <1>4 DEF ReadAlignment, Next
    <2> QED
      BY <1>1, <2>1, StepIInv, CreateExtractInv
  <1>5. CASE Extract
    <2>1. [Next]_vars /\ ExtractNext
      BY <1>5 DEF Extract
    <2> QED
      BY <1>1, <2>1, StepIInv, NextExtractInv
  <1>6. CASE UNCHANGED pipelineVars
    <2>1. [Next]_vars /\ UNCHANGED extractVars
      BY <1>6 DEF pipelineVars
    <2> QED
      BY <1>1, <1>2, <2>1, StepIInv
  <1> QED
    BY <1>1, <1>3, <1>4, <1>5, <1>6 DEF PipelineNext

\* The invariants of both programs hold of the pipeline.
THEOREM PipelineInvariance == PipelineSpec => [](IInv /\ ExtractInv)
  BY PipelineInitInv, PipelineStepInv, PTL DEF PipelineSpec

(***************************************************************************)
(* ExtractTask::extract loses no phrase pair and lets none in: for         *)
(* sentences of any length, any alignment symal can print, any limit and   *)
(* any orientation models, the pairs extracted are the consistent blocks   *)
(* within the limit.                                                       *)
(***************************************************************************)
THEOREM PipelineExtractsExactly == PipelineSpec => []ExtractedExactly
  BY PipelineInvariance, PairsExact, PTL

(***************************************************************************)
(* getOrientWordModel, getOrientPhraseModel and getOrientHierModel never   *)
(* contradict each other: what one calls monotone or swapped the next      *)
(* calls the same, in both directions.                                     *)
(***************************************************************************)
THEOREM PipelineModelsAgree == PipelineSpec => []ModelsAgree
  BY PipelineInvariance, ModelsAlwaysAgree, PTL

(***************************************************************************)
(* The hierarchical model sees the neighbouring block whatever its length, *)
(* though getOrientHierModel looks at corners and not at blocks.           *)
(***************************************************************************)
THEOREM PipelineHierSeesAnyLength == PipelineSpec => []HierSeesAnyLength
  BY PipelineInvariance, HierSeesAll, PTL

(***************************************************************************)
(* symal implements the growing alignment in the pipeline too: reading its *)
(* output and extracting leave what it keeps alone.                        *)
(***************************************************************************)
THEOREM PipelineImplementsGrowing == PipelineSpec => ImplementsGrowing
  <1>1. PipelineInit => Growing!GInit
    BY SpecInit DEF PipelineInit
  <1>2. IInv /\ [PipelineNext]_pipelineVars => [Growing!GNext]_(Growing!gvars)
    <2>1. [PipelineNext]_pipelineVars => [Next]_vars
      BY DEF PipelineNext, Symmetrise, ReadAlignment, Extract, pipelineVars, Next
    <2> QED
      BY <2>1, StepRefines
  <1> QED
    BY <1>1, <1>2, PipelineInvariance, PTL DEF PipelineSpec, ImplementsGrowing, Growing!GSpec
=============================================================================
