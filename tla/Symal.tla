------------------------------- MODULE Symal -------------------------------
(***************************************************************************)
(* symal: one sentence pair, word-aligned in both directions, symmetrised. *)
(* a[j] is the target word of source word j, b[i] the source word of       *)
(* target word i, 0 for none.  Plain modes print the union, the            *)
(* intersection or one direction; "grow" starts from the intersection,     *)
(* adds neighbouring points of the union that cover a new word until a     *)
(* scan adds none, and with "final" goes over the rest of the union.       *)
(*                                                                         *)
(* A point is <<i, j>>, as in the code.  currentpoints is a std::set that  *)
(* grows while it is scanned, so a point inserted behind the iterator waits*)
(* for the next scan and one inserted ahead of it does not: k is the       *)
(* iterator and o the neighbour last tried.  The words covered so far (ea, *)
(* fa, sets here) and the matrix A repeat what the set says; the code reads*)
(* only the copies.  Neighbours that are not added change nothing and are  *)
(* passed over within a step.                                              *)
(***************************************************************************)
EXTENDS Integers

CONSTANTS
    M,        \* source words of the pair
    N,        \* target words of the pair
    Options   \* the settings a run of symal may be given

ASSUME SymalAssumption ==
    /\ M \in Nat \ {0}
    /\ N \in Nat \ {0}
    /\ Options \subseteq
         [alignment : {"union", "intersect", "srctotgt", "tgttosrc", "grow"},
          diagonal : BOOLEAN, final : BOOLEAN, bothuncovered : BOOLEAN]

VARIABLES
    opt,            \* the settings of this run
    a, b,           \* the direct and the inverse alignment
    ea, fa,         \* target and source words covered so far
    A,              \* 2 symmetric, -1 direct only, 1 inverse only, 0 neither
    currentpoints,  \* the symmetric alignment
    k,              \* the point the loop is at; Begin before the first
    o,              \* the neighbour of k last tried
    added,          \* this scan has added a point
    pc,             \* where the program is
    printed         \* the line printed: <<source, target>>, both from 0

vars == <<opt, a, b, ea, fa, A, currentpoints, k, o, added, pc, printed>>

Matrix == (1..N) \X (1..M)

Begin == <<0, 0>>

(***************************************************************************)
(* The two alignments as sets of points.                                   *)
(***************************************************************************)
Direct == {p \in Matrix : a[p[2]] = p[1]}

Inverse == {p \in Matrix : b[p[1]] = p[2]}

Unionalignment == Direct \union Inverse

Intersection == Direct \intersect Inverse

\* The order in which a std::set of pairs is scanned.
Before(p, q) == p[1] < q[1] \/ (p[1] = q[1] /\ p[2] < q[2])

FirstAfter(p, S, q) == /\ q \in S /\ Before(p, q)
                       /\ \A r \in S : ~(Before(p, r) /\ Before(r, q))

\* A point leaves the program counted from 0, source word first.
Out(S) == {<<p[2] - 1, p[1] - 1>> : p \in S}

Init ==
    /\ opt \in Options
    /\ a \in [1..M -> 0..N]
    /\ b \in [1..N -> 0..M]
    /\ ea = {} /\ fa = {} /\ A = [p \in Matrix |-> 0]
    /\ currentpoints = {}
    /\ k = Begin /\ o = 0 /\ added = FALSE
    /\ pc = "start"
    /\ printed = {}

-----------------------------------------------------------------------------
(***************************************************************************)
(* The modes that print a set at once.                                     *)
(***************************************************************************)
PrintPlain ==
    /\ pc = "start" /\ opt.alignment # "grow"
    /\ printed' = Out(CASE opt.alignment = "union" -> Unionalignment
                        [] opt.alignment = "intersect" -> Intersection
                        [] opt.alignment = "srctotgt" -> Direct
                        [] opt.alignment = "tgttosrc" -> Inverse)
    /\ pc' = "done"
    /\ UNCHANGED <<opt, a, b, ea, fa, A, currentpoints, k, o, added>>

-----------------------------------------------------------------------------
(***************************************************************************)
(* printgrow.                                                              *)
(***************************************************************************)
Fill ==
    /\ pc = "start" /\ opt.alignment = "grow"
    /\ currentpoints' = Intersection
    /\ ea' = {p[1] : p \in Intersection}
    /\ fa' = {p[2] : p \in Intersection}
    /\ A' = [p \in Matrix |-> IF p \in Intersection THEN 2
                              ELSE IF p \in Direct THEN -1
                              ELSE IF p \in Inverse THEN 1 ELSE 0]
    /\ pc' = "grow"
    /\ UNCHANGED <<opt, a, b, k, o, added, printed>>

\* The four straight neighbours come before the four diagonal ones.
Neighbors == <<<<-1, 0>>, <<0, -1>>, <<1, 0>>, <<0, 1>>,
               <<-1, -1>>, <<-1, 1>>, <<1, -1>>, <<1, 1>>>>

NeighborsUsed == IF opt.diagonal THEN 8 ELSE 4

Neighbor(x) == <<k[1] + Neighbors[x][1], k[2] + Neighbors[x][2]>>

BothCovered(p) == p[1] \in ea /\ p[2] \in fa

\* Mistake (not the code): a point is added again though it covers no new word.
AddableAgain(p) ==
    p \in Matrix /\ (b[p[1]] = p[2] \/ a[p[2]] = p[1])

Addable(p) ==
    /\ p \in Matrix
    /\ b[p[1]] = p[2] \/ a[p[2]] = p[1]
    /\ ~BothCovered(p)

Insert(p) ==
    /\ currentpoints' = currentpoints \union {p}
    /\ A' = [A EXCEPT ![p] = 2]
    /\ ea' = ea \union {p[1]}
    /\ fa' = fa \union {p[2]}

AddsNext(x) == /\ x \in o + 1..NeighborsUsed
               /\ Addable(Neighbor(x))
               /\ \A y \in o + 1..x - 1 : ~Addable(Neighbor(y))

\* Mistake (not the code): a scan that only added points does not count.
AddNeighborUncounted ==
    /\ pc = "grow" /\ k # Begin
    /\ \E x \in o + 1..NeighborsUsed :
           /\ AddsNext(x)
           /\ Insert(Neighbor(x))
           /\ o' = x
    /\ UNCHANGED <<opt, a, b, k, added, pc, printed>>

AddNeighbor ==
    /\ pc = "grow" /\ k # Begin
    /\ \E x \in o + 1..NeighborsUsed :
           /\ AddsNext(x)
           /\ Insert(Neighbor(x))
           /\ o' = x
    /\ added' = TRUE
    /\ UNCHANGED <<opt, a, b, k, pc, printed>>

NoneToAdd == k # Begin => \A x \in o + 1..NeighborsUsed : ~Addable(Neighbor(x))

NextPoint ==
    /\ pc = "grow" /\ NoneToAdd
    /\ \E q \in currentpoints : FirstAfter(k, currentpoints, q) /\ k' = q
    /\ o' = 0
    /\ UNCHANGED <<opt, a, b, ea, fa, A, currentpoints, added, pc, printed>>

ScanEnds == /\ pc = "grow" /\ NoneToAdd
            /\ \A q \in currentpoints : ~Before(k, q)

ScanAgain ==
    /\ ScanEnds /\ added
    /\ added' = FALSE /\ k' = Begin /\ o' = 0
    /\ UNCHANGED <<opt, a, b, ea, fa, A, currentpoints, pc, printed>>

Grown ==
    /\ ScanEnds /\ ~added
    /\ pc' = IF opt.final THEN "inverse" ELSE "print"
    /\ k' = Begin /\ o' = 0
    /\ UNCHANGED <<opt, a, b, ea, fa, A, currentpoints, added, printed>>

-----------------------------------------------------------------------------
(***************************************************************************)
(* The final step: the points of one direction only, the inverse ones      *)
(* first, that cover a word (or, with bothuncovered, two words).           *)
(***************************************************************************)
FinalMark == IF pc = "inverse" THEN 1 ELSE -1

FinalAdds(p) ==
    /\ A[p] = FinalMark
    /\ IF opt.bothuncovered THEN p[1] \notin ea /\ p[2] \notin fa
                            ELSE ~BothCovered(p)

AddFinal ==
    /\ pc \in {"inverse", "direct"}
    /\ \E p \in Unionalignment :
           /\ FirstAfter(k, {q \in Unionalignment : FinalAdds(q)}, p)
           /\ Insert(p)
           /\ k' = p
    /\ UNCHANGED <<opt, a, b, o, added, pc, printed>>

FinalEnds ==
    /\ pc \in {"inverse", "direct"}
    /\ \A p \in Unionalignment : Before(k, p) => ~FinalAdds(p)
    /\ pc' = IF pc = "inverse" THEN "direct" ELSE "print"
    /\ k' = Begin
    /\ UNCHANGED <<opt, a, b, ea, fa, A, currentpoints, o, added, printed>>

PrintGrown ==
    /\ pc = "print"
    /\ printed' = Out(currentpoints)
    /\ pc' = "done"
    /\ UNCHANGED <<opt, a, b, ea, fa, A, currentpoints, k, o, added>>

Step == \/ PrintPlain \/ Fill
        \/ AddNeighbor \/ NextPoint \/ ScanAgain \/ Grown
        \/ AddFinal \/ FinalEnds \/ PrintGrown

\* The program exits: nothing but the line it printed is left.
Exit ==
    /\ pc = "done"
    /\ pc' = "exited"
    /\ opt' = CHOOSE x \in Options : TRUE
    /\ a' = [j \in 1..M |-> 0] /\ b' = [i \in 1..N |-> 0]
    /\ ea' = {} /\ fa' = {} /\ A' = [p \in Matrix |-> 0] /\ currentpoints' = {}
    /\ k' = Begin /\ o' = 0 /\ added' = FALSE
    /\ UNCHANGED printed

Next == Step \/ Exit

Spec == Init /\ [][Next]_vars

-----------------------------------------------------------------------------
TypeOK ==
    /\ opt \in Options
    /\ a \in [1..M -> 0..N] /\ b \in [1..N -> 0..M]
    /\ ea \subseteq 1..N /\ fa \subseteq 1..M
    /\ A \in [Matrix -> {-1, 0, 1, 2}]
    /\ currentpoints \subseteq Matrix
    /\ k \in Matrix \union {Begin} /\ o \in 0..8 /\ added \in BOOLEAN
    /\ pc \in {"start", "grow", "inverse", "direct", "print", "done", "exited"}
    /\ printed \subseteq (0..M - 1) \X (0..N - 1)

(***************************************************************************)
(* "Nice property: you will never introduce more points than the           *)
(* unionalignment" (symal.cpp:224): the symmetric alignment never leaves   *)
(* the union, so it stays the union of a direct and an inverse alignment,  *)
(* and it never loses the intersection it started from.                    *)
(***************************************************************************)
WithinUnion ==
    /\ currentpoints \subseteq Unionalignment
    /\ pc \notin {"start", "done", "exited"} => Intersection \subseteq currentpoints

(***************************************************************************)
(* The copies the conditions are read from never differ from the set they  *)
(* copy: a word is marked covered exactly when a point covers it, a cell   *)
(* is marked symmetric exactly when its point is in the set, and the other *)
(* marks still tell the direction a point came from.                       *)
(***************************************************************************)
CopiesAgree ==
    pc \in {"grow", "inverse", "direct", "print"} =>
       /\ ea = {p[1] : p \in currentpoints}
       /\ fa = {p[2] : p \in currentpoints}
       /\ \A p \in Matrix :
             /\ (A[p] = 2) <=> (p \in currentpoints)
             /\ (A[p] = -1) <=> (p \in Direct \ currentpoints)
             /\ (A[p] = 1) <=> (p \in Inverse \ currentpoints)

(***************************************************************************)
(* What the final step is for: when it is not restricted to points with    *)
(* two new words, no word that either direction aligned is left without a  *)
(* point in the line printed, whatever order the points came in.           *)
(***************************************************************************)
FinalCovers ==
    pc = "print" /\ opt.final /\ ~opt.bothuncovered =>
       \A p \in Unionalignment : BothCovered(p)

(***************************************************************************)
(* symal grows an alignment as GrowingAlignment says, whatever the order   *)
(* in which a set that grows while it is scanned hands out its points: no  *)
(* scan ends the loop while a point could still be added, and nothing is   *)
(* left for the final step when the line is printed.                       *)
(***************************************************************************)
Growing == INSTANCE GrowingAlignment
             WITH points <- currentpoints,
                  stage <- IF pc \in {"inverse", "direct", "print"} THEN "final" ELSE pc

ImplementsGrowing == Growing!GSpec
=============================================================================
