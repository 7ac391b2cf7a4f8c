-------------------------- MODULE GrowingAlignment --------------------------
(***************************************************************************)
(* What growing a symmetric alignment promises, in no order: start from    *)
(* the intersection; add a point of the union next to one already there,   *)
(* if it covers a new word; when there is none left, and final is asked    *)
(* for, add any point of the union that covers a new word (or two); print  *)
(* when there is none left either.                                         *)
(***************************************************************************)
EXTENDS Integers

CONSTANTS M, N, Options

VARIABLES opt, a, b, points, stage

gvars == <<opt, a, b, points, stage>>

GMatrix == (1..N) \X (1..M)

GDirect == {p \in GMatrix : a[p[2]] = p[1]}

GInverse == {p \in GMatrix : b[p[1]] = p[2]}

GrowsTo == GDirect \union GInverse

Covered(p) == /\ \E q \in points : q[1] = p[1]
              /\ \E q \in points : q[2] = p[2]

Fresh(p) == \A q \in points : q[1] # p[1] /\ q[2] # p[2]

Close(p, q) ==
    \/ p[1] = q[1] /\ p[2] - q[2] \in {-1, 1}
    \/ p[2] = q[2] /\ p[1] - q[1] \in {-1, 1}
    \/ opt.diagonal /\ p[1] - q[1] \in {-1, 1} /\ p[2] - q[2] \in {-1, 1}

Grows(p) == /\ p \in GrowsTo /\ ~Covered(p)
            /\ \E q \in points : Close(p, q)

Completes(p) == /\ p \in GrowsTo \ points
                /\ IF opt.bothuncovered THEN Fresh(p) ELSE ~Covered(p)

GInit == /\ opt \in Options
         /\ a \in [1..M -> 0..N] /\ b \in [1..N -> 0..M]
         /\ points = {} /\ stage = "start"

GStart == /\ stage = "start" /\ opt.alignment = "grow"
          /\ points' = GDirect \intersect GInverse
          /\ stage' = "grow"
          /\ UNCHANGED <<opt, a, b>>

GSkip == /\ stage = "start" /\ opt.alignment # "grow"
         /\ stage' = "done"
         /\ UNCHANGED <<opt, a, b, points>>

GGrow == /\ stage = "grow"
         /\ \E p \in GMatrix : Grows(p) /\ points' = points \union {p}
         /\ UNCHANGED <<opt, a, b, stage>>

GGrown == /\ stage = "grow"
          /\ \A p \in GMatrix : ~Grows(p)
          /\ stage' = "final"
          /\ UNCHANGED <<opt, a, b, points>>

GFinal == /\ stage = "final" /\ opt.final
          /\ \E p \in GMatrix : Completes(p) /\ points' = points \union {p}
          /\ UNCHANGED <<opt, a, b, stage>>

GPrint == /\ stage = "final"
          /\ opt.final => \A p \in GMatrix : ~Completes(p)
          /\ stage' = "done"
          /\ UNCHANGED <<opt, a, b, points>>

\* What is left in the memory of a program that has exited is not promised.
GExit == stage = "done" /\ stage' = "exited"

GNext == GStart \/ GSkip \/ GGrow \/ GGrown \/ GFinal \/ GPrint \/ GExit

GSpec == GInit /\ [][GNext]_gvars
=============================================================================
