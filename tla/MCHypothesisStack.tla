--------------------------- MODULE MCHypothesisStack ---------------------------
(* Instances of HypothesisStack for TLC: a class is a coverage and one of the *)
(* feature states that recombination tells apart.                             *)
EXTENDS HypothesisStack, Sequences

CoverageOf(c) == c[1]
SevenStates == ({1} \X (1..5)) \cup ({2} \X (1..2))

Tight == -2
=============================================================================
