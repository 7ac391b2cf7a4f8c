-------------------------- MODULE MCFilterController --------------------------
(* Instances of FilterController for TLC. *)
EXTENDS FilterController
CONSTANTS w1, w2

TwoWorkers == {w1, w2}

File(isARPA, s) == [arpa |-> isARPA, sizes |-> s]

\* Sections whose last batch is not full; counts in full batches only.  The
\* first has more batches than there are buffers.
OddSections == {File(TRUE, <<9, 1>>), File(TRUE, <<1, 3, 1>>), File(FALSE, <<10>>)}

\* The first section fills its one batch.
FullSection == {File(TRUE, <<2, 1>>)}

\* An n-gram in two does not pass, and of the first section two together.
PassesSome(ngram) == ngram[2] # 2 /\ ngram \notin {<<1, 3>>, <<1, 4>>}
=============================================================================
