--------------------------- MODULE MCSamplingAgenda ---------------------------
(* Instances of SamplingAgenda for TLC. *)
EXTENDS SamplingAgenda
CONSTANTS d1, d2, w1, w2

TwoClients == {d1, d2}
TwoWorkers == {w1, w2}

Phrase(occurrences, estimate, wanted) ==
  [occ |-> occurrences, raw |-> estimate, max |-> wanted]

\* All occurrences; samples of those of known number, one that the coin may pass over
\* and one that it must take; and of those of an estimated number.
FourPhrases ==
  {Phrase(<<TRUE, FALSE>>, 2, 0), Phrase(<<TRUE, TRUE, TRUE>>, 3, 1),
   Phrase(<<TRUE, TRUE, TRUE>>, 3, 2), Phrase(<<FALSE, TRUE>>, 3, 1)}
=============================================================================
