----------------------------- MODULE MCNBestList -----------------------------
(***************************************************************************)
(* A sentence of three words with one or two translations of every word    *)
(* and of two pairs of words, searched with and without limits; and     *)
(* longer ones where the end of a hypothesis decides how it goes on.       *)
(***************************************************************************)
EXTENDS NBestList

TwoWords == {"a", "b"}
FirstWord == "a"

Local == [pair \in TwoWords \X TwoWords |-> 0]
Repeats == [pair \in TwoWords \X TwoWords |-> IF pair[1] = pair[2] THEN -2 ELSE 0]

Opt(word, score) == [word |-> word, score |-> score]

TableA == (<<0, 0>> :> <<Opt("a", -1), Opt("b", -2)>>) @@
          (<<1, 1>> :> <<Opt("b", -1)>>) @@
          (<<2, 2>> :> <<Opt("a", -2), Opt("a", -3)>>) @@
          (<<0, 1>> :> <<Opt("b", -3)>>) @@
          (<<1, 2>> :> <<Opt("a", -2), Opt("b", -2)>>)

\* The last word alone is unknown, and left as it is.
TableB == (<<0, 0>> :> <<Opt("a", -1), Opt("b", -1)>>) @@
          (<<1, 1>> :> <<Opt("a", -1)>>) @@
          (<<1, 2>> :> <<Opt("a", -2), Opt("b", -3)>>) @@
          (<<2, 2>> :> <<Opt("b", -6)>>)

\* 1 and 2, then 0, are covered without a word from 3 to 5, which 5 alone may
\* follow by the first gap, but not from the end of 0.
TableC == (<<1, 2>> :> <<Opt("a", -1), Opt("b", -1)>>) @@
          (<<0, 0>> :> <<Opt("b", -1)>>) @@
          (<<3, 4>> :> <<Opt("b", -2), Opt("a", -3)>>) @@
          (<<5, 5>> :> <<Opt("a", -1)>>) @@
          [span \in {<<w, w>> : w \in 1..4} |-> <<Opt("a", -9)>>]

\* The better way to cover 0 to 2 ends farther from 3.
TableD == (<<0, 0>> :> <<Opt("b", -1)>>) @@
          (<<1, 1>> :> <<Opt("b", -3)>>) @@
          (<<2, 2>> :> <<Opt("b", -3)>>) @@
          (<<1, 2>> :> <<Opt("a", -1)>>) @@
          (<<3, 3>> :> <<Opt("a", -1), Opt("b", -1)>>)

\* Most derivations say the same.
TableE == (<<0, 0>> :> <<Opt("a", -1)>>) @@
          (<<1, 1>> :> <<Opt("a", -1)>>) @@
          (<<2, 2>> :> <<Opt("a", -1)>>) @@
          (<<0, 1>> :> <<Opt("a", -9)>>)

NotAAfterB == [pair \in TwoWords \X TwoWords |-> IF pair = <<"b", "a">> THEN -9 ELSE 0]

AfterB == [pair \in TwoWords \X TwoWords |-> IF pair[1] = "b" THEN -1 ELSE 0]

Unbounded == [size |-> 3, options |-> TableA, popLimit |-> 100, diversity |-> 0,
          maxHypoStackSize |-> 100, beamWidth |-> -100, maxDistortion |-> 2,
          weightDistortion |-> 1, bigrams |-> Local,
          nBestSize |-> 4, distinct |-> FALSE, nBestFactor |-> 2, arcFactor |-> 100]

AllSettings ==
    {Unbounded,
     [Unbounded EXCEPT !.bigrams = Repeats, !.nBestSize = 40],
     [Unbounded EXCEPT !.options = TableB, !.bigrams = Repeats, !.maxDistortion = -1],
     [Unbounded EXCEPT !.distinct = TRUE, !.nBestSize = 3],
     [Unbounded EXCEPT !.distinct = TRUE, !.nBestFactor = 0, !.nBestSize = 6],
     [Unbounded EXCEPT !.maxDistortion = 1, !.arcFactor = 1, !.nBestSize = 2],
     [Unbounded EXCEPT !.maxHypoStackSize = 1, !.popLimit = 4, !.beamWidth = -2],
     [Unbounded EXCEPT !.popLimit = 2, !.diversity = 1, !.bigrams = Repeats],
     [Unbounded EXCEPT !.popLimit = 3, !.nBestSize = 0, !.maxDistortion = 0],
     [Unbounded EXCEPT !.size = 6, !.options = TableC, !.maxDistortion = 3,
                       !.bigrams = AfterB, !.weightDistortion = 0,
                       !.maxHypoStackSize = 1],
     [Unbounded EXCEPT !.size = 4, !.options = TableD, !.maxDistortion = 3],
     [Unbounded EXCEPT !.size = 4, !.options = TableD, !.maxDistortion = 3,
                       !.bigrams = NotAAfterB],
     [Unbounded EXCEPT !.options = TableE, !.distinct = TRUE, !.nBestSize = 2,
                       !.nBestFactor = 9],
     [Unbounded EXCEPT !.options = TableE, !.distinct = TRUE, !.nBestSize = 2]}
=============================================================================
