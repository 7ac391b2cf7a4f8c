------------------------------ MODULE WordsBitmap ------------------------------
(****************************************************************************)
(* Moses::WordsBitmap (moses/WordsBitmap.h): which source words a           *)
(* hypothesis has translated.  A bitmap is the set of the positions covered; *)
(* NOT_FOUND, the largest size_t, is a number above every position.         *)
(****************************************************************************)
EXTENDS Integers, FiniteSetsExt

CONSTANT SourceSize   \* the number of words of the sentence

ASSUME SizeAssumption == SourceSize \in Nat \ {0}

Positions == 0..(SourceSize - 1)
NotFound == SourceSize

Span(s, e) == s..e

GetFirstGapPos(covered) == Min((Positions \ covered) \cup {NotFound})
GetLastPos(covered) == IF covered = {} THEN NotFound ELSE Max(covered)

\* Mistake (not the code): the pattern ends before the last word.
EncodeWithoutLast(covered, start) ==
  MapThenSumSet(LAMBDA p : 2 ^ (p - start - 1),
                {p \in covered : p > start /\ p < GetLastPos(covered)})
    + 2 ^ 16 * start

\* The pattern bits of the positions after start, and start above them.
Encode(covered, start) ==
  MapThenSumSet(LAMBDA p : 2 ^ (p - start - 1), {p \in covered : p > start})
    + 2 ^ 16 * start

\* The id of a bitmap, the key of the stack diversity.
GetID(covered) == Encode(covered, GetFirstGapPos(covered))
=============================================================================
