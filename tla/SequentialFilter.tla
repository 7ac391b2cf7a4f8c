--------------------------- MODULE SequentialFilter ---------------------------
(* What filtering a language model is: the n-grams that pass the filter are  *)
(* written in the order of the input, section by section, each section       *)
(* between its header and its end.                                           *)
EXTENDS Integers, Sequences, FiniteSets

CONSTANTS
  Inputs,      \* the files: [arpa : BOOLEAN, sizes : Seq(Nat)]
  Passes(_)    \* whether the n-gram <<section, n>> passes the filter

VARIABLES
  input,
  out          \* what is written: <<s, n>> is n-gram n of section s, <<s, 0>> is
               \* the header of section s and <<s, size + 1>> its end

\* The places in section s of what is written.  A file of counts has no headers.
Written(file, s) ==
  {n \in 0..(file.sizes[s] + 1) :
     IF n \in 1..file.sizes[s] THEN Passes(<<s, n>>) ELSE file.arpa}
Section(file, s) == {<<s, n>> : n \in Written(file, s)}
Lines(file) == UNION {Section(file, s) : s \in 1..Len(file.sizes)}

Precedes(x, y) == x[1] < y[1] \/ (x[1] = y[1] /\ x[2] < y[2])

\* Line k of the output is the one with k - 1 lines before it.
LinesBefore(file, x) == {y \in Lines(file) : Precedes(y, x)}
LineAt(file, k) == CHOOSE x \in Lines(file) : Cardinality(LinesBefore(file, x)) = k - 1
Filtered(file) == [k \in 1..Cardinality(Lines(file)) |-> LineAt(file, k)]

Init == input \in Inputs /\ out = <<>>

WriteSome ==
  /\ LET text == Filtered(input)
     IN  \E n \in (Len(out) + 1)..Len(text) : out' = SubSeq(text, 1, n)
  /\ UNCHANGED input

\* All of it is written in the end.
Safety == Init /\ [][WriteSome]_<<input, out>>
Spec == Safety /\ WF_<<input, out>>(WriteSome)
=============================================================================
