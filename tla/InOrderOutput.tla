----------------------------- MODULE InOrderOutput -----------------------------
(* What the decoder promises of its output stream: the translations of lines  *)
(* 0, 1, 2, ... of the input appear in that order, one by one, each once.     *)
EXTENDS Integers, Sequences

CONSTANT NumLines   \* the number of lines to be output

VARIABLE out        \* the lines written so far

Init == out = <<>>

Emit ==
  /\ Len(out) < NumLines
  /\ out' = Append(out, Len(out))

Safety == Init /\ [][Emit]_out

\* Every line is output in the end.
Liveness == WF_out(Emit)

Spec == Safety /\ Liveness
=============================================================================
