----------------------------- MODULE BoundedBuffer -----------------------------
(* A first-in first-out buffer of bounded size, what util::PCQueue promises to *)
(* "multiple producers and multiple consumers".                                *)
EXTENDS Integers, Sequences

CONSTANTS Values, Size

VARIABLE buffer

Init == buffer = <<>>

Put == \E v \in Values : Len(buffer) < Size /\ buffer' = Append(buffer, v)
Get == buffer # <<>> /\ buffer' = Tail(buffer)

Spec == Init /\ [][Put \/ Get]_buffer
=============================================================================
