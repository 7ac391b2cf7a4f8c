------------------------------- MODULE MCPCQueue -------------------------------
(* Instances of PCQueue for TLC. *)
EXTENDS PCQueue
CONSTANTS p1, p2, k1, k2, a, b

TwoProducers == {p1, p2}
TwoConsumers == {k1, k2}
TwoValues == {a, b}
=============================================================================
