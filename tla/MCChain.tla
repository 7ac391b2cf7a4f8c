-------------------------------- MODULE MCChain --------------------------------
(* A chain of up to four threads, of three blocks, started twice. *)
EXTENDS Chain
=============================================================================
