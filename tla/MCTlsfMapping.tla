--------------------------- MODULE MCTlsfMapping ---------------------------
(* An instance of TlsfMapping for TLC, with every width scaled down. *)
EXTENDS TlsfMapping

MCPow2 == [n \in 0..SizeBits |-> 2^n]
=============================================================================
