---------------------------- MODULE MCRingBuffer ----------------------------
(* Instances of RingBuffer for TLC. *)
EXTENDS RingBufferInv, TLC

Symmetric == Permutations(Values)
=============================================================================
