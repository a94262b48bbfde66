---------------------------- MODULE MCCanReceive ----------------------------
(* CanReceive with small buffers, one id in two passing the first filter. *)
EXTENDS CanReceive, TLC

Symmetry == Permutations(Reader)
=============================================================================
