---------------------------- MODULE MCDviDisplay ----------------------------
(* DviDisplay on the second of three trucks. *)
EXTENDS DviDisplay
=============================================================================
