--------------------------- MODULE MCCanTransmit ---------------------------
(* CanTransmit for both chips, with few messages. *)
EXTENDS CanTransmit
=============================================================================
