-------------------------- MODULE MCCircularBuffer --------------------------
(* CircularBuffer on a few places and messages, its values in the .cfg. *)
EXTENDS CircularBuffer
=============================================================================
