---------------------------- MODULE MCLongCommand ----------------------------
(* LongCommand with torques of a few units between its levels. *)
EXTENDS LongCommand

MCLevel == <<3, 6, 9>>
MCStep == <<3, 2, 1>>
=============================================================================
