--------------------------- MODULE MCCoordination ---------------------------
(* Coordination with short times: see the configurations. *)
EXTENDS Coordination
=============================================================================
