----------------------------- MODULE MCDbServer -----------------------------
(* DbServer on a few variables and clients; the values are in the .cfg files. *)
EXTENDS DbServer

\* Clients are interchangeable, and so are variables.
Symmetry == Permutations(Queue) \cup Permutations(Name)
=============================================================================
