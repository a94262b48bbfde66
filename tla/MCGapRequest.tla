---------------------------- MODULE MCGapRequest ----------------------------
(***************************************************************************)
(* GapRequest for TLC: three levels, a press of two ticks, and two values  *)
(* that the request of dvi_rcv can have before it is set.                  *)
(***************************************************************************)
EXTENDS GapRequest

MCGarbage ==
  {[acc_cacc_request |-> 1, gap_request |-> 0], [acc_cacc_request |-> 3, gap_request |-> Other]}
=============================================================================
