----------------------------- MODULE MCJbusSend -----------------------------
(* JbusSend with one command for each case that the code tells apart. *)
EXTENDS JbusSend

Off == [mode |-> TSC_OVERRIDE_DISABLED, right_sign |-> TRUE]
Torque(right_sign) == [mode |-> TSC_TORQUE_CONTROL, right_sign |-> right_sign]
Speed == [mode |-> TSC_SPEED_CONTROL, right_sign |-> TRUE]

Engine(c) == [engine |-> c, retarder |-> Off, xbr |-> XBR_NOT_ACTIVE]
Retarder(c, xbr) == [engine |-> Off, retarder |-> c, xbr |-> xbr]

MCCtrl == {Engine(Off), Engine(Torque(TRUE)), Engine(Torque(FALSE)), Engine(Speed)}
  \cup {Retarder(Torque(FALSE), XBR_NOT_ACTIVE)}
  \cup {Retarder(Torque(TRUE), xbr) : xbr \in {XBR_NOT_ACTIVE, XBR_ACTIVE}}

MCMasks == {{"engine", "xbr"}, {"retarder", "xbr", "warn"}}
=============================================================================
