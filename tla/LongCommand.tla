---------------------------- MODULE LongCommand ----------------------------
(***************************************************************************)
(* How the control process turns the outputs of its control law into the   *)
(* command for the engine, its retarder and the brakes: actuate of         *)
(* src/truckcontrol/long_ctl/src/xyl/long_trk_func.c and what run_tasks    *)
(* of long_trk.c overrides after it.  A step is one cycle.  Torque is a    *)
(* number, as the code limits how fast it rises; of the retarder's torque  *)
(* only its sign, and of the deceleration only its origin, matter.         *)
(***************************************************************************)
EXTENDS Integers

CONSTANTS
  Requests,    \* the torques that the control law may ask for
  Level,       \* the torques above which its rise is limited: 40, 60, 80
  Step,        \* the rise allowed in a cycle above each: 10, 9, 8 a second
  Cap,         \* 98.5
  Wiggle,      \* cmd_count when 1 is added to a torque: 10
  CMD_COUNT,   \* the last cmd_count, when 1 is taken off: 20
  NearCycles   \* cycles in the 3 seconds of JK_cut_in_t

ASSUME RequestAssumption == Requests \subseteq Nat
ASSUME LimitAssumption ==
  /\ Level \in [1 .. 3 -> Nat] /\ Step \in [1 .. 3 -> Nat] /\ Cap \in Nat
  /\ Level[1] < Level[2] /\ Level[2] < Level[3] /\ Level[3] < Cap
  /\ Step[1] >= Step[2] /\ Step[2] >= Step[3]
ASSUME CountAssumption ==
  /\ Wiggle \in Nat /\ CMD_COUNT \in Nat /\ 0 < Wiggle /\ Wiggle + 1 < CMD_COUNT
  /\ NearCycles \in Nat \ {0}

VARIABLES
  engine,        \* engine_command_mode is set, engine_torque
  retarder,      \* engine_retarder_command_mode is set, and its torque is not positive
  brake,         \* brake_command_mode is set, where ebs_deceleration comes from
  eng_torq_buff, \* the torque from which the next rise is limited
  eng_tq_ini,    \* whether the next torque starts afresh
  cmd_count,
  JK_cut_in_t,   \* cycles that the retarder has been on for a near target
  near,          \* what the cycle saw: a target nearer than CUT_IN_THRESHOLD,
  trk_brakes     \* a truck ahead whose driver brakes

limiter == <<eng_torq_buff, eng_tq_ini>>
commandVars == <<engine, retarder, brake, limiter, cmd_count, JK_cut_in_t, near, trk_brakes>>

\* ebs_deceleration: none asked for, or one of an emergency braking.
Demand == {"none", "emergency"}

CommandTypeOK ==
  /\ engine \in [on : BOOLEAN, torque : Int]
  /\ retarder \in [on : BOOLEAN, right_sign : BOOLEAN]
  /\ brake \in [on : BOOLEAN, demand : Demand]
  /\ eng_torq_buff \in Nat /\ eng_tq_ini \in BOOLEAN
  /\ cmd_count \in 0 .. CMD_COUNT
  /\ JK_cut_in_t \in 0 .. NearCycles
  /\ near \in BOOLEAN /\ trk_brakes \in BOOLEAN

\* init_tasks sets the modes; the first cycles, in manual mode, the rest.
CommandInit ==
  /\ engine = [on |-> FALSE, torque |-> 0]
  /\ retarder = [on |-> FALSE, right_sign |-> TRUE]
  /\ brake = [on |-> FALSE, demand |-> "none"]
  /\ eng_torq_buff = 0 /\ eng_tq_ini = TRUE
  /\ cmd_count = 0 /\ JK_cut_in_t = 0
  /\ near = FALSE /\ trk_brakes = FALSE

-----------------------------------------------------------------------------
\* What a cycle of control is given: the switches of the control law for torque,
\* retarder and brakes with the torque it asks for (cacc, a library, as are the
\* modes); whether control is on (drive_mode); whether the driver presses a pedal;
\* a cut-in (control_mode 1 and 2); whether the law may use retarder and brakes
\* (auto_contr).
Input == [con_sw_1 : BOOLEAN, con_sw_3 : BOOLEAN, con_sw_5 : BOOLEAN, y1 : Requests,
          drive : BOOLEAN, pedal : BOOLEAN, cut_in : BOOLEAN, auto_contr : BOOLEAN]

NoTorque == [on |-> FALSE, torque |-> 0]
NoRetarder == [on |-> FALSE, right_sign |-> TRUE]
NoBrake == [on |-> FALSE, demand |-> "none"]

\* inactive_ctrl.
Inactive == [engine |-> NoTorque, retarder |-> NoRetarder, brake |-> NoBrake]

\* What is added to a torque, in two cycles of CMD_COUNT + 1.
Wiggled(count) == IF count = Wiggle THEN 1 ELSE IF count = CMD_COUNT THEN -1 ELSE 0

\* Each of the three limits on the rise of the torque.
Limited(torque, i) ==
  IF torque > Level[i] /\ torque > eng_torq_buff + Step[i] THEN eng_torq_buff + Step[i] ELSE torque

\* The torque to ask for: one that starts afresh with control on is not limited.
Raised(in) ==
  IF eng_tq_ini /\ in.drive THEN in.y1 ELSE Limited(Limited(Limited(in.y1, 1), 2), 3)

Capped(torque) == IF torque > Cap THEN Cap ELSE torque

\* The torque branch.  The retarder that it asks for in a cut-in is overwritten
\* by either branch of the retarder.
ByTorque(c, in) ==
  IF ~in.con_sw_1 THEN [c EXCEPT !.engine = NoTorque]
  ELSE [Inactive EXCEPT !.engine =
         IF in.cut_in THEN NoTorque
         ELSE [on |-> TRUE, torque |-> Capped(Raised(in)) + Wiggled(cmd_count')]]

\* run_tasks repeats this for the accelerator after actuate, where it changes nothing.
ByDriver(c, in) == IF in.pedal THEN [c EXCEPT !.engine.on = FALSE] ELSE c

\* The retarder branch: -1 at the last cmd_count may make the torque positive.
ByJake(c, in) ==
  IF in.con_sw_3
  THEN {[c EXCEPT !.engine = NoTorque, !.retarder = [on |-> TRUE, right_sign |-> sign]] :
         sign \in {TRUE, cmd_count' # CMD_COUNT}}
  ELSE {[c EXCEPT !.retarder = NoRetarder]}

\* A near target, for no more than NearCycles in a row.
Holds == near' /\ JK_cut_in_t < NearCycles

ByNear(c) ==
  IF Holds THEN [c EXCEPT !.engine = NoTorque, !.retarder = [on |-> TRUE, right_sign |-> TRUE]]
  ELSE c

\* Mutant: the engine is left as it is.
BrakeOnly(c, in) ==
  IF in.con_sw_5 THEN [c EXCEPT !.brake.on = TRUE] ELSE [c EXCEPT !.brake = NoBrake]

\* The brake branch leaves ebs_deceleration as it finds it.
ByBrake(c, in) ==
  IF in.con_sw_5 THEN [c EXCEPT !.engine = NoTorque, !.brake.on = TRUE]
  ELSE [c EXCEPT !.brake = NoBrake]

\* f_manage_index is always 0, and nothing sets brake_sw.
ByMode(c, in) == IF in.drive THEN c ELSE Inactive

\* run_tasks after actuate: emergency braking, or no retarder and no brakes.
ByEmergency(c, in) ==
  IF in.auto_contr
  THEN IF trk_brakes' THEN [Inactive EXCEPT !.brake = [on |-> TRUE, demand |-> "emergency"]] ELSE c
  ELSE [c EXCEPT !.retarder.on = FALSE, !.brake.on = FALSE]

\* Mutant: every torque starts afresh.
LimiterKept(in) ==
  /\ eng_torq_buff' = IF in.con_sw_1 THEN Raised(in) ELSE eng_torq_buff
  /\ eng_tq_ini' = IF in.con_sw_3 \/ in.con_sw_5 THEN TRUE ELSE eng_tq_ini

\* eng_torq_buff and eng_tq_ini.
LimiterUpdate(in) ==
  /\ eng_torq_buff' = IF in.con_sw_1 THEN Raised(in) ELSE eng_torq_buff
  /\ eng_tq_ini' = IF in.con_sw_3 \/ in.con_sw_5 THEN TRUE
                   ELSE IF in.con_sw_1 THEN ~in.drive ELSE eng_tq_ini

\* Mutant: the time of the near target starts again only with the next target.
NearTimeKept == IF Holds THEN JK_cut_in_t + 1 ELSE IF near' THEN JK_cut_in_t ELSE 0

\* JK_cut_in_t.
NearTime == IF Holds THEN JK_cut_in_t + 1 ELSE 0

\* One cycle.
Cycle(in) ==
  /\ cmd_count' = IF cmd_count = CMD_COUNT THEN 0 ELSE cmd_count + 1
  /\ near' \in BOOLEAN /\ trk_brakes' \in BOOLEAN
  /\ JK_cut_in_t' = NearTime
  /\ LimiterUpdate(in)
  /\ \E jaked \in ByJake(ByDriver(ByTorque(
                    [engine |-> engine, retarder |-> retarder, brake |-> brake], in), in), in) :
       LET c == ByEmergency(ByMode(ByBrake(ByNear(jaked), in), in), in)
       IN  engine' = c.engine /\ retarder' = c.retarder /\ brake' = c.brake

CommandNext == \E in \in Input : Cycle(in)

CommandSpec == CommandInit /\ [][CommandNext]_commandVars

-----------------------------------------------------------------------------
\* The engine never pulls against its retarder or the brakes, whichever of the
\* law, the driver, a near target and an emergency speak at once.
OneAtATime == engine.on => ~retarder.on /\ ~brake.on

\* As long as the engine is under torque control, its torque rises by no more
\* than a step, and the wiggle, once it is above the lowest level: the cap, the
\* wiggles and cycles in which the driver takes over do not confuse the limit.
RisesByStep ==
  [][engine.on /\ engine'.on /\ engine'.torque > Level[1] + 1
       => engine'.torque <= engine.torque + Step[1] + 1]_commandVars

\* While a target stays near, the engine never pulls in two cycles in a row,
\* although the time limit of the near target starts again as soon as it is over.
NearNeverPullsTwice == [][near /\ near' /\ engine.on => ~engine'.on]_commandVars
=============================================================================
