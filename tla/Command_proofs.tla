--------------------------- MODULE Command_proofs ---------------------------
(***************************************************************************)
(* Theorems about how a command of the control process is made             *)
(* (LongCommand) and how it reaches the bus (JbusSend), for all levels,    *)
(* steps and requested torques, every control the vehicle may be asked     *)
(* for, every set of active messages and every number of loops.            *)
(*                                                                         *)
(* The limit on the rise of the torque compares with a buffer, not with    *)
(* the torque of the last cycle: the invariant is that whenever the engine *)
(* was left under torque control, the buffer is that torque but for the    *)
(* cap and the wiggle, and the next torque does not start afresh.          *)
(*                                                                         *)
(* That a hand-over frees its receiver is not inductive: until it has, as  *)
(* many messages are lost as are missing from the four it started with.    *)
(***************************************************************************)
EXTENDS LongCommand, JbusSend, FiniteSetTheorems, TLAPS

USE RequestAssumption, LimitAssumption, CountAssumption

\* What the next cycle's limit starts from.
Tracks ==
  engine.on => ~eng_tq_ini /\ engine.torque = Capped(eng_torq_buff) + Wiggled(cmd_count)

\* When the engine pulls although a target is near, the time of the near target
\* has just been over and starts again.
StartsAgain == near /\ engine.on => JK_cut_in_t = 0

CommandInv == CommandTypeOK /\ OneAtATime /\ Tracks /\ StartsAgain

Output == [engine : [on : BOOLEAN, torque : Int], retarder : [on : BOOLEAN, right_sign : BOOLEAN],
           brake : [on : BOOLEAN, demand : Demand]]

\* What a stage of a cycle may leave when the engine is still on: the torque of
\* the torque branch, with nothing else on.
Pulls(c, in) ==
  c.engine.on =>
    /\ in.con_sw_1 /\ c.engine.torque = Capped(Raised(in)) + Wiggled(cmd_count')
    /\ ~c.brake.on

-----------------------------------------------------------------------------
LEMMA RaisedType ==
  ASSUME CommandTypeOK, NEW in \in Input
  PROVE  /\ Raised(in) \in Nat
         /\ ~eng_tq_ini /\ Raised(in) > Level[1] => Raised(in) <= eng_torq_buff + Step[1]
<1>1. in.y1 \in Nat /\ eng_torq_buff \in Nat
  BY DEF Input, CommandTypeOK
<1>2. /\ Level[1] \in Nat /\ Level[2] \in Nat /\ Level[3] \in Nat
      /\ Step[1] \in Nat /\ Step[2] \in Nat /\ Step[3] \in Nat
  OBVIOUS
<1>3. ASSUME NEW t \in Nat, NEW i \in 1 .. 3
      PROVE  /\ Limited(t, i) \in Nat /\ Limited(t, i) <= t
             /\ Limited(t, i) > Level[i] => Limited(t, i) <= eng_torq_buff + Step[i]
  BY <1>1, <1>2, <1>3 DEF Limited
<1> DEFINE t1 == Limited(in.y1, 1)
           t2 == Limited(t1, 2)
           t3 == Limited(t2, 3)
<1>4. t1 \in Nat /\ (t1 > Level[1] => t1 <= eng_torq_buff + Step[1])
  BY <1>1, <1>3
<1>5. t2 \in Nat /\ t2 <= t1
  BY <1>3, <1>4
<1>6. t3 \in Nat /\ t3 <= t2
  BY <1>3, <1>5
<1>7. Raised(in) = IF eng_tq_ini /\ in.drive THEN in.y1 ELSE t3
  BY DEF Raised
<1> HIDE DEF t1, t2, t3
<1> QED
  BY <1>1, <1>2, <1>4, <1>5, <1>6, <1>7

LEMMA WiggledType ==
  ASSUME NEW n \in 0 .. CMD_COUNT
  PROVE  Wiggled(n) \in {-1, 0, 1}
  BY DEF Wiggled

\* A stage keeps what Pulls says, except that of the retarder, which has the
\* last word on it.
LEMMA Stages ==
  ASSUME CommandInv, NEW in \in Input, cmd_count' \in 0 .. CMD_COUNT, near' \in BOOLEAN,
         trk_brakes' \in BOOLEAN,
         NEW jaked \in ByJake(ByDriver(ByTorque(
           [engine |-> engine, retarder |-> retarder, brake |-> brake], in), in), in)
  PROVE  LET c == ByEmergency(ByMode(ByBrake(ByNear(jaked), in), in), in)
         IN  /\ c \in Output
             /\ Pulls(c, in)
             /\ c.engine.on => /\ in.drive /\ ~in.con_sw_3 /\ ~in.con_sw_5
                               /\ ~c.retarder.on /\ ~Holds
<1> DEFINE start == [engine |-> engine, retarder |-> retarder, brake |-> brake]
           torqued == ByTorque(start, in)
           driven == ByDriver(torqued, in)
           neared == ByNear(jaked)
           braked == ByBrake(neared, in)
           moded == ByMode(braked, in)
           c == ByEmergency(moded, in)
<1>1. start \in Output
  BY DEF CommandInv, CommandTypeOK, Output
<1>2. Inactive \in Output
  BY DEF Inactive, NoTorque, NoRetarder, NoBrake, Output, Demand
<1>3. Capped(Raised(in)) + Wiggled(cmd_count') \in Int
  BY RaisedType, WiggledType DEF CommandInv, Capped
<1>4. torqued \in Output /\ Pulls(torqued, in)
  BY <1>1, <1>2, <1>3 DEF ByTorque, Output, Pulls, Inactive, NoTorque, NoRetarder, NoBrake, Input
<1> HIDE DEF torqued
<1>5. driven \in Output /\ Pulls(driven, in)
  BY <1>4 DEF ByDriver, Output, Pulls
<1> HIDE DEF driven
<1>6. jaked \in Output /\ Pulls(jaked, in)
        /\ (jaked.engine.on => ~in.con_sw_3 /\ ~jaked.retarder.on)
  <2>1. CASE in.con_sw_3
    <3>1. PICK sign \in {TRUE, cmd_count' # CMD_COUNT} :
            jaked = [driven EXCEPT !.engine = NoTorque, !.retarder = [on |-> TRUE, right_sign |-> sign]]
      BY <2>1 DEF ByJake, driven, torqued
    <3>2. sign \in BOOLEAN
      OBVIOUS
    <3>3. NoTorque \in [on : BOOLEAN, torque : Int] /\ ~NoTorque.on
      BY DEF NoTorque
    <3>4. [on |-> TRUE, right_sign |-> sign] \in [on : BOOLEAN, right_sign : BOOLEAN]
      BY <3>2
    <3>5. jaked \in Output /\ jaked.engine = NoTorque
      BY <3>1, <3>3, <3>4, <1>5 DEF Output
    <3> QED
      BY <3>3, <3>5 DEF Pulls
  <2>2. CASE ~in.con_sw_3
    <3>1. jaked = [driven EXCEPT !.retarder = NoRetarder]
      BY <2>2 DEF ByJake, driven, torqued
    <3> QED
      BY <3>1, <2>2, <1>5 DEF Output, Pulls, NoRetarder
  <2> QED
    BY <2>1, <2>2
<1>7. neared \in Output /\ Pulls(neared, in)
        /\ (neared.engine.on => ~in.con_sw_3 /\ ~neared.retarder.on /\ ~Holds)
  <2>1. CASE Holds
    <3>1. NoTorque \in [on : BOOLEAN, torque : Int] /\ ~NoTorque.on
      BY DEF NoTorque
    <3>2. [on |-> TRUE, right_sign |-> TRUE] \in [on : BOOLEAN, right_sign : BOOLEAN]
      OBVIOUS
    <3>3. neared = [jaked EXCEPT !.engine = NoTorque, !.retarder = [on |-> TRUE, right_sign |-> TRUE]]
      BY <2>1 DEF ByNear
    <3>4. neared \in Output /\ neared.engine = NoTorque
      BY <3>1, <3>2, <3>3, <1>6 DEF Output
    <3> QED
      BY <3>1, <3>4 DEF Pulls
  <2>2. CASE ~Holds
    BY <2>2, <1>6 DEF ByNear
  <2> QED
    BY <2>1, <2>2
<1> HIDE DEF neared
<1>8. braked \in Output /\ Pulls(braked, in)
        /\ (braked.engine.on => /\ ~in.con_sw_3 /\ ~in.con_sw_5
                               /\ ~braked.retarder.on /\ ~Holds)
  <2>1. CASE in.con_sw_5
    <3>1. NoTorque \in [on : BOOLEAN, torque : Int] /\ ~NoTorque.on
      BY DEF NoTorque
    <3>2. braked = [neared EXCEPT !.engine = NoTorque, !.brake.on = TRUE]
      BY <2>1 DEF ByBrake
    <3>3. /\ neared.retarder \in [on : BOOLEAN, right_sign : BOOLEAN]
          /\ [neared.brake EXCEPT !.on = TRUE] \in [on : BOOLEAN, demand : Demand]
      BY <1>7 DEF Output
    <3>4. braked = [engine |-> NoTorque, retarder |-> neared.retarder,
                    brake |-> [neared.brake EXCEPT !.on = TRUE]]
      BY <3>2, <1>7 DEF Output
    <3>5. braked \in Output /\ braked.engine = NoTorque
      BY <3>1, <3>3, <3>4 DEF Output
    <3> QED
      BY <3>1, <3>5 DEF Pulls
  <2>2. CASE ~in.con_sw_5
    <3>1. NoBrake \in [on : BOOLEAN, demand : Demand] /\ ~NoBrake.on
      BY DEF NoBrake, Demand
    <3>2. braked = [neared EXCEPT !.brake = NoBrake]
      BY <2>2 DEF ByBrake
    <3>3. braked \in Output /\ braked.engine = neared.engine /\ braked.retarder = neared.retarder
            /\ braked.brake = NoBrake
      BY <3>1, <3>2, <1>7 DEF Output
    <3> QED
      BY <2>2, <3>1, <3>3, <1>7 DEF Pulls
  <2> QED
    BY <2>1, <2>2
<1> HIDE DEF braked
<1>9. moded \in Output /\ Pulls(moded, in)
        /\ (moded.engine.on => /\ in.drive /\ ~in.con_sw_3 /\ ~in.con_sw_5
                              /\ ~moded.retarder.on /\ ~Holds)
  <2>1. CASE in.drive
    BY <2>1, <1>8 DEF ByMode
  <2>2. CASE ~in.drive
    BY <2>2, <1>2 DEF ByMode, Pulls, Inactive, NoTorque
  <2> QED
    BY <2>1, <2>2
<1> HIDE DEF moded
<1>10. /\ c \in Output /\ Pulls(c, in)
       /\ (c.engine.on => /\ in.drive /\ ~in.con_sw_3 /\ ~in.con_sw_5
                          /\ ~c.retarder.on /\ ~Holds)
  BY <1>9, <1>2 DEF ByEmergency, Output, Pulls, Inactive, NoTorque, Demand
<1> QED
  BY <1>10 DEF c, moded, braked, neared

LEMMA CommandInitInv == CommandInit => CommandInv
<1> SUFFICES ASSUME CommandInit PROVE CommandInv
  OBVIOUS
<1>1. ~engine.on /\ 0 \in 0 .. CMD_COUNT /\ 0 \in 0 .. NearCycles
  BY DEF CommandInit
<1>2. CommandTypeOK
  <2>1. /\ engine \in [on : BOOLEAN, torque : Int]
        /\ retarder \in [on : BOOLEAN, right_sign : BOOLEAN]
    BY DEF CommandInit
  <2>2. brake \in [on : BOOLEAN, demand : Demand]
    BY DEF CommandInit, Demand
  <2> QED
    BY <1>1, <2>1, <2>2 DEF CommandInit, CommandTypeOK
<1> QED
  BY <1>1, <1>2 DEF CommandInv, OneAtATime, Tracks, StartsAgain

\* What a cycle does to the invariant, and how far it lets the torque rise.
LEMMA CycleInv ==
  ASSUME CommandInv, NEW in \in Input, Cycle(in)
  PROVE  /\ CommandInv'
         /\ engine.on /\ engine'.on /\ engine'.torque > Level[1] + 1
              => engine'.torque <= engine.torque + Step[1] + 1
         /\ near /\ near' /\ engine.on => ~engine'.on
<1>1. /\ cmd_count' \in 0 .. CMD_COUNT /\ near' \in BOOLEAN /\ trk_brakes' \in BOOLEAN
      /\ JK_cut_in_t' \in 0 .. NearCycles
  BY DEF Cycle, NearTime, Holds, CommandInv, CommandTypeOK
<1>2. LimiterUpdate(in)
  BY DEF Cycle
<1>3. eng_torq_buff' \in Nat /\ eng_tq_ini' \in BOOLEAN
  BY <1>2, RaisedType DEF LimiterUpdate, Input, CommandInv, CommandTypeOK
<1>4. PICK jaked \in ByJake(ByDriver(ByTorque(
               [engine |-> engine, retarder |-> retarder, brake |-> brake], in), in), in) :
        LET c == ByEmergency(ByMode(ByBrake(ByNear(jaked), in), in), in)
        IN  engine' = c.engine /\ retarder' = c.retarder /\ brake' = c.brake
  BY DEF Cycle
<1> DEFINE c == ByEmergency(ByMode(ByBrake(ByNear(jaked), in), in), in)
<1>5. /\ c \in Output /\ Pulls(c, in)
      /\ (c.engine.on => /\ in.drive /\ ~in.con_sw_3 /\ ~in.con_sw_5
                          /\ ~c.retarder.on /\ ~Holds)
  BY <1>1, Stages
<1>6. engine' = c.engine /\ retarder' = c.retarder /\ brake' = c.brake
  BY <1>4
<1> HIDE DEF c
<1>7. CommandTypeOK'
  BY <1>1, <1>3, <1>5, <1>6 DEF CommandTypeOK, Output
<1>8. OneAtATime'
  BY <1>5, <1>6 DEF OneAtATime, Pulls
<1>9. engine'.on => /\ in.drive /\ in.con_sw_1 /\ ~in.con_sw_3 /\ ~in.con_sw_5
                    /\ engine'.torque = Capped(Raised(in)) + Wiggled(cmd_count')
  BY <1>5, <1>6 DEF Pulls
<1>10. engine'.on => eng_torq_buff' = Raised(in) /\ ~eng_tq_ini'
  BY <1>2, <1>9 DEF LimiterUpdate
<1>11. Tracks'
  BY <1>9, <1>10 DEF Tracks, Capped
<1>12. ASSUME engine.on, engine'.on, engine'.torque > Level[1] + 1
       PROVE  engine'.torque <= engine.torque + Step[1] + 1
  <2>1. ~eng_tq_ini /\ engine.torque = Capped(eng_torq_buff) + Wiggled(cmd_count)
    BY <1>12 DEF CommandInv, Tracks
  <2>2. Raised(in) \in Nat /\ (Raised(in) > Level[1] => Raised(in) <= eng_torq_buff + Step[1])
    BY <2>1, RaisedType DEF CommandInv
  <2>3. Wiggled(cmd_count) \in {-1, 0, 1} /\ Wiggled(cmd_count') \in {-1, 0, 1}
    BY <1>1, WiggledType DEF CommandInv, CommandTypeOK
  <2>4. ~(Wiggled(cmd_count) = -1 /\ Wiggled(cmd_count') = 1)
    BY DEF Cycle, Wiggled, CommandInv, CommandTypeOK
  <2>5. eng_torq_buff \in Nat /\ Level[1] \in Nat /\ Step[1] \in Nat
    BY DEF CommandInv, CommandTypeOK
  <2> QED
    BY <1>9, <1>12, <2>1, <2>2, <2>3, <2>4, <2>5 DEF Capped
<1>13. engine'.on => ~Holds
  BY <1>5, <1>6
<1>14. StartsAgain'
  BY <1>13 DEF StartsAgain, Cycle, NearTime
<1>15. ASSUME near, near', engine.on
       PROVE  ~engine'.on
  BY <1>13, <1>15 DEF Holds, CommandInv, StartsAgain
<1> QED
  BY <1>7, <1>8, <1>11, <1>12, <1>14, <1>15 DEF CommandInv

LEMMA CommandNextInv == CommandInv /\ [CommandNext]_commandVars => CommandInv'
<1> SUFFICES ASSUME CommandInv, [CommandNext]_commandVars PROVE CommandInv'
  OBVIOUS
<1>1. CASE CommandNext
  BY <1>1, CycleInv DEF CommandNext
<1>2. CASE UNCHANGED commandVars
  BY <1>2 DEF commandVars, limiter, CommandInv, CommandTypeOK, OneAtATime, Tracks, StartsAgain
<1> QED
  BY <1>1, <1>2

LEMMA CommandInvariance == CommandSpec => []CommandInv
  BY CommandInitInv, CommandNextInv, PTL DEF CommandSpec

\* The command has its types for all levels, steps and requests.
THEOREM CommandTypeCorrect == CommandSpec => []CommandTypeOK
<1>1. CommandInv => CommandTypeOK
  BY DEF CommandInv
<1> QED
  BY <1>1, CommandInvariance, PTL

\* The engine is never commanded together with the retarder or the brakes.
THEOREM Exclusive == CommandSpec => []OneAtATime
<1>1. CommandInv => OneAtATime
  BY DEF CommandInv
<1> QED
  BY <1>1, CommandInvariance, PTL

\* The torque of an engine that stays under control rises by a step at most.
THEOREM SlowRise == CommandSpec => RisesByStep
<1> DEFINE Slow == engine.on /\ engine'.on /\ engine'.torque > Level[1] + 1
                     => engine'.torque <= engine.torque + Step[1] + 1
<1>1. CommandInv /\ [CommandNext]_commandVars => [Slow]_commandVars
  BY CycleInv DEF CommandNext
<1> QED
  BY <1>1, CommandInvariance, PTL DEF CommandSpec, RisesByStep

(***************************************************************************)
(* While a target stays near, the engine does not pull in two cycles in a  *)
(* row, for every time limit: actuate sets JK_cut_in_t back in the cycle   *)
(* in which the limit lets the engine pull, and so takes it off in the     *)
(* next one.                                                               *)
(***************************************************************************)
THEOREM NearTakesOver == CommandSpec => NearNeverPullsTwice
<1> DEFINE Once == near /\ near' /\ engine.on => ~engine'.on
<1>1. CommandInv /\ [CommandNext]_commandVars => [Once]_commandVars
  BY CycleInv DEF CommandNext
<1> QED
  BY <1>1, CommandInvariance, PTL DEF CommandSpec, NearNeverPullsTwice

-----------------------------------------------------------------------------
\* The messages of the bus.
USE LoopAssumption, LossAssumption, CommandAssumption, MaskAssumption

\* A receiver that is held while its ready_to_send sees no control is in a
\* hand-over, all of whose messages so far are lost.
Held(i) ==
  running /\ old_mode[i] = TSC_OVERRIDE_DISABLED /\ ecu[i] # TSC_OVERRIDE_DISABLED
    => state_change_counter[i] \in {2, 3} /\ lost[i] = 4 - state_change_counter[i]

\* Nothing is told to a receiver whose messages are not active.
Untouched == \A e \in Ecu \ active : ecu[e] = 0

Inv == TypeOK /\ Untouched /\ (\A i \in Tsc : Held(i)) /\ ExitReleasesAllButOne

LEMMA Modes ==
  /\ Mode = {0, 1, 2} /\ Tsc = {"engine", "retarder"}
  /\ Ecu = {"engine", "retarder", "xbr"} /\ Types = {"engine", "retarder", "xbr", "warn"}
  /\ TSC_OVERRIDE_DISABLED = 0 /\ TSC_TORQUE_CONTROL = 2 /\ TSC_SPEED_CONTROL = 1
  /\ XBR_NOT_ACTIVE = 0 /\ XBR_ACTIVE = 2
  BY DEF Mode, Tsc, Ecu, Types, TSC_OVERRIDE_DISABLED, TSC_TORQUE_CONTROL, TSC_SPEED_CONTROL,
         XBR_NOT_ACTIVE, XBR_ACTIVE

\* What main reads from the database is a control of the right form.
LEMMA ReadIsControl ==
  ASSUME TypeOK, NEW c \in get_ctrl_var
  PROVE  c \in LongOutput
<1>1. inactive_ctrl \in LongOutput
  BY Modes DEF inactive_ctrl, LongOutput, TscCommand
<1>2. long_output \in LongOutput
  BY <1>1 DEF TypeOK
<1> QED
  BY <1>1, <1>2 DEF get_ctrl_var

\* active_loop: no loop can send messages of two types.
LEMMA OneVisited ==
  ASSUME TypeOK, NEW i \in Visited, NEW j \in Visited
  PROVE  i = j
<1>1. loop_number \in Nat /\ loop_number < MAX_LOOP_NUMBER
  BY DEF TypeOK
<1>2. loop_number % MAX_LOOP_NUMBER = 0 => loop_number % 4 = 0
  BY <1>1
<1> QED
  BY <1>1, <1>2, Z3 DEF Visited, active_loop

LEMMA InitInv == Init => Inv
<1> SUFFICES ASSUME Init PROVE Inv
  OBVIOUS
<1>1. TypeOK
  <2>1. 0 \in 0 .. MAX_LOOP_NUMBER - 1 /\ 0 \in 0 .. 3 /\ 0 \in 0 .. MaxLost
    OBVIOUS
  <2>2. active \in SUBSET Types
    BY DEF Init
  <2> QED
    BY <2>1, <2>2, Modes DEF Init, TypeOK
<1>2. Untouched /\ (\A i \in Tsc : Held(i)) /\ ExitReleasesAllButOne
  BY Modes DEF Init, Untouched, Held, ExitReleasesAllButOne
<1> QED
  BY <1>1, <1>2 DEF Inv

-----------------------------------------------------------------------------
\* The counter a ready_to_send counts from.
LEMMA CountingType ==
  ASSUME TypeOK, NEW i \in Tsc, NEW c \in TscCommand
  PROVE  /\ Counting(i, c) \in 0 .. 4
         /\ Counting(i, c) = 4 <=> HandOver(i, c)
         /\ LostBefore(i, c) \in 0 .. MaxLost
  BY Modes DEF TypeOK, Counting, HandOver, LostBefore

LEMMA VisitTscInv ==
  ASSUME Inv, running, NEW i \in Visited \cap Tsc, NEW c \in TscCommand,
         engine_speed_mode' \in BOOLEAN, UNCHANGED <<command, active, running>>,
         loop_number' \in 0 .. MAX_LOOP_NUMBER - 1, VisitTsc(i, c)
  PROVE  Inv'
<1> USE Modes
<1>1. i \in active /\ i \in Types /\ c.mode \in Mode
  BY DEF Visited, Inv, TypeOK, TscCommand
<1>2. Counting(i, c) \in 0 .. 4 /\ LostBefore(i, c) \in 0 .. MaxLost
  BY CountingType DEF Inv
<1>3. EnOvrdCtrlM(i, c) \in Mode
  BY <1>1 DEF EnOvrdCtrlM
<1>4. TypeOK'
  <2>1. old_mode' \in [Tsc -> Mode]
    BY <1>1 DEF VisitTsc, Inv, TypeOK
  <2>2. state_change_counter' \in [Tsc -> 0 .. 3]
    BY <1>2 DEF VisitTsc, Inv, TypeOK
  <2>3. recent' \in [Types -> BOOLEAN] /\ sent' \in SUBSET active
    <3>1. ready_to_send(i, c) \subseteq BOOLEAN
      BY <1>1 DEF ready_to_send, Due, Inv, TypeOK
    <3>2. recent \in [Types -> BOOLEAN]
      BY DEF Inv, TypeOK
    <3>3. PICK can_send \in BOOLEAN :
            recent' = [recent EXCEPT ![i] = can_send] /\ sent' = {j \in {i} : can_send}
      BY <3>1, Zenon DEF VisitTsc
    <3>4. sent' \subseteq {i}
      BY <3>3
    <3> QED
      BY <1>1, <3>2, <3>3, <3>4
  <2>4. lost' \in [Tsc -> 0 .. MaxLost]
    BY <1>2 DEF VisitTsc, Inv, TypeOK
  <2>5. ecu' \in [Ecu -> Mode]
    BY <1>3 DEF VisitTsc, Delivered, Inv, TypeOK
  <2> QED
    BY <2>1, <2>2, <2>3, <2>4, <2>5 DEF Inv, TypeOK, command
<1>5. Untouched'
  BY <1>1 DEF VisitTsc, Delivered, Untouched, Inv, TypeOK
<1>6. ASSUME NEW j \in Tsc PROVE Held(j)'
  <2>1. CASE j # i
    <3>1. /\ old_mode'[j] = old_mode[j] /\ ecu'[j] = ecu[j] /\ lost'[j] = lost[j]
          /\ state_change_counter'[j] = state_change_counter[j]
      BY <2>1 DEF VisitTsc, Delivered, Inv, TypeOK
    <3> QED
      BY <3>1 DEF Held, Inv
  <2>2. CASE j = i
    <3> USE <2>2
    <3>1. /\ old_mode'[i] = c.mode
          /\ state_change_counter'[i] = IF Counting(i, c) > 0 THEN Counting(i, c) - 1 ELSE 0
      BY DEF VisitTsc, Inv, TypeOK
    <3>2. c.mode = 0 => EnOvrdCtrlM(i, c) = 0
      BY DEF EnOvrdCtrlM
    <3>3. PICK can_send \in ready_to_send(i, c) :
            \/ can_send /\ ecu'[i] = EnOvrdCtrlM(i, c)
            \/ /\ can_send /\ LostBefore(i, c) < MaxLost /\ UNCHANGED ecu
               /\ lost'[i] = LostBefore(i, c) + 1
            \/ ~can_send /\ UNCHANGED <<ecu, lost>>
      BY DEF VisitTsc, Delivered, Inv, TypeOK
    <3> SUFFICES ASSUME c.mode = 0, ecu'[i] # 0
                 PROVE  /\ state_change_counter'[i] \in {2, 3}
                        /\ lost'[i] = 4 - state_change_counter'[i]
      BY <3>1 DEF Held
    <3>4. CASE HandOver(i, c)
      <4>1. Counting(i, c) = 4 /\ LostBefore(i, c) = 0 /\ ready_to_send(i, c) = {TRUE}
        BY <3>4 DEF Counting, LostBefore, ready_to_send
      <4> QED
        BY <4>1, <3>1, <3>2, <3>3
    <3>5. CASE ~HandOver(i, c)
      <4>1. old_mode[i] = 0 /\ Counting(i, c) = state_change_counter[i] /\ LostBefore(i, c) = lost[i]
        BY <3>5 DEF HandOver, Counting, LostBefore
      <4>2. ecu[i] # 0
        BY <3>2, <3>3
      <4>3. state_change_counter[i] \in {2, 3} /\ lost[i] = 4 - state_change_counter[i]
        BY <4>1, <4>2 DEF Inv, Held
      <4>4. ready_to_send(i, c) = {TRUE}
        <5>1. Counting(i, c) > 1
          BY <4>1, <4>3
        <5> QED
          BY <5>1, Zenon DEF ready_to_send
      <4> QED
        BY <4>1, <4>3, <4>4, <3>1, <3>2, <3>3
    <3> QED
      BY <3>4, <3>5
  <2> QED
    BY <2>1, <2>2
<1>7. ExitReleasesAllButOne'
  BY DEF ExitReleasesAllButOne
<1> QED
  BY <1>4, <1>5, <1>6, <1>7 DEF Inv

LEMMA VisitXbrInv ==
  ASSUME Inv, running, "xbr" \in Visited, NEW c \in LongOutput,
         engine_speed_mode' \in BOOLEAN, UNCHANGED <<command, active, running>>,
         loop_number' \in 0 .. MAX_LOOP_NUMBER - 1, VisitXbr(c)
  PROVE  Inv'
<1> USE Modes
<1>1. "xbr" \in active /\ c.xbr \in {0, 2}
  BY DEF Visited, LongOutput
<1>2. Due("xbr") \subseteq BOOLEAN /\ recent \in [Types -> BOOLEAN]
  BY DEF Due, Inv, TypeOK
<1>3. PICK can_send \in BOOLEAN :
        /\ recent' = [recent EXCEPT !["xbr"] = can_send] /\ sent' = {j \in {"xbr"} : can_send}
        /\ \/ can_send /\ ecu' = [ecu EXCEPT !["xbr"] = c.xbr]
           \/ ~can_send /\ UNCHANGED ecu
  BY <1>2, Zenon DEF VisitXbr, Delivered
<1>4. recent' \in [Types -> BOOLEAN] /\ sent' \in SUBSET active
  BY <1>1, <1>2, <1>3
<1>5. ecu' \in [Ecu -> Mode] /\ (\A e \in Ecu \ {"xbr"} : ecu'[e] = ecu[e])
  BY <1>1, <1>3 DEF Inv, TypeOK
<1>6. UNCHANGED <<old_mode, state_change_counter, lost>>
  BY DEF VisitXbr
<1>7. TypeOK'
  BY <1>4, <1>5, <1>6 DEF Inv, TypeOK, command
<1>8. Untouched' /\ (\A i \in Tsc : Held(i)')
  BY <1>1, <1>5, <1>6 DEF Inv, Untouched, Held
<1> QED
  BY <1>7, <1>8 DEF Inv, ExitReleasesAllButOne

LEMMA VisitWarnInv ==
  ASSUME Inv, running, "warn" \in Visited,
         engine_speed_mode' \in BOOLEAN, UNCHANGED <<command, active, running>>,
         loop_number' \in 0 .. MAX_LOOP_NUMBER - 1, VisitWarn
  PROVE  Inv'
<1> USE Modes
<1>1. "warn" \in active
  BY DEF Visited
<1>2. Due("warn") \subseteq BOOLEAN /\ recent \in [Types -> BOOLEAN]
  BY DEF Due, Inv, TypeOK
<1>3. PICK can_send \in BOOLEAN :
        recent' = [recent EXCEPT !["warn"] = can_send] /\ sent' = {j \in {"warn"} : can_send}
  BY <1>2, Zenon DEF VisitWarn
<1>4. recent' \in [Types -> BOOLEAN] /\ sent' \in SUBSET active
  BY <1>1, <1>2, <1>3
<1>5. UNCHANGED <<old_mode, state_change_counter, lost, ecu>>
  BY DEF VisitWarn
<1>6. TypeOK'
  BY <1>4, <1>5 DEF Inv, TypeOK, command
<1> QED
  BY <1>5, <1>6 DEF Inv, Untouched, Held, ExitReleasesAllButOne

LEMMA LoopInv ==
  ASSUME Inv, Loop
  PROVE  Inv'
<1> USE Modes
<1>1. PICK c \in get_ctrl_var : LoopWith(c)
  BY DEF Loop
<1>2. c \in LongOutput
  BY ReadIsControl DEF Inv
<1>3. c.engine \in TscCommand /\ c.retarder \in TscCommand
  BY <1>2 DEF LongOutput
<1>4. engine_speed_mode' \in BOOLEAN
  BY <1>1 DEF LoopWith, UpdateSpeedMode, Inv, TypeOK
<1>5. loop_number' \in 0 .. MAX_LOOP_NUMBER - 1
  BY <1>1 DEF LoopWith, Inv, TypeOK
<1>6. running /\ UNCHANGED <<command, active, running>>
  BY <1>1 DEF LoopWith
<1>7. CASE \E i \in Visited \cap Tsc : VisitTsc(i, c[i])
  BY <1>3, <1>4, <1>5, <1>6, <1>7, VisitTscInv
<1>8. CASE "xbr" \in Visited /\ VisitXbr(c)
  BY <1>2, <1>4, <1>5, <1>6, <1>8, VisitXbrInv
<1>9. CASE "warn" \in Visited /\ VisitWarn
  BY <1>4, <1>5, <1>6, <1>9, VisitWarnInv
<1>10. CASE VisitNone
  <2>1. sent' \in SUBSET active /\ UNCHANGED <<old_mode, state_change_counter, recent, lost, ecu>>
    BY <1>10 DEF VisitNone
  <2>2. TypeOK'
    BY <1>4, <1>5, <1>6, <2>1 DEF Inv, TypeOK, command
  <2> QED
    BY <1>6, <2>1, <2>2 DEF Inv, Untouched, Held, ExitReleasesAllButOne
<1> QED
  BY <1>1, <1>7, <1>8, <1>9, <1>10 DEF LoopWith

LEMMA ExitInv ==
  ASSUME Inv, send_jbus_exit
  PROVE  Inv'
<1> USE Modes
<1>1. PICK gone \in LostAtOnce :
        ecu' = [e \in Ecu |-> IF e \in sent' \ gone THEN 0 ELSE ecu[e]]
  BY DEF send_jbus_exit
<1>2. PICK i : gone \subseteq {i}
  BY DEF LostAtOnce
<1>3. sent' = active /\ ~running' /\ active' = active
  BY DEF send_jbus_exit
<1>4. \A e \in Ecu : ecu'[e] # 0 => e = i
  BY <1>1, <1>2, <1>3 DEF Inv, Untouched
<1>5. ecu' \in [Ecu -> Mode] /\ Untouched'
  BY <1>1, <1>3 DEF Inv, TypeOK, Untouched
<1>6. TypeOK'
  BY <1>3, <1>5 DEF Inv, TypeOK, send_jbus_exit, command
<1>7. Cardinality({e \in Ecu : ecu'[e] # 0}) <= 1
  <2>1. {e \in Ecu : ecu'[e] # 0} \subseteq {i}
    BY <1>4
  <2>2. IsFiniteSet({i}) /\ Cardinality({i}) = 1
    BY FS_Singleton
  <2>3. Cardinality({e \in Ecu : ecu'[e] # 0}) <= Cardinality({i})
    BY <2>1, <2>2, FS_Subset
  <2> QED
    BY <2>2, <2>3
<1> QED
  BY <1>3, <1>5, <1>6, <1>7 DEF Inv, Held, ExitReleasesAllButOne

LEMMA NextInv == Inv /\ [Next]_vars => Inv'
<1> SUFFICES ASSUME Inv, [Next]_vars PROVE Inv'
  OBVIOUS
<1>1. CASE Loop
  BY <1>1, LoopInv
<1>2. CASE send_jbus_exit
  BY <1>2, ExitInv
<1>3. ASSUME UNCHANGED sender, db_up' \in BOOLEAN, control' \in {"on", "exited", "crashed"},
             long_output' \in Ctrl \cup {inactive_ctrl}
      PROVE  Inv'
  BY <1>3 DEF sender, Inv, TypeOK, Untouched, Held, ExitReleasesAllButOne
<1>4. /\ db_up \in BOOLEAN /\ control \in {"on", "exited", "crashed"}
      /\ long_output \in Ctrl \cup {inactive_ctrl}
  BY DEF Inv, TypeOK
<1>5. CASE Control \/ exit_tasks \/ ControlCrash \/ ServerStops \/ ServerStarts
  BY <1>3, <1>4, <1>5 DEF Control, exit_tasks, ControlCrash, ServerStops, ServerStarts
<1>6. CASE UNCHANGED vars
  BY <1>3, <1>4, <1>6 DEF vars, command
<1> QED
  BY <1>1, <1>2, <1>5, <1>6 DEF Next

LEMMA Invariance == Spec => []Inv
  BY InitInv, NextInv, PTL DEF Spec

\* The state of the process has its types for every control and mask: a
\* hand-over never counts beyond three.
THEOREM TypeCorrect == Spec => []TypeOK
<1>1. Inv => TypeOK
  BY DEF Inv
<1> QED
  BY <1>1, Invariance, PTL

\* Whatever is read in whichever loop, the third loop of a hand-over at the
\* latest has freed its receiver, as long as the bus loses MaxLost of its
\* messages at most.
THEOREM Releases == Spec => []HandOverReleases
<1>1. Inv => HandOverReleases
  BY Modes DEF Inv, HandOverReleases, Held, TypeOK
<1> QED
  BY <1>1, Invariance, PTL

\* The exit, which sends everything at once, leaves one receiver with its
\* command at most.
THEOREM ExitReleases == Spec => []ExitReleasesAllButOne
<1>1. Inv => ExitReleasesAllButOne
  BY DEF Inv
<1> QED
  BY <1>1, Invariance, PTL
=============================================================================
