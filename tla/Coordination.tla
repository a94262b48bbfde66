---------------------------- MODULE Coordination ----------------------------
(***************************************************************************)
(* The maneuvers of one truck of a platoon: coording and maneuver of       *)
(* src/truckcontrol/long_ctl/src/xyl/long_lib, which the control loop,     *)
(* long_trk.c.mod-to-use-latposB-instead-of-hdistA, calls one after the    *)
(* other in every cycle.  coording picks the maneuver man_des and the      *)
(* distance des_f_dist to the truck ahead; maneuver carries it out and     *)
(* acknowledges its end in man_id2.  Nothing else in this loop sets        *)
(* des_f_dist once it has begun, in tasks 3 to 8.  Time is counted in      *)
(* cycles.  The half cosine by which a distance changes is replaced with a *)
(* straight line between the same ends; a speed is below, at or above the  *)
(* maximum.  SPLIT_DIST, JOIN_DIST and E_SPLIT_DIST have one value, as in  *)
(* veh_long.h, and distances are relative to DES_FOLLOW_DIST.              *)
(***************************************************************************)
EXTENDS Integers

CONSTANTS
  Vehicle,     \* veh_id: 1 leads, 2 and 3 follow
  Task,        \* 3 split, 4 join, 5 both, and 6, 7, 8 one truck after the other
  CRUISE_T, SPLIT_T, JOIN_T, t_wait,    \* in cycles
  Fault        \* the values f_manage_index may take

ASSUME VehicleAssumption == Vehicle \subseteq 1 .. 3
ASSUME TaskAssumption == Task \subseteq 3 .. 8
ASSUME TimeAssumption ==
  \A t \in {CRUISE_T, SPLIT_T, JOIN_T, t_wait} : t \in Nat \ {0}
ASSUME WaitAssumption == t_wait > 3
ASSUME CruiseAssumption == CRUISE_T > 2   \* it is 5 s, of 20 ms cycles, or more
ASSUME FaultAssumption == Fault \subseteq 0 .. 3

VARIABLES
  veh_id, task,
  time,        \* global_time
  past,        \* run_dist > stop_dist
  v,           \* what the two functions keep: see Truck
  steady       \* whether no fault was managed, nothing refused, no stop begun, and
               \* the speed was kept since the truck first cruised

vars == <<veh_id, task, time, past, v, steady>>

\* SPLIT_DIST, in units that both ramps divide.
DIST == SPLIT_T * JOIN_T

\* A time by which every task is over.
End == 4 * CRUISE_T + 2 * SPLIT_T + 2 * JOIN_T + 4

Maneuver == {0, 1, 3, 6, 7, 8, 13, 27, 29}

Truck ==
  [man_des : Maneuver, man_id1 : Maneuver, man_id2 : {0, 1},
   cruise_t : 0 .. 3 * CRUISE_T + 1, man_t : 0 .. End, man_on : BOOLEAN,
   split_d : 0 .. SPLIT_T + 1, join_d : 0 .. JOIN_T + 1,   \* coording's split_t, join_t
   used : SUBSET {"split", "join", "f_manage_2", "f_manage_3", "man_des_29"},
                                                    \* the switches that are 0
   des_f_dist : Int, man_dist_var2 : Int, man_dist_var3 : Int,
   sampled : SUBSET {"split", "join", "e_split"},   \* the sample switches that are 0
   split_t : 0 .. SPLIT_T + 1, join_t : 0 .. JOIN_T, e_split_t : 0 .. SPLIT_T + 1,
   loc_split_dist : {0, DIST}]

\* Even by the distances that an interrupted maneuver has left behind, the
\* desired one is never more than a join below, or five splits above, the usual.
TypeOK ==
  /\ veh_id \in Vehicle /\ task \in Task
  /\ time \in 0 .. t_wait + 1
  /\ past \in BOOLEAN /\ steady \in BOOLEAN
  /\ v \in Truck
  /\ v.des_f_dist \in - DIST .. 5 * DIST

Init ==
  /\ veh_id \in Vehicle /\ task \in Task
  /\ time = 0 /\ past = FALSE /\ steady = TRUE
  /\ v = [man_des |-> 0, man_id1 |-> 0, man_id2 |-> 0, cruise_t |-> 0, man_t |-> 0,
          man_on |-> FALSE, split_d |-> 0, join_d |-> 0, used |-> {},
          des_f_dist |-> 0, man_dist_var2 |-> 0, man_dist_var3 |-> 0, sampled |-> {},
          split_t |-> 0, join_t |-> 0, e_split_t |-> 0, loc_split_dist |-> 0]

\* A clock stops at its bound, which no test of the code tells from later times.
Tick(t, bound) == IF t < bound THEN t + 1 ELSE t

\* How much of dist a ramp over T cycles has covered after t.
Ramp(t, T, dist) == (dist * (IF t < T THEN t ELSE T)) \div T

-----------------------------------------------------------------------------
\* coording, for the speed: man_des 3 accelerates, 27 decelerates, 7 cruises.
ForSpeed(x, speed) ==
  CASE speed = "below" -> [x EXCEPT !.man_des = 3, !.cruise_t = 0]
    [] speed = "above" -> [x EXCEPT !.man_des = 27, !.cruise_t = 0]
    [] speed = "at"    -> [x EXCEPT !.man_des = IF x.man_id1 \in {3, 27} THEN 7 ELSE @]

\* The time that a follower has cruised, and the time since it first did.
Cruised(x) ==
  LET on == x.man_on \/ x.man_id1 = 7
  IN  [x EXCEPT !.cruise_t = IF x.man_id1 = 7 THEN Tick(@, 3 * CRUISE_T + 1) ELSE @,
                !.man_on = on,
                !.man_t = IF on THEN Tick(@, End) ELSE @]

\* Maneuver m begins, once in a run.
Begin(x, switch, m) ==
  IF switch \in x.used THEN x ELSE [x EXCEPT !.man_des = m, !.used = @ \cup {switch}]

\* While the truck is at maneuver m it follows at a distance.
Follow(x, m, dist) == IF x.man_des = m THEN [x EXCEPT !.des_f_dist = dist] ELSE x

\* When maneuver m is acknowledged the truck cruises at a distance.
Finish(x, m, dist) ==
  IF x.man_des = m /\ x.man_id2 = 1
  THEN [x EXCEPT !.man_des = 7, !.des_f_dist = dist, !.cruise_t = 0]
  ELSE x

Cruise(x, dist) == [x EXCEPT !.man_des = 7, !.des_f_dist = dist]

\* Mutant: the distance that follows the maneuver is forgotten.
SplitOnly(x) ==
  LET b == IF x.cruise_t > CRUISE_T THEN Begin(x, "split", 8) ELSE x
  IN  Finish(Follow(b, 8, b.man_dist_var3 - b.man_dist_var2), 8, 0)

\* Task 3, and the first half of task 5.
Split(x) ==
  LET b == IF x.cruise_t > CRUISE_T THEN Begin(x, "split", 8) ELSE x
  IN  Finish(Follow(b, 8, b.man_dist_var3 - b.man_dist_var2), 8, DIST)

\* Task 4, and the second half of task 5, after some time and from a distance.
Join(x, cruised, dist) ==
  LET b == IF x.cruise_t > cruised THEN Begin(x, "join", 6) ELSE x
  IN  Finish(Follow(b, 6, dist + b.man_dist_var3 - b.man_dist_var2), 6, dist - DIST)

\* Task 6, and the first half of task 8: the last truck splits first, by twice
\* the distance, and takes half of it back while the second one splits.
SplitOneByOne(x) ==
  IF x.man_t < CRUISE_T THEN x
  ELSE IF x.man_t < CRUISE_T + SPLIT_T
  THEN IF veh_id = 2 THEN Cruise(x, 0)
       ELSE Follow(Begin(x, "split", 8), 8, x.man_dist_var3)
  ELSE IF x.man_t < CRUISE_T + 2 * SPLIT_T
  THEN IF veh_id = 2 THEN Follow(Begin(x, "split", 8), 8, x.man_dist_var2)
       ELSE LET t == Tick(x.split_d, SPLIT_T + 1)
            IN  [x EXCEPT !.split_d = t,
                          !.des_f_dist = 2 * DIST - Ramp(t, SPLIT_T, DIST)]
  ELSE IF x.man_des = 8 /\ x.man_id2 = 1
  THEN [Cruise(x, DIST) EXCEPT !.man_id2 = 0, !.split_d = IF task = 6 THEN 0 ELSE @]
  ELSE x

\* Task 7 from the start, and the second half of task 8: the second truck joins
\* first while the last one gives way, and then the last one joins.
JoinOneByOne(x, start, dist) ==
  IF x.man_t < start THEN x
  ELSE IF x.man_t < start + JOIN_T
  THEN IF veh_id = 2 THEN Follow(Begin(x, "join", 6), 6, dist + x.man_dist_var2)
       ELSE LET t == Tick(x.join_d, JOIN_T + 1)
            IN  [Cruise(x, dist + Ramp(t, JOIN_T, DIST)) EXCEPT !.join_d = t]
  ELSE IF x.man_t < start + 2 * JOIN_T
  THEN IF veh_id = 2 THEN Cruise(x, dist - DIST)
       ELSE Follow(Begin(x, "join", 6), 6, dist + DIST + x.man_dist_var3)
  ELSE IF x.man_des = 6 /\ x.man_id2 = 1
  THEN [Cruise(x, dist - DIST) EXCEPT !.man_id2 = 0, !.join_d = 0,
                                      !.split_d = IF task = 8 THEN 0 ELSE @]
  ELSE x

ForTask(x) ==
  CASE task = 3 -> Split(x)
    [] task = 4 -> Join(x, CRUISE_T, 0)
    [] task = 5 -> Join(Split(x), 3 * CRUISE_T, DIST)
    [] task = 6 -> SplitOneByOne(x)
    [] task = 7 -> JoinOneByOne(x, CRUISE_T, 0)
    [] task = 8 -> LET join == 2 * (CRUISE_T + SPLIT_T)
                   IN  IF x.man_t < join THEN SplitOneByOne(x) ELSE JoinOneByOne(x, join, DIST)

\* Mutant: every time that a follower stops it keeps more distance.
FallBackAgain(x) == [x EXCEPT !.des_f_dist = @ + DIST]

\* The first time that a follower decelerates to stop it keeps more distance.
FallBack(x) ==
  IF "man_des_29" \in x.used THEN x
  ELSE [x EXCEPT !.des_f_dist = @ + DIST, !.used = @ \cup {"man_des_29"}]

\* coording without a fault to manage; the leader does as the others are told to.
Normal(x, t, speed, stop) ==
  IF t <= 3 /\ veh_id = 1 THEN [x EXCEPT !.man_des = 0]
  ELSE IF t <= t_wait THEN [x EXCEPT !.man_des = 1]
  ELSE IF veh_id = 1
  THEN IF stop THEN [x EXCEPT !.man_des = 29] ELSE ForSpeed(x, speed)
  ELSE IF stop THEN FallBack([x EXCEPT !.man_des = 29]) ELSE ForTask(Cruised(ForSpeed(x, speed)))

\* Mutant: the emergency split is begun while the truck stops, too.
SplitAlways(x) ==
  IF "f_manage_2" \in x.used THEN x
  ELSE IF x.man_id2 = 0 THEN [x EXCEPT !.man_des = 13]
  ELSE [Cruise(x, x.man_dist_var2) EXCEPT !.used = @ \cup {"f_manage_2"}, !.man_id2 = 0]

\* f_manage_index 2: an emergency split, acknowledged by man_id2, then cruising.
SplitForFault(x) ==
  LET dist == CASE veh_id = 1 -> x.des_f_dist
                [] veh_id = 2 -> x.man_dist_var2
                [] veh_id = 3 -> x.man_dist_var3 - x.man_dist_var2
  IN  IF "f_manage_2" \in x.used \/ x.man_des = 29 THEN x
      ELSE IF x.man_id2 = 0 THEN [x EXCEPT !.man_des = 13]
      ELSE [Cruise(x, dist) EXCEPT !.used = @ \cup {"f_manage_2"}, !.man_id2 = 0]

StopAtEnd(x, stop) ==
  IF x.man_des = 7 /\ stop THEN FallBack([x EXCEPT !.man_des = 29]) ELSE x

\* f_manage_index 3: an emergency split, acknowledged, then a stop.
StopForFault(x) ==
  IF "f_manage_3" \in x.used THEN x
  ELSE IF x.man_id2 = 0 THEN [x EXCEPT !.man_des = 13]
  ELSE [FallBack([x EXCEPT !.man_des = 29]) EXCEPT !.used = @ \cup {"f_manage_3"},
                                                   !.man_id2 = 0]

Emergency(x, fault, stop) ==
  LET two == IF fault = 2 THEN SplitForFault(x) ELSE x
      end == StopAtEnd(two, stop)
  IN  IF fault = 3 THEN StopForFault(end) ELSE end

coording(x, t, speed, fault, stop) ==
  IF fault \in {2, 3} THEN Emergency(x, fault, stop) ELSE Normal(x, t, speed, stop)

-----------------------------------------------------------------------------
\* Mutant: both trucks move equally far.
ApartAlike(x, dist) ==
  IF veh_id = 1 THEN x
  ELSE [x EXCEPT !.man_dist_var2 = dist, !.man_dist_var3 = dist]

\* How far the second truck, and the last one, have moved from the leader after
\* each truck has moved by dist from the one ahead.
Apart(x, dist) ==
  IF veh_id = 1 THEN x
  ELSE [x EXCEPT !.man_dist_var2 = dist, !.man_dist_var3 = 2 * dist]

\* Cruising prepares for the next maneuver.
CruiseOn(x) ==
  [x EXCEPT !.sampled = {}, !.split_t = 0, !.join_t = 0, !.e_split_t = 0, !.man_id2 = 0]

\* The first cycle of a maneuver.
Sampled(x, sample) == [x EXCEPT !.sampled = @ \cup {sample}, !.man_id2 = 0]

\* man_des 6.  The first cycle is refused when the truck ahead is close already.
Joining(x, refused) ==
  LET first == "join" \notin x.sampled
      y == IF first THEN Sampled(x, "join") ELSE x
  IN  IF first /\ refused THEN Apart(y, 0)
      ELSE IF y.join_t < JOIN_T
      THEN Apart([y EXCEPT !.join_t = @ + 1], - Ramp(y.join_t + 1, JOIN_T, DIST))
      ELSE [y EXCEPT !.man_id2 = 1]

\* man_des 8.  A refusal leaves loc_split_dist as it was.
Splitting(x, refused) ==
  LET first == "split" \notin x.sampled
      y == IF first THEN Sampled(x, "split") ELSE x
      z == IF first THEN [y EXCEPT !.loc_split_dist = DIST] ELSE y
  IN  IF first /\ refused THEN Apart(y, 0)
      ELSE IF z.split_t <= SPLIT_T
      THEN Apart([z EXCEPT !.split_t = @ + 1], Ramp(z.split_t + 1, SPLIT_T, z.loc_split_dist))
      ELSE [z EXCEPT !.man_id2 = 1]

\* man_des 13.
EmergencySplitting(x) ==
  IF x.e_split_t <= SPLIT_T
  THEN LET y == IF "e_split" \in x.sampled THEN x ELSE Sampled(x, "e_split")
       IN  Apart([y EXCEPT !.e_split_t = @ + 1], Ramp(y.e_split_t + 1, SPLIT_T, DIST))
  ELSE [x EXCEPT !.man_id2 = 1]

\* man_des 3: the last truck's distances are not cleared.
Accelerating(x) == IF veh_id = 3 THEN x ELSE Apart(x, 0)

\* man_des 27 and 29.
Decelerating(x) == Apart(x, 0)

\* man_des 0 and 1.
Resting(x) == IF x.man_des = 0 THEN x ELSE Apart(x, 0)

maneuver(x, refused) ==
  LET y == [x EXCEPT !.man_id1 = x.man_des]
  IN  CASE y.man_des \in {0, 1} -> Resting(y)
        [] y.man_des \in {27, 29} -> Decelerating(y)
        [] y.man_des = 3 -> Accelerating(y)
        [] y.man_des = 6 -> IF veh_id = 1 THEN y ELSE Joining(y, refused)
        [] y.man_des = 7 -> CruiseOn(Apart(y, 0))
        [] y.man_des = 8 -> IF veh_id = 1 THEN y ELSE Splitting(y, refused)
        [] y.man_des = 13 -> EmergencySplitting(y)

\* One cycle of the control loop, in which faults are managed from man_des 3 on.
\* A truck that waits stands still; only a split or a join can be refused.
Cycle(speed, fault, refused) ==
  /\ fault > 0 => v.man_des > 1
  /\ time' = Tick(time, t_wait + 1)
  /\ past' \in {past, time' > t_wait}
  /\ LET x == coording(v, time', speed, fault, past')
     IN  /\ refused => x.man_des \in {6, 8}
         /\ v' = maneuver(x, refused)
  /\ steady' = (steady /\ fault < 2 /\ ~refused /\ ~past' /\ (v.man_on => speed = "at"))
  /\ UNCHANGED <<veh_id, task>>

Next == \E speed \in {"below", "at", "above"}, fault \in Fault, refused \in BOOLEAN :
          Cycle(speed, fault, refused)

Spec == Init /\ [][Next]_vars

-----------------------------------------------------------------------------
\* The most that a ramp changes a distance in one cycle: twice DIST in a split,
\* or a join, of the last truck.
MaxStep == 2 * (IF SPLIT_T < JOIN_T THEN JOIN_T ELSE SPLIT_T)

\* From one time window of a task to the next, and from the distances that
\* maneuver computes to those that coording does, the distance that the
\* controller is told to keep never jumps, unless the maneuver was disturbed.
DistanceIsSmooth ==
  [][steady' => /\ v'.des_f_dist - v.des_f_dist <= MaxStep
                /\ v.des_f_dist - v'.des_f_dist <= MaxStep]_vars

\* A follower that was not disturbed ends its task cruising, at the distance
\* that its splits and joins add up to.
TaskDistance ==
  CASE task \in {3, 6} -> DIST [] task \in {4, 7} -> - DIST [] task \in {5, 8} -> 0

EndsAtTaskDistance ==
  steady /\ veh_id # 1 /\ v.man_t = End => v.man_des = 7 /\ v.des_f_dist = TaskDistance

\* Beyond the stopping distance neither the speed nor a fault that comes or goes
\* makes a truck that stops, or splits to stop, go on; and only the first
\* fault of index 3 makes one that stops split.
StopIsFinal ==
  [][past /\ v.man_des \in {13, 29} =>
       /\ v'.man_des \in {13, 29}
       /\ v.man_des = 29 /\ v'.man_des = 13 => "f_manage_3" \notin v.used]_vars

\* maneuver.c: "the maneuver is finished in trajectory planning; waiting for new
\* command".  A truck whose emergency split is over has carried it out.
EmergencySplitIsDone ==
  [][{"f_manage_2", "f_manage_3"} \cap (v'.used \ v.used) # {} => v.e_split_t > SPLIT_T]_vars
=============================================================================
