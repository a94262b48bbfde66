------------------------ MODULE Coordination_proofs ------------------------
(***************************************************************************)
(* Theorems about Coordination, for all places, tasks, times of the        *)
(* maneuvers, and sequences of speeds, faults and refusals.                *)
(*                                                                         *)
(* Inv bounds the clocks and the distances.  Good is its part about one    *)
(* truck: maneuver's distances belong together, and the desired one grows  *)
(* beyond four splits only with the switch that lets it do so once.  Every *)
(* operator of coording and maneuver keeps it; that a stop is final        *)
(* follows from what they do with a truck that stops.                      *)
(*                                                                         *)
(* That the distance makes no jump and ends where the task says needs to   *)
(* know where a truck is at every moment.  Course gives the phases of each *)
(* task: which maneuver has gone on for how many cycles, how far it has    *)
(* moved the truck, and by when it must have begun.  A maneuver's own      *)
(* clock and the cycles since the truck first cruised, by which coording   *)
(* decides, run apart: the proof is that they never part by more than the  *)
(* cycles that the phases leave for it.                                    *)
(***************************************************************************)
EXTENDS Coordination, TLAPS

LEMMA DistType == DIST \in Nat /\ SPLIT_T \in Nat \ {0} /\ JOIN_T \in Nat \ {0}
                  /\ CRUISE_T \in Nat \ {0} /\ t_wait \in Nat
<1>1. SPLIT_T \in Nat \ {0} /\ JOIN_T \in Nat \ {0} /\ CRUISE_T \in Nat \ {0} /\ t_wait \in Nat
  BY TimeAssumption
<1>. QED BY <1>1 DEF DIST

LEMMA RampType ==
  ASSUME NEW t \in Nat, NEW T \in Nat \ {0}, NEW dist \in Nat
  PROVE  Ramp(t, T, dist) \in 0 .. dist
<1> DEFINE k == IF t < T THEN t ELSE T
<1>1. k \in 0 .. T
  OBVIOUS
<1> HIDE DEF k
<1>2. dist * k \in Nat /\ dist * k <= dist * T
  BY <1>1
<1>3. (dist * k) \div T \in Nat /\ (dist * k) \div T <= dist
  BY <1>2
<1>. QED BY <1>3 DEF Ramp, k

LEMMA EndType == End \in Nat /\ 2 * (CRUISE_T + SPLIT_T) < End
BY DistType DEF End

LEMMA CruiseType ==
  ASSUME NEW x \in Truck, NEW d \in Int
  PROVE  /\ Cruise(x, d) \in Truck
         /\ Cruise(x, d).man_des = 7 /\ Cruise(x, d).des_f_dist = d
         /\ Cruise(x, d).used = x.used
         /\ Cruise(x, d).man_t = x.man_t
         /\ Cruise(x, d).man_dist_var2 = x.man_dist_var2
         /\ Cruise(x, d).man_dist_var3 = x.man_dist_var3
BY DEF Cruise, Truck, Maneuver
-----------------------------------------------------------------------------
\* The distances: those of maneuver belong together, and the desired one is
\* beyond four splits only once the truck has fallen back.
Distances(x) ==
  /\ x.man_dist_var2 \in - DIST .. DIST
  /\ x.man_dist_var3 = 2 * x.man_dist_var2
  /\ x.des_f_dist \in - DIST .. 5 * DIST
  /\ "man_des_29" \notin x.used => x.des_f_dist <= 4 * DIST

\* The part of the tasks in which no truck joins.
NoJoinYet(x) == task \in {3, 6} \/ (task = 8 /\ x.man_t < 2 * (CRUISE_T + SPLIT_T))

Good(x) ==
  /\ x \in Truck /\ Distances(x)
  /\ NoJoinYet(x) => x.man_dist_var2 >= 0 /\ x.man_des # 6

\* What coording leaves to maneuver, and the time of its task.
SameClock(y, x) ==
  /\ y.man_t = x.man_t
  /\ y.man_dist_var2 = x.man_dist_var2 /\ y.man_dist_var3 = x.man_dist_var3

\* A maneuver that is set and a distance that is desired.
LEMMA SetGood ==
  ASSUME NEW x, Good(x), NEW y \in Truck, SameClock(y, x), x.used \subseteq y.used,
         \/ y.des_f_dist = x.des_f_dist
         \/ y.des_f_dist \in - DIST .. 4 * DIST,
         y.man_des = 6 => y.man_des = x.man_des \/ ~NoJoinYet(x)
  PROVE  Good(y)
BY DistType DEF Good, Distances, NoJoinYet, SameClock, Truck

LEMMA CruiseGood ==
  ASSUME NEW x, Good(x), NEW d \in - DIST .. 4 * DIST
  PROVE  Good(Cruise(x, d)) /\ SameClock(Cruise(x, d), x)
<1>1. d \in Int
  BY DistType
<1>2. x \in Truck
  BY DEF Good
<1> DEFINE y == Cruise(x, d)
<1>3. y \in Truck /\ SameClock(y, x) /\ y.used = x.used /\ y.des_f_dist = d /\ y.man_des = 7
  BY <1>1, <1>2, CruiseType DEF SameClock
<1> HIDE DEF y
<1>4. Good(y)
  BY <1>3, SetGood
<1>. QED BY <1>3, <1>4 DEF y

Switches == {"split", "join", "f_manage_2", "f_manage_3", "man_des_29"}

LEMMA BeginGood ==
  ASSUME NEW x, Good(x), NEW s \in Switches, NEW m \in {6, 8}, m = 6 => ~NoJoinYet(x)
  PROVE  /\ Good(Begin(x, s, m)) /\ SameClock(Begin(x, s, m), x)
         /\ Begin(x, s, m).cruise_t = x.cruise_t
<1>1. x \in Truck
  BY DEF Good
<1>2. CASE s \in x.used
  BY <1>2 DEF Begin, SameClock
<1>3. CASE s \notin x.used
  <2> DEFINE y == [x EXCEPT !.man_des = m, !.used = @ \cup {s}]
  <2>1. y \in Truck /\ SameClock(y, x) /\ x.used \subseteq y.used
        /\ y.des_f_dist = x.des_f_dist /\ y.man_des = m /\ y.cruise_t = x.cruise_t
    BY <1>1 DEF Truck, Maneuver, SameClock, Switches
  <2>2. Begin(x, s, m) = y
    BY <1>3 DEF Begin
  <2> HIDE DEF y
  <2>3. Good(y)
    BY <2>1, SetGood
  <2>. QED BY <2>1, <2>2, <2>3
<1>. QED BY <1>2, <1>3

LEMMA FollowGood ==
  ASSUME NEW x, Good(x), NEW m \in Maneuver, NEW d,
         x.man_des = m => d \in - DIST .. 4 * DIST
  PROVE  Good(Follow(x, m, d)) /\ SameClock(Follow(x, m, d), x)
<1>1. x \in Truck
  BY DEF Good
<1>2. CASE x.man_des = m
  <2> DEFINE y == [x EXCEPT !.des_f_dist = d]
  <2>0. d \in Int
    BY <1>2, DistType
  <2>1. y \in Truck /\ SameClock(y, x) /\ y.used = x.used
        /\ y.des_f_dist = d /\ y.man_des = x.man_des
    BY <1>1, <2>0 DEF Truck, Maneuver, SameClock
  <2>2. Follow(x, m, d) = y
    BY <1>2 DEF Follow
  <2> HIDE DEF y
  <2>3. Good(y)
    BY <2>1, <1>2, SetGood
  <2>. QED BY <2>1, <2>2, <2>3
<1>3. CASE x.man_des # m
  BY <1>3 DEF Follow, SameClock
<1>. QED BY <1>2, <1>3

LEMMA FinishGood ==
  ASSUME NEW x, Good(x), NEW m \in Maneuver, NEW d \in - DIST .. 4 * DIST
  PROVE  Good(Finish(x, m, d)) /\ SameClock(Finish(x, m, d), x)
<1>1. x \in Truck
  BY DEF Good
<1>2. CASE x.man_des = m /\ x.man_id2 = 1
  <2> DEFINE y == [x EXCEPT !.man_des = 7, !.des_f_dist = d, !.cruise_t = 0]
  <2>0. d \in Int /\ 0 \in 0 .. 3 * CRUISE_T + 1 /\ 7 \in Maneuver
    BY DistType DEF Maneuver
  <2>1. y \in Truck /\ SameClock(y, x) /\ y.used = x.used
        /\ y.des_f_dist = d /\ y.man_des = 7
    BY <1>1, <2>0 DEF Truck, SameClock
  <2>2. Finish(x, m, d) = y
    BY <1>2 DEF Finish
  <2> HIDE DEF y
  <2>3. Good(y)
    BY <2>1, <1>2, SetGood
  <2>. QED BY <2>1, <2>2, <2>3
<1>3. CASE ~(x.man_des = m /\ x.man_id2 = 1)
  BY <1>3 DEF Finish, SameClock
<1>. QED BY <1>2, <1>3
-----------------------------------------------------------------------------
\* What coording does for the speed, and for the task of a follower.
LEMMA TickType ==
  ASSUME NEW b \in Nat, NEW t \in 0 .. b
  PROVE  Tick(t, b) \in 0 .. b /\ t <= Tick(t, b)
BY DEF Tick

LEMMA ForSpeedGood ==
  ASSUME NEW x, Good(x), NEW speed \in {"below", "at", "above"}
  PROVE  Good(ForSpeed(x, speed))
<1>1. x \in Truck
  BY DEF Good
<1>2. 0 \in 0 .. 3 * CRUISE_T + 1
  BY DistType
<1>3. ASSUME NEW m \in {3, 27}
      PROVE  Good([x EXCEPT !.man_des = m, !.cruise_t = 0])
  <2> DEFINE y == [x EXCEPT !.man_des = m, !.cruise_t = 0]
  <2>1. y \in Truck /\ SameClock(y, x) /\ y.used = x.used
        /\ y.des_f_dist = x.des_f_dist /\ y.man_des = m
    BY <1>1, <1>2 DEF Truck, SameClock, Maneuver
  <2> HIDE DEF y
  <2>2. Good(y)
    BY <2>1, SetGood
  <2>. QED BY <2>2 DEF y
<1>4. ASSUME NEW m \in {x.man_des, 7}
      PROVE  Good([x EXCEPT !.man_des = m])
  <2> DEFINE y == [x EXCEPT !.man_des = m]
  <2>1. y \in Truck /\ SameClock(y, x) /\ y.used = x.used
        /\ y.des_f_dist = x.des_f_dist /\ y.man_des = m
    BY <1>1 DEF Truck, SameClock, Maneuver
  <2> HIDE DEF y
  <2>2. Good(y)
    BY <2>1, SetGood
  <2>. QED BY <2>2 DEF y
<1>5. CASE speed = "below"
  BY <1>3, <1>5 DEF ForSpeed
<1>6. CASE speed = "above"
  BY <1>3, <1>6 DEF ForSpeed
<1>7. CASE speed = "at"
  <2>1. ForSpeed(x, speed) = [x EXCEPT !.man_des = IF x.man_id1 \in {3, 27} THEN 7 ELSE x.man_des]
    BY <1>7 DEF ForSpeed
  <2>. QED BY <2>1, <1>4
<1>. QED BY <1>5, <1>6, <1>7

LEMMA CruisedGood ==
  ASSUME NEW x, Good(x)
  PROVE  Good(Cruised(x))
<1>1. x \in Truck
  BY DEF Good
<1> DEFINE on == x.man_on \/ x.man_id1 = 7
           c == IF x.man_id1 = 7 THEN Tick(x.cruise_t, 3 * CRUISE_T + 1) ELSE x.cruise_t
           t == IF on THEN Tick(x.man_t, End) ELSE x.man_t
           y == [x EXCEPT !.cruise_t = c, !.man_on = on, !.man_t = t]
<1>2. x.cruise_t \in 0 .. 3 * CRUISE_T + 1 /\ x.man_t \in 0 .. End
  BY <1>1 DEF Truck
<1>3. c \in 0 .. 3 * CRUISE_T + 1
  BY <1>2, TickType, DistType
<1>4. t \in 0 .. End /\ x.man_t <= t
  BY <1>2, EndType DEF Tick
<1>5. on \in BOOLEAN
  BY <1>1 DEF Truck
<1>6. Cruised(x) = y
  BY DEF Cruised
<1> HIDE DEF on, c, t
<1>7. /\ y \in Truck /\ y.used = x.used /\ y.man_des = x.man_des
      /\ y.des_f_dist = x.des_f_dist /\ y.man_t = t
      /\ y.man_dist_var2 = x.man_dist_var2 /\ y.man_dist_var3 = x.man_dist_var3
  BY <1>1, <1>3, <1>4, <1>5 DEF Truck
<1> HIDE DEF y
<1>8. NoJoinYet(y) => NoJoinYet(x)
  BY <1>2, <1>4, <1>7, DistType, EndType DEF NoJoinYet
<1>. QED BY <1>6, <1>7, <1>8 DEF Good, Distances

LEMMA SplitGood ==
  ASSUME NEW x, Good(x)
  PROVE  Good(Split(x)) /\ SameClock(Split(x), x)
<1> DEFINE b == IF x.cruise_t > CRUISE_T THEN Begin(x, "split", 8) ELSE x
           f == Follow(b, 8, b.man_dist_var3 - b.man_dist_var2)
<1>1. Good(b) /\ SameClock(b, x)
  BY BeginGood DEF Switches, SameClock
<1>2. Split(x) = Finish(f, 8, DIST)
  BY DEF Split
<1> HIDE DEF b
<1>3. b.man_dist_var3 - b.man_dist_var2 \in - DIST .. 4 * DIST
  BY <1>1, DistType DEF Good, Distances
<1>4. 8 \in Maneuver /\ DIST \in - DIST .. 4 * DIST
  BY DistType DEF Maneuver
<1>5. Good(f) /\ SameClock(f, b)
  BY <1>1, <1>3, <1>4, FollowGood
<1> HIDE DEF f
<1>6. Good(Finish(f, 8, DIST)) /\ SameClock(Finish(f, 8, DIST), f)
  BY <1>4, <1>5, FinishGood
<1>. QED BY <1>1, <1>2, <1>5, <1>6 DEF SameClock

LEMMA JoinGood ==
  ASSUME NEW x, Good(x), ~NoJoinYet(x), NEW cruised, NEW dist \in {0, DIST}
  PROVE  Good(Join(x, cruised, dist))
<1> DEFINE b == IF x.cruise_t > cruised THEN Begin(x, "join", 6) ELSE x
           f == Follow(b, 6, dist + b.man_dist_var3 - b.man_dist_var2)
<1>1. Good(b)
  BY BeginGood DEF Switches
<1>2. Join(x, cruised, dist) = Finish(f, 6, dist - DIST)
  BY DEF Join
<1> HIDE DEF b
<1>3. dist + b.man_dist_var3 - b.man_dist_var2 \in - DIST .. 4 * DIST
  BY <1>1, DistType DEF Good, Distances
<1>4. 6 \in Maneuver /\ dist - DIST \in - DIST .. 4 * DIST
  BY DistType DEF Maneuver
<1>5. Good(f)
  BY <1>1, <1>3, <1>4, FollowGood
<1> HIDE DEF f
<1>6. Good(Finish(f, 6, dist - DIST))
  BY <1>4, <1>5, FinishGood
<1>. QED BY <1>2, <1>6

\* The distances of the last truck while it gives way.
LEMMA GivesWay ==
  ASSUME NEW x \in Truck
  PROVE  /\ Tick(x.split_d, SPLIT_T + 1) \in 0 .. SPLIT_T + 1
         /\ Tick(x.join_d, JOIN_T + 1) \in 0 .. JOIN_T + 1
         /\ Ramp(Tick(x.split_d, SPLIT_T + 1), SPLIT_T, DIST) \in 0 .. DIST
         /\ Ramp(Tick(x.join_d, JOIN_T + 1), JOIN_T, DIST) \in 0 .. DIST
<1>1. x.split_d \in 0 .. SPLIT_T + 1 /\ x.join_d \in 0 .. JOIN_T + 1
  BY DEF Truck
<1>2. SPLIT_T + 1 \in Nat /\ JOIN_T + 1 \in Nat
  BY DistType
<1>3. Tick(x.split_d, SPLIT_T + 1) \in 0 .. SPLIT_T + 1
      /\ Tick(x.join_d, JOIN_T + 1) \in 0 .. JOIN_T + 1
  BY <1>1, <1>2, TickType
<1>4. Tick(x.split_d, SPLIT_T + 1) \in Nat /\ Tick(x.join_d, JOIN_T + 1) \in Nat
  BY <1>2, <1>3
<1>. QED BY <1>3, <1>4, DistType, RampType

LEMMA SplitOneByOneGood ==
  ASSUME NEW x, Good(x), NoJoinYet(x)
  PROVE  Good(SplitOneByOne(x))
<1>1. x \in Truck /\ x.man_dist_var2 \in 0 .. DIST /\ x.man_dist_var3 = 2 * x.man_dist_var2
  BY DistType DEF Good, Distances
<1>2. 8 \in Maneuver /\ "split" \in Switches /\ 0 \in - DIST .. 4 * DIST /\ DIST \in - DIST .. 4 * DIST
  BY DistType DEF Maneuver, Switches
<1>3. Good(Begin(x, "split", 8))
  BY <1>2, BeginGood
<1>4. Good(Follow(Begin(x, "split", 8), 8, x.man_dist_var3))
      /\ Good(Follow(Begin(x, "split", 8), 8, x.man_dist_var2))
  <2>1. x.man_dist_var3 \in - DIST .. 4 * DIST /\ x.man_dist_var2 \in - DIST .. 4 * DIST
    BY <1>1, DistType
  <2>. QED BY <2>1, <1>2, <1>3, FollowGood
<1>5. Good(Cruise(x, 0))
  BY <1>2, CruiseGood
<1>6. ASSUME NEW t, t = Tick(x.split_d, SPLIT_T + 1)
      PROVE  Good([x EXCEPT !.split_d = t, !.des_f_dist = 2 * DIST - Ramp(t, SPLIT_T, DIST)])
  <2> DEFINE d == 2 * DIST - Ramp(t, SPLIT_T, DIST)
             y == [x EXCEPT !.split_d = t, !.des_f_dist = d]
  <2>1. d \in - DIST .. 4 * DIST /\ d \in Int
    BY <1>1, <1>6, GivesWay, DistType
  <2>2. t \in 0 .. SPLIT_T + 1
    BY <1>1, <1>6, GivesWay
  <2> HIDE DEF d
  <2>3. y \in Truck /\ SameClock(y, x) /\ y.used = x.used
        /\ y.des_f_dist = d /\ y.man_des = x.man_des
    BY <1>1, <2>1, <2>2 DEF Truck, SameClock
  <2> HIDE DEF y
  <2>4. Good(y)
    BY <2>1, <2>3, SetGood
  <2>. QED BY <2>4 DEF y, d
<1>7. Good([Cruise(x, DIST) EXCEPT !.man_id2 = 0, !.split_d = IF task = 6 THEN 0 ELSE @])
  <2> DEFINE c == Cruise(x, DIST)
             s == IF task = 6 THEN 0 ELSE c.split_d
             y == [c EXCEPT !.man_id2 = 0, !.split_d = s]
  <2>1. Good(c) /\ c \in Truck
    BY <1>2, CruiseGood DEF Good
  <2> HIDE DEF c
  <2>2. s \in 0 .. SPLIT_T + 1
    BY <2>1, DistType DEF Truck
  <2> HIDE DEF s
  <2>3. y \in Truck /\ SameClock(y, c) /\ y.used = c.used
        /\ y.des_f_dist = c.des_f_dist /\ y.man_des = c.man_des
    BY <2>1, <2>2 DEF Truck, SameClock
  <2> HIDE DEF y
  <2>4. Good(y)
    BY <2>1, <2>3, SetGood
  <2>. QED BY <2>4 DEF y, c, s
<1>. QED BY <1>4, <1>5, <1>6, <1>7 DEF SplitOneByOne

LEMMA JoinOneByOneGood ==
  ASSUME NEW x, Good(x), ~NoJoinYet(x), NEW start, NEW dist \in {0, DIST}
  PROVE  Good(JoinOneByOne(x, start, dist))
<1>1. x \in Truck /\ x.man_dist_var2 \in - DIST .. DIST /\ x.man_dist_var3 = 2 * x.man_dist_var2
  BY DEF Good, Distances
<1>2. 6 \in Maneuver /\ "join" \in Switches /\ dist - DIST \in - DIST .. 4 * DIST
  BY DistType DEF Maneuver, Switches
<1>3. Good(Begin(x, "join", 6))
  BY <1>2, BeginGood
<1>4. Good(Follow(Begin(x, "join", 6), 6, dist + x.man_dist_var2))
      /\ Good(Follow(Begin(x, "join", 6), 6, dist + DIST + x.man_dist_var3))
  <2>1. dist + x.man_dist_var2 \in - DIST .. 4 * DIST
        /\ dist + DIST + x.man_dist_var3 \in - DIST .. 4 * DIST
    BY <1>1, DistType
  <2>. QED BY <2>1, <1>2, <1>3, FollowGood
<1>5. Good(Cruise(x, dist - DIST))
  BY <1>2, CruiseGood
<1>6. ASSUME NEW t, t = Tick(x.join_d, JOIN_T + 1)
      PROVE  Good([Cruise(x, dist + Ramp(t, JOIN_T, DIST)) EXCEPT !.join_d = t])
  <2> DEFINE d == dist + Ramp(t, JOIN_T, DIST)
             c == Cruise(x, d)
             y == [c EXCEPT !.join_d = t]
  <2>1. d \in - DIST .. 4 * DIST
    BY <1>1, <1>6, GivesWay, DistType
  <2>2. t \in 0 .. JOIN_T + 1
    BY <1>1, <1>6, GivesWay
  <2> HIDE DEF d
  <2>3. Good(c) /\ c \in Truck
    BY <2>1, CruiseGood DEF Good
  <2> HIDE DEF c
  <2>4. y \in Truck /\ SameClock(y, c) /\ y.used = c.used
        /\ y.des_f_dist = c.des_f_dist /\ y.man_des = c.man_des
    BY <2>2, <2>3 DEF Truck, SameClock
  <2> HIDE DEF y
  <2>5. Good(y)
    BY <2>3, <2>4, SetGood
  <2>. QED BY <2>5 DEF y, c, d
<1>7. Good([Cruise(x, dist - DIST) EXCEPT !.man_id2 = 0, !.join_d = 0,
                                          !.split_d = IF task = 8 THEN 0 ELSE @])
  <2> DEFINE c == Cruise(x, dist - DIST)
             s == IF task = 8 THEN 0 ELSE c.split_d
             y == [c EXCEPT !.man_id2 = 0, !.join_d = 0, !.split_d = s]
  <2>1. Good(c) /\ c \in Truck
    BY <1>5 DEF Good
  <2> HIDE DEF c
  <2>2. s \in 0 .. SPLIT_T + 1 /\ 0 \in 0 .. JOIN_T + 1
    BY <2>1, DistType DEF Truck
  <2> HIDE DEF s
  <2>3. y \in Truck /\ SameClock(y, c) /\ y.used = c.used
        /\ y.des_f_dist = c.des_f_dist /\ y.man_des = c.man_des
    BY <2>1, <2>2 DEF Truck, SameClock
  <2> HIDE DEF y
  <2>4. Good(y)
    BY <2>1, <2>3, SetGood
  <2>. QED BY <2>4 DEF y, c, s
<1>. QED BY <1>4, <1>5, <1>6, <1>7 DEF JoinOneByOne

LEMMA ForTaskGood ==
  ASSUME NEW x, Good(x), task \in 3 .. 8
  PROVE  Good(ForTask(x))
<1>0. 0 \in {0, DIST} /\ DIST \in {0, DIST}
  OBVIOUS
<1>1. CASE task = 3
  BY <1>1, SplitGood DEF ForTask
<1>2. CASE task = 4
  <2>1. ~NoJoinYet(x)
    BY <1>2 DEF NoJoinYet
  <2>2. ForTask(x) = Join(x, CRUISE_T, 0)
    BY <1>2 DEF ForTask
  <2>. QED BY <2>1, <2>2, JoinGood
<1>3. CASE task = 5
  <2>1. ~NoJoinYet(Split(x)) /\ Good(Split(x))
    BY <1>3, SplitGood DEF NoJoinYet
  <2>2. ForTask(x) = Join(Split(x), 3 * CRUISE_T, DIST)
    BY <1>3 DEF ForTask
  <2>. QED BY <2>1, <2>2, JoinGood
<1>4. CASE task = 6
  <2>1. NoJoinYet(x)
    BY <1>4 DEF NoJoinYet
  <2>. QED BY <1>4, <2>1, SplitOneByOneGood DEF ForTask
<1>5. CASE task = 7
  <2>1. ~NoJoinYet(x)
    BY <1>5 DEF NoJoinYet
  <2>2. ForTask(x) = JoinOneByOne(x, CRUISE_T, 0)
    BY <1>5 DEF ForTask
  <2>. QED BY <2>1, <2>2, JoinOneByOneGood
<1>6. CASE task = 8
  <2> DEFINE join == 2 * (CRUISE_T + SPLIT_T)
  <2>1. ForTask(x) = IF x.man_t < join THEN SplitOneByOne(x) ELSE JoinOneByOne(x, join, DIST)
    BY <1>6 DEF ForTask
  <2>2. NoJoinYet(x) <=> x.man_t < join
    BY <1>6 DEF NoJoinYet
  <2> HIDE DEF join
  <2>. QED BY <2>1, <2>2, SplitOneByOneGood, JoinOneByOneGood
<1>. QED BY <1>1, <1>2, <1>3, <1>4, <1>5, <1>6
-----------------------------------------------------------------------------
\* Stopping, faults, and coording as a whole.
LEMMA DesGood ==
  ASSUME NEW x, Good(x), NEW m \in Maneuver \ {6}
  PROVE  /\ Good([x EXCEPT !.man_des = m])
         /\ [x EXCEPT !.man_des = m].man_des = m
         /\ [x EXCEPT !.man_des = m].used = x.used
         /\ [x EXCEPT !.man_des = m].man_id2 = x.man_id2
<1> DEFINE y == [x EXCEPT !.man_des = m]
<1>1. x \in Truck
  BY DEF Good
<1>2. y \in Truck /\ SameClock(y, x) /\ y.used = x.used /\ y.man_id2 = x.man_id2
      /\ y.des_f_dist = x.des_f_dist /\ y.man_des = m
  BY <1>1 DEF Truck, SameClock
<1> HIDE DEF y
<1>3. Good(y)
  BY <1>2, SetGood
<1>. QED BY <1>2, <1>3 DEF y

\* A switch that is spent, and an acknowledgement that is taken.
LEMMA SpendGood ==
  ASSUME NEW x, Good(x), NEW s \in Switches
  PROVE  LET y == [x EXCEPT !.used = @ \cup {s}, !.man_id2 = 0]
         IN  Good(y) /\ y.man_des = x.man_des /\ y.used = x.used \cup {s}
<1> DEFINE y == [x EXCEPT !.used = @ \cup {s}, !.man_id2 = 0]
<1>1. x \in Truck
  BY DEF Good
<1>2. y \in Truck /\ SameClock(y, x) /\ y.used = x.used \cup {s}
      /\ y.des_f_dist = x.des_f_dist /\ y.man_des = x.man_des
  BY <1>1 DEF Truck, SameClock, Switches
<1> HIDE DEF y
<1>3. Good(y)
  BY <1>2, SetGood
<1>. QED BY <1>2, <1>3 DEF y

LEMMA FallBackGood ==
  ASSUME NEW x, Good(x)
  PROVE  /\ Good(FallBack(x)) /\ FallBack(x).man_des = x.man_des
         /\ FallBack(x).used \in {x.used, x.used \cup {"man_des_29"}}
         /\ FallBack(x).man_id2 = x.man_id2
<1>1. x \in Truck
  BY DEF Good
<1>2. CASE "man_des_29" \in x.used
  BY <1>2 DEF FallBack
<1>3. CASE "man_des_29" \notin x.used
  <2> DEFINE y == [x EXCEPT !.des_f_dist = @ + DIST, !.used = @ \cup {"man_des_29"}]
  <2>1. x.des_f_dist + DIST \in - DIST .. 5 * DIST
    BY <1>3, DistType DEF Good, Distances
  <2>2. x.des_f_dist + DIST \in Int
    BY <2>1, DistType
  <2>3. y \in Truck /\ SameClock(y, x) /\ y.used = x.used \cup {"man_des_29"}
        /\ y.des_f_dist = x.des_f_dist + DIST /\ y.man_des = x.man_des /\ y.man_id2 = x.man_id2
    BY <1>1, <2>2 DEF Truck, SameClock
  <2>4. FallBack(x) = y
    BY <1>3 DEF FallBack
  <2> HIDE DEF y
  <2>5. Good(y)
    BY <2>1, <2>3 DEF Good, Distances, NoJoinYet, SameClock
  <2>. QED BY <2>3, <2>4, <2>5
<1>. QED BY <1>2, <1>3

LEMMA NormalGood ==
  ASSUME NEW x, Good(x), NEW t, NEW speed \in {"below", "at", "above"}, NEW stop \in BOOLEAN,
         task \in 3 .. 8
  PROVE  /\ Good(Normal(x, t, speed, stop))
         /\ stop /\ ~(t <= t_wait) /\ ~(t <= 3 /\ veh_id = 1) =>
              Normal(x, t, speed, stop).man_des = 29
<1>1. {0, 1, 29} \subseteq Maneuver \ {6}
  BY DEF Maneuver
<1>2. Good([x EXCEPT !.man_des = 0]) /\ Good([x EXCEPT !.man_des = 1])
      /\ Good([x EXCEPT !.man_des = 29]) /\ [x EXCEPT !.man_des = 29].man_des = 29
  BY <1>1, DesGood
<1>3. Good(FallBack([x EXCEPT !.man_des = 29]))
      /\ FallBack([x EXCEPT !.man_des = 29]).man_des = 29
  BY <1>2, FallBackGood
<1>4. Good(ForSpeed(x, speed)) /\ Good(ForTask(Cruised(ForSpeed(x, speed))))
  BY ForSpeedGood, CruisedGood, ForTaskGood
<1>. QED BY <1>2, <1>3, <1>4 DEF Normal

LEMMA SplitForFaultGood ==
  ASSUME NEW x, Good(x), veh_id \in 1 .. 3
  PROVE  /\ Good(SplitForFault(x))
         /\ x.man_des = 29 => SplitForFault(x) = x
         /\ x.man_des = 13 => SplitForFault(x).man_des \in {7, 13}
         /\ "f_manage_3" \in SplitForFault(x).used <=> "f_manage_3" \in x.used
<1> DEFINE dist == CASE veh_id = 1 -> x.des_f_dist
                     [] veh_id = 2 -> x.man_dist_var2
                     [] veh_id = 3 -> x.man_dist_var3 - x.man_dist_var2
           c == [x EXCEPT !.man_des = 7, !.des_f_dist = dist]
           y == [Cruise(x, dist) EXCEPT !.used = @ \cup {"f_manage_2"}, !.man_id2 = 0]
<1>1. CASE "f_manage_2" \in x.used \/ x.man_des = 29
  BY <1>1 DEF SplitForFault
<1>2. CASE ~("f_manage_2" \in x.used \/ x.man_des = 29) /\ x.man_id2 = 0
  <2>1. SplitForFault(x) = [x EXCEPT !.man_des = 13]
    BY <1>2 DEF SplitForFault
  <2>2. 13 \in Maneuver \ {6}
    BY DEF Maneuver
  <2>. QED BY <1>2, <2>1, <2>2, DesGood
<1>3. CASE ~("f_manage_2" \in x.used \/ x.man_des = 29) /\ x.man_id2 # 0
  <2>1. SplitForFault(x) = y
    BY <1>3 DEF SplitForFault
  <2>2. x \in Truck /\ Distances(x)
    BY DEF Good
  <2>3. dist \in Int /\ (dist = x.des_f_dist \/ dist \in - DIST .. 4 * DIST)
    BY <2>2, DistType DEF Distances
  <2> HIDE DEF dist
  <2> DEFINE d == Cruise(x, dist)
  <2>4. /\ d \in Truck /\ SameClock(d, x) /\ d.used = x.used
        /\ d.des_f_dist = dist /\ d.man_des = 7
    BY <2>2, <2>3, CruiseType DEF SameClock
  <2> HIDE DEF d
  <2>5. Good(d)
    BY <2>3, <2>4, SetGood
  <2>6. LET z == [d EXCEPT !.used = @ \cup {"f_manage_2"}, !.man_id2 = 0]
        IN  Good(z) /\ z.man_des = d.man_des /\ z.used = d.used \cup {"f_manage_2"}
    BY <2>5, SpendGood DEF Switches
  <2>7. Good(y) /\ y.man_des = 7 /\ y.used = x.used \cup {"f_manage_2"}
    BY <2>4, <2>6 DEF d
  <2>. QED BY <1>3, <2>1, <2>7
<1>. QED BY <1>1, <1>2, <1>3

LEMMA StopAtEndGood ==
  ASSUME NEW x, Good(x), NEW stop \in BOOLEAN
  PROVE  /\ Good(StopAtEnd(x, stop))
         /\ x.man_des \in {13, 29} => StopAtEnd(x, stop) = x
         /\ x.man_des = 7 /\ stop => StopAtEnd(x, stop).man_des = 29
         /\ "f_manage_3" \in StopAtEnd(x, stop).used <=> "f_manage_3" \in x.used
<1>1. 29 \in Maneuver \ {6}
  BY DEF Maneuver
<1> DEFINE y == [x EXCEPT !.man_des = 29]
<1>2. Good(y) /\ y.man_des = 29 /\ y.used = x.used
  BY <1>1, DesGood
<1>3. StopAtEnd(x, stop) = IF x.man_des = 7 /\ stop THEN FallBack(y) ELSE x
  BY DEF StopAtEnd
<1> HIDE DEF y
<1>4. /\ Good(FallBack(y)) /\ FallBack(y).man_des = 29
      /\ "f_manage_3" \in FallBack(y).used <=> "f_manage_3" \in x.used
  BY <1>2, FallBackGood
<1>. QED BY <1>3, <1>4

LEMMA StopForFaultGood ==
  ASSUME NEW x, Good(x)
  PROVE  /\ Good(StopForFault(x))
         /\ StopForFault(x).man_des \in {13, 29, x.man_des}
         /\ "f_manage_3" \in x.used => StopForFault(x) = x
<1>1. {13, 29} \subseteq Maneuver \ {6}
  BY DEF Maneuver
<1> DEFINE y == [x EXCEPT !.man_des = 29]
           f == FallBack(y)
<1>2. CASE "f_manage_3" \in x.used
  BY <1>2 DEF StopForFault
<1>3. CASE "f_manage_3" \notin x.used /\ x.man_id2 = 0
  BY <1>1, <1>3, DesGood DEF StopForFault
<1>4. CASE "f_manage_3" \notin x.used /\ x.man_id2 # 0
  <2>1. Good(y) /\ y.man_des = 29
    BY <1>1, DesGood
  <2>2. StopForFault(x) = [f EXCEPT !.used = @ \cup {"f_manage_3"}, !.man_id2 = 0]
    BY <1>4 DEF StopForFault
  <2> HIDE DEF y
  <2>3. Good(f) /\ f.man_des = 29
    BY <2>1, FallBackGood
  <2> HIDE DEF f
  <2>4. LET z == [f EXCEPT !.used = @ \cup {"f_manage_3"}, !.man_id2 = 0]
        IN  Good(z) /\ z.man_des = f.man_des
    BY <2>3, SpendGood DEF Switches
  <2>. QED BY <1>4, <2>2, <2>3, <2>4
<1>. QED BY <1>2, <1>3, <1>4

LEMMA EmergencyGood ==
  ASSUME NEW x, Good(x), veh_id \in 1 .. 3, NEW fault \in {2, 3}, NEW stop \in BOOLEAN
  PROVE  /\ Good(Emergency(x, fault, stop))
         /\ stop /\ x.man_des \in {13, 29} => Emergency(x, fault, stop).man_des \in {13, 29}
         /\ x.man_des = 29 /\ Emergency(x, fault, stop).man_des = 13 =>
              "f_manage_3" \notin x.used
<1> DEFINE two == IF fault = 2 THEN SplitForFault(x) ELSE x
           end == StopAtEnd(two, stop)
<1>1. /\ Good(two) /\ (x.man_des = 29 => two = x)
      /\ x.man_des = 13 => two.man_des \in {7, 13}
  BY SplitForFaultGood
<1>2. Emergency(x, fault, stop) = IF fault = 3 THEN StopForFault(end) ELSE end
  BY DEF Emergency
<1> HIDE DEF two
<1>3. /\ Good(end)
      /\ stop /\ x.man_des \in {13, 29} => end.man_des \in {13, 29}
      /\ x.man_des = 29 => end = x
  BY <1>1, StopAtEndGood
<1> HIDE DEF end
<1>4. /\ Good(StopForFault(end))
      /\ StopForFault(end).man_des \in {13, 29, end.man_des}
      /\ "f_manage_3" \in end.used => StopForFault(end) = end
  BY <1>3, StopForFaultGood
<1>. QED BY <1>2, <1>3, <1>4
-----------------------------------------------------------------------------
\* maneuver: what it does not touch, and the distances that it computes.
SamePlan(y, x) == y.man_des = x.man_des /\ y.used = x.used

LEMMA ApartGood ==
  ASSUME NEW x, Good(x), NEW d \in - DIST .. DIST, NoJoinYet(x) => d >= 0
  PROVE  Good(Apart(x, d)) /\ SamePlan(Apart(x, d), x)
<1>1. x \in Truck
  BY DEF Good
<1>2. CASE veh_id = 1
  BY <1>2 DEF Apart, SamePlan
<1>3. CASE veh_id # 1
  <2> DEFINE y == [x EXCEPT !.man_dist_var2 = d, !.man_dist_var3 = 2 * d]
  <2>1. d \in Int /\ 2 * d \in Int
    BY DistType
  <2>2. /\ y \in Truck /\ y.used = x.used /\ y.man_des = x.man_des
        /\ y.des_f_dist = x.des_f_dist /\ y.man_t = x.man_t
        /\ y.man_dist_var2 = d /\ y.man_dist_var3 = 2 * d
    BY <1>1, <2>1 DEF Truck
  <2>3. Apart(x, d) = y
    BY <1>3 DEF Apart
  <2> HIDE DEF y
  <2>4. Good(y)
    BY <2>2 DEF Good, Distances, NoJoinYet
  <2>. QED BY <2>2, <2>3, <2>4 DEF SamePlan
<1>. QED BY <1>2, <1>3

\* A step of maneuver that leaves the distances alone.
LEMMA KeepGood ==
  ASSUME NEW x, Good(x), NEW y \in Truck, SameClock(y, x), SamePlan(y, x),
         y.des_f_dist = x.des_f_dist
  PROVE  Good(y)
BY SetGood DEF SamePlan

LEMMA SampledGood ==
  ASSUME NEW x, Good(x), NEW s \in {"split", "join", "e_split"}
  PROVE  Good(Sampled(x, s)) /\ SamePlan(Sampled(x, s), x)
<1>1. x \in Truck
  BY DEF Good
<1> DEFINE y == [x EXCEPT !.sampled = @ \cup {s}, !.man_id2 = 0]
<1>2. /\ y \in Truck /\ SameClock(y, x) /\ SamePlan(y, x) /\ y.des_f_dist = x.des_f_dist
  BY <1>1 DEF Truck, SameClock, SamePlan
<1>3. Sampled(x, s) = y
  BY DEF Sampled
<1> HIDE DEF y
<1>. QED BY <1>2, <1>3, KeepGood

LEMMA AcknowledgeGood ==
  ASSUME NEW x, Good(x)
  PROVE  Good([x EXCEPT !.man_id2 = 1]) /\ SamePlan([x EXCEPT !.man_id2 = 1], x)
<1>1. x \in Truck
  BY DEF Good
<1> DEFINE y == [x EXCEPT !.man_id2 = 1]
<1>2. /\ y \in Truck /\ SameClock(y, x) /\ SamePlan(y, x) /\ y.des_f_dist = x.des_f_dist
  BY <1>1 DEF Truck, SameClock, SamePlan
<1> HIDE DEF y
<1>3. Good(y)
  BY <1>2, KeepGood
<1>. QED BY <1>2, <1>3 DEF y

LEMMA JoiningGood ==
  ASSUME NEW x, Good(x), x.man_des = 6, NEW refused \in BOOLEAN
  PROVE  Good(Joining(x, refused)) /\ SamePlan(Joining(x, refused), x)
<1> DEFINE first == "join" \notin x.sampled
           y == IF first THEN Sampled(x, "join") ELSE x
           t == y.join_t + 1
           z == [y EXCEPT !.join_t = t]
           r == Ramp(t, JOIN_T, DIST)
<1>1. Good(y) /\ SamePlan(y, x)
  BY SampledGood DEF SamePlan
<1>2. Joining(x, refused) =
        IF first /\ refused THEN Apart(y, 0)
        ELSE IF y.join_t < JOIN_T THEN Apart(z, - r) ELSE [y EXCEPT !.man_id2 = 1]
  BY DEF Joining
<1> HIDE DEF y, first
<1>3. Good(Apart(y, 0)) /\ SamePlan(Apart(y, 0), y)
  BY <1>1, ApartGood, DistType
<1>4. Good([y EXCEPT !.man_id2 = 1]) /\ SamePlan([y EXCEPT !.man_id2 = 1], y)
  BY <1>1, AcknowledgeGood
<1>5. ASSUME y.join_t < JOIN_T PROVE Good(Apart(z, - r)) /\ SamePlan(Apart(z, - r), y)
  <2>1. y \in Truck /\ y.join_t \in 0 .. JOIN_T
    BY <1>1 DEF Good, Truck
  <2>2. t \in 0 .. JOIN_T /\ t \in Nat
    BY <1>5, <2>1, DistType
  <2>3. r \in 0 .. DIST
    BY <2>2, DistType, RampType
  <2> HIDE DEF t, r
  <2>4. z \in Truck /\ SameClock(z, y) /\ SamePlan(z, y) /\ z.des_f_dist = y.des_f_dist
    BY <2>1, <2>2 DEF Truck, SameClock, SamePlan
  <2> HIDE DEF z
  <2>5. Good(z)
    BY <1>1, <2>4, KeepGood
  <2>6. ~NoJoinYet(z)
    BY <1>1, <2>4, <2>5 DEF Good, SamePlan
  <2>7. - r \in - DIST .. DIST
    BY <2>3, DistType
  <2>8. Good(Apart(z, - r)) /\ SamePlan(Apart(z, - r), z)
    BY <2>5, <2>6, <2>7, ApartGood
  <2>. QED BY <2>4, <2>8 DEF SamePlan
<1>. QED BY <1>1, <1>2, <1>3, <1>4, <1>5 DEF SamePlan

LEMMA SplittingGood ==
  ASSUME NEW x, Good(x), NEW refused \in BOOLEAN
  PROVE  Good(Splitting(x, refused)) /\ SamePlan(Splitting(x, refused), x)
<1> DEFINE first == "split" \notin x.sampled
           y == IF first THEN Sampled(x, "split") ELSE x
           z == IF first THEN [y EXCEPT !.loc_split_dist = DIST] ELSE y
           t == z.split_t + 1
           w == [z EXCEPT !.split_t = t]
           r == Ramp(t, SPLIT_T, z.loc_split_dist)
<1>1. Good(y) /\ SamePlan(y, x)
  BY SampledGood DEF SamePlan
<1>2. Splitting(x, refused) =
        IF first /\ refused THEN Apart(y, 0)
        ELSE IF z.split_t <= SPLIT_T THEN Apart(w, r) ELSE [z EXCEPT !.man_id2 = 1]
  BY DEF Splitting
<1> HIDE DEF y, first
<1>3. Good(Apart(y, 0)) /\ SamePlan(Apart(y, 0), y)
  BY <1>1, ApartGood, DistType
<1>4. Good(z) /\ SamePlan(z, y)
  <2> DEFINE u == [y EXCEPT !.loc_split_dist = DIST]
  <2>1. y \in Truck
    BY <1>1 DEF Good
  <2>2. u \in Truck /\ SameClock(u, y) /\ SamePlan(u, y) /\ u.des_f_dist = y.des_f_dist
    BY <2>1 DEF Truck, SameClock, SamePlan
  <2>3. z = IF first THEN u ELSE y
    OBVIOUS
  <2> HIDE DEF u, z
  <2>4. Good(u)
    BY <1>1, <2>2, KeepGood
  <2>. QED BY <1>1, <2>2, <2>3, <2>4 DEF SamePlan
<1> HIDE DEF z
<1>5. Good([z EXCEPT !.man_id2 = 1]) /\ SamePlan([z EXCEPT !.man_id2 = 1], z)
  BY <1>4, AcknowledgeGood
<1>6. ASSUME z.split_t <= SPLIT_T PROVE Good(Apart(w, r)) /\ SamePlan(Apart(w, r), z)
  <2>1. z \in Truck /\ z.split_t \in 0 .. SPLIT_T + 1 /\ z.loc_split_dist \in {0, DIST}
    BY <1>4 DEF Good, Truck
  <2>2. t \in 0 .. SPLIT_T + 1 /\ t \in Nat
    BY <1>6, <2>1, DistType
  <2>3. r \in 0 .. DIST
    <3>1. z.loc_split_dist \in Nat /\ z.loc_split_dist <= DIST
      BY <2>1, DistType
    <3>2. r \in 0 .. z.loc_split_dist
      BY <2>2, <3>1, DistType, RampType
    <3>. QED BY <3>1, <3>2, DistType
  <2> HIDE DEF t, r
  <2>4. w \in Truck /\ SameClock(w, z) /\ SamePlan(w, z) /\ w.des_f_dist = z.des_f_dist
    BY <2>1, <2>2 DEF Truck, SameClock, SamePlan
  <2> HIDE DEF w
  <2>5. Good(w)
    BY <1>4, <2>4, KeepGood
  <2>6. r \in - DIST .. DIST /\ r >= 0
    BY <2>3, DistType
  <2>7. Good(Apart(w, r)) /\ SamePlan(Apart(w, r), w)
    BY <2>5, <2>6, ApartGood
  <2>. QED BY <2>4, <2>7 DEF SamePlan
<1>. QED BY <1>1, <1>2, <1>3, <1>4, <1>5, <1>6 DEF SamePlan

LEMMA EmergencySplittingGood ==
  ASSUME NEW x, Good(x)
  PROVE  Good(EmergencySplitting(x)) /\ SamePlan(EmergencySplitting(x), x)
<1> DEFINE y == IF "e_split" \in x.sampled THEN x ELSE Sampled(x, "e_split")
           t == y.e_split_t + 1
           w == [y EXCEPT !.e_split_t = t]
           r == Ramp(t, SPLIT_T, DIST)
<1>1. Good(y) /\ SamePlan(y, x) /\ y.e_split_t = x.e_split_t
  <2>1. x \in Truck
    BY DEF Good
  <2>2. Sampled(x, "e_split").e_split_t = x.e_split_t
    BY <2>1 DEF Sampled, Truck
  <2>. QED BY <2>2, SampledGood DEF SamePlan
<1>2. EmergencySplitting(x) =
        IF x.e_split_t <= SPLIT_T THEN Apart(w, r) ELSE [x EXCEPT !.man_id2 = 1]
  BY DEF EmergencySplitting
<1> HIDE DEF y
<1>3. Good([x EXCEPT !.man_id2 = 1]) /\ SamePlan([x EXCEPT !.man_id2 = 1], x)
  BY AcknowledgeGood
<1>4. ASSUME x.e_split_t <= SPLIT_T PROVE Good(Apart(w, r)) /\ SamePlan(Apart(w, r), x)
  <2>1. y \in Truck /\ y.e_split_t \in 0 .. SPLIT_T + 1
    BY <1>1 DEF Good, Truck
  <2>2. t \in 0 .. SPLIT_T + 1 /\ t \in Nat
    BY <1>1, <1>4, <2>1, DistType
  <2>3. r \in 0 .. DIST
    BY <2>2, DistType, RampType
  <2> HIDE DEF t, r
  <2>4. w \in Truck /\ SameClock(w, y) /\ SamePlan(w, y) /\ w.des_f_dist = y.des_f_dist
    BY <2>1, <2>2 DEF Truck, SameClock, SamePlan
  <2> HIDE DEF w
  <2>5. Good(w)
    BY <1>1, <2>4, KeepGood
  <2>6. r \in - DIST .. DIST /\ r >= 0
    BY <2>3, DistType
  <2>7. Good(Apart(w, r)) /\ SamePlan(Apart(w, r), w)
    BY <2>5, <2>6, ApartGood
  <2>. QED BY <1>1, <2>4, <2>7 DEF SamePlan
<1>. QED BY <1>2, <1>3, <1>4

LEMMA CruiseOnGood ==
  ASSUME NEW x, Good(x)
  PROVE  Good(CruiseOn(x)) /\ SamePlan(CruiseOn(x), x)
<1>1. x \in Truck
  BY DEF Good
<1> DEFINE y == [x EXCEPT !.sampled = {}, !.split_t = 0, !.join_t = 0, !.e_split_t = 0,
                          !.man_id2 = 0]
<1>2. 0 \in 0 .. SPLIT_T + 1 /\ 0 \in 0 .. JOIN_T
  BY DistType
<1>3. y \in Truck /\ SameClock(y, x) /\ SamePlan(y, x) /\ y.des_f_dist = x.des_f_dist
  BY <1>1, <1>2 DEF Truck, SameClock, SamePlan
<1>4. CruiseOn(x) = y
  BY DEF CruiseOn
<1> HIDE DEF y
<1>. QED BY <1>3, <1>4, KeepGood

LEMMA maneuverGood ==
  ASSUME NEW x, Good(x), NEW refused \in BOOLEAN
  PROVE  Good(maneuver(x, refused)) /\ SamePlan(maneuver(x, refused), x)
<1> DEFINE y == [x EXCEPT !.man_id1 = x.man_des]
<1>1. Good(y) /\ SamePlan(y, x)
  <2>1. x \in Truck /\ x.man_des \in Maneuver
    BY DEF Good, Truck
  <2>2. y \in Truck /\ SameClock(y, x) /\ SamePlan(y, x) /\ y.des_f_dist = x.des_f_dist
    BY <2>1 DEF Truck, SameClock, SamePlan
  <2> HIDE DEF y
  <2>. QED BY <2>2, KeepGood
<1>2. maneuver(x, refused) =
        CASE y.man_des \in {0, 1} -> Resting(y)
          [] y.man_des \in {27, 29} -> Decelerating(y)
          [] y.man_des = 3 -> Accelerating(y)
          [] y.man_des = 6 -> IF veh_id = 1 THEN y ELSE Joining(y, refused)
          [] y.man_des = 7 -> CruiseOn(Apart(y, 0))
          [] y.man_des = 8 -> IF veh_id = 1 THEN y ELSE Splitting(y, refused)
          [] y.man_des = 13 -> EmergencySplitting(y)
  BY DEF maneuver
<1> HIDE DEF y
<1>3. y.man_des \in Maneuver
  BY <1>1 DEF Good, Truck
<1>4. Good(Apart(y, 0)) /\ SamePlan(Apart(y, 0), y)
  BY <1>1, ApartGood, DistType
<1>5. CASE y.man_des \in {0, 1}
  <2>1. maneuver(x, refused) = Resting(y)
    BY <1>2, <1>5
  <2>. QED BY <1>1, <1>4, <2>1 DEF Resting, SamePlan
<1>6. CASE y.man_des \in {27, 29}
  <2>1. maneuver(x, refused) = Decelerating(y)
    BY <1>2, <1>6
  <2>. QED BY <1>1, <1>4, <2>1 DEF Decelerating, SamePlan
<1>7. CASE y.man_des = 3
  <2>1. maneuver(x, refused) = Accelerating(y)
    BY <1>2, <1>7
  <2>. QED BY <1>1, <1>4, <2>1 DEF Accelerating, SamePlan
<1>8. CASE y.man_des = 6
  <2>1. maneuver(x, refused) = IF veh_id = 1 THEN y ELSE Joining(y, refused)
    BY <1>2, <1>8
  <2>. QED BY <1>1, <1>8, <2>1, JoiningGood DEF SamePlan
<1>9. CASE y.man_des = 7
  <2>1. maneuver(x, refused) = CruiseOn(Apart(y, 0))
    BY <1>2, <1>9
  <2>. QED BY <1>1, <1>4, <2>1, CruiseOnGood DEF SamePlan
<1>10. CASE y.man_des = 8
  <2>1. maneuver(x, refused) = IF veh_id = 1 THEN y ELSE Splitting(y, refused)
    BY <1>2, <1>10
  <2>. QED BY <1>1, <1>10, <2>1, SplittingGood DEF SamePlan
<1>11. CASE y.man_des = 13
  <2>1. maneuver(x, refused) = EmergencySplitting(y)
    BY <1>2, <1>11
  <2>. QED BY <1>1, <1>11, <2>1, EmergencySplittingGood DEF SamePlan
<1>. QED BY <1>3, <1>5, <1>6, <1>7, <1>8, <1>9, <1>10, <1>11 DEF Maneuver
-----------------------------------------------------------------------------
\* The truck's place, task and clocks, and that only a truck that moves passes
\* its stopping distance.
Clocks ==
  /\ veh_id \in Vehicle /\ task \in Task
  /\ time \in 0 .. t_wait + 1
  /\ past \in BOOLEAN /\ steady \in BOOLEAN
  /\ past => time > t_wait

Inv == Clocks /\ Good(v)

LEMMA InitInv == Init => Inv
<1>. SUFFICES ASSUME Init PROVE Inv
  OBVIOUS
<1>1. {0, 3 * CRUISE_T + 1, End, SPLIT_T + 1, JOIN_T + 1, JOIN_T, t_wait + 1} \subseteq Nat
  BY DistType, EndType
<1>2. v \in Truck
  BY <1>1 DEF Init, Truck, Maneuver
<1>3. Good(v)
  BY <1>2, DistType DEF Init, Good, Distances
<1>4. time \in 0 .. t_wait + 1 /\ veh_id \in Vehicle /\ task \in Task
  BY <1>1 DEF Init
<1>5. past = FALSE /\ steady = TRUE
  BY DEF Init
<1>. QED BY <1>3, <1>4, <1>5 DEF Inv, Clocks

\* A cycle, coording and then maneuver.
LEMMA CycleStep ==
  ASSUME Inv, NEW speed \in {"below", "at", "above"}, NEW fault \in Fault,
         NEW refused \in BOOLEAN, Cycle(speed, fault, refused)
  PROVE  /\ Inv'
         /\ past /\ v.man_des \in {13, 29} =>
              /\ v'.man_des \in {13, 29}
              /\ v.man_des = 29 /\ v'.man_des = 13 => "f_manage_3" \notin v.used
<1> DEFINE x == coording(v, time', speed, fault, past')
<1>1. veh_id \in 1 .. 3 /\ task \in 3 .. 8 /\ fault \in 0 .. 3 /\ Good(v)
  BY VehicleAssumption, TaskAssumption, FaultAssumption DEF Inv, Clocks
<1>2. /\ time' \in 0 .. t_wait + 1 /\ time <= time'
      /\ past' \in BOOLEAN /\ (past' => time' > t_wait) /\ (past => past')
  <2>1. time' = Tick(time, t_wait + 1) /\ past' \in {past, time' > t_wait}
    BY DEF Cycle
  <2>2. time \in 0 .. t_wait + 1 /\ past \in BOOLEAN /\ (past => time > t_wait)
    BY DEF Inv, Clocks
  <2>3. time' \in 0 .. t_wait + 1 /\ time <= time'
    BY <2>1, <2>2, TickType, DistType
  <2>4. past' = past \/ past' = (time' > t_wait)
    BY <2>1
  <2>5. CASE past' = past
    BY <2>2, <2>3, <2>5, DistType
  <2>6. CASE past' = (time' > t_wait)
    <3>1. past' \in BOOLEAN /\ (past' => time' > t_wait)
      <4> DEFINE p == time' > t_wait
      <4>1. p \in BOOLEAN
        BY <2>3
      <4>. QED BY <2>6, <4>1, Zenon
    <3>2. past => time' > t_wait
      BY <2>2, <2>3, DistType
    <3>. QED BY <2>3, <2>6, <3>1, <3>2
  <2>. QED BY <2>4, <2>5, <2>6
<1>3. v' = maneuver(x, refused)
  BY DEF Cycle
<1>4. x = IF fault \in {2, 3} THEN Emergency(v, fault, past') ELSE Normal(v, time', speed, past')
  BY DEF coording
<1> HIDE DEF x
<1>5. steady' \in BOOLEAN /\ veh_id' = veh_id /\ task' = task
  BY DEF Cycle
<1>6. Good(x) => Good(v)' /\ v'.man_des = x.man_des
  BY <1>3, <1>5, maneuverGood DEF SamePlan, Good, NoJoinYet
<1>7. Clocks'
  BY <1>2, <1>5 DEF Inv, Clocks
<1>8. CASE fault \in {2, 3}
  <2>1. /\ Good(x)
        /\ past' /\ v.man_des \in {13, 29} => x.man_des \in {13, 29}
        /\ v.man_des = 29 /\ x.man_des = 13 => "f_manage_3" \notin v.used
    BY <1>1, <1>2, <1>4, <1>8, EmergencyGood
  <2>. QED BY <1>2, <1>6, <1>7, <2>1 DEF Inv
<1>9. CASE fault \notin {2, 3}
  <2>1. past' => ~(time' <= t_wait) /\ ~(time' <= 3 /\ veh_id = 1)
    BY <1>2, DistType, WaitAssumption
  <2>2. Good(x) /\ (past' => x.man_des = 29)
    BY <1>1, <1>2, <1>4, <1>9, <2>1, NormalGood
  <2>. QED BY <1>2, <1>6, <1>7, <2>2 DEF Inv
<1>. QED BY <1>8, <1>9

THEOREM Invariance == Spec => []Inv
<1>1. Inv /\ [Next]_vars => Inv'
  <2>1. ASSUME Inv, Next PROVE Inv'
    BY <2>1, CycleStep DEF Next
  <2>2. ASSUME Inv, UNCHANGED vars PROVE Inv'
    BY <2>2 DEF Inv, Clocks, Good, NoJoinYet, vars
  <2>. QED BY <2>1, <2>2
<1>. QED BY <1>1, InitInv, PTL DEF Spec

(* Whatever speeds, faults, refusals and stops come in whatever cycle, and *)
(* for all tasks and times: a clock, a switch or an acknowledgement never  *)
(* leaves its range, and the distance that the truck is told to keep is    *)
(* never more than a join below, or five splits above, the usual one.      *)
THEOREM DistanceIsBounded == Spec => []TypeOK
<1>1. Inv => TypeOK
  BY DEF Inv, Clocks, Good, Distances, TypeOK
<1>. QED BY <1>1, Invariance, PTL

(* Beyond the stopping distance a truck that stops, or splits to stop,     *)
(* stays with it, for all times, tasks and sequences of speeds, faults and *)
(* refusals, and only its first fault of index 3 makes it split.           *)
THEOREM StopsForGood == Spec => StopIsFinal
<1> DEFINE Final == past /\ v.man_des \in {13, 29} =>
                      /\ v'.man_des \in {13, 29}
                      /\ v.man_des = 29 /\ v'.man_des = 13 => "f_manage_3" \notin v.used
<1>1. ASSUME Inv, Next PROVE Final
  BY <1>1, CycleStep DEF Next
<1>2. ASSUME UNCHANGED vars PROVE Final
  BY <1>2 DEF vars
<1>3. Inv /\ [Next]_vars => Final
  BY <1>1, <1>2
<1>. QED BY <1>3, Invariance, PTL DEF Spec, StopIsFinal
-----------------------------------------------------------------------------
\* The course of a follower that was not disturbed: definitions.

\* How far a truck has moved after some cycles of a split, and of a join.
SplitRamp(i) == Ramp(i, SPLIT_T, DIST)
JoinRamp(i) == Ramp(i, JOIN_T, DIST)

\* maneuver is ready for a split or a join.
Fresh(x) ==
  /\ x.sampled = {} /\ x.split_t = 0 /\ x.join_t = 0 /\ x.man_id2 = 0
  /\ x.man_dist_var2 = 0 /\ x.man_dist_var3 = 0

Cruising(x, dist) == Fresh(x) /\ x.man_des = 7 /\ x.man_id1 = 7 /\ x.des_f_dist = dist

\* The truck has split for i cycles.
SplitAt(x, i) ==
  /\ x.man_des = 8 /\ x.man_id1 = 8 /\ x.man_id2 = 0
  /\ x.sampled = {"split"} /\ x.split_t = i /\ x.loc_split_dist = DIST
  /\ x.man_dist_var2 = SplitRamp(i) /\ x.man_dist_var3 = 2 * SplitRamp(i)

SplitDone(x) ==
  /\ x.man_des = 8 /\ x.man_id1 = 8 /\ x.man_id2 = 1
  /\ x.sampled = {"split"} /\ x.split_t = SPLIT_T + 1
  /\ x.man_dist_var2 = DIST /\ x.man_dist_var3 = 2 * DIST

\* The truck has joined for i cycles.
JoinAt(x, i) ==
  /\ x.man_des = 6 /\ x.man_id1 = 6 /\ x.man_id2 = 0
  /\ x.sampled = {"join"} /\ x.join_t = i
  /\ x.man_dist_var2 = - JoinRamp(i) /\ x.man_dist_var3 = - 2 * JoinRamp(i)

JoinDone(x) ==
  /\ x.man_des = 6 /\ x.man_id1 = 6 /\ x.man_id2 = 1
  /\ x.sampled = {"join"} /\ x.join_t = JOIN_T
  /\ x.man_dist_var2 = - DIST /\ x.man_dist_var3 = - 2 * DIST

\* Nothing of the task has begun, at any speed.
Idle(x) ==
  /\ Fresh(x) /\ x.used = {} /\ x.split_d = 0 /\ x.join_d = 0
  /\ x.des_f_dist = 0 /\ x.man_id1 = x.man_des

\* The truck has not cruised yet.
Before(x) ==
  /\ Idle(x) /\ ~x.man_on /\ x.man_t = 0 /\ x.cruise_t = 0
  /\ x.man_des \in {0, 1, 3, 7, 27}

\* It cruises, but for the cycle after it first did so, and waits for its task.
Waiting(x) ==
  /\ Idle(x) /\ x.man_t >= 1 /\ x.cruise_t >= 1 /\ x.man_t <= x.cruise_t + 1
  /\ \/ x.man_des = 7
     \/ x.man_des \in {3, 27} /\ x.man_t = 1

\* Task 3 and the first half of task 5.
SplitCourse(x) ==
  \/ Waiting(x) /\ x.cruise_t <= CRUISE_T
  \/ /\ x.used = {"split"} /\ x.cruise_t = CRUISE_T + 1
     /\ \/ \E i \in 1 .. SPLIT_T + 1 : /\ SplitAt(x, i) /\ x.des_f_dist = SplitRamp(i - 1)
                                       /\ x.man_t <= CRUISE_T + 1 + i
        \/ SplitDone(x) /\ x.des_f_dist = DIST /\ x.man_t <= CRUISE_T + SPLIT_T + 3

\* Task 4 and the second half of task 5, begun before time t at a distance.
JoinCourse(x, t, dist) ==
  /\ "join" \in x.used
  /\ \/ \E i \in 1 .. JOIN_T : /\ JoinAt(x, i) /\ x.des_f_dist = dist - JoinRamp(i - 1)
                               /\ x.man_t <= t + i
     \/ JoinDone(x) /\ x.des_f_dist = dist - DIST /\ x.man_t <= t + JOIN_T + 1
     \/ Cruising(x, dist - DIST)

\* Task 5 between its halves.
Between(x) ==
  /\ Cruising(x, DIST) /\ x.used = {"split"}
  /\ x.cruise_t <= 3 * CRUISE_T /\ x.man_t <= CRUISE_T + SPLIT_T + 4 + x.cruise_t

\* Task 6 and the first half of task 8, t cycles after its begin: the last truck.
SplitLast(x, t) ==
  IF t < 0 THEN Waiting(x)
  ELSE /\ x.used = {"split"} /\ x.join_d = 0
       /\ IF t < SPLIT_T
          THEN SplitAt(x, t + 1) /\ x.des_f_dist = 2 * SplitRamp(t) /\ x.split_d = 0
          ELSE IF t < 2 * SPLIT_T
          THEN /\ IF t = SPLIT_T THEN SplitAt(x, SPLIT_T + 1) ELSE SplitDone(x)
               /\ x.split_d = t - SPLIT_T + 1
               /\ x.des_f_dist = 2 * DIST - SplitRamp(x.split_d)
          ELSE /\ x.des_f_dist = DIST
               /\ Cruising(x, DIST) \/ (SplitDone(x) /\ SPLIT_T = 1 /\ t = 2)

\* The second one, t cycles after its own begin.
SplitSecond(x, t) ==
  IF t < - SPLIT_T THEN Waiting(x)
  ELSE IF t < 0 THEN Cruising(x, 0) /\ x.used = {}
  ELSE /\ x.used = {"split"}
       /\ IF t < SPLIT_T THEN SplitAt(x, t + 1) /\ x.des_f_dist = SplitRamp(t)
          ELSE IF t = SPLIT_T THEN SplitAt(x, t + 1) /\ x.des_f_dist = SplitRamp(t - 1)
          ELSE IF t = SPLIT_T + 1 THEN SplitDone(x) /\ x.des_f_dist = SplitRamp(SPLIT_T - 1)
          ELSE Cruising(x, DIST)

\* Task 7 and the second half of task 8, from a distance: the last truck.
JoinLast(x, t, dist) ==
  IF t < JOIN_T
  THEN /\ "join" \notin x.used /\ x.join_d = t + 1
       /\ Cruising(x, dist + JoinRamp(t + 1))
  ELSE /\ "join" \in x.used
       /\ IF t < 2 * JOIN_T
          THEN JoinAt(x, t - JOIN_T + 1) /\ x.des_f_dist = dist + DIST - 2 * JoinRamp(t - JOIN_T)
          ELSE IF t = 2 * JOIN_T
          THEN JoinDone(x) /\ x.des_f_dist = dist + DIST - 2 * JoinRamp(JOIN_T - 1)
          ELSE Cruising(x, dist - DIST)

\* The second one.
JoinSecond(x, t, dist) ==
  IF t < JOIN_T
  THEN "join" \in x.used /\ JoinAt(x, t + 1) /\ x.des_f_dist = dist - JoinRamp(t)
  ELSE Cruising(x, dist - DIST)

SplitTurn(x) ==
  IF veh_id = 2 THEN SplitSecond(x, x.man_t - CRUISE_T - SPLIT_T)
  ELSE SplitLast(x, x.man_t - CRUISE_T)

JoinTurn(x, start, dist) ==
  IF veh_id = 2 THEN JoinSecond(x, x.man_t - start, dist) ELSE JoinLast(x, x.man_t - start, dist)

JoinStart == 2 * (CRUISE_T + SPLIT_T)

Course(x) ==
  CASE task = 3 -> SplitCourse(x) \/ (Cruising(x, DIST) /\ x.used = {"split"})
    [] task = 4 -> (Waiting(x) /\ x.cruise_t <= CRUISE_T) \/ JoinCourse(x, CRUISE_T + 1, 0)
    [] task = 5 -> \/ SplitCourse(x) \/ Between(x)
                   \/ "split" \in x.used /\ JoinCourse(x, 4 * CRUISE_T + SPLIT_T + 4, DIST)
    [] task = 6 -> SplitTurn(x)
    [] task = 7 -> IF x.man_t < CRUISE_T THEN Waiting(x) ELSE JoinTurn(x, CRUISE_T, 0)
    [] task = 8 -> IF x.man_t < JoinStart THEN SplitTurn(x) ELSE JoinTurn(x, JoinStart, DIST)

\* A follower that was not disturbed has not cruised yet, or is on its course.
OnCourse ==
  steady /\ veh_id # 1 =>
    IF v.man_on THEN time > t_wait /\ Course(v)
    ELSE Before(v) /\ (v.man_des \in {3, 7, 27} => time > t_wait)

LEMMA Quotient ==
  ASSUME NEW a \in Nat \ {0}, NEW n \in Nat
  PROVE  (a * n) \div a = n
<1>1. a * n \in Nat
  OBVIOUS
<1>2. a * n = a * n + 0 /\ 0 < a
  OBVIOUS
<1>. QED BY <1>1, <1>2

LEMMA SplitRampIs ==
  ASSUME NEW i \in 0 .. SPLIT_T + 1
  PROVE  SplitRamp(i) = JOIN_T * (IF i < SPLIT_T THEN i ELSE SPLIT_T)
<1> DEFINE k == IF i < SPLIT_T THEN i ELSE SPLIT_T
<1>1. k \in Nat /\ JOIN_T * k \in Nat
  BY DistType
<1>2. SplitRamp(i) = (SPLIT_T * JOIN_T * k) \div SPLIT_T
  BY DEF SplitRamp, Ramp, DIST
<1> HIDE DEF k
<1>3. SPLIT_T * JOIN_T * k = SPLIT_T * (JOIN_T * k)
  BY <1>1, DistType
<1>4. (SPLIT_T * (JOIN_T * k)) \div SPLIT_T = JOIN_T * k
  BY <1>1, DistType, Quotient
<1>. QED BY <1>2, <1>3, <1>4 DEF k

LEMMA JoinRampIs ==
  ASSUME NEW i \in 0 .. JOIN_T + 1
  PROVE  JoinRamp(i) = SPLIT_T * (IF i < JOIN_T THEN i ELSE JOIN_T)
<1> DEFINE k == IF i < JOIN_T THEN i ELSE JOIN_T
<1>1. k \in Nat /\ SPLIT_T * k \in Nat
  BY DistType
<1>2. JoinRamp(i) = (SPLIT_T * JOIN_T * k) \div JOIN_T
  BY DEF JoinRamp, Ramp, DIST
<1> HIDE DEF k
<1>3. SPLIT_T * JOIN_T * k = JOIN_T * (SPLIT_T * k)
  BY <1>1, DistType
<1>4. (JOIN_T * (SPLIT_T * k)) \div JOIN_T = SPLIT_T * k
  BY <1>1, DistType, Quotient
<1>. QED BY <1>2, <1>3, <1>4 DEF k

\* A split, and a join, by equal parts.
LEMMA SplitRampSteps ==
  /\ SplitRamp(0) = 0 /\ SplitRamp(SPLIT_T) = DIST /\ SplitRamp(SPLIT_T + 1) = DIST
  /\ \A i \in 0 .. SPLIT_T + 1 : SplitRamp(i) \in 0 .. DIST
  /\ \A i \in 0 .. SPLIT_T - 1 : SplitRamp(i + 1) = SplitRamp(i) + JOIN_T
<1>1. \A i \in 0 .. SPLIT_T + 1 : SplitRamp(i) = JOIN_T * (IF i < SPLIT_T THEN i ELSE SPLIT_T)
  BY SplitRampIs
<1>2. SplitRamp(0) = JOIN_T * 0 /\ SplitRamp(SPLIT_T) = JOIN_T * SPLIT_T
      /\ SplitRamp(SPLIT_T + 1) = JOIN_T * SPLIT_T
  BY <1>1, DistType
<1>3. DIST = JOIN_T * SPLIT_T
  BY DistType DEF DIST
<1>4. ASSUME NEW i \in 0 .. SPLIT_T + 1 PROVE SplitRamp(i) \in 0 .. DIST
  <2>1. i \in Nat
    BY DistType
  <2>. QED BY <2>1, DistType, RampType DEF SplitRamp
<1>5. ASSUME NEW i \in 0 .. SPLIT_T - 1 PROVE SplitRamp(i + 1) = SplitRamp(i) + JOIN_T
  <2>1. SplitRamp(i) = JOIN_T * i /\ SplitRamp(i + 1) = JOIN_T * (i + 1)
    BY <1>1, DistType
  <2>. QED BY <2>1, DistType
<1>. QED BY <1>2, <1>3, <1>4, <1>5, DistType

LEMMA JoinRampSteps ==
  /\ JoinRamp(0) = 0 /\ JoinRamp(JOIN_T) = DIST /\ JoinRamp(JOIN_T + 1) = DIST
  /\ \A i \in 0 .. JOIN_T + 1 : JoinRamp(i) \in 0 .. DIST
  /\ \A i \in 0 .. JOIN_T - 1 : JoinRamp(i + 1) = JoinRamp(i) + SPLIT_T
<1>1. \A i \in 0 .. JOIN_T + 1 : JoinRamp(i) = SPLIT_T * (IF i < JOIN_T THEN i ELSE JOIN_T)
  BY JoinRampIs
<1>2. JoinRamp(0) = SPLIT_T * 0 /\ JoinRamp(JOIN_T) = SPLIT_T * JOIN_T
      /\ JoinRamp(JOIN_T + 1) = SPLIT_T * JOIN_T
  BY <1>1, DistType
<1>3. DIST = SPLIT_T * JOIN_T
  BY DistType DEF DIST
<1>4. ASSUME NEW i \in 0 .. JOIN_T + 1 PROVE JoinRamp(i) \in 0 .. DIST
  <2>1. i \in Nat
    BY DistType
  <2>. QED BY <2>1, DistType, RampType DEF JoinRamp
<1>5. ASSUME NEW i \in 0 .. JOIN_T - 1 PROVE JoinRamp(i + 1) = JoinRamp(i) + SPLIT_T
  <2>1. JoinRamp(i) = SPLIT_T * i /\ JoinRamp(i + 1) = SPLIT_T * (i + 1)
    BY <1>1, DistType
  <2>. QED BY <2>1, DistType
<1>. QED BY <1>2, <1>3, <1>4, <1>5, DistType

\* A change that DistanceIsSmooth allows.
Small(d, e) == d - e <= MaxStep /\ e - d <= MaxStep

LEMMA StepType == MaxStep \in Nat /\ 2 * SPLIT_T <= MaxStep /\ 2 * JOIN_T <= MaxStep
BY DistType DEF MaxStep
-----------------------------------------------------------------------------
\* One turn of maneuver without a refusal, by what it finds.
Keeps(w, z) ==
  /\ w.used = z.used /\ w.des_f_dist = z.des_f_dist
  /\ w.man_t = z.man_t /\ w.cruise_t = z.cruise_t /\ w.man_on = z.man_on
  /\ w.split_d = z.split_d /\ w.join_d = z.join_d

Alike(w, z) ==
  /\ w.man_des = z.man_des /\ w.man_id1 = z.man_id1 /\ w.man_id2 = z.man_id2
  /\ w.sampled = z.sampled /\ w.split_t = z.split_t /\ w.join_t = z.join_t
  /\ w.loc_split_dist = z.loc_split_dist

LEMMA ApartIs ==
  ASSUME NEW x \in Truck, veh_id # 1, NEW d \in Int
  PROVE  /\ Apart(x, d) \in Truck /\ Keeps(Apart(x, d), x)
         /\ Apart(x, d).man_dist_var2 = d /\ Apart(x, d).man_dist_var3 = 2 * d
         /\ Alike(Apart(x, d), x)
<1>1. 2 * d \in Int
  OBVIOUS
<1> DEFINE y == [x EXCEPT !.man_dist_var2 = d, !.man_dist_var3 = 2 * d]
<1>2. Apart(x, d) = y
  BY DEF Apart
<1>3. y \in Truck /\ Keeps(y, x) /\ y.man_dist_var2 = d /\ y.man_dist_var3 = 2 * d
  BY <1>1 DEF Truck, Keeps
<1>4. Alike(y, x)
  BY DEF Truck, Alike
<1>. QED BY <1>2, <1>3, <1>4

LEMMA ApartAtZero ==
  ASSUME NEW x \in Truck, veh_id # 1
  PROVE  /\ Apart(x, 0) \in Truck /\ Keeps(Apart(x, 0), x) /\ Alike(Apart(x, 0), x)
         /\ Apart(x, 0).man_dist_var2 = 0 /\ Apart(x, 0).man_dist_var3 = 0
<1>1. ASSUME NEW d \in Int, d = 0
      PROVE  /\ Apart(x, d) \in Truck /\ Keeps(Apart(x, d), x) /\ Alike(Apart(x, d), x)
             /\ Apart(x, d).man_dist_var2 = 0 /\ Apart(x, d).man_dist_var3 = 0
  <2>1. 2 * d = 0
    BY <1>1
  <2>. QED BY <1>1, <2>1, ApartIs
<1>. QED BY <1>1

\* The maneuver is in man_id1 before it is carried out.
LEMMA Noted ==
  ASSUME NEW z \in Truck
  PROVE  LET y == [z EXCEPT !.man_id1 = z.man_des]
         IN  /\ y \in Truck /\ Keeps(y, z) /\ y.man_des = z.man_des /\ y.man_id1 = z.man_des
             /\ y.man_id2 = z.man_id2
             /\ y.sampled = z.sampled /\ y.split_t = z.split_t /\ y.join_t = z.join_t
             /\ y.loc_split_dist = z.loc_split_dist
             /\ y.man_dist_var2 = z.man_dist_var2 /\ y.man_dist_var3 = z.man_dist_var3
<1>1. z.man_des \in Maneuver
  BY DEF Truck
<1>. QED BY <1>1 DEF Truck, Keeps

LEMMA Turn ==
  ASSUME NEW z, NEW y, NEW refused \in BOOLEAN, y = [z EXCEPT !.man_id1 = z.man_des]
  PROVE  /\ y.man_des \in {0, 1, 3, 27} => maneuver(z, refused) \in {y, Apart(y, 0)}
         /\ y.man_des = 7 => maneuver(z, refused) = CruiseOn(Apart(y, 0))
         /\ y.man_des = 8 /\ veh_id # 1 => maneuver(z, refused) = Splitting(y, refused)
         /\ y.man_des = 6 /\ veh_id # 1 => maneuver(z, refused) = Joining(y, refused)
<1>1. maneuver(z, refused) =
        CASE y.man_des \in {0, 1} -> Resting(y)
          [] y.man_des \in {27, 29} -> Decelerating(y)
          [] y.man_des = 3 -> Accelerating(y)
          [] y.man_des = 6 -> IF veh_id = 1 THEN y ELSE Joining(y, refused)
          [] y.man_des = 7 -> CruiseOn(Apart(y, 0))
          [] y.man_des = 8 -> IF veh_id = 1 THEN y ELSE Splitting(y, refused)
          [] y.man_des = 13 -> EmergencySplitting(y)
  BY DEF maneuver
<1>2. Resting(y) \in {y, Apart(y, 0)} /\ Accelerating(y) \in {y, Apart(y, 0)}
      /\ Decelerating(y) = Apart(y, 0)
  BY DEF Resting, Accelerating, Decelerating
<1>3. y.man_des \in {0, 1} => maneuver(z, refused) = Resting(y)
  BY <1>1
<1>4. y.man_des = 3 => maneuver(z, refused) = Accelerating(y)
  BY <1>1
<1>5. y.man_des = 27 => maneuver(z, refused) = Decelerating(y)
  BY <1>1
<1>6. y.man_des = 7 => maneuver(z, refused) = CruiseOn(Apart(y, 0))
  BY <1>1
<1>7. y.man_des = 8 /\ veh_id # 1 => maneuver(z, refused) = Splitting(y, refused)
  BY <1>1
<1>8. y.man_des = 6 /\ veh_id # 1 => maneuver(z, refused) = Joining(y, refused)
  BY <1>1
<1>. QED BY <1>2, <1>3, <1>4, <1>5, <1>6, <1>7, <1>8

LEMMA CruiseTurn ==
  ASSUME NEW z \in Truck, veh_id # 1, z.man_des = 7
  PROVE  LET w == maneuver(z, FALSE)
         IN  Cruising(w, z.des_f_dist) /\ Keeps(w, z)
<1> DEFINE y == [z EXCEPT !.man_id1 = z.man_des]
           a == Apart(y, 0)
           w == CruiseOn(a)
<1>1. y \in Truck /\ Keeps(y, z) /\ y.man_des = 7 /\ y.man_id1 = 7
  BY Noted
<1>2. maneuver(z, FALSE) = w
  BY <1>1, Turn
<1> HIDE DEF y
<1>3. a \in Truck /\ Keeps(a, y) /\ Alike(a, y) /\ a.man_dist_var2 = 0 /\ a.man_dist_var3 = 0
  BY <1>1, ApartAtZero
<1> HIDE DEF a
<1>4. /\ Keeps(w, a) /\ w.man_des = a.man_des /\ w.man_id1 = a.man_id1
      /\ w.sampled = {} /\ w.split_t = 0 /\ w.join_t = 0 /\ w.man_id2 = 0
      /\ w.man_dist_var2 = a.man_dist_var2 /\ w.man_dist_var3 = a.man_dist_var3
  BY <1>3 DEF CruiseOn, Truck, Keeps
<1> HIDE DEF w
<1>. QED BY <1>1, <1>2, <1>3, <1>4 DEF Cruising, Fresh, Keeps, Alike

\* Resting, accelerating and decelerating.
LEMMA IdleTurn ==
  ASSUME NEW z \in Truck, veh_id # 1, z.man_des \in {0, 1, 3, 27}, Fresh(z)
  PROVE  LET w == maneuver(z, FALSE)
         IN  /\ Fresh(w) /\ Keeps(w, z)
             /\ w.man_des = z.man_des /\ w.man_id1 = z.man_des
<1> DEFINE y == [z EXCEPT !.man_id1 = z.man_des]
           a == Apart(y, 0)
           w == maneuver(z, FALSE)
<1>1. y \in Truck /\ Keeps(y, z) /\ y.man_des = z.man_des /\ y.man_id1 = z.man_des /\ Fresh(y)
  BY Noted DEF Fresh
<1>2. w \in {y, a}
  BY <1>1, Turn
<1> HIDE DEF y, w
<1>3. a \in Truck /\ Keeps(a, y) /\ Alike(a, y) /\ a.man_dist_var2 = 0 /\ a.man_dist_var3 = 0
  BY <1>1, ApartAtZero
<1> HIDE DEF a
<1>4. Fresh(a) /\ a.man_des = z.man_des /\ a.man_id1 = z.man_des /\ Keeps(a, z)
  BY <1>1, <1>3 DEF Fresh, Alike, Keeps
<1>5. Fresh(w) /\ Keeps(w, z) /\ w.man_des = z.man_des /\ w.man_id1 = z.man_des
  BY <1>1, <1>2, <1>4
<1>. QED BY <1>5 DEF w

\* The first turn of a split, the next ones, and those after its end.
LEMMA SplitTurnFirst ==
  ASSUME NEW z \in Truck, veh_id # 1, z.man_des = 8, Fresh(z)
  PROVE  LET w == maneuver(z, FALSE)
         IN  SplitAt(w, 1) /\ Keeps(w, z)
<1> DEFINE y == [z EXCEPT !.man_id1 = z.man_des]
           s == Sampled(y, "split")
           u == [s EXCEPT !.loc_split_dist = DIST]
           t == [u EXCEPT !.split_t = @ + 1]
           r == Ramp(u.split_t + 1, SPLIT_T, u.loc_split_dist)
           w == Apart(t, r)
<1>1. y \in Truck /\ Keeps(y, z) /\ y.man_des = 8 /\ y.man_id1 = 8 /\ Fresh(y)
  BY Noted DEF Fresh
<1>2. maneuver(z, FALSE) = Splitting(y, FALSE)
  BY <1>1, Turn
<1> HIDE DEF y
<1>3. /\ s \in Truck /\ Keeps(s, y) /\ s.man_des = 8 /\ s.man_id1 = 8
      /\ s.man_id2 = 0 /\ s.sampled = {"split"} /\ s.split_t = 0
  BY <1>1 DEF Sampled, Truck, Keeps, Fresh
<1>4. "split" \notin y.sampled
  BY <1>1 DEF Fresh
<1> HIDE DEF s
<1>5. /\ u \in Truck /\ Keeps(u, s) /\ u.man_des = 8 /\ u.man_id1 = 8 /\ u.man_id2 = 0
      /\ u.sampled = {"split"} /\ u.split_t = 0 /\ u.loc_split_dist = DIST
  BY <1>3 DEF Truck, Keeps
<1>6. Splitting(y, FALSE) =
        IF u.split_t <= SPLIT_T
        THEN Apart([u EXCEPT !.split_t = @ + 1], Ramp(u.split_t + 1, SPLIT_T, u.loc_split_dist))
        ELSE [u EXCEPT !.man_id2 = 1]
  BY <1>4 DEF Splitting, s
<1> HIDE DEF u
<1>7. Splitting(y, FALSE) = w
  <2>1. u.split_t <= SPLIT_T
    BY <1>5, DistType
  <2>. QED BY <1>6, <2>1
<1>8. 1 \in 0 .. SPLIT_T + 1 /\ r = SplitRamp(1) /\ r \in Int
  <2>1. 1 \in 0 .. SPLIT_T + 1 /\ u.split_t + 1 = 1
    BY <1>5, DistType
  <2>2. r = SplitRamp(1)
    BY <1>5, <2>1 DEF SplitRamp
  <2>3. SplitRamp(1) \in Int
    BY <2>1, SplitRampSteps, DistType
  <2>. QED BY <2>1, <2>2, <2>3
<1> HIDE DEF r
<1>9. /\ t \in Truck /\ Keeps(t, u) /\ t.man_des = 8 /\ t.man_id1 = 8 /\ t.man_id2 = 0
      /\ t.sampled = {"split"} /\ t.split_t = 1 /\ t.loc_split_dist = DIST
  BY <1>5, <1>8 DEF Truck, Keeps
<1> HIDE DEF t
<1>10. /\ Keeps(w, t) /\ Alike(w, t)
       /\ w.man_dist_var2 = SplitRamp(1) /\ w.man_dist_var3 = 2 * SplitRamp(1)
  BY <1>8, <1>9, ApartIs
<1> HIDE DEF w
<1>11. Keeps(w, z)
  BY <1>1, <1>3, <1>5, <1>9, <1>10 DEF Keeps
<1>. QED BY <1>2, <1>7, <1>9, <1>10, <1>11 DEF SplitAt, Alike

LEMMA SplitTurnNext ==
  ASSUME NEW z \in Truck, veh_id # 1, NEW i \in 1 .. SPLIT_T, z.man_des = 8, z.man_id2 = 0,
         z.sampled = {"split"}, z.split_t = i, z.loc_split_dist = DIST
  PROVE  LET w == maneuver(z, FALSE)
         IN  SplitAt(w, i + 1) /\ Keeps(w, z)
<1> DEFINE u == [z EXCEPT !.man_id1 = z.man_des]
           t == [u EXCEPT !.split_t = @ + 1]
           r == Ramp(u.split_t + 1, SPLIT_T, u.loc_split_dist)
           w == Apart(t, r)
<1>1. /\ u \in Truck /\ Keeps(u, z) /\ u.man_des = 8 /\ u.man_id1 = 8 /\ u.man_id2 = 0
      /\ u.sampled = {"split"} /\ u.split_t = i /\ u.loc_split_dist = DIST
  BY Noted
<1>2. maneuver(z, FALSE) = Splitting(u, FALSE)
  BY <1>1, Turn
<1> HIDE DEF u
<1>3. "split" \in u.sampled
  BY <1>1
<1>4. Splitting(u, FALSE) =
        IF u.split_t <= SPLIT_T
        THEN Apart([u EXCEPT !.split_t = @ + 1], Ramp(u.split_t + 1, SPLIT_T, u.loc_split_dist))
        ELSE [u EXCEPT !.man_id2 = 1]
  BY <1>3 DEF Splitting
<1>5. Splitting(u, FALSE) = w
  <2>1. u.split_t <= SPLIT_T
    BY <1>1, DistType
  <2>. QED BY <1>4, <2>1
<1>6. i + 1 \in 0 .. SPLIT_T + 1 /\ r = SplitRamp(i + 1) /\ r \in Int
  <2>1. i + 1 \in 0 .. SPLIT_T + 1 /\ u.split_t + 1 = i + 1
    BY <1>1, DistType
  <2>2. r = SplitRamp(i + 1)
    BY <1>1, <2>1 DEF SplitRamp
  <2>3. SplitRamp(i + 1) \in Int
    BY <2>1, SplitRampSteps, DistType
  <2>. QED BY <2>1, <2>2, <2>3
<1> HIDE DEF r
<1>7. /\ t \in Truck /\ Keeps(t, u) /\ t.man_des = 8 /\ t.man_id1 = 8 /\ t.man_id2 = 0
      /\ t.sampled = {"split"} /\ t.split_t = i + 1 /\ t.loc_split_dist = DIST
  BY <1>1, <1>6 DEF Truck, Keeps
<1> HIDE DEF t
<1>8. /\ Keeps(w, t) /\ Alike(w, t)
      /\ w.man_dist_var2 = SplitRamp(i + 1) /\ w.man_dist_var3 = 2 * SplitRamp(i + 1)
  BY <1>6, <1>7, ApartIs
<1> HIDE DEF w
<1>9. Keeps(w, z)
  BY <1>1, <1>7, <1>8 DEF Keeps
<1>10. SplitAt(w, i + 1)
  BY <1>7, <1>8 DEF SplitAt, Alike
<1>. QED BY <1>2, <1>5, <1>9, <1>10

LEMMA SplitTurnLast ==
  ASSUME NEW z \in Truck, veh_id # 1, z.man_des = 8, z.sampled = {"split"},
         z.split_t = SPLIT_T + 1, z.man_dist_var2 = DIST, z.man_dist_var3 = 2 * DIST
  PROVE  LET w == maneuver(z, FALSE)
         IN  SplitDone(w) /\ Keeps(w, z)
<1> DEFINE u == [z EXCEPT !.man_id1 = z.man_des]
           w == [u EXCEPT !.man_id2 = 1]
<1>1. /\ u \in Truck /\ Keeps(u, z) /\ u.man_des = 8 /\ u.man_id1 = 8
      /\ u.sampled = {"split"} /\ u.split_t = SPLIT_T + 1
      /\ u.man_dist_var2 = DIST /\ u.man_dist_var3 = 2 * DIST
  BY Noted
<1>2. maneuver(z, FALSE) = Splitting(u, FALSE)
  BY <1>1, Turn
<1> HIDE DEF u
<1>3. "split" \in u.sampled /\ ~(u.split_t <= SPLIT_T)
  BY <1>1, DistType
<1>4. Splitting(u, FALSE) = w
  BY <1>3 DEF Splitting
<1>5. /\ Keeps(w, u) /\ w.man_des = 8 /\ w.man_id1 = 8 /\ w.man_id2 = 1
      /\ w.sampled = {"split"} /\ w.split_t = SPLIT_T + 1
      /\ w.man_dist_var2 = DIST /\ w.man_dist_var3 = 2 * DIST
  BY <1>1 DEF Truck, Keeps
<1> HIDE DEF w
<1>. QED BY <1>1, <1>2, <1>4, <1>5 DEF SplitDone, Keeps

\* The same for a join.
LEMMA JoinTurnFirst ==
  ASSUME NEW z \in Truck, veh_id # 1, z.man_des = 6, Fresh(z)
  PROVE  LET w == maneuver(z, FALSE)
         IN  JoinAt(w, 1) /\ Keeps(w, z)
<1> DEFINE y == [z EXCEPT !.man_id1 = z.man_des]
           u == Sampled(y, "join")
           t == [u EXCEPT !.join_t = @ + 1]
           r == - Ramp(u.join_t + 1, JOIN_T, DIST)
           w == Apart(t, r)
<1>1. y \in Truck /\ Keeps(y, z) /\ y.man_des = 6 /\ y.man_id1 = 6 /\ Fresh(y)
  BY Noted DEF Fresh
<1>2. maneuver(z, FALSE) = Joining(y, FALSE)
  BY <1>1, Turn
<1> HIDE DEF y
<1>3. /\ u \in Truck /\ Keeps(u, y) /\ u.man_des = 6 /\ u.man_id1 = 6
      /\ u.man_id2 = 0 /\ u.sampled = {"join"} /\ u.join_t = 0
  BY <1>1 DEF Sampled, Truck, Keeps, Fresh
<1>4. "join" \notin y.sampled
  BY <1>1 DEF Fresh
<1>5. Joining(y, FALSE) =
        IF u.join_t < JOIN_T
        THEN Apart([u EXCEPT !.join_t = @ + 1], - Ramp(u.join_t + 1, JOIN_T, DIST))
        ELSE [u EXCEPT !.man_id2 = 1]
  BY <1>4 DEF Joining
<1> HIDE DEF u
<1>6. Joining(y, FALSE) = w
  <2>1. u.join_t < JOIN_T
    BY <1>3, DistType
  <2>. QED BY <1>5, <2>1
<1>7. 1 \in 0 .. JOIN_T /\ r = - JoinRamp(1) /\ r \in Int /\ 2 * r = - 2 * JoinRamp(1)
  <2>1. 1 \in 0 .. JOIN_T + 1 /\ 1 \in 0 .. JOIN_T /\ u.join_t + 1 = 1
    BY <1>3, DistType
  <2>2. r = - JoinRamp(1)
    BY <2>1 DEF JoinRamp
  <2>3. JoinRamp(1) \in Int
    BY <2>1, JoinRampSteps, DistType
  <2> HIDE DEF r
  <2>. QED BY <2>1, <2>2, <2>3
<1> HIDE DEF r
<1>8. /\ t \in Truck /\ Keeps(t, u) /\ t.man_des = 6 /\ t.man_id1 = 6 /\ t.man_id2 = 0
      /\ t.sampled = {"join"} /\ t.join_t = 1
  BY <1>3, <1>7 DEF Truck, Keeps
<1> HIDE DEF t
<1>9. /\ Keeps(w, t) /\ Alike(w, t)
      /\ w.man_dist_var2 = - JoinRamp(1) /\ w.man_dist_var3 = - 2 * JoinRamp(1)
  BY <1>7, <1>8, ApartIs
<1> HIDE DEF w
<1>10. Keeps(w, z)
  BY <1>1, <1>3, <1>8, <1>9 DEF Keeps
<1>11. JoinAt(w, 1)
  BY <1>8, <1>9 DEF JoinAt, Alike
<1>. QED BY <1>2, <1>6, <1>10, <1>11

LEMMA JoinTurnNext ==
  ASSUME NEW z \in Truck, veh_id # 1, NEW i \in 1 .. JOIN_T - 1, z.man_des = 6, z.man_id2 = 0,
         z.sampled = {"join"}, z.join_t = i
  PROVE  LET w == maneuver(z, FALSE)
         IN  JoinAt(w, i + 1) /\ Keeps(w, z)
<1> DEFINE u == [z EXCEPT !.man_id1 = z.man_des]
           t == [u EXCEPT !.join_t = @ + 1]
           r == - Ramp(u.join_t + 1, JOIN_T, DIST)
           w == Apart(t, r)
<1>1. /\ u \in Truck /\ Keeps(u, z) /\ u.man_des = 6 /\ u.man_id1 = 6 /\ u.man_id2 = 0
      /\ u.sampled = {"join"} /\ u.join_t = i
  BY Noted
<1>2. maneuver(z, FALSE) = Joining(u, FALSE)
  BY <1>1, Turn
<1> HIDE DEF u
<1>3. "join" \in u.sampled
  BY <1>1
<1>4. Joining(u, FALSE) =
        IF u.join_t < JOIN_T
        THEN Apart([u EXCEPT !.join_t = @ + 1], - Ramp(u.join_t + 1, JOIN_T, DIST))
        ELSE [u EXCEPT !.man_id2 = 1]
  BY <1>3 DEF Joining
<1>5. Joining(u, FALSE) = w
  <2>1. u.join_t < JOIN_T
    BY <1>1, DistType
  <2>. QED BY <1>4, <2>1
<1>6. /\ i + 1 \in 0 .. JOIN_T /\ r = - JoinRamp(i + 1) /\ r \in Int
      /\ 2 * r = - 2 * JoinRamp(i + 1)
  <2>1. i + 1 \in 0 .. JOIN_T + 1 /\ i + 1 \in 0 .. JOIN_T /\ u.join_t + 1 = i + 1
    BY <1>1, DistType
  <2>2. r = - JoinRamp(i + 1)
    BY <2>1 DEF JoinRamp
  <2>3. JoinRamp(i + 1) \in Int
    BY <2>1, JoinRampSteps, DistType
  <2> HIDE DEF r
  <2>. QED BY <2>1, <2>2, <2>3
<1> HIDE DEF r
<1>7. /\ t \in Truck /\ Keeps(t, u) /\ t.man_des = 6 /\ t.man_id1 = 6 /\ t.man_id2 = 0
      /\ t.sampled = {"join"} /\ t.join_t = i + 1
  BY <1>1, <1>6 DEF Truck, Keeps
<1> HIDE DEF t
<1>8. /\ Keeps(w, t) /\ Alike(w, t)
      /\ w.man_dist_var2 = - JoinRamp(i + 1) /\ w.man_dist_var3 = - 2 * JoinRamp(i + 1)
  BY <1>6, <1>7, ApartIs
<1> HIDE DEF w
<1>9. Keeps(w, z)
  BY <1>1, <1>7, <1>8 DEF Keeps
<1>10. JoinAt(w, i + 1)
  BY <1>7, <1>8 DEF JoinAt, Alike
<1>. QED BY <1>2, <1>5, <1>9, <1>10

LEMMA JoinTurnLast ==
  ASSUME NEW z \in Truck, veh_id # 1, z.man_des = 6, z.sampled = {"join"},
         z.join_t = JOIN_T, z.man_dist_var2 = - DIST, z.man_dist_var3 = - 2 * DIST
  PROVE  LET w == maneuver(z, FALSE)
         IN  JoinDone(w) /\ Keeps(w, z)
<1> DEFINE u == [z EXCEPT !.man_id1 = z.man_des]
           w == [u EXCEPT !.man_id2 = 1]
<1>1. /\ u \in Truck /\ Keeps(u, z) /\ u.man_des = 6 /\ u.man_id1 = 6
      /\ u.sampled = {"join"} /\ u.join_t = JOIN_T
      /\ u.man_dist_var2 = - DIST /\ u.man_dist_var3 = - 2 * DIST
  BY Noted
<1>2. maneuver(z, FALSE) = Joining(u, FALSE)
  BY <1>1, Turn
<1> HIDE DEF u
<1>3. "join" \in u.sampled /\ ~(u.join_t < JOIN_T)
  BY <1>1, DistType
<1>4. Joining(u, FALSE) = w
  BY <1>3 DEF Joining
<1>5. /\ Keeps(w, u) /\ w.man_des = 6 /\ w.man_id1 = 6 /\ w.man_id2 = 1
      /\ w.sampled = {"join"} /\ w.join_t = JOIN_T
      /\ w.man_dist_var2 = - DIST /\ w.man_dist_var3 = - 2 * DIST
  BY <1>1 DEF Truck, Keeps
<1> HIDE DEF w
<1>. QED BY <1>1, <1>2, <1>4, <1>5 DEF JoinDone, Keeps
-----------------------------------------------------------------------------
\* One turn of coording for a follower that keeps its speed, by what it finds.
Advance(x) == Cruised(ForSpeed(x, "at"))

SameState(z, y) ==
  /\ z.man_id1 = y.man_id1 /\ z.man_id2 = y.man_id2
  /\ z.sampled = y.sampled /\ z.split_t = y.split_t /\ z.join_t = y.join_t
  /\ z.loc_split_dist = y.loc_split_dist
  /\ z.man_dist_var2 = y.man_dist_var2 /\ z.man_dist_var3 = y.man_dist_var3

SameTime(z, y) ==
  z.man_t = y.man_t /\ z.man_on = y.man_on /\ z.split_d = y.split_d /\ z.join_d = y.join_d

\* What a task reads of the time.
LEMMA CruisedIs ==
  ASSUME NEW x \in Truck
  PROVE  LET y == Cruised(x)
         IN  /\ y \in Truck /\ SameState(y, x)
             /\ y.man_on = (x.man_on \/ x.man_id1 = 7)
             /\ y.man_t = IF x.man_on \/ x.man_id1 = 7 THEN Tick(x.man_t, End) ELSE x.man_t
             /\ y.cruise_t =
                  IF x.man_id1 = 7 THEN Tick(x.cruise_t, 3 * CRUISE_T + 1) ELSE x.cruise_t
             /\ y.man_des = x.man_des /\ y.used = x.used /\ y.des_f_dist = x.des_f_dist
             /\ y.split_d = x.split_d /\ y.join_d = x.join_d
<1> DEFINE on == x.man_on \/ x.man_id1 = 7
           c == IF x.man_id1 = 7 THEN Tick(x.cruise_t, 3 * CRUISE_T + 1) ELSE x.cruise_t
           t == IF on THEN Tick(x.man_t, End) ELSE x.man_t
           y == [x EXCEPT !.cruise_t = c, !.man_on = on, !.man_t = t]
<1>2. x.cruise_t \in 0 .. 3 * CRUISE_T + 1 /\ x.man_t \in 0 .. End /\ x.man_on \in BOOLEAN
  BY DEF Truck
<1>3. c \in 0 .. 3 * CRUISE_T + 1
  BY <1>2, TickType, DistType
<1>4. t \in 0 .. End
  BY <1>2, TickType, EndType
<1>5. on \in BOOLEAN
  BY <1>2
<1>6. Cruised(x) = y
  BY DEF Cruised
<1> HIDE DEF on, c, t
<1>7. y \in Truck /\ SameState(y, x) /\ y.man_on = on /\ y.man_t = t /\ y.cruise_t = c
      /\ y.man_des = x.man_des /\ y.used = x.used /\ y.des_f_dist = x.des_f_dist
      /\ y.split_d = x.split_d /\ y.join_d = x.join_d
  BY <1>3, <1>4, <1>5 DEF Truck, SameState
<1>. QED BY <1>6, <1>7 DEF on, c, t

LEMMA AdvanceIs ==
  ASSUME NEW x \in Truck, x.man_on
  PROVE  LET y == Advance(x)
         IN  /\ y \in Truck /\ SameState(y, x) /\ y.man_on
             /\ y.man_t = Tick(x.man_t, End)
             /\ y.cruise_t =
                  IF x.man_id1 = 7 THEN Tick(x.cruise_t, 3 * CRUISE_T + 1) ELSE x.cruise_t
             /\ y.man_des = IF x.man_id1 \in {3, 27} THEN 7 ELSE x.man_des
             /\ y.used = x.used /\ y.des_f_dist = x.des_f_dist
             /\ y.split_d = x.split_d /\ y.join_d = x.join_d
<1> DEFINE m == IF x.man_id1 \in {3, 27} THEN 7 ELSE x.man_des
           s == [x EXCEPT !.man_des = m]
<1>1. ForSpeed(x, "at") = s
  BY DEF ForSpeed
<1>2. m \in Maneuver
  BY DEF Truck, Maneuver
<1> HIDE DEF m
<1>3. /\ s \in Truck /\ SameState(s, x) /\ s.man_on = x.man_on /\ s.man_t = x.man_t
      /\ s.cruise_t = x.cruise_t /\ s.man_des = m /\ s.used = x.used
      /\ s.des_f_dist = x.des_f_dist /\ s.split_d = x.split_d /\ s.join_d = x.join_d
  BY <1>2 DEF Truck, SameState
<1> HIDE DEF s
<1> DEFINE y == Cruised(s)
<1>4. /\ y \in Truck /\ SameState(y, s)
      /\ y.man_on = (s.man_on \/ s.man_id1 = 7)
      /\ y.man_t = IF s.man_on \/ s.man_id1 = 7 THEN Tick(s.man_t, End) ELSE s.man_t
      /\ y.cruise_t = IF s.man_id1 = 7 THEN Tick(s.cruise_t, 3 * CRUISE_T + 1) ELSE s.cruise_t
      /\ y.man_des = s.man_des /\ y.used = s.used /\ y.des_f_dist = s.des_f_dist
      /\ y.split_d = s.split_d /\ y.join_d = s.join_d
  BY <1>3, CruisedIs
<1>5. Advance(x) = y
  BY <1>1 DEF Advance
<1> HIDE DEF y
<1>. QED BY <1>3, <1>4, <1>5 DEF SameState, m

LEMMA BeginIs ==
  ASSUME NEW x \in Truck, NEW s \in Switches, NEW m \in {6, 8}, s \notin x.used
  PROVE  LET z == Begin(x, s, m)
         IN  /\ z \in Truck /\ SameState(z, x) /\ SameTime(z, x)
             /\ z.man_des = m /\ z.used = x.used \cup {s}
             /\ z.des_f_dist = x.des_f_dist /\ z.cruise_t = x.cruise_t
<1> DEFINE z == [x EXCEPT !.man_des = m, !.used = @ \cup {s}]
<1>1. Begin(x, s, m) = z
  BY DEF Begin
<1>2. /\ z \in Truck /\ SameState(z, x) /\ SameTime(z, x)
      /\ z.man_des = m /\ z.used = x.used \cup {s}
      /\ z.des_f_dist = x.des_f_dist /\ z.cruise_t = x.cruise_t
  BY DEF Truck, Maneuver, Switches, SameState, SameTime
<1> HIDE DEF z
<1>. QED BY <1>1, <1>2

LEMMA FollowIs ==
  ASSUME NEW x \in Truck, NEW m, x.man_des = m, NEW d \in Int
  PROVE  LET z == Follow(x, m, d)
         IN  /\ z \in Truck /\ SameState(z, x) /\ SameTime(z, x)
             /\ z.man_des = m /\ z.used = x.used
             /\ z.des_f_dist = d /\ z.cruise_t = x.cruise_t
<1> DEFINE z == [x EXCEPT !.des_f_dist = d]
<1>1. Follow(x, m, d) = z
  BY DEF Follow
<1>2. /\ z \in Truck /\ SameState(z, x) /\ SameTime(z, x)
      /\ z.man_des = x.man_des /\ z.used = x.used
      /\ z.des_f_dist = d /\ z.cruise_t = x.cruise_t
  BY DEF Truck, SameState, SameTime
<1> HIDE DEF z
<1>. QED BY <1>1, <1>2

LEMMA FinishIs ==
  ASSUME NEW x \in Truck, NEW m, x.man_des = m, x.man_id2 = 1, NEW d \in Int
  PROVE  LET z == Finish(x, m, d)
         IN  /\ z \in Truck /\ SameState(z, x) /\ SameTime(z, x)
             /\ z.man_des = 7 /\ z.used = x.used
             /\ z.des_f_dist = d /\ z.cruise_t = 0
<1> DEFINE z == [x EXCEPT !.man_des = 7, !.des_f_dist = d, !.cruise_t = 0]
<1>1. Finish(x, m, d) = z
  BY DEF Finish
<1>2. 0 \in 0 .. 3 * CRUISE_T + 1 /\ 7 \in Maneuver
  BY DistType DEF Maneuver
<1>3. /\ z \in Truck /\ SameState(z, x) /\ SameTime(z, x)
      /\ z.man_des = 7 /\ z.used = x.used
      /\ z.des_f_dist = d /\ z.cruise_t = 0
  BY <1>2 DEF Truck, SameState, SameTime
<1> HIDE DEF z
<1>. QED BY <1>1, <1>3

LEMMA CruiseIs ==
  ASSUME NEW x \in Truck, NEW d \in Int
  PROVE  LET z == Cruise(x, d)
         IN  /\ z \in Truck /\ SameState(z, x) /\ SameTime(z, x)
             /\ z.man_des = 7 /\ z.used = x.used
             /\ z.des_f_dist = d /\ z.cruise_t = x.cruise_t
<1> DEFINE z == [x EXCEPT !.man_des = 7, !.des_f_dist = d]
<1>1. Cruise(x, d) = z
  BY DEF Cruise
<1>2. /\ z \in Truck /\ SameState(z, x) /\ SameTime(z, x)
      /\ z.man_des = 7 /\ z.used = x.used
      /\ z.des_f_dist = d /\ z.cruise_t = x.cruise_t
  BY DEF Truck, Maneuver, SameState, SameTime
<1> HIDE DEF z
<1>. QED BY <1>1, <1>2

\* Task 3 in each phase of a split, and task 4 in each of a join.
LEMMA SplitIs ==
  ASSUME NEW y \in Truck
  PROVE  LET z == Split(y)
         IN  /\ y.man_des # 8 /\ (y.cruise_t <= CRUISE_T \/ "split" \in y.used) => z = y
             /\ y.cruise_t > CRUISE_T /\ "split" \notin y.used /\ y.man_id2 = 0 =>
                  /\ z \in Truck /\ SameState(z, y) /\ SameTime(z, y)
                  /\ z.man_des = 8 /\ z.used = y.used \cup {"split"}
                  /\ z.des_f_dist = y.man_dist_var3 - y.man_dist_var2 /\ z.cruise_t = y.cruise_t
             /\ y.man_des = 8 /\ "split" \in y.used /\ y.man_id2 = 0 =>
                  /\ z \in Truck /\ SameState(z, y) /\ SameTime(z, y)
                  /\ z.man_des = 8 /\ z.used = y.used
                  /\ z.des_f_dist = y.man_dist_var3 - y.man_dist_var2 /\ z.cruise_t = y.cruise_t
             /\ y.man_des = 8 /\ "split" \in y.used /\ y.man_id2 = 1 =>
                  /\ z \in Truck /\ SameState(z, y) /\ SameTime(z, y)
                  /\ z.man_des = 7 /\ z.used = y.used
                  /\ z.des_f_dist = DIST /\ z.cruise_t = 0
<1> DEFINE b == IF y.cruise_t > CRUISE_T THEN Begin(y, "split", 8) ELSE y
           d == b.man_dist_var3 - b.man_dist_var2
           f == Follow(b, 8, d)
           z == Split(y)
<1>1. z = Finish(f, 8, DIST)
  BY DEF Split
<1>2. y.cruise_t \in Int
  BY DistType DEF Truck
<1>3. y.cruise_t <= CRUISE_T \/ "split" \in y.used => b = y
  BY <1>2, DistType DEF Begin
<1>4. y.cruise_t > CRUISE_T /\ "split" \notin y.used =>
        /\ b \in Truck /\ SameState(b, y) /\ SameTime(b, y)
        /\ b.man_des = 8 /\ b.used = y.used \cup {"split"}
        /\ b.des_f_dist = y.des_f_dist /\ b.cruise_t = y.cruise_t
  BY BeginIs DEF Switches
<1> HIDE DEF b
<1>5. ASSUME b \in Truck, SameState(b, y), SameTime(b, y), b.man_des = 8, b.cruise_t = y.cruise_t
      PROVE  /\ f \in Truck /\ SameState(f, y) /\ SameTime(f, y) /\ f.man_des = 8
             /\ f.used = b.used /\ f.des_f_dist = y.man_dist_var3 - y.man_dist_var2
             /\ f.cruise_t = y.cruise_t
  <2>1. d \in Int
    BY <1>5 DEF Truck
  <2>2. d = y.man_dist_var3 - y.man_dist_var2
    BY <1>5 DEF SameState
  <2> HIDE DEF d
  <2>3. /\ f \in Truck /\ SameState(f, b) /\ SameTime(f, b) /\ f.man_des = 8
        /\ f.used = b.used /\ f.des_f_dist = d /\ f.cruise_t = b.cruise_t
    BY <1>5, <2>1, FollowIs
  <2> HIDE DEF f
  <2>. QED BY <1>5, <2>2, <2>3 DEF SameState, SameTime
<1>6. b.man_des # 8 => f = b
  BY DEF Follow
<1> HIDE DEF f, d
<1>7. f.man_des # 8 \/ f.man_id2 = 0 => z = f
  BY <1>1 DEF Finish
<1>8. f \in Truck /\ f.man_des = 8 /\ f.man_id2 = 1 =>
        /\ z \in Truck /\ SameState(z, f) /\ SameTime(z, f)
        /\ z.man_des = 7 /\ z.used = f.used
        /\ z.des_f_dist = DIST /\ z.cruise_t = 0
  BY <1>1, DistType, FinishIs
<1> HIDE DEF z
<1>9. y.man_des # 8 /\ (y.cruise_t <= CRUISE_T \/ "split" \in y.used) => z = y
  BY <1>3, <1>6, <1>7
<1>10. SameState(y, y) /\ SameTime(y, y)
  BY DEF SameState, SameTime
<1>11. y.cruise_t > CRUISE_T /\ "split" \notin y.used /\ y.man_id2 = 0 =>
         /\ z \in Truck /\ SameState(z, y) /\ SameTime(z, y)
         /\ z.man_des = 8 /\ z.used = y.used \cup {"split"}
         /\ z.des_f_dist = y.man_dist_var3 - y.man_dist_var2 /\ z.cruise_t = y.cruise_t
  <2> SUFFICES ASSUME y.cruise_t > CRUISE_T, "split" \notin y.used, y.man_id2 = 0
               PROVE  /\ z \in Truck /\ SameState(z, y) /\ SameTime(z, y)
                      /\ z.man_des = 8 /\ z.used = y.used \cup {"split"}
                      /\ z.des_f_dist = y.man_dist_var3 - y.man_dist_var2
                      /\ z.cruise_t = y.cruise_t
    OBVIOUS
  <2>1. f.man_id2 = 0
    BY <1>4, <1>5 DEF SameState
  <2>. QED BY <1>4, <1>5, <1>7, <2>1
<1>12. ASSUME y.man_des = 8, "split" \in y.used
       PROVE  /\ f \in Truck /\ SameState(f, y) /\ SameTime(f, y) /\ f.man_des = 8
              /\ f.used = y.used /\ f.des_f_dist = y.man_dist_var3 - y.man_dist_var2
              /\ f.cruise_t = y.cruise_t /\ f.man_id2 = y.man_id2
  <2>1. b = y
    BY <1>3, <1>12
  <2>. QED BY <1>5, <1>10, <1>12, <2>1 DEF SameState
<1>13. y.man_des = 8 /\ "split" \in y.used /\ y.man_id2 = 0 =>
         /\ z \in Truck /\ SameState(z, y) /\ SameTime(z, y)
         /\ z.man_des = 8 /\ z.used = y.used
         /\ z.des_f_dist = y.man_dist_var3 - y.man_dist_var2 /\ z.cruise_t = y.cruise_t
  BY <1>7, <1>12
<1>14. y.man_des = 8 /\ "split" \in y.used /\ y.man_id2 = 1 =>
         /\ z \in Truck /\ SameState(z, y) /\ SameTime(z, y)
         /\ z.man_des = 7 /\ z.used = y.used
         /\ z.des_f_dist = DIST /\ z.cruise_t = 0
  BY <1>8, <1>12 DEF SameState, SameTime
<1>. QED BY <1>9, <1>11, <1>13, <1>14 DEF z

\* A maneuver that begins or goes on, and the distance that it has come to.
LEMMA BeginFollow ==
  ASSUME NEW y \in Truck, NEW s \in Switches, NEW m \in {6, 8}, NEW d \in Int,
         s \notin y.used \/ y.man_des = m
  PROVE  LET z == Follow(Begin(y, s, m), m, d)
         IN  /\ z \in Truck /\ SameState(z, y) /\ SameTime(z, y)
             /\ z.man_des = m /\ z.used = y.used \cup {s}
             /\ z.des_f_dist = d /\ z.cruise_t = y.cruise_t
<1> DEFINE b == Begin(y, s, m)
           z == Follow(b, m, d)
<1>1. /\ b \in Truck /\ SameState(b, y) /\ SameTime(b, y)
      /\ b.man_des = m /\ b.used = y.used \cup {s} /\ b.cruise_t = y.cruise_t
  <2>1. CASE s \notin y.used
    BY <2>1, BeginIs
  <2>2. CASE s \in y.used
    <3>1. b = y /\ y.man_des = m
      BY <2>2 DEF Begin
    <3>2. y.used = y.used \cup {s}
      BY <2>2
    <3>. QED BY <3>1, <3>2 DEF SameState, SameTime
  <2>. QED BY <2>1, <2>2
<1> HIDE DEF b
<1>2. /\ z \in Truck /\ SameState(z, b) /\ SameTime(z, b)
      /\ z.man_des = m /\ z.used = b.used /\ z.des_f_dist = d /\ z.cruise_t = b.cruise_t
  BY <1>1, FollowIs
<1> HIDE DEF z
<1>3. z = Follow(Begin(y, s, m), m, d)
  BY DEF z, b
<1>4. /\ z \in Truck /\ SameState(z, y) /\ SameTime(z, y)
      /\ z.man_des = m /\ z.used = y.used \cup {s}
      /\ z.des_f_dist = d /\ z.cruise_t = y.cruise_t
  BY <1>1, <1>2 DEF SameState, SameTime
<1>. QED BY <1>3, <1>4

\* The join begins, or goes on.
Joins(y, c) ==
  IF "join" \in y.used THEN y.man_des = 6 ELSE y.cruise_t > c

LEMMA JoinIs ==
  ASSUME NEW y \in Truck, NEW c \in Int, NEW dist \in Int
  PROVE  LET z == Join(y, c, dist)
         IN  /\ y.man_des # 6 /\ (y.cruise_t <= c \/ "join" \in y.used) => z = y
             /\ y.man_id2 = 0 /\ Joins(y, c) =>
                  /\ z \in Truck /\ SameState(z, y) /\ SameTime(z, y)
                  /\ z.man_des = 6 /\ z.used = y.used \cup {"join"}
                  /\ z.des_f_dist = dist + y.man_dist_var3 - y.man_dist_var2
                  /\ z.cruise_t = y.cruise_t
             /\ y.man_des = 6 /\ "join" \in y.used /\ y.man_id2 = 1 =>
                  /\ z \in Truck /\ SameState(z, y) /\ SameTime(z, y)
                  /\ z.man_des = 7 /\ z.used = y.used
                  /\ z.des_f_dist = dist - DIST /\ z.cruise_t = 0
<1> DEFINE b == IF y.cruise_t > c THEN Begin(y, "join", 6) ELSE y
           d == dist + b.man_dist_var3 - b.man_dist_var2
           f == Follow(b, 6, d)
           z == Join(y, c, dist)
<1>1. z = Finish(f, 6, dist - DIST)
  BY DEF Join
<1>2. y.cruise_t \in Int
  BY DistType DEF Truck
<1>3. y.cruise_t <= c \/ "join" \in y.used => b = y
  BY <1>2 DEF Begin
<1>4. y.cruise_t > c /\ "join" \notin y.used =>
        /\ b \in Truck /\ SameState(b, y) /\ SameTime(b, y)
        /\ b.man_des = 6 /\ b.used = y.used \cup {"join"}
        /\ b.cruise_t = y.cruise_t
  BY BeginIs DEF Switches
<1> HIDE DEF b
<1>5. SameState(y, y) /\ SameTime(y, y)
  BY DEF SameState, SameTime
<1>6. Joins(y, c) =>
        /\ b \in Truck /\ SameState(b, y) /\ SameTime(b, y)
        /\ b.man_des = 6 /\ b.used = y.used \cup {"join"}
        /\ b.cruise_t = y.cruise_t
  BY <1>3, <1>4, <1>5 DEF Joins
<1>7. ASSUME b \in Truck, SameState(b, y), SameTime(b, y), b.man_des = 6, b.cruise_t = y.cruise_t
      PROVE  /\ f \in Truck /\ SameState(f, y) /\ SameTime(f, y) /\ f.man_des = 6
             /\ f.used = b.used /\ f.des_f_dist = dist + y.man_dist_var3 - y.man_dist_var2
             /\ f.cruise_t = y.cruise_t /\ f.man_id2 = y.man_id2
  <2>1. d \in Int
    BY <1>7 DEF Truck
  <2>2. d = dist + y.man_dist_var3 - y.man_dist_var2
    BY <1>7 DEF SameState
  <2> HIDE DEF d
  <2>3. /\ f \in Truck /\ SameState(f, b) /\ SameTime(f, b) /\ f.man_des = 6
        /\ f.used = b.used /\ f.des_f_dist = d /\ f.cruise_t = b.cruise_t
    BY <1>7, <2>1, FollowIs
  <2> HIDE DEF f
  <2>. QED BY <1>7, <2>2, <2>3 DEF SameState, SameTime
<1>8. b.man_des # 6 => f = b
  BY DEF Follow
<1> HIDE DEF f, d
<1>9. f.man_des # 6 \/ f.man_id2 = 0 => z = f
  BY <1>1 DEF Finish
<1>10. f \in Truck /\ f.man_des = 6 /\ f.man_id2 = 1 =>
        /\ z \in Truck /\ SameState(z, f) /\ SameTime(z, f)
        /\ z.man_des = 7 /\ z.used = f.used
        /\ z.des_f_dist = dist - DIST /\ z.cruise_t = 0
  <2>1. dist - DIST \in Int
    BY DistType
  <2>. QED BY <1>1, <2>1, FinishIs
<1> HIDE DEF z
<1>11. y.man_des # 6 /\ (y.cruise_t <= c \/ "join" \in y.used) => z = y
  BY <1>3, <1>8, <1>9
<1>12. y.man_id2 = 0 /\ Joins(y, c) =>
         /\ z \in Truck /\ SameState(z, y) /\ SameTime(z, y)
         /\ z.man_des = 6 /\ z.used = y.used \cup {"join"}
         /\ z.des_f_dist = dist + y.man_dist_var3 - y.man_dist_var2
         /\ z.cruise_t = y.cruise_t
  BY <1>6, <1>7, <1>9
<1>13. y.man_des = 6 /\ "join" \in y.used /\ y.man_id2 = 1 =>
         /\ z \in Truck /\ SameState(z, y) /\ SameTime(z, y)
         /\ z.man_des = 7 /\ z.used = y.used
         /\ z.des_f_dist = dist - DIST /\ z.cruise_t = 0
  <2> SUFFICES ASSUME y.man_des = 6, "join" \in y.used, y.man_id2 = 1
               PROVE  /\ z \in Truck /\ SameState(z, y) /\ SameTime(z, y)
                      /\ z.man_des = 7 /\ z.used = y.used
                      /\ z.des_f_dist = dist - DIST /\ z.cruise_t = 0
    OBVIOUS
  <2>1. b.used = y.used
    BY <1>6 DEF Joins
  <2>2. f \in Truck /\ SameState(f, y) /\ SameTime(f, y) /\ f.man_des = 6
        /\ f.used = y.used /\ f.man_id2 = 1
    BY <1>6, <1>7, <2>1 DEF Joins
  <2>. QED BY <1>10, <2>2 DEF SameState, SameTime
<1>. QED BY <1>11, <1>12, <1>13 DEF z

\* What maneuver, without a refusal, makes of what coording has set.
Turned(z) == maneuver(z, FALSE)

\* A turn of a split, and of a join, by the cycle before.
LEMMA SplitTurnIs ==
  ASSUME NEW z \in Truck, NEW x, SameState(z, x), veh_id # 1, z.man_des = 8
  PROVE  LET w == Turned(z)
         IN  /\ Fresh(x) => SplitAt(w, 1) /\ Keeps(w, z)
             /\ \A i \in 1 .. SPLIT_T : SplitAt(x, i) => SplitAt(w, i + 1) /\ Keeps(w, z)
             /\ SplitAt(x, SPLIT_T + 1) \/ SplitDone(x) => SplitDone(w) /\ Keeps(w, z)
<1>1. Fresh(x) => Fresh(z)
  BY DEF Fresh, SameState
<1>2. ASSUME NEW i \in 1 .. SPLIT_T, SplitAt(x, i)
      PROVE  SplitAt(Turned(z), i + 1) /\ Keeps(Turned(z), z)
  <2>1. z.man_id2 = 0 /\ z.sampled = {"split"} /\ z.split_t = i /\ z.loc_split_dist = DIST
    BY <1>2 DEF SplitAt, SameState
  <2>. QED BY <2>1, SplitTurnNext DEF Turned
<1>3. SplitAt(x, SPLIT_T + 1) \/ SplitDone(x) =>
        /\ z.sampled = {"split"} /\ z.split_t = SPLIT_T + 1
        /\ z.man_dist_var2 = DIST /\ z.man_dist_var3 = 2 * DIST
  BY SplitRampSteps DEF SplitAt, SplitDone, SameState
<1>. QED BY <1>1, <1>2, <1>3, SplitTurnFirst, SplitTurnLast DEF Turned

LEMMA JoinTurnIs ==
  ASSUME NEW z \in Truck, NEW x, SameState(z, x), veh_id # 1, z.man_des = 6
  PROVE  LET w == Turned(z)
         IN  /\ Fresh(x) => JoinAt(w, 1) /\ Keeps(w, z)
             /\ \A i \in 1 .. JOIN_T - 1 : JoinAt(x, i) => JoinAt(w, i + 1) /\ Keeps(w, z)
             /\ JoinAt(x, JOIN_T) \/ JoinDone(x) => JoinDone(w) /\ Keeps(w, z)
<1>1. Fresh(x) => Fresh(z)
  BY DEF Fresh, SameState
<1>2. ASSUME NEW i \in 1 .. JOIN_T - 1, JoinAt(x, i)
      PROVE  JoinAt(Turned(z), i + 1) /\ Keeps(Turned(z), z)
  <2>1. z.man_id2 = 0 /\ z.sampled = {"join"} /\ z.join_t = i
    BY <1>2 DEF JoinAt, SameState
  <2>. QED BY <2>1, JoinTurnNext DEF Turned
<1>3. JoinAt(x, JOIN_T) \/ JoinDone(x) =>
        /\ z.sampled = {"join"} /\ z.join_t = JOIN_T
        /\ z.man_dist_var2 = - DIST /\ z.man_dist_var3 = - 2 * DIST
  BY JoinRampSteps DEF JoinAt, JoinDone, SameState
<1>. QED BY <1>1, <1>2, <1>3, JoinTurnFirst, JoinTurnLast DEF Turned

LEMMA CruiseTurnIs ==
  ASSUME NEW z \in Truck, veh_id # 1, z.man_des = 7
  PROVE  Cruising(Turned(z), z.des_f_dist) /\ Keeps(Turned(z), z)
BY CruiseTurn DEF Turned
-----------------------------------------------------------------------------
\* What the cycle's clocks make of each phase.
LEMMA AdvanceWaiting ==
  ASSUME NEW x \in Truck, x.man_on, Waiting(x), NEW y, y = Advance(x)
  PROVE  /\ y \in Truck /\ y.man_on /\ SameState(y, x) /\ y.man_des = 7 /\ Fresh(y)
         /\ y.used = {} /\ y.des_f_dist = 0 /\ y.split_d = 0 /\ y.join_d = 0
         /\ y.man_t = Tick(x.man_t, End) /\ y.man_t \in Nat \ {0} /\ y.cruise_t \in Nat \ {0}
         /\ y.man_t <= y.cruise_t + 1 \/ y.cruise_t = 3 * CRUISE_T + 1
         /\ y.cruise_t <= x.cruise_t + 1
<1>1. /\ y \in Truck /\ SameState(y, x) /\ y.man_on
      /\ y.man_t = Tick(x.man_t, End)
      /\ y.cruise_t = IF x.man_id1 = 7 THEN Tick(x.cruise_t, 3 * CRUISE_T + 1) ELSE x.cruise_t
      /\ y.man_des = IF x.man_id1 \in {3, 27} THEN 7 ELSE x.man_des
      /\ y.used = x.used /\ y.des_f_dist = x.des_f_dist
      /\ y.split_d = x.split_d /\ y.join_d = x.join_d
  BY AdvanceIs
<1>2. Fresh(y) /\ y.man_des = 7
  BY <1>1 DEF Waiting, Idle, Fresh, SameState
<1>3. x.man_t \in 0 .. End /\ x.cruise_t \in 0 .. 3 * CRUISE_T + 1
      /\ End \in Nat /\ End > 2 /\ CRUISE_T \in Nat
  BY DistType, EndType DEF Truck, End
<1>4. y.man_t >= 1 /\ y.man_t <= x.man_t + 1 /\ y.man_t \in Nat
  BY <1>1, <1>3 DEF Tick, Waiting
<1>5. CASE x.man_des = 7
  <2>1. y.cruise_t = Tick(x.cruise_t, 3 * CRUISE_T + 1)
    BY <1>1, <1>5 DEF Waiting, Idle
  <2>. QED BY <1>1, <1>2, <1>3, <1>4, <2>1 DEF Tick, Waiting, Idle
<1>6. CASE x.man_des # 7
  <2>1. x.man_t = 1 /\ y.cruise_t = x.cruise_t
    BY <1>1, <1>6 DEF Waiting, Idle
  <2>. QED BY <1>1, <1>2, <1>3, <1>4, <2>1 DEF Waiting, Idle
<1>. QED BY <1>5, <1>6

LEMMA AdvanceCruising ==
  ASSUME NEW x \in Truck, x.man_on, NEW d, Cruising(x, d), NEW y, y = Advance(x)
  PROVE  /\ y \in Truck /\ y.man_on /\ SameState(y, x) /\ y.man_des = 7 /\ Fresh(y)
         /\ y.used = x.used /\ y.des_f_dist = d
         /\ y.split_d = x.split_d /\ y.join_d = x.join_d
         /\ y.man_t = Tick(x.man_t, End)
         /\ y.cruise_t = Tick(x.cruise_t, 3 * CRUISE_T + 1)
<1>1. /\ y \in Truck /\ SameState(y, x) /\ y.man_on
      /\ y.man_t = Tick(x.man_t, End)
      /\ y.cruise_t = IF x.man_id1 = 7 THEN Tick(x.cruise_t, 3 * CRUISE_T + 1) ELSE x.cruise_t
      /\ y.man_des = IF x.man_id1 \in {3, 27} THEN 7 ELSE x.man_des
      /\ y.used = x.used /\ y.des_f_dist = x.des_f_dist
      /\ y.split_d = x.split_d /\ y.join_d = x.join_d
  BY AdvanceIs
<1>. QED BY <1>1 DEF Cruising, Fresh, SameState

LEMMA AdvanceManeuver ==
  ASSUME NEW x \in Truck, x.man_on, NEW m \in {6, 8}, x.man_des = m, x.man_id1 = m,
         NEW y, y = Advance(x)
  PROVE  /\ y \in Truck /\ y.man_on /\ SameState(y, x) /\ y.man_des = m
         /\ y.used = x.used /\ y.des_f_dist = x.des_f_dist
         /\ y.split_d = x.split_d /\ y.join_d = x.join_d
         /\ y.man_t = Tick(x.man_t, End)
         /\ y.cruise_t = x.cruise_t
<1>1. /\ y \in Truck /\ SameState(y, x) /\ y.man_on
      /\ y.man_t = Tick(x.man_t, End)
      /\ y.cruise_t = IF x.man_id1 = 7 THEN Tick(x.cruise_t, 3 * CRUISE_T + 1) ELSE x.cruise_t
      /\ y.man_des = IF x.man_id1 \in {3, 27} THEN 7 ELSE x.man_des
      /\ y.used = x.used /\ y.des_f_dist = x.des_f_dist
      /\ y.split_d = x.split_d /\ y.join_d = x.join_d
  BY AdvanceIs
<1>. QED BY <1>1

LEMMA SameStates ==
  ASSUME NEW x, NEW y, NEW z, SameState(z, y), SameState(y, x)
  PROVE  SameState(z, x)
BY DEF SameState

\* A clock that ticks is one later or at its bound.
LEMMA TickIs ==
  ASSUME NEW x \in Truck
  PROVE  /\ Tick(x.man_t, End) \in x.man_t .. x.man_t + 1
         /\ x.man_t < End => Tick(x.man_t, End) = x.man_t + 1
         /\ x.man_t = End => Tick(x.man_t, End) = End
         /\ x.man_t \in 0 .. End
<1>1. x.man_t \in 0 .. End /\ End \in Nat
  BY EndType DEF Truck
<1>. QED BY <1>1 DEF Tick

LEMMA ClockTypes ==
  ASSUME NEW x \in Truck
  PROVE  /\ x.man_t \in 0 .. End /\ x.cruise_t \in 0 .. 3 * CRUISE_T + 1
         /\ x.man_t \in Int /\ x.cruise_t \in Int
         /\ x.split_d \in 0 .. SPLIT_T + 1 /\ x.join_d \in 0 .. JOIN_T + 1
<1>1. End \in Nat /\ 3 * CRUISE_T + 1 \in Nat
  BY EndType, DistType
<1>. QED BY <1>1 DEF Truck

LEMMA SmallIs ==
  /\ \A d \in Int : Small(d, d)
  /\ \A d \in Int, k \in 0 .. MaxStep : Small(d, d + k) /\ Small(d, d - k)
BY StepType DEF Small

\* A truck that goes on waiting.
LEMMA StillWaiting ==
  ASSUME NEW y \in Truck, veh_id # 1, Fresh(y), y.man_des = 7, y.used = {}, y.des_f_dist = 0,
         y.split_d = 0, y.join_d = 0, y.man_t >= 1, y.cruise_t >= 1, y.man_t <= y.cruise_t + 1,
         NEW w, w = Turned(y)
  PROVE  Waiting(w) /\ Keeps(w, y)
<1>1. Cruising(w, 0) /\ Keeps(w, y)
  BY CruiseTurnIs
<1>. QED BY <1>1 DEF Cruising, Keeps, Waiting, Idle, Fresh
-----------------------------------------------------------------------------
\* A cycle, by the phase it finds the truck in.

\* The truck goes on, without a jump.
Goes(w, x) == w.man_on /\ Small(w.des_f_dist, x.des_f_dist)

\* Task 3 and the first half of task 5.
LEMMA SplitStep ==
  ASSUME NEW x \in Truck, x.man_on, veh_id # 1, SplitCourse(x),
         NEW y, y = Advance(x), NEW z, z = Split(y), NEW w, w = Turned(z)
  PROVE  /\ Goes(w, x)
         /\ z.man_des # 6 /\ z.cruise_t \in 0 .. 3 * CRUISE_T
         /\ \/ SplitCourse(w)
            \/ /\ Cruising(w, DIST) /\ w.used = {"split"}
               /\ w.cruise_t = 0 /\ w.man_t <= CRUISE_T + SPLIT_T + 4
<1>1. CASE Waiting(x) /\ x.cruise_t <= CRUISE_T
  <2>1. /\ y \in Truck /\ y.man_on /\ SameState(y, x) /\ y.man_des = 7 /\ Fresh(y)
        /\ y.used = {} /\ y.des_f_dist = 0 /\ y.split_d = 0 /\ y.join_d = 0
        /\ y.man_t \in Nat \ {0} /\ y.cruise_t \in Nat \ {0}
        /\ y.man_t <= y.cruise_t + 1
        /\ y.cruise_t <= CRUISE_T + 1
    BY <1>1, AdvanceWaiting, ClockTypes, DistType
  <2>2. x.des_f_dist = 0
    BY <1>1 DEF Waiting, Idle
  <2>3. CASE y.cruise_t <= CRUISE_T
    <3>1. z = y
      BY <2>1, <2>3, SplitIs
    <3>2. Waiting(w) /\ Keeps(w, y)
      BY <2>1, <3>1, StillWaiting
    <3>3. SplitCourse(w)
      BY <2>3, <3>2 DEF SplitCourse, Keeps
    <3>4. Goes(w, x)
      BY <2>1, <2>2, <3>2, SmallIs DEF Goes, Keeps
    <3>. QED BY <2>1, <2>3, <3>1, <3>3, <3>4, DistType
  <2>4. CASE y.cruise_t > CRUISE_T
    <3>1. y.cruise_t = CRUISE_T + 1 /\ y.man_t <= CRUISE_T + 2
      BY <2>1, <2>4, DistType
    <3>2. y.man_id2 = 0 /\ y.man_dist_var2 = 0 /\ y.man_dist_var3 = 0
      BY <2>1 DEF Fresh
    <3>3. /\ z \in Truck /\ SameState(z, y) /\ SameTime(z, y)
          /\ z.man_des = 8 /\ z.used = {"split"}
          /\ z.des_f_dist = y.man_dist_var3 - y.man_dist_var2 /\ z.cruise_t = y.cruise_t
      BY <2>1, <2>4, <3>2, SplitIs
    <3>4. SplitAt(w, 1) /\ Keeps(w, z)
      BY <2>1, <3>3, SplitTurnIs
    <3>5. w.des_f_dist = 0 /\ w.man_t <= CRUISE_T + 1 + 1 /\ w.cruise_t = CRUISE_T + 1
          /\ w.used = {"split"} /\ w.man_on
      BY <2>1, <3>1, <3>2, <3>3, <3>4 DEF Keeps, SameTime
    <3>6. 1 \in 1 .. SPLIT_T + 1 /\ SplitRamp(1 - 1) = 0
      BY DistType, SplitRampSteps
    <3>7. SplitCourse(w)
      BY <3>4, <3>5, <3>6 DEF SplitCourse
    <3>. QED BY <2>2, <3>1, <3>3, <3>5, <3>7, SmallIs, DistType DEF Goes
  <2>. QED BY <2>1, <2>3, <2>4, DistType
<1>2. ASSUME x.used = {"split"}, x.cruise_t = CRUISE_T + 1,
             NEW i \in 1 .. SPLIT_T + 1, SplitAt(x, i), x.des_f_dist = SplitRamp(i - 1),
             x.man_t <= CRUISE_T + 1 + i
      PROVE  Goes(w, x) /\ z.man_des # 6 /\ z.cruise_t \in 0 .. 3 * CRUISE_T /\ SplitCourse(w)
  <2>1. /\ y \in Truck /\ y.man_on /\ SameState(y, x) /\ y.man_des = 8
        /\ y.used = {"split"} /\ y.man_t = Tick(x.man_t, End) /\ y.cruise_t = CRUISE_T + 1
    BY <1>2, AdvanceManeuver DEF SplitAt
  <2>2. y.man_id2 = 0 /\ y.man_dist_var2 = SplitRamp(i) /\ y.man_dist_var3 = 2 * SplitRamp(i)
    BY <1>2, <2>1 DEF SplitAt, SameState
  <2>3. SplitRamp(i) \in Int /\ SplitRamp(i - 1) \in Int /\ Small(SplitRamp(i), SplitRamp(i - 1))
    <3>1. i \in 0 .. SPLIT_T + 1 /\ i - 1 \in 0 .. SPLIT_T + 1
      BY DistType
    <3>2. SplitRamp(i) \in Int /\ SplitRamp(i - 1) \in Int
      BY <3>1, SplitRampSteps, DistType
    <3>3. CASE i = SPLIT_T + 1
      BY <3>2, <3>3, SplitRampSteps, SmallIs, DistType
    <3>4. CASE i # SPLIT_T + 1
      <4>1. i - 1 \in 0 .. SPLIT_T - 1 /\ (i - 1) + 1 = i
        BY <3>4, DistType
      <4>2. SplitRamp(i) = SplitRamp(i - 1) + JOIN_T
        BY <4>1, SplitRampSteps
      <4>. QED BY <3>2, <4>2, StepType, DistType DEF Small
    <3>. QED BY <3>2, <3>3, <3>4
  <2>4. /\ z \in Truck /\ SameState(z, y) /\ SameTime(z, y)
        /\ z.man_des = 8 /\ z.used = {"split"}
        /\ z.des_f_dist = y.man_dist_var3 - y.man_dist_var2 /\ z.cruise_t = y.cruise_t
    BY <2>1, <2>2, SplitIs
  <2>5. z.des_f_dist = SplitRamp(i) /\ SameState(z, x)
    BY <2>1, <2>2, <2>3, <2>4, SameStates
  <2>6. y.man_t <= CRUISE_T + 1 + i + 1
    BY <1>2, <2>1, TickIs, DistType
  <2>7. Keeps(w, z) => /\ w.des_f_dist = SplitRamp(i) /\ w.man_t <= CRUISE_T + 1 + i + 1
                       /\ w.used = {"split"} /\ w.cruise_t = CRUISE_T + 1 /\ Goes(w, x)
    BY <1>2, <2>1, <2>3, <2>4, <2>5, <2>6 DEF Keeps, SameTime, Goes
  <2>8. CASE i \in 1 .. SPLIT_T
    <3>1. SplitAt(w, i + 1) /\ Keeps(w, z)
      BY <1>2, <2>4, <2>5, <2>8, SplitTurnIs
    <3>2. /\ i + 1 \in 1 .. SPLIT_T + 1 /\ (i + 1) - 1 = i
          /\ CRUISE_T + 1 + i + 1 = CRUISE_T + 1 + (i + 1)
      BY <2>8, DistType
    <3>3. SplitCourse(w)
      BY <2>7, <3>1, <3>2 DEF SplitCourse
    <3>. QED BY <2>1, <2>4, <2>7, <3>1, <3>3, DistType
  <2>9. CASE i = SPLIT_T + 1
    <3>1. SplitDone(w) /\ Keeps(w, z)
      BY <1>2, <2>4, <2>5, <2>9, SplitTurnIs
    <3>2. w.des_f_dist = DIST /\ w.man_t <= CRUISE_T + SPLIT_T + 3
      BY <2>7, <2>9, <3>1, SplitRampSteps, DistType
    <3>3. SplitCourse(w)
      BY <2>7, <3>1, <3>2 DEF SplitCourse
    <3>. QED BY <2>1, <2>4, <2>7, <3>1, <3>3, DistType
  <2>. QED BY <2>8, <2>9, DistType
<1>3. CASE /\ x.used = {"split"} /\ SplitDone(x) /\ x.des_f_dist = DIST
           /\ x.man_t <= CRUISE_T + SPLIT_T + 3
  <2>1. /\ y \in Truck /\ y.man_on /\ SameState(y, x) /\ y.man_des = 8
        /\ y.used = {"split"} /\ y.man_t = Tick(x.man_t, End)
    BY <1>3, AdvanceManeuver DEF SplitDone
  <2>2. y.man_id2 = 1
    BY <1>3, <2>1 DEF SplitDone, SameState
  <2>3. /\ z \in Truck /\ SameState(z, y) /\ SameTime(z, y)
        /\ z.man_des = 7 /\ z.used = {"split"} /\ z.des_f_dist = DIST /\ z.cruise_t = 0
    BY <2>1, <2>2, SplitIs
  <2>4. Cruising(w, DIST) /\ Keeps(w, z)
    BY <2>3, CruiseTurnIs
  <2>5. w.man_t <= CRUISE_T + SPLIT_T + 4
    BY <1>3, <2>1, <2>3, <2>4, TickIs, DistType DEF Keeps, SameTime
  <2>. QED BY <1>3, <2>1, <2>3, <2>4, <2>5, SmallIs, DistType DEF Keeps, SameTime, Goes
<1>. QED BY <1>1, <1>2, <1>3 DEF SplitCourse

\* A join that begins at a distance.
LEMMA JoinBegins ==
  ASSUME NEW y \in Truck, y.man_on, veh_id # 1, Fresh(y), "join" \notin y.used,
         NEW c \in Int, y.cruise_t > c, NEW dist \in Int, y.des_f_dist = dist,
         NEW t \in Int, y.man_t <= t + 1,
         NEW z, z = Join(y, c, dist), NEW w, w = Turned(z)
  PROVE  /\ JoinCourse(w, t, dist) /\ w.man_on /\ w.des_f_dist = dist
         /\ w.used = y.used \cup {"join"}
<1>1. y.man_id2 = 0 /\ y.man_dist_var2 = 0 /\ y.man_dist_var3 = 0
  BY DEF Fresh
<1>2. /\ z \in Truck /\ SameState(z, y) /\ SameTime(z, y)
      /\ z.man_des = 6 /\ z.used = y.used \cup {"join"}
      /\ z.des_f_dist = dist + y.man_dist_var3 - y.man_dist_var2
  BY <1>1, JoinIs DEF Joins
<1>3. JoinAt(w, 1) /\ Keeps(w, z)
  BY <1>2, JoinTurnIs
<1>4. w.des_f_dist = dist /\ w.man_t <= t + 1 /\ w.used = y.used \cup {"join"} /\ w.man_on
  BY <1>1, <1>2, <1>3 DEF Keeps, SameTime
<1>5. 1 \in 1 .. JOIN_T /\ dist = dist - JoinRamp(1 - 1)
  BY DistType, JoinRampSteps
<1>. QED BY <1>3, <1>4, <1>5 DEF JoinCourse

\* Task 4 and the second half of task 5.
LEMMA JoinStep ==
  ASSUME NEW x \in Truck, x.man_on, veh_id # 1, NEW c \in Int, NEW t \in Int, NEW dist \in Int,
         JoinCourse(x, t, dist),
         NEW y, y = Advance(x), NEW z, z = Join(y, c, dist), NEW w, w = Turned(z)
  PROVE  /\ Goes(w, x) /\ JoinCourse(w, t, dist) /\ w.used = x.used
         /\ y \in Truck /\ y.man_des # 8 /\ y.used = x.used
<1>1. ASSUME "join" \in x.used, NEW i \in 1 .. JOIN_T, JoinAt(x, i),
             x.des_f_dist = dist - JoinRamp(i - 1), x.man_t <= t + i
      PROVE  /\ Goes(w, x) /\ JoinCourse(w, t, dist) /\ w.used = x.used
             /\ y \in Truck /\ y.man_des # 8 /\ y.used = x.used
  <2>1. /\ y \in Truck /\ y.man_on /\ SameState(y, x) /\ y.man_des = 6
        /\ y.used = x.used /\ y.man_t = Tick(x.man_t, End)
    BY <1>1, AdvanceManeuver DEF JoinAt
  <2>2. y.man_id2 = 0 /\ y.man_dist_var2 = - JoinRamp(i) /\ y.man_dist_var3 = - 2 * JoinRamp(i)
    BY <1>1, <2>1 DEF JoinAt, SameState
  <2>3. /\ JoinRamp(i) \in Int /\ JoinRamp(i - 1) \in Int
        /\ JoinRamp(i) = JoinRamp(i - 1) + SPLIT_T
    <3>1. i \in 0 .. JOIN_T + 1 /\ i - 1 \in 0 .. JOIN_T + 1
          /\ i - 1 \in 0 .. JOIN_T - 1 /\ (i - 1) + 1 = i
      BY DistType
    <3>. QED BY <3>1, JoinRampSteps, DistType
  <2>4. /\ z \in Truck /\ SameState(z, y) /\ SameTime(z, y)
        /\ z.man_des = 6 /\ z.used = x.used
        /\ z.des_f_dist = dist + y.man_dist_var3 - y.man_dist_var2
    <3>1. Joins(y, c) /\ x.used = y.used \cup {"join"}
      BY <1>1, <2>1 DEF Joins
    <3>. QED BY <2>1, <2>2, <3>1, JoinIs
  <2>5. z.des_f_dist = dist - JoinRamp(i) /\ SameState(z, x)
    BY <2>1, <2>2, <2>3, <2>4, SameStates
  <2>6. y.man_t <= t + i + 1
    BY <1>1, <2>1, TickIs, ClockTypes
  <2>7. Keeps(w, z) => /\ w.des_f_dist = dist - JoinRamp(i) /\ w.man_t <= t + i + 1
                       /\ w.used = x.used /\ Goes(w, x)
    <3>1. Small(dist - JoinRamp(i), dist - JoinRamp(i - 1))
      BY <2>3, StepType, DistType DEF Small
    <3>. QED BY <1>1, <2>1, <2>4, <2>5, <2>6, <3>1 DEF Keeps, SameTime, Goes
  <2>8. CASE i \in 1 .. JOIN_T - 1
    <3>1. JoinAt(w, i + 1) /\ Keeps(w, z)
      BY <1>1, <2>4, <2>5, <2>8, JoinTurnIs
    <3>2. i + 1 \in 1 .. JOIN_T /\ (i + 1) - 1 = i /\ t + i + 1 = t + (i + 1)
      BY <2>8, DistType
    <3>3. JoinCourse(w, t, dist)
      BY <1>1, <2>7, <3>1, <3>2 DEF JoinCourse
    <3>. QED BY <2>1, <2>7, <3>1, <3>3
  <2>9. CASE i = JOIN_T
    <3>1. JoinDone(w) /\ Keeps(w, z)
      BY <1>1, <2>4, <2>5, <2>9, JoinTurnIs
    <3>2. w.des_f_dist = dist - DIST /\ w.man_t <= t + JOIN_T + 1
      BY <2>7, <2>9, <3>1, JoinRampSteps
    <3>3. JoinCourse(w, t, dist)
      BY <1>1, <2>7, <3>1, <3>2 DEF JoinCourse
    <3>. QED BY <2>1, <2>7, <3>1, <3>3
  <2>. QED BY <2>8, <2>9, DistType
<1>2. CASE "join" \in x.used /\ JoinDone(x) /\ x.des_f_dist = dist - DIST
  <2>1. /\ y \in Truck /\ y.man_on /\ SameState(y, x) /\ y.man_des = 6
        /\ y.used = x.used
    BY <1>2, AdvanceManeuver DEF JoinDone
  <2>2. y.man_id2 = 1
    BY <1>2, <2>1 DEF JoinDone, SameState
  <2>3. /\ z \in Truck /\ SameTime(z, y)
        /\ z.man_des = 7 /\ z.used = x.used /\ z.des_f_dist = dist - DIST
    BY <1>2, <2>1, <2>2, JoinIs
  <2>4. Cruising(w, dist - DIST) /\ Keeps(w, z)
    BY <2>3, CruiseTurnIs
  <2>5. w.used = x.used /\ w.des_f_dist = x.des_f_dist /\ w.man_on
    BY <1>2, <2>1, <2>3, <2>4 DEF Keeps, SameTime
  <2>6. JoinCourse(w, t, dist)
    BY <1>2, <2>4, <2>5 DEF JoinCourse
  <2>7. x.des_f_dist \in Int
    BY DEF Truck
  <2>. QED BY <2>1, <2>5, <2>6, <2>7, SmallIs DEF Goes
<1>3. CASE "join" \in x.used /\ Cruising(x, dist - DIST)
  <2>1. /\ y \in Truck /\ y.man_on /\ y.man_des = 7
        /\ y.used = x.used /\ y.des_f_dist = dist - DIST
    BY <1>3, AdvanceCruising
  <2>2. z = y
    BY <1>3, <2>1, JoinIs
  <2>3. Cruising(w, dist - DIST) /\ Keeps(w, z)
    BY <2>1, <2>2, CruiseTurnIs
  <2>4. w.used = x.used /\ w.des_f_dist = x.des_f_dist /\ w.man_on
    BY <1>3, <2>1, <2>2, <2>3 DEF Keeps, Cruising
  <2>5. JoinCourse(w, t, dist)
    BY <1>3, <2>3, <2>4 DEF JoinCourse
  <2>6. x.des_f_dist \in Int
    BY DEF Truck
  <2>. QED BY <2>1, <2>4, <2>5, <2>6, SmallIs DEF Goes
<1>. QED BY <1>1, <1>2, <1>3 DEF JoinCourse

LEMMA SplitTaskStep ==
  ASSUME NEW x \in Truck, x.man_on, veh_id # 1, task = 3, Course(x),
         NEW y, y = Advance(x), NEW z, z = ForTask(y), NEW w, w = Turned(z)
  PROVE  Goes(w, x) /\ Course(w)
<1>1. z = Split(y)
  BY DEF ForTask
<1>2. CASE SplitCourse(x)
  BY <1>1, <1>2, SplitStep DEF Course
<1>3. CASE Cruising(x, DIST) /\ x.used = {"split"}
  <2>1. /\ y \in Truck /\ y.man_on /\ y.man_des = 7
        /\ y.used = {"split"} /\ y.des_f_dist = DIST
    BY <1>3, AdvanceCruising
  <2>2. z = y
    BY <1>1, <2>1, SplitIs
  <2>3. Cruising(w, DIST) /\ Keeps(w, z)
    BY <2>1, <2>2, CruiseTurnIs
  <2>4. w.used = {"split"} /\ w.des_f_dist = DIST /\ x.des_f_dist = DIST /\ w.man_on
    BY <1>3, <2>1, <2>2, <2>3 DEF Keeps, Cruising
  <2>. QED BY <2>3, <2>4, SmallIs, DistType DEF Goes, Course
<1>. QED BY <1>2, <1>3 DEF Course

LEMMA JoinTaskStep ==
  ASSUME NEW x \in Truck, x.man_on, veh_id # 1, task = 4, Course(x),
         NEW y, y = Advance(x), NEW z, z = ForTask(y), NEW w, w = Turned(z)
  PROVE  Goes(w, x) /\ Course(w)
<1>1. \A dist : dist = 0 => z = Join(y, CRUISE_T, dist)
  BY DEF ForTask
<1>2. PICK dist \in Int : dist = 0
  OBVIOUS
<1>3. z = Join(y, CRUISE_T, dist)
  BY <1>1, <1>2
<1>4. CASE JoinCourse(x, CRUISE_T + 1, 0)
  <2>1. CRUISE_T \in Int /\ CRUISE_T + 1 \in Int
    BY DistType
  <2>2. JoinCourse(x, CRUISE_T + 1, dist)
    BY <1>2, <1>4
  <2>3. Goes(w, x) /\ JoinCourse(w, CRUISE_T + 1, dist)
    BY <1>3, <2>1, <2>2, JoinStep
  <2>. QED BY <1>2, <2>3 DEF Course
<1>5. CASE Waiting(x) /\ x.cruise_t <= CRUISE_T
  <2>1. /\ y \in Truck /\ y.man_on /\ y.man_des = 7 /\ Fresh(y)
        /\ y.used = {} /\ y.des_f_dist = 0 /\ y.split_d = 0 /\ y.join_d = 0
        /\ y.man_t \in Nat \ {0} /\ y.cruise_t \in Nat \ {0}
        /\ y.man_t <= y.cruise_t + 1
        /\ y.cruise_t <= CRUISE_T + 1
    BY <1>5, AdvanceWaiting, ClockTypes, DistType
  <2>2. x.des_f_dist = 0
    BY <1>5 DEF Waiting, Idle
  <2>3. CASE y.cruise_t <= CRUISE_T
    <3>1. z = y
      BY <1>3, <2>1, <2>3, DistType, JoinIs
    <3>2. Waiting(w) /\ Keeps(w, y)
      BY <2>1, <3>1, StillWaiting
    <3>3. Course(w)
      BY <2>3, <3>2 DEF Course, Keeps
    <3>4. Goes(w, x)
      BY <2>1, <2>2, <3>2, SmallIs DEF Goes, Keeps
    <3>. QED BY <3>3, <3>4
  <2>4. CASE y.cruise_t > CRUISE_T
    <3>1. y.man_t <= CRUISE_T + 1 + 1 /\ CRUISE_T \in Int /\ CRUISE_T + 1 \in Int
          /\ "join" \notin y.used /\ y.des_f_dist = dist
      BY <1>2, <2>1, <2>4, DistType
    <3>2. JoinCourse(w, CRUISE_T + 1, dist) /\ w.man_on /\ w.des_f_dist = dist
      BY <1>3, <2>1, <2>4, <3>1, JoinBegins
    <3>3. Goes(w, x)
      BY <1>2, <2>2, <3>2, SmallIs DEF Goes
    <3>. QED BY <1>2, <3>2, <3>3 DEF Course
  <2>. QED BY <2>1, <2>3, <2>4, DistType
<1>. QED BY <1>4, <1>5 DEF Course

LEMMA BothTaskStep ==
  ASSUME NEW x \in Truck, x.man_on, veh_id # 1, task = 5, Course(x),
         NEW y, y = Advance(x), NEW z, z = ForTask(y), NEW w, w = Turned(z)
  PROVE  Goes(w, x) /\ Course(w)
<1> DEFINE t == 4 * CRUISE_T + SPLIT_T + 4
           c == 3 * CRUISE_T
<1>1. z = Join(Split(y), c, DIST)
  BY DEF ForTask
<1>2. t \in Int /\ c \in Int /\ DIST \in Int
  BY DistType
<1>0. PICK d \in Int : d = DIST
  BY <1>2
<1>3. CASE SplitCourse(x)
  <2> DEFINE s == Split(y)
             u == Turned(s)
  <2>1. /\ Goes(u, x) /\ s.man_des # 6 /\ s.cruise_t \in 0 .. c
        /\ \/ SplitCourse(u)
           \/ /\ Cruising(u, DIST) /\ u.used = {"split"}
              /\ u.cruise_t = 0 /\ u.man_t <= CRUISE_T + SPLIT_T + 4
    BY <1>3, SplitStep
  <2>2. z = s
    BY <1>1, <1>2, <2>1 DEF Join, Follow, Finish
  <2>3. w = u
    BY <2>2
  <2> HIDE DEF u
  <2>4. SplitCourse(w) \/ Between(w)
    BY <2>1, <2>3, DistType DEF Between
  <2>. QED BY <2>1, <2>3, <2>4 DEF Course
<1>4. CASE Between(x)
  <2>1. /\ y \in Truck /\ y.man_on /\ y.man_des = 7 /\ Fresh(y)
        /\ y.used = {"split"} /\ y.des_f_dist = DIST
        /\ y.man_t = Tick(x.man_t, End) /\ y.cruise_t = Tick(x.cruise_t, 3 * CRUISE_T + 1)
    BY <1>4, AdvanceCruising DEF Between
  <2>2. y.cruise_t = x.cruise_t + 1 /\ y.man_t <= CRUISE_T + SPLIT_T + 4 + y.cruise_t
        /\ y.cruise_t <= c + 1
    BY <1>4, <2>1, TickIs, ClockTypes, DistType DEF Between, Tick
  <2>3. x.des_f_dist = DIST
    BY <1>4 DEF Between, Cruising
  <2>4. Split(y) = y
    BY <2>1, SplitIs
  <2>5. CASE y.cruise_t <= c
    <3>1. z = y
      BY <1>1, <1>2, <2>1, <2>4, <2>5, JoinIs
    <3>2. Cruising(w, DIST) /\ Keeps(w, y)
      BY <2>1, <3>1, CruiseTurnIs
    <3>3. Between(w)
      BY <2>1, <2>2, <2>5, <3>2 DEF Between, Keeps
    <3>4. Goes(w, x)
      BY <1>2, <2>1, <2>3, <3>2, SmallIs DEF Goes, Keeps
    <3>. QED BY <3>3, <3>4 DEF Course
  <2>6. CASE y.cruise_t > c
    <3>1. y.man_t <= t + 1 /\ "join" \notin y.used
      BY <2>1, <2>2, <2>6, TickIs, ClockTypes, DistType
    <3>2. z = Join(y, c, d) /\ y.des_f_dist = d
      BY <1>0, <1>1, <2>1, <2>4
    <3> HIDE DEF t, c
    <3>3. /\ JoinCourse(w, t, d) /\ w.man_on /\ w.des_f_dist = d
          /\ w.used = y.used \cup {"join"}
      BY <1>2, <2>1, <2>6, <3>1, <3>2, JoinBegins
    <3>4. Goes(w, x)
      BY <1>0, <1>2, <2>3, <3>3, SmallIs DEF Goes
    <3>5. "split" \in w.used
      BY <2>1, <3>3
    <3>. QED BY <1>0, <3>3, <3>4, <3>5 DEF Course, t
  <2>. QED BY <1>2, <2>1, <2>5, <2>6, ClockTypes
<1>5. CASE "split" \in x.used /\ JoinCourse(x, t, DIST)
  <2> DEFINE u == Join(y, c, d)
             r == Turned(u)
  <2>0. JoinCourse(x, t, d)
    BY <1>0, <1>5
  <2> HIDE DEF t, c
  <2>1. /\ Goes(r, x) /\ JoinCourse(r, t, d) /\ r.used = x.used
        /\ y \in Truck /\ y.man_des # 8 /\ y.used = x.used
    BY <1>2, <2>0, JoinStep
  <2>2. Split(y) = y
    BY <1>5, <2>1, SplitIs
  <2>3. w = r
    BY <1>0, <1>1, <2>2
  <2> HIDE DEF r
  <2>. QED BY <1>0, <1>5, <2>1, <2>3 DEF Course, t
<1>. QED BY <1>3, <1>4, <1>5 DEF Course
-----------------------------------------------------------------------------
\* What coording makes of a truck in a task in which one follows the other:
\* a maneuver goes on, or is over, or the truck gives way.
GoesOn(z, y, s, m, d) ==
  /\ z \in Truck /\ SameState(z, y) /\ SameTime(z, y)
  /\ z.man_des = m /\ z.used = y.used \cup {s} /\ z.des_f_dist = d

Over(z, y, d) ==
  /\ z \in Truck /\ z.man_des = 7 /\ z.used = y.used /\ z.des_f_dist = d
  /\ z.man_t = y.man_t /\ z.man_on = y.man_on /\ z.join_d \in {0, y.join_d}

Yields(z, y, t, d) ==
  /\ z \in Truck /\ SameState(z, y) /\ z.man_des = y.man_des /\ z.used = y.used
  /\ z.des_f_dist = d /\ z.split_d = t
  /\ z.man_t = y.man_t /\ z.man_on = y.man_on /\ z.join_d = y.join_d

LEMMA SplitOver ==
  ASSUME NEW y \in Truck, NEW d \in Int,
         NEW z, z = [Cruise(y, d) EXCEPT !.man_id2 = 0, !.split_d = IF task = 6 THEN 0 ELSE @]
  PROVE  Over(z, y, d)
<1>1. PICK c : c = Cruise(y, d)
  OBVIOUS
<1>2. c \in Truck
  BY <1>1, CruiseIs
<1>3. PICK e \in 0 .. SPLIT_T + 1 : e = IF task = 6 THEN 0 ELSE c.split_d
  BY <1>2, DistType DEF Truck
<1>4. z = [c EXCEPT !.man_id2 = 0, !.split_d = e]
  BY <1>1, <1>3
<1>5. z \in Truck
  BY <1>2, <1>4 DEF Truck
<1>6. /\ SameTime(c, y) /\ c.man_des = 7 /\ c.used = y.used /\ c.des_f_dist = d
  BY <1>1, CruiseIs
<1>7. /\ z.man_des = c.man_des /\ z.used = c.used /\ z.des_f_dist = c.des_f_dist
      /\ z.man_t = c.man_t /\ z.man_on = c.man_on /\ z.join_d = c.join_d
  BY <1>2, <1>4 DEF Truck
<1>. QED BY <1>5, <1>6, <1>7 DEF Over, SameTime

LEMMA JoinOver ==
  ASSUME NEW y \in Truck, NEW d \in Int,
         NEW z, z = [Cruise(y, d) EXCEPT !.man_id2 = 0, !.join_d = 0,
                                         !.split_d = IF task = 8 THEN 0 ELSE @]
  PROVE  Over(z, y, d)
<1>1. PICK c : c = Cruise(y, d)
  OBVIOUS
<1>2. c \in Truck
  BY <1>1, CruiseIs
<1>3. PICK e \in 0 .. SPLIT_T + 1 : e = IF task = 8 THEN 0 ELSE c.split_d
  BY <1>2, DistType DEF Truck
<1>4. z = [c EXCEPT !.man_id2 = 0, !.join_d = 0, !.split_d = e]
  BY <1>1, <1>3
<1>5. z \in Truck
  <2>1. 0 \in 0 .. JOIN_T + 1
    BY DistType
  <2>2. PICK u : u = [c EXCEPT !.man_id2 = 0, !.split_d = e]
    OBVIOUS
  <2>3. u \in Truck
    BY <1>2, <2>2 DEF Truck
  <2>4. z = [u EXCEPT !.join_d = 0]
    BY <1>2, <1>4, <2>2 DEF Truck
  <2>. QED BY <2>1, <2>3, <2>4 DEF Truck
<1>6. /\ SameTime(c, y) /\ c.man_des = 7 /\ c.used = y.used /\ c.des_f_dist = d
  BY <1>1, CruiseIs
<1>7. /\ z.man_des = c.man_des /\ z.used = c.used /\ z.des_f_dist = c.des_f_dist
      /\ z.man_t = c.man_t /\ z.man_on = c.man_on /\ z.join_d = 0
  BY <1>2, <1>4 DEF Truck
<1>. QED BY <1>5, <1>6, <1>7 DEF Over, SameTime

LEMMA SplitLastIs ==
  ASSUME NEW y \in Truck, veh_id # 2, NEW z, z = SplitOneByOne(y)
  PROVE  /\ y.man_t < CRUISE_T => z = y
         /\ /\ CRUISE_T <= y.man_t /\ y.man_t < CRUISE_T + SPLIT_T
            /\ "split" \notin y.used \/ y.man_des = 8
            => GoesOn(z, y, "split", 8, y.man_dist_var3)
         /\ CRUISE_T + SPLIT_T <= y.man_t /\ y.man_t < CRUISE_T + 2 * SPLIT_T =>
              LET t == Tick(y.split_d, SPLIT_T + 1)
              IN  Yields(z, y, t, 2 * DIST - SplitRamp(t))
         /\ CRUISE_T + 2 * SPLIT_T <= y.man_t /\ y.man_des = 8 /\ y.man_id2 = 1 => Over(z, y, DIST)
         /\ CRUISE_T + 2 * SPLIT_T <= y.man_t /\ ~(y.man_des = 8 /\ y.man_id2 = 1) => z = y
<1>1. y.man_t \in Int /\ CRUISE_T \in Int /\ SPLIT_T \in Nat \ {0} /\ DIST \in Int
  BY ClockTypes, DistType
<1>2. y.man_t < CRUISE_T => z = y
  BY DEF SplitOneByOne
<1>3. ASSUME CRUISE_T <= y.man_t, y.man_t < CRUISE_T + SPLIT_T,
             "split" \notin y.used \/ y.man_des = 8
      PROVE  GoesOn(z, y, "split", 8, y.man_dist_var3)
  <2>1. z = Follow(Begin(y, "split", 8), 8, y.man_dist_var3)
    BY <1>1, <1>3 DEF SplitOneByOne
  <2>2. y.man_dist_var3 \in Int /\ "split" \in Switches
    BY DEF Truck, Switches
  <2>. QED BY <1>3, <2>1, <2>2, BeginFollow DEF GoesOn
<1>4. ASSUME CRUISE_T + SPLIT_T <= y.man_t, y.man_t < CRUISE_T + 2 * SPLIT_T
      PROVE  LET t == Tick(y.split_d, SPLIT_T + 1)
             IN  Yields(z, y, t, 2 * DIST - SplitRamp(t))
  <2> DEFINE t == Tick(y.split_d, SPLIT_T + 1)
             d == 2 * DIST - SplitRamp(t)
  <2>1. z = [y EXCEPT !.split_d = t, !.des_f_dist = d]
    BY <1>1, <1>4 DEF SplitOneByOne, SplitRamp
  <2>2. t \in 0 .. SPLIT_T + 1
    BY <1>1, ClockTypes DEF Tick
  <2> HIDE DEF t
  <2>3. d \in Int
    <3>1. SplitRamp(t) \in Int
      BY <1>1, <2>2, SplitRampSteps
    <3>. QED BY <1>1, <3>1
  <2> HIDE DEF d
  <2>4. z \in Truck
    BY <2>1, <2>2, <2>3 DEF Truck
  <2>5. Yields(z, y, t, d)
    BY <2>1, <2>4 DEF Yields, Truck, SameState
  <2>. QED BY <2>5 DEF t, d
<1>5. ASSUME CRUISE_T + 2 * SPLIT_T <= y.man_t, y.man_des = 8, y.man_id2 = 1
      PROVE  Over(z, y, DIST)
  <2>1. z = [Cruise(y, DIST) EXCEPT !.man_id2 = 0, !.split_d = IF task = 6 THEN 0 ELSE @]
    BY <1>1, <1>5 DEF SplitOneByOne
  <2>2. PICK d \in Int : d = DIST
    BY <1>1
  <2>. QED BY <2>1, <2>2, SplitOver
<1>6. CRUISE_T + 2 * SPLIT_T <= y.man_t /\ ~(y.man_des = 8 /\ y.man_id2 = 1) => z = y
  BY <1>1 DEF SplitOneByOne
<1>. QED BY <1>2, <1>3, <1>4, <1>5, <1>6

LEMMA SplitSecondIs ==
  ASSUME NEW y \in Truck, veh_id = 2, NEW z, z = SplitOneByOne(y)
  PROVE  /\ y.man_t < CRUISE_T => z = y
         /\ CRUISE_T <= y.man_t /\ y.man_t < CRUISE_T + SPLIT_T => Over(z, y, 0)
         /\ /\ CRUISE_T + SPLIT_T <= y.man_t /\ y.man_t < CRUISE_T + 2 * SPLIT_T
            /\ "split" \notin y.used \/ y.man_des = 8
            => GoesOn(z, y, "split", 8, y.man_dist_var2)
         /\ CRUISE_T + 2 * SPLIT_T <= y.man_t /\ y.man_des = 8 /\ y.man_id2 = 1 => Over(z, y, DIST)
         /\ CRUISE_T + 2 * SPLIT_T <= y.man_t /\ ~(y.man_des = 8 /\ y.man_id2 = 1) => z = y
<1>1. y.man_t \in Int /\ CRUISE_T \in Int /\ SPLIT_T \in Nat \ {0} /\ DIST \in Int
  BY ClockTypes, DistType
<1>2. y.man_t < CRUISE_T => z = y
  BY DEF SplitOneByOne
<1>3. ASSUME CRUISE_T <= y.man_t, y.man_t < CRUISE_T + SPLIT_T
      PROVE  Over(z, y, 0)
  <2>1. z = Cruise(y, 0)
    BY <1>1, <1>3 DEF SplitOneByOne
  <2>2. PICK d \in Int : d = 0
    OBVIOUS
  <2>3. z = Cruise(y, d)
    BY <2>1, <2>2
  <2>4. Over(z, y, d)
    BY <2>3, CruiseIs DEF Over, SameTime
  <2>. QED BY <2>2, <2>4
<1>4. ASSUME CRUISE_T + SPLIT_T <= y.man_t, y.man_t < CRUISE_T + 2 * SPLIT_T,
             "split" \notin y.used \/ y.man_des = 8
      PROVE  GoesOn(z, y, "split", 8, y.man_dist_var2)
  <2>1. z = Follow(Begin(y, "split", 8), 8, y.man_dist_var2)
    BY <1>1, <1>4 DEF SplitOneByOne
  <2>2. y.man_dist_var2 \in Int /\ "split" \in Switches
    BY DEF Truck, Switches
  <2>. QED BY <1>4, <2>1, <2>2, BeginFollow DEF GoesOn
<1>5. ASSUME CRUISE_T + 2 * SPLIT_T <= y.man_t, y.man_des = 8, y.man_id2 = 1
      PROVE  Over(z, y, DIST)
  <2>1. z = [Cruise(y, DIST) EXCEPT !.man_id2 = 0, !.split_d = IF task = 6 THEN 0 ELSE @]
    BY <1>1, <1>5 DEF SplitOneByOne
  <2>2. PICK d \in Int : d = DIST
    BY <1>1
  <2>. QED BY <2>1, <2>2, SplitOver
<1>6. CRUISE_T + 2 * SPLIT_T <= y.man_t /\ ~(y.man_des = 8 /\ y.man_id2 = 1) => z = y
  BY <1>1 DEF SplitOneByOne
<1>. QED BY <1>2, <1>3, <1>4, <1>5, <1>6

\* What a truck then has, after maneuver.
Carried(w, y, s, d) ==
  /\ w.used = y.used \cup {s} /\ w.des_f_dist = d /\ w.man_t = y.man_t /\ w.man_on = y.man_on
  /\ w.split_d = y.split_d /\ w.join_d = y.join_d

LEMMA SplitGoesOn ==
  ASSUME veh_id # 1, NEW x, NEW y, SameState(y, x), NEW d,
         NEW z, GoesOn(z, y, "split", 8, d), NEW w, w = Turned(z)
  PROVE  /\ Fresh(x) => SplitAt(w, 1) /\ Carried(w, y, "split", d)
         /\ \A i \in 1 .. SPLIT_T :
              SplitAt(x, i) => SplitAt(w, i + 1) /\ Carried(w, y, "split", d)
<1>1. SameState(z, x) /\ z \in Truck /\ z.man_des = 8
  BY SameStates DEF GoesOn
<1>2. Keeps(w, z) => Carried(w, y, "split", d)
  BY DEF GoesOn, Keeps, SameTime, Carried
<1>. QED BY <1>1, <1>2, SplitTurnIs

LEMMA CruisesOver ==
  ASSUME veh_id # 1, NEW y, NEW d, NEW z, Over(z, y, d), NEW w, w = Turned(z)
  PROVE  /\ Cruising(w, d) /\ w.used = y.used
         /\ w.man_t = y.man_t /\ w.man_on = y.man_on /\ w.join_d \in {0, y.join_d}
<1>1. z \in Truck /\ z.man_des = 7 /\ z.des_f_dist = d
  BY DEF Over
<1>2. Cruising(w, d) /\ Keeps(w, z)
  BY <1>1, CruiseTurnIs
<1>. QED BY <1>2 DEF Over, Keeps

LEMMA CruisesOn ==
  ASSUME veh_id # 1, NEW y \in Truck, y.man_des = 7, NEW w, w = Turned(y)
  PROVE  /\ Cruising(w, y.des_f_dist) /\ w.used = y.used
         /\ w.man_t = y.man_t /\ w.man_on = y.man_on /\ w.join_d = y.join_d
<1>2. Cruising(w, y.des_f_dist) /\ Keeps(w, y)
  BY CruiseTurnIs
<1>. QED BY <1>2 DEF Keeps

\* The distances of a split, one cycle after the other.
LEMMA SplitRampNext ==
  ASSUME NEW t \in 0 .. SPLIT_T
  PROVE  /\ SplitRamp(t) \in Int /\ SplitRamp(t + 1) \in Int
         /\ Small(SplitRamp(t + 1), SplitRamp(t)) /\ Small(2 * SplitRamp(t + 1), 2 * SplitRamp(t))
         /\ t < SPLIT_T => SplitRamp(t + 1) = SplitRamp(t) + JOIN_T
         /\ t = SPLIT_T => SplitRamp(t) = DIST /\ SplitRamp(t + 1) = DIST
<1>1. t \in 0 .. SPLIT_T + 1 /\ t + 1 \in 0 .. SPLIT_T + 1
  BY DistType
<1>2. SplitRamp(t) \in Int /\ SplitRamp(t + 1) \in Int
  BY <1>1, SplitRampSteps, DistType
<1>3. CASE t < SPLIT_T
  <2>1. t \in 0 .. SPLIT_T - 1
    BY <1>3, DistType
  <2>2. SplitRamp(t + 1) = SplitRamp(t) + JOIN_T
    BY <2>1, SplitRampSteps
  <2>. QED BY <1>2, <1>3, <2>2, StepType, DistType DEF Small
<1>4. CASE t = SPLIT_T
  <2>1. SplitRamp(t) = DIST /\ SplitRamp(t + 1) = DIST
    BY <1>4, SplitRampSteps
  <2>. QED BY <1>2, <1>4, <2>1, StepType, DistType DEF Small
<1>. QED BY <1>3, <1>4, DistType

\* Task 6 and the first half of task 8.
LEMMA SplitSecondStep ==
  ASSUME NEW x \in Truck, x.man_on, veh_id = 2, NEW t \in Int, x.man_t = CRUISE_T + SPLIT_T + t,
         SplitSecond(x, t),
         NEW y, y = Advance(x), NEW z, z = SplitOneByOne(y), NEW w, w = Turned(z)
  PROVE  Goes(w, x) /\ SplitSecond(w, w.man_t - CRUISE_T - SPLIT_T) /\ w.man_t = y.man_t
<1>1. /\ CRUISE_T \in Nat \ {0} /\ SPLIT_T \in Nat \ {0} /\ DIST \in Nat /\ JOIN_T \in Nat \ {0}
      /\ End \in Nat /\ End > CRUISE_T + 2 * SPLIT_T + 2
  BY DistType, EndType DEF End
<1>2. x.des_f_dist \in Int
  BY DEF Truck
<1>3. CASE t < - SPLIT_T
  <2>1. /\ y \in Truck /\ y.man_on /\ SameState(y, x) /\ y.man_des = 7 /\ Fresh(y)
        /\ y.used = {} /\ y.des_f_dist = 0 /\ y.split_d = 0 /\ y.join_d = 0
        /\ y.man_t \in Nat \ {0} /\ y.cruise_t \in Nat \ {0}
        /\ y.man_t = x.man_t + 1 /\ y.man_t <= y.cruise_t + 1
    BY <1>1, <1>3, AdvanceWaiting, ClockTypes, TickIs DEF SplitSecond
  <2>2. x.des_f_dist = 0
    BY <1>3 DEF SplitSecond, Waiting, Idle
  <2>3. CASE y.man_t < CRUISE_T
    <3>1. z = y
      BY <2>1, <2>3, SplitSecondIs
    <3>2. Waiting(w) /\ Keeps(w, y)
      BY <2>1, <3>1, StillWaiting
    <3>3. w.man_t - CRUISE_T - SPLIT_T < - SPLIT_T /\ w.man_t = y.man_t
      BY <1>1, <2>1, <2>3, <3>2 DEF Keeps
    <3>4. Goes(w, x)
      BY <2>1, <2>2, <3>2, SmallIs DEF Goes, Keeps
    <3>. QED BY <3>2, <3>3, <3>4 DEF SplitSecond
  <2>4. CASE y.man_t = CRUISE_T
    <3>1. Over(z, y, 0)
      BY <1>1, <2>1, <2>4, SplitSecondIs
    <3>2. Cruising(w, 0) /\ w.used = {} /\ w.man_t = CRUISE_T /\ w.man_on
      BY <2>1, <2>4, <3>1, CruisesOver
    <3>3. w.man_t - CRUISE_T - SPLIT_T = - SPLIT_T /\ w.man_t = y.man_t
      BY <1>1, <2>4, <3>2
    <3>4. ~(- SPLIT_T < - SPLIT_T) /\ - SPLIT_T < 0
      BY <1>1
    <3>5. Goes(w, x)
      BY <2>2, <3>2, SmallIs DEF Goes, Cruising
    <3>. QED BY <3>2, <3>3, <3>4, <3>5 DEF SplitSecond
  <2>. QED BY <1>1, <1>3, <2>1, <2>3, <2>4
<1>4. CASE ~(t < - SPLIT_T) /\ t < 0
  <2>1. Cruising(x, 0) /\ x.used = {}
    BY <1>4 DEF SplitSecond
  <2>2. /\ y \in Truck /\ y.man_on /\ SameState(y, x) /\ y.man_des = 7 /\ Fresh(y)
        /\ y.used = {} /\ y.man_t = x.man_t + 1
    BY <1>1, <1>4, <2>1, AdvanceCruising, ClockTypes, TickIs
  <2>3. x.des_f_dist = 0
    BY <2>1 DEF Cruising
  <2>4. CASE t + 1 < 0
    <3>1. Over(z, y, 0)
      BY <1>1, <1>4, <2>2, <2>4, SplitSecondIs
    <3>2. Cruising(w, 0) /\ w.used = {} /\ w.man_t = x.man_t + 1 /\ w.man_on
      BY <2>2, <3>1, CruisesOver
    <3>3. w.man_t - CRUISE_T - SPLIT_T = t + 1 /\ w.man_t = y.man_t
      BY <1>1, <2>2, <3>2
    <3>4. ~(t + 1 < - SPLIT_T)
      BY <1>1, <1>4
    <3>5. Goes(w, x)
      BY <2>3, <3>2, SmallIs DEF Goes, Cruising
    <3>. QED BY <2>4, <3>2, <3>3, <3>4, <3>5 DEF SplitSecond
  <2>5. CASE t + 1 = 0
    <3>1. GoesOn(z, y, "split", 8, y.man_dist_var2)
      BY <1>1, <2>2, <2>5, SplitSecondIs
    <3>2. Fresh(x) /\ y.man_dist_var2 = 0
      BY <2>1, <2>2 DEF Fresh, Cruising
    <3>3. SplitAt(w, 1) /\ Carried(w, y, "split", 0)
      BY <2>2, <3>1, <3>2, SplitGoesOn
    <3>4. w.used = {"split"} /\ w.des_f_dist = 0 /\ w.man_t - CRUISE_T - SPLIT_T = 0 /\ w.man_on /\ w.man_t = y.man_t
      BY <1>1, <2>2, <2>5, <3>3 DEF Carried
    <3>5. SplitRamp(0) = 0 /\ 0 < SPLIT_T /\ ~(0 < - SPLIT_T) /\ 0 + 1 = 1
      BY <1>1, SplitRampSteps
    <3>6. Goes(w, x)
      BY <2>3, <3>4, SmallIs DEF Goes
    <3>. QED BY <3>3, <3>4, <3>5, <3>6 DEF SplitSecond
  <2>. QED BY <1>4, <2>4, <2>5
<1>5. CASE 0 <= t /\ t < SPLIT_T
  <2>1. x.used = {"split"} /\ SplitAt(x, t + 1) /\ x.des_f_dist = SplitRamp(t)
    BY <1>1, <1>5 DEF SplitSecond
  <2>2. /\ y \in Truck /\ y.man_on /\ SameState(y, x) /\ y.man_des = 8
        /\ y.used = {"split"} /\ y.des_f_dist = x.des_f_dist /\ y.man_t = x.man_t + 1
    BY <1>1, <1>5, <2>1, AdvanceManeuver, ClockTypes, TickIs DEF SplitAt
  <2>3. y.man_id2 = 0 /\ y.man_dist_var2 = SplitRamp(t + 1)
    BY <2>1, <2>2 DEF SplitAt, SameState
  <2>4. /\ SplitRamp(t) \in Int /\ SplitRamp(t + 1) \in Int
        /\ Small(SplitRamp(t + 1), SplitRamp(t))
    <3>1. t \in 0 .. SPLIT_T
      BY <1>1, <1>5
    <3>. QED BY <3>1, SplitRampNext
  <2>5. t + 1 \in 1 .. SPLIT_T /\ ~(t + 1 < 0) /\ ~(t + 1 < - SPLIT_T)
    BY <1>1, <1>5
  <2>6. CASE t + 1 < SPLIT_T
    <3>1. GoesOn(z, y, "split", 8, SplitRamp(t + 1))
      BY <1>1, <1>5, <2>2, <2>3, <2>6, SplitSecondIs
    <3>2. SplitAt(w, (t + 1) + 1) /\ Carried(w, y, "split", SplitRamp(t + 1))
      BY <2>1, <2>2, <2>5, <3>1, SplitGoesOn
    <3>3. /\ w.used = {"split"} /\ w.des_f_dist = SplitRamp(t + 1) /\ w.man_on
          /\ w.man_t - CRUISE_T - SPLIT_T = t + 1 /\ w.man_t = y.man_t
      BY <1>1, <2>2, <3>2 DEF Carried
    <3>4. Goes(w, x)
      BY <2>1, <2>4, <3>3 DEF Goes
    <3>. QED BY <2>5, <2>6, <3>2, <3>3, <3>4 DEF SplitSecond
  <2>7. CASE t + 1 = SPLIT_T
    <3>1. z = y
      BY <1>1, <2>2, <2>3, <2>7, SplitSecondIs
    <3>2. SplitAt(w, (t + 1) + 1) /\ Keeps(w, y)
      BY <2>1, <2>2, <2>5, <3>1, SplitTurnIs
    <3>3. /\ w.used = {"split"} /\ w.des_f_dist = SplitRamp(t) /\ w.man_on
          /\ w.man_t - CRUISE_T - SPLIT_T = t + 1 /\ w.man_t = y.man_t
      BY <1>1, <2>1, <2>2, <3>2 DEF Keeps
    <3>4. Goes(w, x)
      BY <2>1, <2>4, <3>3, SmallIs DEF Goes
    <3>5. (t + 1) - 1 = t /\ ~(t + 1 < SPLIT_T)
      BY <1>1, <2>7
    <3>. QED BY <2>5, <2>7, <3>2, <3>3, <3>4, <3>5 DEF SplitSecond
  <2>. QED BY <1>1, <1>5, <2>6, <2>7
<1>6. CASE t = SPLIT_T \/ t = SPLIT_T + 1
  <2>1. /\ x.used = {"split"} /\ x.des_f_dist = SplitRamp(SPLIT_T - 1)
        /\ IF t = SPLIT_T THEN SplitAt(x, SPLIT_T + 1) ELSE SplitDone(x)
    BY <1>1, <1>6 DEF SplitSecond
  <2>2. /\ y \in Truck /\ y.man_on /\ SameState(y, x) /\ y.man_des = 8
        /\ y.used = {"split"} /\ y.des_f_dist = x.des_f_dist /\ y.man_t = x.man_t + 1
    BY <1>1, <1>6, <2>1, AdvanceManeuver, ClockTypes, TickIs DEF SplitAt, SplitDone
  <2>3. y.man_id2 = IF t = SPLIT_T THEN 0 ELSE 1
    BY <2>1, <2>2 DEF SplitAt, SplitDone, SameState
  <2>4. /\ SplitRamp(SPLIT_T - 1) \in Int /\ Small(DIST, SplitRamp(SPLIT_T - 1))
    <3>1. SPLIT_T - 1 \in 0 .. SPLIT_T /\ (SPLIT_T - 1) + 1 = SPLIT_T
      BY <1>1
    <3>. QED BY <3>1, SplitRampNext, SplitRampSteps
  <2>5. CASE t = SPLIT_T
    <3>1. z = y
      BY <1>1, <2>2, <2>3, <2>5, SplitSecondIs
    <3>2. SplitDone(w) /\ Keeps(w, y)
      BY <2>1, <2>2, <2>5, <3>1, SplitTurnIs
    <3>3. /\ w.used = {"split"} /\ w.des_f_dist = SplitRamp(SPLIT_T - 1) /\ w.man_on
          /\ w.man_t - CRUISE_T - SPLIT_T = SPLIT_T + 1 /\ w.man_t = y.man_t
      BY <1>1, <2>1, <2>2, <2>5, <3>2 DEF Keeps
    <3>4. Goes(w, x)
      BY <2>1, <2>4, <3>3, SmallIs DEF Goes
    <3>. QED BY <1>1, <3>2, <3>3, <3>4 DEF SplitSecond
  <2>6. CASE t = SPLIT_T + 1
    <3>1. Over(z, y, DIST)
      BY <1>1, <2>2, <2>3, <2>6, SplitSecondIs
    <3>2. Cruising(w, DIST) /\ w.used = {"split"} /\ w.man_t = x.man_t + 1 /\ w.man_on
      BY <2>2, <3>1, CruisesOver
    <3>3. w.man_t - CRUISE_T - SPLIT_T = SPLIT_T + 2 /\ w.man_t = y.man_t
      BY <1>1, <2>2, <2>6, <3>2
    <3>4. Goes(w, x)
      BY <2>1, <2>4, <3>2 DEF Goes, Cruising
    <3>. QED BY <1>1, <3>2, <3>3, <3>4 DEF SplitSecond
  <2>. QED BY <1>6, <2>5, <2>6
<1>7. CASE t > SPLIT_T + 1
  <2>1. x.used = {"split"} /\ Cruising(x, DIST)
    BY <1>1, <1>7 DEF SplitSecond
  <2>2. /\ y \in Truck /\ y.man_on /\ y.man_des = 7 /\ y.des_f_dist = DIST
        /\ y.used = {"split"} /\ y.man_t >= x.man_t /\ y.man_t \in Int
    BY <2>1, AdvanceCruising, TickIs, ClockTypes
  <2>3. z = y
    BY <1>1, <1>7, <2>2, SplitSecondIs
  <2>4. Cruising(w, DIST) /\ w.used = {"split"} /\ w.man_t = y.man_t /\ w.man_on
    BY <2>2, <2>3, CruisesOn
  <2>5. w.man_t - CRUISE_T - SPLIT_T > SPLIT_T + 1 /\ w.man_t - CRUISE_T - SPLIT_T \in Int
    BY <1>1, <1>7, <2>2, <2>4
  <2>6. Goes(w, x)
    BY <1>1, <2>1, <2>4, SmallIs DEF Goes, Cruising
  <2>. QED BY <1>1, <2>4, <2>5, <2>6 DEF SplitSecond
<1>. QED BY <1>1, <1>3, <1>4, <1>5, <1>6, <1>7

LEMMA SplitLastStep ==
  ASSUME NEW x \in Truck, x.man_on, veh_id # 1, veh_id # 2, NEW t \in Int,
         x.man_t = CRUISE_T + t, SplitLast(x, t),
         NEW y, y = Advance(x), NEW z, z = SplitOneByOne(y), NEW w, w = Turned(z)
  PROVE  Goes(w, x) /\ SplitLast(w, w.man_t - CRUISE_T) /\ w.man_t = y.man_t
<1>1. /\ CRUISE_T \in Nat \ {0} /\ SPLIT_T \in Nat \ {0} /\ DIST \in Nat /\ JOIN_T \in Nat \ {0}
      /\ End \in Nat /\ End > CRUISE_T + 2 * SPLIT_T + 2
  BY DistType, EndType DEF End
<1>2. x.des_f_dist \in Int
  BY DEF Truck
<1>3. CASE t < 0
  <2>1. /\ y \in Truck /\ y.man_on /\ SameState(y, x) /\ y.man_des = 7 /\ Fresh(y)
        /\ y.used = {} /\ y.des_f_dist = 0 /\ y.split_d = 0 /\ y.join_d = 0
        /\ y.man_t \in Nat \ {0} /\ y.cruise_t \in Nat \ {0}
        /\ y.man_t = x.man_t + 1 /\ y.man_t <= y.cruise_t + 1
    BY <1>1, <1>3, AdvanceWaiting, ClockTypes, TickIs DEF SplitLast
  <2>2. x.des_f_dist = 0
    BY <1>3 DEF SplitLast, Waiting, Idle
  <2>3. CASE y.man_t < CRUISE_T
    <3>1. z = y
      BY <2>1, <2>3, SplitLastIs
    <3>2. Waiting(w) /\ Keeps(w, y)
      BY <2>1, <3>1, StillWaiting
    <3>3. w.man_t - CRUISE_T < 0 /\ w.man_t = y.man_t
      BY <1>1, <2>1, <2>3, <3>2 DEF Keeps
    <3>4. Goes(w, x)
      BY <2>1, <2>2, <3>2, SmallIs DEF Goes, Keeps
    <3>. QED BY <3>2, <3>3, <3>4 DEF SplitLast
  <2>4. CASE y.man_t = CRUISE_T
    <3>1. GoesOn(z, y, "split", 8, y.man_dist_var3)
      BY <1>1, <2>1, <2>4, SplitLastIs
    <3>2. Fresh(x) /\ y.man_dist_var3 = 0
      BY <1>3, <2>1 DEF Fresh, SplitLast, Waiting, Idle
    <3>3. SplitAt(w, 1) /\ Carried(w, y, "split", 0)
      BY <2>1, <3>1, <3>2, SplitGoesOn
    <3>4. /\ w.used = {"split"} /\ w.des_f_dist = 0 /\ w.man_t - CRUISE_T = 0 /\ w.man_on /\ w.man_t = y.man_t
          /\ w.split_d = 0 /\ w.join_d = 0
      BY <1>1, <2>1, <2>4, <3>3 DEF Carried
    <3>5. 2 * SplitRamp(0) = 0 /\ 0 < SPLIT_T /\ ~(0 < 0) /\ 0 + 1 = 1
      BY <1>1, SplitRampSteps
    <3>6. Goes(w, x)
      BY <2>2, <3>4, SmallIs DEF Goes
    <3>. QED BY <3>3, <3>4, <3>5, <3>6 DEF SplitLast
  <2>. QED BY <1>1, <1>3, <2>1, <2>3, <2>4
<1>4. CASE 0 <= t /\ t < SPLIT_T
  <2>1. /\ x.used = {"split"} /\ x.join_d = 0 /\ x.split_d = 0
        /\ SplitAt(x, t + 1) /\ x.des_f_dist = 2 * SplitRamp(t)
    BY <1>1, <1>4 DEF SplitLast
  <2>2. /\ y \in Truck /\ y.man_on /\ SameState(y, x) /\ y.man_des = 8
        /\ y.used = {"split"} /\ y.man_t = x.man_t + 1 /\ y.split_d = 0 /\ y.join_d = 0
    BY <1>1, <1>4, <2>1, AdvanceManeuver, ClockTypes, TickIs DEF SplitAt
  <2>3. y.man_id2 = 0 /\ y.man_dist_var3 = 2 * SplitRamp(t + 1)
    BY <2>1, <2>2 DEF SplitAt, SameState
  <2>4. /\ SplitRamp(t) \in Int /\ SplitRamp(t + 1) \in Int
        /\ Small(2 * SplitRamp(t + 1), 2 * SplitRamp(t))
        /\ SplitRamp(t + 1) = SplitRamp(t) + JOIN_T
    <3>1. t \in 0 .. SPLIT_T
      BY <1>1, <1>4
    <3>. QED BY <1>4, <3>1, SplitRampNext
  <2>5. t + 1 \in 1 .. SPLIT_T /\ ~(t + 1 < 0)
    BY <1>1, <1>4
  <2>6. CASE t + 1 < SPLIT_T
    <3>1. GoesOn(z, y, "split", 8, 2 * SplitRamp(t + 1))
      BY <1>1, <1>4, <2>2, <2>3, <2>6, SplitLastIs
    <3>2. SplitAt(w, (t + 1) + 1) /\ Carried(w, y, "split", 2 * SplitRamp(t + 1))
      BY <2>1, <2>2, <2>5, <3>1, SplitGoesOn
    <3>3. /\ w.used = {"split"} /\ w.des_f_dist = 2 * SplitRamp(t + 1) /\ w.man_on
          /\ w.split_d = 0 /\ w.join_d = 0 /\ w.man_t - CRUISE_T = t + 1 /\ w.man_t = y.man_t
      BY <1>1, <2>2, <3>2 DEF Carried
    <3>4. Goes(w, x)
      BY <2>1, <2>4, <3>3 DEF Goes
    <3>. QED BY <2>5, <2>6, <3>2, <3>3, <3>4 DEF SplitLast
  <2>7. CASE t + 1 = SPLIT_T
    <3>0. Tick(y.split_d, SPLIT_T + 1) = 1
      BY <1>1, <2>2 DEF Tick
    <3>1. Yields(z, y, 1, 2 * DIST - SplitRamp(1))
      BY <1>1, <2>2, <2>7, <3>0, SplitLastIs
    <3>2. z \in Truck /\ SameState(z, x) /\ z.man_des = 8
      BY <2>2, <3>1, SameStates DEF Yields
    <3>3. SplitAt(w, (t + 1) + 1) /\ Keeps(w, z)
      BY <2>1, <2>5, <3>2, SplitTurnIs
    <3>4. /\ w.used = {"split"} /\ w.des_f_dist = 2 * DIST - SplitRamp(1) /\ w.man_on
          /\ w.split_d = 1 /\ w.join_d = 0 /\ w.man_t - CRUISE_T = t + 1 /\ w.man_t = y.man_t
      BY <1>1, <2>2, <3>1, <3>3 DEF Keeps, Yields
    <3>5. Goes(w, x)
      <4>1. SplitRamp(t + 1) = DIST
        BY <2>7, SplitRampSteps
      <4>2. SplitRamp(1) = JOIN_T
        <5>1. 0 \in 0 .. SPLIT_T - 1 /\ 0 + 1 = 1
          BY <1>1
        <5>. QED BY <1>1, <5>1, SplitRampSteps
      <4>3. Small(2 * DIST - JOIN_T, 2 * (DIST - JOIN_T))
        BY <1>1, StepType DEF Small
      <4>4. x.des_f_dist = 2 * (DIST - JOIN_T)
        BY <1>1, <2>1, <2>4, <4>1
      <4>. QED BY <3>4, <4>2, <4>3, <4>4 DEF Goes
    <3>6. (t + 1) - SPLIT_T + 1 = 1 /\ ~(t + 1 < SPLIT_T) /\ t + 1 < 2 * SPLIT_T
      BY <1>1, <2>7
    <3>. QED BY <2>5, <2>7, <3>3, <3>4, <3>5, <3>6 DEF SplitLast
  <2>. QED BY <1>1, <1>4, <2>6, <2>7
<1>5. CASE SPLIT_T <= t /\ t < 2 * SPLIT_T
  <2> DEFINE s == t - SPLIT_T + 1
  <2>1. /\ x.used = {"split"} /\ x.join_d = 0 /\ x.split_d = s
        /\ IF t = SPLIT_T THEN SplitAt(x, SPLIT_T + 1) ELSE SplitDone(x)
        /\ x.des_f_dist = 2 * DIST - SplitRamp(s)
    BY <1>1, <1>5 DEF SplitLast
  <2>2. s \in 1 .. SPLIT_T
    BY <1>1, <1>5
  <2>3. /\ y \in Truck /\ y.man_on /\ SameState(y, x) /\ y.man_des = 8
        /\ y.used = {"split"} /\ y.man_t = x.man_t + 1 /\ y.split_d = s /\ y.join_d = 0
        /\ y.des_f_dist = x.des_f_dist
    BY <1>1, <1>5, <2>1, AdvanceManeuver, ClockTypes, TickIs DEF SplitAt, SplitDone
  <2>4. y.man_id2 = IF t = SPLIT_T THEN 0 ELSE 1
    BY <2>1, <2>3 DEF SplitAt, SplitDone, SameState
  <2>5. CASE t + 1 < 2 * SPLIT_T
    <3>1. Tick(y.split_d, SPLIT_T + 1) = s + 1
      BY <1>1, <2>2, <2>3 DEF Tick
    <3>2. Yields(z, y, s + 1, 2 * DIST - SplitRamp(s + 1))
      BY <1>1, <1>5, <2>3, <2>5, <3>1, SplitLastIs
    <3>3. z \in Truck /\ SameState(z, x) /\ z.man_des = 8
      BY <2>3, <3>2, SameStates DEF Yields
    <3>4. SplitDone(w) /\ Keeps(w, z)
      BY <2>1, <3>3, SplitTurnIs
    <3>5. /\ w.used = {"split"} /\ w.des_f_dist = 2 * DIST - SplitRamp(s + 1) /\ w.man_on
          /\ w.split_d = s + 1 /\ w.join_d = 0 /\ w.man_t - CRUISE_T = t + 1 /\ w.man_t = y.man_t
      BY <1>1, <2>3, <3>2, <3>4 DEF Keeps, Yields
    <3>6. Goes(w, x)
      <4>1. s \in 0 .. SPLIT_T - 1 /\ s \in 0 .. SPLIT_T
        BY <1>1, <1>5, <2>5
      <4> HIDE DEF s
      <4>2. SplitRamp(s) \in Int /\ SplitRamp(s + 1) = SplitRamp(s) + JOIN_T
        BY <4>1, SplitRampNext, SplitRampSteps
      <4>3. Small(2 * DIST - SplitRamp(s + 1), 2 * DIST - SplitRamp(s))
        BY <1>1, <4>2, StepType DEF Small
      <4>. QED BY <2>1, <3>5, <4>3 DEF Goes
    <3>7. (t + 1) - SPLIT_T + 1 = s + 1 /\ ~(t + 1 < SPLIT_T) /\ t + 1 # SPLIT_T /\ ~(t + 1 < 0)
      BY <1>1, <1>5
    <3> HIDE DEF s
    <3>. QED BY <2>5, <3>4, <3>5, <3>6, <3>7 DEF SplitLast
  <2>6. CASE t + 1 = 2 * SPLIT_T
    <3>1. s = SPLIT_T /\ ~(t + 1 < SPLIT_T) /\ ~(t + 1 < 2 * SPLIT_T) /\ ~(t + 1 < 0)
      BY <1>1, <2>6
    <3> HIDE DEF s
    <3>2. x.des_f_dist = DIST
      BY <1>1, <2>1, <3>1, SplitRampSteps
    <3>3. CASE t = SPLIT_T
      <4>1. z = y
        BY <1>1, <2>3, <2>4, <2>6, <3>3, SplitLastIs
      <4>2. SplitDone(w) /\ Keeps(w, y)
        BY <2>1, <2>3, <3>3, <4>1, SplitTurnIs
      <4>3. SPLIT_T = 1 /\ t + 1 = 2
        BY <1>1, <2>6, <3>3
      <4>4. /\ w.used = {"split"} /\ w.des_f_dist = DIST /\ w.man_on /\ w.join_d = 0
            /\ w.man_t - CRUISE_T = t + 1 /\ w.man_t = y.man_t
        BY <1>1, <2>3, <3>2, <4>2 DEF Keeps
      <4>5. Goes(w, x)
        BY <1>1, <3>2, <4>4, SmallIs DEF Goes
      <4>. QED BY <3>1, <4>2, <4>3, <4>4, <4>5 DEF SplitLast
    <3>4. CASE t # SPLIT_T
      <4>1. Over(z, y, DIST)
        BY <1>1, <2>3, <2>4, <2>6, <3>4, SplitLastIs
      <4>2. /\ Cruising(w, DIST) /\ w.used = {"split"} /\ w.join_d = 0 /\ w.man_on
            /\ w.man_t = x.man_t + 1
        BY <2>3, <4>1, CruisesOver
      <4>3. w.man_t - CRUISE_T = t + 1 /\ w.man_t = y.man_t /\ w.des_f_dist = DIST
        BY <1>1, <2>3, <4>2 DEF Cruising
      <4>4. Goes(w, x)
        BY <1>1, <3>2, <4>2, <4>3, SmallIs DEF Goes
      <4>. QED BY <3>1, <4>2, <4>3, <4>4 DEF SplitLast
    <3>. QED BY <3>3, <3>4
  <2>. QED BY <1>1, <1>5, <2>5, <2>6
<1>6. CASE 2 * SPLIT_T <= t
  <2>1. /\ x.used = {"split"} /\ x.join_d = 0 /\ x.des_f_dist = DIST
        /\ Cruising(x, DIST) \/ (SplitDone(x) /\ SPLIT_T = 1 /\ t = 2)
    BY <1>1, <1>6 DEF SplitLast
  <2>2. /\ w.used = {"split"} /\ w.join_d = 0 /\ Cruising(w, DIST) /\ w.man_on
        /\ w.man_t \in Int /\ w.man_t = y.man_t /\ w.man_t >= x.man_t
    <3>1. CASE Cruising(x, DIST)
      <4>1. /\ y \in Truck /\ y.man_on /\ y.man_des = 7 /\ y.des_f_dist = DIST /\ y.join_d = 0
            /\ y.used = {"split"} /\ y.man_t >= x.man_t /\ y.man_t \in Int
        BY <2>1, <3>1, AdvanceCruising, TickIs, ClockTypes
      <4>2. z = y
        BY <1>1, <1>6, <4>1, SplitLastIs
      <4>. QED BY <4>1, <4>2, CruisesOn
    <3>2. CASE SplitDone(x)
      <4>1. /\ y \in Truck /\ y.man_on /\ SameState(y, x) /\ y.man_des = 8 /\ y.join_d = 0
            /\ y.used = {"split"} /\ y.man_t >= x.man_t /\ y.man_t \in Int
        BY <2>1, <3>2, AdvanceManeuver, TickIs, ClockTypes DEF SplitDone
      <4>2. y.man_id2 = 1
        BY <3>2, <4>1 DEF SplitDone, SameState
      <4>3. Over(z, y, DIST)
        BY <1>1, <1>6, <4>1, <4>2, SplitLastIs
      <4>. QED BY <4>1, <4>3, CruisesOver
    <3>. QED BY <2>1, <3>1, <3>2
  <2>3. /\ ~(w.man_t - CRUISE_T < 0) /\ ~(w.man_t - CRUISE_T < SPLIT_T)
        /\ ~(w.man_t - CRUISE_T < 2 * SPLIT_T)
    BY <1>1, <1>6, <2>2
  <2>4. w.des_f_dist = DIST
    BY <2>2 DEF Cruising
  <2>5. Goes(w, x)
    BY <1>1, <2>1, <2>2, <2>4, SmallIs DEF Goes
  <2>. QED BY <2>2, <2>3, <2>4, <2>5 DEF SplitLast
<1>. QED BY <1>1, <1>3, <1>4, <1>5, <1>6
-----------------------------------------------------------------------------
\* The same for a join.
YieldsCruising(z, y, t, d) ==
  /\ z \in Truck /\ z.man_des = 7 /\ z.used = y.used /\ z.des_f_dist = d /\ z.join_d = t
  /\ z.man_t = y.man_t /\ z.man_on = y.man_on

LEMMA JoinFollows ==
  ASSUME NEW y \in Truck, NEW d \in Int, "join" \notin y.used \/ y.man_des = 6,
         NEW z, z = Follow(Begin(y, "join", 6), 6, d)
  PROVE  GoesOn(z, y, "join", 6, d)
<1>1. "join" \in Switches /\ 6 \in {6, 8}
  BY DEF Switches
<1>2. /\ z \in Truck /\ SameState(z, y) /\ SameTime(z, y)
      /\ z.man_des = 6 /\ z.used = y.used \cup {"join"} /\ z.des_f_dist = d
  BY <1>1, BeginFollow
<1>. QED BY <1>2 DEF GoesOn

LEMMA JoinSecondIs ==
  ASSUME NEW y \in Truck, veh_id = 2, NEW start \in Int, NEW dist \in Int,
         NEW z, z = JoinOneByOne(y, start, dist)
  PROVE  /\ /\ start <= y.man_t /\ y.man_t < start + JOIN_T
            /\ "join" \notin y.used \/ y.man_des = 6
            => GoesOn(z, y, "join", 6, dist + y.man_dist_var2)
         /\ start + JOIN_T <= y.man_t /\ y.man_t < start + 2 * JOIN_T => Over(z, y, dist - DIST)
         /\ start + 2 * JOIN_T <= y.man_t /\ y.man_des = 7 => z = y
<1>1. y.man_t \in Int /\ JOIN_T \in Nat \ {0} /\ dist - DIST \in Int
  BY ClockTypes, DistType
<1>2. ASSUME start <= y.man_t, y.man_t < start + JOIN_T, "join" \notin y.used \/ y.man_des = 6
      PROVE  GoesOn(z, y, "join", 6, dist + y.man_dist_var2)
  <2>1. z = Follow(Begin(y, "join", 6), 6, dist + y.man_dist_var2)
    BY <1>1, <1>2 DEF JoinOneByOne
  <2> DEFINE d == dist + y.man_dist_var2
  <2>2. d \in Int /\ z = Follow(Begin(y, "join", 6), 6, d)
    BY <2>1 DEF Truck
  <2> HIDE DEF d
  <2>3. GoesOn(z, y, "join", 6, d)
    BY <1>2, <2>2, JoinFollows
  <2>. QED BY <2>3 DEF d
<1>3. ASSUME start + JOIN_T <= y.man_t, y.man_t < start + 2 * JOIN_T
      PROVE  Over(z, y, dist - DIST)
  <2>1. z = Cruise(y, dist - DIST)
    BY <1>1, <1>3 DEF JoinOneByOne
  <2>2. PICK d \in Int : d = dist - DIST
    BY <1>1
  <2>3. z = Cruise(y, d)
    BY <2>1, <2>2
  <2>4. Over(z, y, d)
    BY <2>3, CruiseIs DEF Over, SameTime
  <2>. QED BY <2>2, <2>4
<1>4. start + 2 * JOIN_T <= y.man_t /\ y.man_des = 7 => z = y
  BY <1>1 DEF JoinOneByOne
<1>. QED BY <1>2, <1>3, <1>4

LEMMA JoinLastIs ==
  ASSUME NEW y \in Truck, veh_id # 2, NEW start \in Int, NEW dist \in Int,
         NEW z, z = JoinOneByOne(y, start, dist)
  PROVE  /\ start <= y.man_t /\ y.man_t < start + JOIN_T =>
              LET t == Tick(y.join_d, JOIN_T + 1)
              IN  YieldsCruising(z, y, t, dist + JoinRamp(t))
         /\ /\ start + JOIN_T <= y.man_t /\ y.man_t < start + 2 * JOIN_T
            /\ "join" \notin y.used \/ y.man_des = 6
            => GoesOn(z, y, "join", 6, dist + DIST + y.man_dist_var3)
         /\ start + 2 * JOIN_T <= y.man_t /\ y.man_des = 6 /\ y.man_id2 = 1 =>
              Over(z, y, dist - DIST)
         /\ start + 2 * JOIN_T <= y.man_t /\ ~(y.man_des = 6 /\ y.man_id2 = 1) => z = y
<1>1. y.man_t \in Int /\ JOIN_T \in Nat \ {0} /\ DIST \in Int /\ dist - DIST \in Int
  BY ClockTypes, DistType
<1>2. ASSUME start <= y.man_t, y.man_t < start + JOIN_T
      PROVE  LET t == Tick(y.join_d, JOIN_T + 1)
             IN  YieldsCruising(z, y, t, dist + JoinRamp(t))
  <2> DEFINE t == Tick(y.join_d, JOIN_T + 1)
             d == dist + JoinRamp(t)
             c == Cruise(y, d)
  <2>1. z = [c EXCEPT !.join_d = t]
    BY <1>1, <1>2 DEF JoinOneByOne, JoinRamp
  <2>2. t \in 0 .. JOIN_T + 1
    BY <1>1, ClockTypes DEF Tick
  <2> HIDE DEF t
  <2>3. d \in Int
    <3>1. JoinRamp(t) \in Int
      BY <1>1, <2>2, JoinRampSteps
    <3>. QED BY <1>1, <3>1
  <2> HIDE DEF d
  <2>4. /\ c \in Truck /\ SameTime(c, y) /\ c.man_des = 7 /\ c.used = y.used /\ c.des_f_dist = d
    BY <2>3, CruiseIs
  <2> HIDE DEF c
  <2>5. YieldsCruising(z, y, t, d)
    BY <2>1, <2>2, <2>4 DEF YieldsCruising, Truck, SameTime
  <2>. QED BY <2>5 DEF t, d
<1>3. ASSUME start + JOIN_T <= y.man_t, y.man_t < start + 2 * JOIN_T,
             "join" \notin y.used \/ y.man_des = 6
      PROVE  GoesOn(z, y, "join", 6, dist + DIST + y.man_dist_var3)
  <2>1. z = Follow(Begin(y, "join", 6), 6, dist + DIST + y.man_dist_var3)
    BY <1>1, <1>3 DEF JoinOneByOne
  <2>2. dist + DIST + y.man_dist_var3 \in Int /\ "join" \in Switches
    BY <1>1 DEF Truck, Switches
  <2>. QED BY <1>3, <2>1, <2>2, JoinFollows
<1>4. ASSUME start + 2 * JOIN_T <= y.man_t, y.man_des = 6, y.man_id2 = 1
      PROVE  Over(z, y, dist - DIST)
  <2>1. z = [Cruise(y, dist - DIST) EXCEPT !.man_id2 = 0, !.join_d = 0,
                                          !.split_d = IF task = 8 THEN 0 ELSE @]
    BY <1>1, <1>4 DEF JoinOneByOne
  <2>2. PICK d \in Int : d = dist - DIST
    BY <1>1
  <2>. QED BY <2>1, <2>2, JoinOver
<1>5. start + 2 * JOIN_T <= y.man_t /\ ~(y.man_des = 6 /\ y.man_id2 = 1) => z = y
  BY <1>1 DEF JoinOneByOne
<1>. QED BY <1>2, <1>3, <1>4, <1>5

LEMMA JoinGoesOn ==
  ASSUME veh_id # 1, NEW x, NEW y, SameState(y, x), NEW d,
         NEW z, GoesOn(z, y, "join", 6, d), NEW w, w = Turned(z)
  PROVE  /\ Fresh(x) => JoinAt(w, 1) /\ Carried(w, y, "join", d)
         /\ \A i \in 1 .. JOIN_T - 1 :
              JoinAt(x, i) => JoinAt(w, i + 1) /\ Carried(w, y, "join", d)
<1>1. SameState(z, x) /\ z \in Truck /\ z.man_des = 6
  BY SameStates DEF GoesOn
<1>2. Keeps(w, z) => Carried(w, y, "join", d)
  BY DEF GoesOn, Keeps, SameTime, Carried
<1>. QED BY <1>1, <1>2, JoinTurnIs

LEMMA JoinRampNext ==
  ASSUME NEW t \in 0 .. JOIN_T - 1
  PROVE  /\ JoinRamp(t) \in Int /\ JoinRamp(t + 1) \in Int
         /\ JoinRamp(t + 1) = JoinRamp(t) + SPLIT_T
         /\ \A d \in Int : /\ Small(d + JoinRamp(t + 1), d + JoinRamp(t))
                           /\ Small(d - JoinRamp(t + 1), d - JoinRamp(t))
                           /\ Small(d - 2 * JoinRamp(t + 1), d - 2 * JoinRamp(t))
<1>1. t \in 0 .. JOIN_T + 1 /\ t + 1 \in 0 .. JOIN_T + 1
  BY DistType
<1>2. JoinRamp(t) \in Int /\ JoinRamp(t + 1) \in Int
  BY <1>1, JoinRampSteps, DistType
<1>3. JoinRamp(t + 1) = JoinRamp(t) + SPLIT_T
  BY JoinRampSteps
<1>. QED BY <1>2, <1>3, StepType, DistType DEF Small

\* Task 7 and the second half of task 8 begin.
LEMMA JoinTurnBegins ==
  ASSUME veh_id # 1, NEW start \in Int, NEW dist \in Int,
         NEW y \in Truck, y.man_on, y.man_des = 7, Fresh(y), "join" \notin y.used,
         veh_id = 2 \/ y.join_d = 0, y.man_t = start, y.des_f_dist = dist,
         NEW z, z = JoinOneByOne(y, start, dist), NEW w, w = Turned(z)
  PROVE  /\ JoinTurn(w, start, dist) /\ w.man_t = start /\ w.man_on
         /\ Small(w.des_f_dist, dist)
<1>1. JOIN_T \in Nat \ {0} /\ SPLIT_T \in Nat \ {0}
  BY DistType
<1>2. 0 \in 0 .. JOIN_T - 1 /\ 0 + 1 = 1
  BY <1>1
<1>3. JoinRamp(0) = 0 /\ JoinRamp(1) \in Int /\ Small(dist + JoinRamp(1), dist + JoinRamp(0))
  BY <1>2, JoinRampSteps, JoinRampNext
<1>4. CASE veh_id = 2
  <2>1. GoesOn(z, y, "join", 6, dist + y.man_dist_var2)
    BY <1>1, <1>4, JoinSecondIs
  <2>2. dist + y.man_dist_var2 = dist /\ SameState(y, y)
    BY DEF Fresh, SameState
  <2>3. JoinAt(w, 1) /\ Carried(w, y, "join", dist)
    BY <2>1, <2>2, JoinGoesOn
  <2>4. "join" \in w.used /\ w.des_f_dist = dist /\ w.man_t = start /\ w.man_on
    BY <2>3 DEF Carried
  <2>5. w.man_t - start = 0 /\ 0 < JOIN_T /\ dist - JoinRamp(0) = dist
    BY <1>1, <1>3, <2>4
  <2>6. JoinSecond(w, 0, dist)
    BY <1>2, <2>3, <2>4, <2>5 DEF JoinSecond
  <2>. QED BY <1>4, <2>4, <2>5, <2>6, SmallIs DEF JoinTurn
<1>5. CASE veh_id # 2
  <2>1. Tick(y.join_d, JOIN_T + 1) = 1
    BY <1>1, <1>5 DEF Tick
  <2>2. YieldsCruising(z, y, 1, dist + JoinRamp(1))
    BY <1>1, <1>5, <2>1, JoinLastIs
  <2>3. Cruising(w, dist + JoinRamp(1)) /\ Keeps(w, z)
    BY <2>2, CruiseTurnIs DEF YieldsCruising
  <2>4. "join" \notin w.used /\ w.join_d = 1 /\ w.man_t = start /\ w.man_on
        /\ w.des_f_dist = dist + JoinRamp(1)
    BY <2>2, <2>3 DEF Keeps, YieldsCruising
  <2>5. w.man_t - start = 0 /\ 0 < JOIN_T
    BY <1>1, <2>4
  <2>6. JoinLast(w, 0, dist)
    BY <1>2, <2>3, <2>4, <2>5 DEF JoinLast
  <2>7. Small(w.des_f_dist, dist)
    BY <1>3, <2>4
  <2>. QED BY <1>5, <2>4, <2>5, <2>6, <2>7 DEF JoinTurn
<1>. QED BY <1>4, <1>5

LEMMA JoinSecondStep ==
  ASSUME NEW x \in Truck, x.man_on, veh_id = 2, NEW start \in Int, start <= JoinStart,
         NEW dist \in Int, NEW t \in Nat, x.man_t = start + t, JoinSecond(x, t, dist),
         NEW y, y = Advance(x), NEW z, z = JoinOneByOne(y, start, dist), NEW w, w = Turned(z)
  PROVE  Goes(w, x) /\ JoinSecond(w, w.man_t - start, dist) /\ w.man_t = y.man_t
<1>1. /\ SPLIT_T \in Nat \ {0} /\ DIST \in Nat /\ JOIN_T \in Nat \ {0}
      /\ End \in Nat /\ End > start + 2 * JOIN_T + 2
  BY DistType, EndType DEF End, JoinStart
<1>2. x.des_f_dist \in Int
  BY DEF Truck
<1>3. CASE t < JOIN_T
  <2>1. "join" \in x.used /\ JoinAt(x, t + 1) /\ x.des_f_dist = dist - JoinRamp(t)
    BY <1>3 DEF JoinSecond
  <2>2. /\ y \in Truck /\ y.man_on /\ SameState(y, x) /\ y.man_des = 6
        /\ y.used = x.used /\ y.man_t = x.man_t + 1
    BY <1>1, <1>3, <2>1, AdvanceManeuver, ClockTypes, TickIs DEF JoinAt
  <2>3. y.man_dist_var2 = - JoinRamp(t + 1)
    BY <2>1, <2>2 DEF JoinAt, SameState
  <2>4. t \in 0 .. JOIN_T - 1
    BY <1>1, <1>3
  <2>5. JoinRamp(t + 1) \in Int /\ Small(dist - JoinRamp(t + 1), dist - JoinRamp(t))
    BY <2>4, JoinRampNext
  <2>6. CASE t + 1 < JOIN_T
    <3>0. dist + y.man_dist_var2 = dist - JoinRamp(t + 1)
      BY <2>3, <2>5
    <3>1. GoesOn(z, y, "join", 6, dist - JoinRamp(t + 1))
      BY <1>1, <2>2, <2>6, <3>0, JoinSecondIs
    <3>2. t + 1 \in 1 .. JOIN_T - 1
      BY <1>1, <2>6
    <3>3. JoinAt(w, (t + 1) + 1) /\ Carried(w, y, "join", dist - JoinRamp(t + 1))
      BY <2>1, <2>2, <3>1, <3>2, JoinGoesOn
    <3>4. /\ "join" \in w.used /\ w.des_f_dist = dist - JoinRamp(t + 1) /\ w.man_on
          /\ w.man_t - start = t + 1 /\ w.man_t = y.man_t
      BY <1>1, <2>2, <3>3 DEF Carried
    <3>5. Goes(w, x)
      BY <2>1, <2>5, <3>4 DEF Goes
    <3>. QED BY <2>6, <3>3, <3>4, <3>5 DEF JoinSecond
  <2>7. CASE t + 1 = JOIN_T
    <3>1. Over(z, y, dist - DIST)
      BY <1>1, <2>2, <2>7, JoinSecondIs
    <3>2. Cruising(w, dist - DIST) /\ w.man_t = x.man_t + 1 /\ w.man_on
      BY <2>2, <3>1, CruisesOver
    <3>3. w.man_t - start = t + 1 /\ w.man_t = y.man_t /\ ~(t + 1 < JOIN_T)
      BY <1>1, <2>2, <2>7, <3>2
    <3>4. Goes(w, x)
      BY <2>1, <2>5, <2>7, <3>2, JoinRampSteps DEF Goes, Cruising
    <3>. QED BY <3>2, <3>3, <3>4 DEF JoinSecond
  <2>. QED BY <1>1, <1>3, <2>6, <2>7
<1>4. CASE JOIN_T <= t
  <2>1. Cruising(x, dist - DIST)
    BY <1>1, <1>4 DEF JoinSecond
  <2>2. /\ y \in Truck /\ y.man_on /\ y.man_des = 7 /\ y.des_f_dist = dist - DIST
        /\ y.man_t >= x.man_t /\ y.man_t \in Int
    BY <2>1, AdvanceCruising, TickIs, ClockTypes
  <2>3. Cruising(w, dist - DIST) /\ w.man_t = y.man_t /\ w.man_on
    <3>1. CASE y.man_t < start + 2 * JOIN_T
      <4>1. Over(z, y, dist - DIST)
        BY <1>1, <1>4, <2>2, <3>1, JoinSecondIs
      <4>. QED BY <2>2, <4>1, CruisesOver
    <3>2. CASE start + 2 * JOIN_T <= y.man_t
      <4>1. z = y
        BY <2>2, <3>2, JoinSecondIs
      <4>. QED BY <2>2, <4>1, CruisesOn
    <3>. QED BY <1>1, <2>2, <3>1, <3>2
  <2>4. ~(w.man_t - start < JOIN_T)
    BY <1>1, <1>4, <2>2, <2>3
  <2>5. Goes(w, x)
    BY <1>2, <2>1, <2>3, SmallIs DEF Goes, Cruising
  <2>. QED BY <2>3, <2>4, <2>5 DEF JoinSecond
<1>. QED BY <1>1, <1>3, <1>4

LEMMA JoinLastStep ==
  ASSUME NEW x \in Truck, x.man_on, veh_id # 1, veh_id # 2,
         NEW start \in Int, start <= JoinStart,
         NEW dist \in Int, NEW t \in Nat, x.man_t = start + t, JoinLast(x, t, dist),
         NEW y, y = Advance(x), NEW z, z = JoinOneByOne(y, start, dist), NEW w, w = Turned(z)
  PROVE  Goes(w, x) /\ JoinLast(w, w.man_t - start, dist) /\ w.man_t = y.man_t
<1>1. /\ SPLIT_T \in Nat \ {0} /\ DIST \in Nat /\ JOIN_T \in Nat \ {0}
      /\ End \in Nat /\ End > start + 2 * JOIN_T + 2
  BY DistType, EndType DEF End, JoinStart
<1>2. x.des_f_dist \in Int
  BY DEF Truck
<1>3. CASE t < JOIN_T
  <2>1. "join" \notin x.used /\ x.join_d = t + 1 /\ Cruising(x, dist + JoinRamp(t + 1))
    BY <1>3 DEF JoinLast
  <2>2. /\ y \in Truck /\ y.man_on /\ SameState(y, x) /\ y.man_des = 7 /\ Fresh(y)
        /\ y.used = x.used /\ y.join_d = t + 1 /\ y.man_t = x.man_t + 1
    BY <1>1, <1>3, <2>1, AdvanceCruising, ClockTypes, TickIs
  <2>3. x.des_f_dist = dist + JoinRamp(t + 1)
    BY <2>1 DEF Cruising
  <2>4. CASE t + 1 < JOIN_T
    <3>1. Tick(y.join_d, JOIN_T + 1) = (t + 1) + 1
      BY <1>1, <2>2, <2>4 DEF Tick
    <3>2. YieldsCruising(z, y, (t + 1) + 1, dist + JoinRamp((t + 1) + 1))
      BY <1>1, <2>2, <2>4, <3>1, JoinLastIs
    <3>3. Cruising(w, dist + JoinRamp((t + 1) + 1)) /\ Keeps(w, z)
      BY <3>2, CruiseTurnIs DEF YieldsCruising
    <3>4. /\ "join" \notin w.used /\ w.join_d = (t + 1) + 1 /\ w.man_t = x.man_t + 1 /\ w.man_on
          /\ w.des_f_dist = dist + JoinRamp((t + 1) + 1)
      BY <2>1, <2>2, <3>2, <3>3 DEF Keeps, YieldsCruising
    <3>5. w.man_t - start = t + 1 /\ w.man_t = y.man_t /\ t + 1 \in 0 .. JOIN_T - 1
      BY <1>1, <2>2, <2>4, <3>4
    <3>6. Goes(w, x)
      BY <2>3, <3>4, <3>5, JoinRampNext DEF Goes
    <3>. QED BY <2>4, <3>3, <3>4, <3>5, <3>6 DEF JoinLast
  <2>5. CASE t + 1 = JOIN_T
    <3>1. GoesOn(z, y, "join", 6, dist + DIST + y.man_dist_var3)
      BY <1>1, <2>1, <2>2, <2>5, JoinLastIs
    <3>2. Fresh(x) /\ y.man_dist_var3 = 0
      BY <2>1, <2>2 DEF Fresh, Cruising
    <3>3. JoinAt(w, 1) /\ Carried(w, y, "join", dist + DIST + y.man_dist_var3)
      BY <2>2, <3>1, <3>2, JoinGoesOn
    <3>4. dist + DIST + y.man_dist_var3 = dist + DIST
      BY <1>1, <3>2
    <3>5. /\ "join" \in w.used /\ w.des_f_dist = dist + DIST /\ w.man_on
          /\ w.man_t - start = t + 1 /\ w.man_t = y.man_t
      BY <1>1, <2>2, <3>3, <3>4 DEF Carried
    <3>6. /\ ~(t + 1 < JOIN_T) /\ t + 1 < 2 * JOIN_T /\ (t + 1) - JOIN_T + 1 = 1
          /\ (t + 1) - JOIN_T = 0 /\ dist + DIST - 2 * JoinRamp(0) = dist + DIST
      BY <1>1, <2>5, JoinRampSteps
    <3>7. Goes(w, x)
      BY <1>2, <2>3, <2>5, <3>5, JoinRampSteps, SmallIs DEF Goes
    <3>. QED BY <3>3, <3>5, <3>6, <3>7 DEF JoinLast
  <2>. QED BY <1>1, <1>3, <2>4, <2>5
<1>4. CASE JOIN_T <= t /\ t < 2 * JOIN_T
  <2> DEFINE s == t - JOIN_T
  <2>1. /\ "join" \in x.used /\ JoinAt(x, s + 1)
        /\ x.des_f_dist = dist + DIST - 2 * JoinRamp(s)
    BY <1>1, <1>4 DEF JoinLast
  <2>2. s \in 0 .. JOIN_T - 1
    BY <1>1, <1>4
  <2>3. /\ y \in Truck /\ y.man_on /\ SameState(y, x) /\ y.man_des = 6
        /\ y.used = x.used /\ y.man_t = x.man_t + 1 /\ y.des_f_dist = x.des_f_dist
    BY <1>1, <1>4, <2>1, AdvanceManeuver, ClockTypes, TickIs DEF JoinAt
  <2>4. y.man_id2 = 0 /\ y.man_dist_var3 = - 2 * JoinRamp(s + 1)
    BY <2>1, <2>3 DEF JoinAt, SameState
  <2>5. /\ JoinRamp(s + 1) \in Int
        /\ Small(dist + DIST - 2 * JoinRamp(s + 1), dist + DIST - 2 * JoinRamp(s))
    <3> HIDE DEF s
    <3>1. PICK d \in Int : d = dist + DIST
      BY <1>1
    <3>2. Small(d - 2 * JoinRamp(s + 1), d - 2 * JoinRamp(s))
      BY <2>2, JoinRampNext
    <3>3. JoinRamp(s) \in Int /\ JoinRamp(s + 1) \in Int
      BY <2>2, JoinRampNext
    <3>. QED BY <1>1, <3>1, <3>2, <3>3
  <2>6. CASE t + 1 < 2 * JOIN_T
    <3>1. GoesOn(z, y, "join", 6, dist + DIST + y.man_dist_var3)
      BY <1>1, <1>4, <2>3, <2>6, JoinLastIs
    <3>2. dist + DIST + y.man_dist_var3 = dist + DIST - 2 * JoinRamp(s + 1)
      <4> HIDE DEF s
      <4>. QED BY <1>1, <2>4, <2>5
    <3>3. s + 1 \in 1 .. JOIN_T - 1 /\ (t + 1) - JOIN_T = s + 1 /\ ~(t + 1 < JOIN_T)
      BY <1>1, <1>4, <2>6
    <3> HIDE DEF s
    <3>4. JoinAt(w, (s + 1) + 1) /\ Carried(w, y, "join", dist + DIST - 2 * JoinRamp(s + 1))
      BY <2>1, <2>3, <3>1, <3>2, <3>3, JoinGoesOn
    <3>5. /\ "join" \in w.used /\ w.des_f_dist = dist + DIST - 2 * JoinRamp(s + 1) /\ w.man_on
          /\ w.man_t - start = t + 1 /\ w.man_t = y.man_t
      BY <1>1, <2>3, <3>4 DEF Carried
    <3>6. Goes(w, x)
      BY <2>1, <2>5, <3>5 DEF Goes
    <3>. QED BY <2>6, <3>3, <3>4, <3>5, <3>6 DEF JoinLast
  <2>7. CASE t + 1 = 2 * JOIN_T
    <3>1. s + 1 = JOIN_T /\ s = JOIN_T - 1 /\ ~(t + 1 < JOIN_T) /\ ~(t + 1 < 2 * JOIN_T)
      BY <1>1, <2>7
    <3> HIDE DEF s
    <3>2. z = y
      BY <1>1, <2>3, <2>4, <2>7, JoinLastIs
    <3>3. JoinDone(w) /\ Keeps(w, y)
      BY <2>1, <2>3, <3>1, <3>2, JoinTurnIs
    <3>4. /\ "join" \in w.used /\ w.des_f_dist = x.des_f_dist /\ w.man_on
          /\ w.man_t - start = t + 1 /\ w.man_t = y.man_t
      BY <1>1, <2>1, <2>3, <3>3 DEF Keeps
    <3>5. Goes(w, x)
      BY <1>2, <3>4, SmallIs DEF Goes
    <3>. QED BY <2>1, <2>7, <3>1, <3>3, <3>4, <3>5 DEF JoinLast
  <2>. QED BY <1>1, <1>4, <2>6, <2>7
<1>5. CASE t = 2 * JOIN_T
  <2>1. /\ "join" \in x.used /\ JoinDone(x)
        /\ x.des_f_dist = dist + DIST - 2 * JoinRamp(JOIN_T - 1)
    BY <1>1, <1>5 DEF JoinLast
  <2>2. /\ y \in Truck /\ y.man_on /\ SameState(y, x) /\ y.man_des = 6
        /\ y.used = x.used /\ y.man_t = x.man_t + 1
    BY <1>1, <1>5, <2>1, AdvanceManeuver, ClockTypes, TickIs DEF JoinDone
  <2>3. y.man_id2 = 1
    BY <2>1, <2>2 DEF JoinDone, SameState
  <2>4. Over(z, y, dist - DIST)
    BY <1>1, <1>5, <2>2, <2>3, JoinLastIs
  <2>5. Cruising(w, dist - DIST) /\ w.used = x.used /\ w.man_t = x.man_t + 1 /\ w.man_on
    BY <2>2, <2>4, CruisesOver
  <2>6. /\ w.man_t - start = 2 * JOIN_T + 1 /\ w.man_t = y.man_t /\ ~(2 * JOIN_T + 1 < JOIN_T)
        /\ ~(2 * JOIN_T + 1 < 2 * JOIN_T) /\ 2 * JOIN_T + 1 # 2 * JOIN_T
    BY <1>1, <1>5, <2>2, <2>5
  <2>7. Small(dist - DIST, dist + DIST - 2 * JoinRamp(JOIN_T - 1))
    <3>0. PICK d \in Int : d = dist + DIST
      BY <1>1
    <3>1. JOIN_T - 1 \in 0 .. JOIN_T - 1 /\ (JOIN_T - 1) + 1 = JOIN_T
      BY <1>1
    <3>4. Small(d - 2 * JoinRamp(JOIN_T), d - 2 * JoinRamp(JOIN_T - 1))
      BY <3>1, JoinRampNext
    <3>2. Small(dist + DIST - 2 * JoinRamp(JOIN_T), dist + DIST - 2 * JoinRamp(JOIN_T - 1))
      BY <1>1, <3>0, <3>4, JoinRampSteps
    <3>3. dist + DIST - 2 * JoinRamp(JOIN_T) = dist - DIST
      BY <1>1, JoinRampSteps
    <3>. QED BY <3>2, <3>3
  <2>8. Goes(w, x)
    BY <2>1, <2>5, <2>7 DEF Goes, Cruising
  <2>. QED BY <2>1, <2>5, <2>6, <2>8 DEF JoinLast
<1>6. CASE 2 * JOIN_T < t
  <2>1. "join" \in x.used /\ Cruising(x, dist - DIST)
    BY <1>1, <1>6 DEF JoinLast
  <2>2. /\ y \in Truck /\ y.man_on /\ y.man_des = 7 /\ y.des_f_dist = dist - DIST
        /\ y.man_t >= x.man_t /\ y.man_t \in Int /\ y.used = x.used
    BY <2>1, AdvanceCruising, TickIs, ClockTypes
  <2>3. z = y
    BY <1>1, <1>6, <2>2, JoinLastIs
  <2>4. Cruising(w, dist - DIST) /\ w.used = x.used /\ w.man_t = y.man_t /\ w.man_on
    BY <2>2, <2>3, CruisesOn
  <2>5. /\ ~(w.man_t - start < JOIN_T) /\ ~(w.man_t - start < 2 * JOIN_T)
        /\ w.man_t - start # 2 * JOIN_T
    BY <1>1, <1>6, <2>2, <2>4
  <2>6. Goes(w, x)
    BY <1>2, <2>1, <2>4, SmallIs DEF Goes, Cruising
  <2>. QED BY <2>1, <2>4, <2>5, <2>6 DEF JoinLast
<1>. QED BY <1>1, <1>3, <1>4, <1>5, <1>6

LEMMA JoinTurnStep ==
  ASSUME NEW x \in Truck, x.man_on, veh_id # 1, NEW start \in Int, start <= JoinStart,
         start <= x.man_t, NEW dist \in Int, JoinTurn(x, start, dist),
         NEW y, y = Advance(x), NEW z, z = JoinOneByOne(y, start, dist), NEW w, w = Turned(z)
  PROVE  Goes(w, x) /\ JoinTurn(w, start, dist) /\ w.man_t = y.man_t
<1>1. PICK t \in Nat : t = x.man_t - start
  BY ClockTypes
<1>2. x.man_t = start + t
  BY <1>1, ClockTypes
<1>3. CASE veh_id = 2
  <2>1. JoinSecond(x, t, dist)
    BY <1>1, <1>3 DEF JoinTurn
  <2>2. Goes(w, x) /\ JoinSecond(w, w.man_t - start, dist) /\ w.man_t = y.man_t
    BY <1>2, <1>3, <2>1, JoinSecondStep
  <2>. QED BY <1>3, <2>2 DEF JoinTurn
<1>4. CASE veh_id # 2
  <2>1. JoinLast(x, t, dist)
    BY <1>1, <1>4 DEF JoinTurn
  <2>2. Goes(w, x) /\ JoinLast(w, w.man_t - start, dist) /\ w.man_t = y.man_t
    BY <1>2, <1>4, <2>1, JoinLastStep
  <2>. QED BY <1>4, <2>2 DEF JoinTurn
<1>. QED BY <1>3, <1>4

LEMMA SplitTurnStep ==
  ASSUME NEW x \in Truck, x.man_on, veh_id # 1, SplitTurn(x),
         NEW y, y = Advance(x), NEW z, z = SplitOneByOne(y), NEW w, w = Turned(z)
  PROVE  Goes(w, x) /\ SplitTurn(w) /\ w.man_t = y.man_t
<1>1. x.man_t \in Int /\ CRUISE_T \in Int /\ SPLIT_T \in Int
  BY ClockTypes, DistType
<1>2. PICK t \in Int : t = x.man_t - CRUISE_T
  BY <1>1
<1>3. PICK s \in Int : s = x.man_t - CRUISE_T - SPLIT_T
  BY <1>1
<1>4. x.man_t = CRUISE_T + t /\ x.man_t = CRUISE_T + SPLIT_T + s
  BY <1>1, <1>2, <1>3
<1>5. CASE veh_id = 2
  <2>1. SplitSecond(x, s)
    BY <1>3, <1>5 DEF SplitTurn
  <2>2. Goes(w, x) /\ SplitSecond(w, w.man_t - CRUISE_T - SPLIT_T) /\ w.man_t = y.man_t
    BY <1>4, <1>5, <2>1, SplitSecondStep
  <2>. QED BY <1>5, <2>2 DEF SplitTurn
<1>6. CASE veh_id # 2
  <2>1. SplitLast(x, t)
    BY <1>2, <1>6 DEF SplitTurn
  <2>2. Goes(w, x) /\ SplitLast(w, w.man_t - CRUISE_T) /\ w.man_t = y.man_t
    BY <1>4, <1>6, <2>1, SplitLastStep
  <2>. QED BY <1>6, <2>2 DEF SplitTurn
<1>. QED BY <1>5, <1>6

LEMMA SplitTurnTaskStep ==
  ASSUME NEW x \in Truck, x.man_on, veh_id # 1, task = 6, Course(x),
         NEW y, y = Advance(x), NEW z, z = ForTask(y), NEW w, w = Turned(z)
  PROVE  Goes(w, x) /\ Course(w)
<1>1. z = SplitOneByOne(y)
  BY DEF ForTask
<1>2. SplitTurn(x)
  BY DEF Course
<1>. QED BY <1>1, <1>2, SplitTurnStep DEF Course

LEMMA JoinTurnTaskStep ==
  ASSUME NEW x \in Truck, x.man_on, veh_id # 1, task = 7, Course(x),
         NEW y, y = Advance(x), NEW z, z = ForTask(y), NEW w, w = Turned(z)
  PROVE  Goes(w, x) /\ Course(w)
<1>1. \A dist : dist = 0 => z = JoinOneByOne(y, CRUISE_T, dist)
  BY DEF ForTask
<1>2. PICK dist \in Int : dist = 0
  OBVIOUS
<1>3. z = JoinOneByOne(y, CRUISE_T, dist)
  BY <1>1, <1>2
<1>4. CRUISE_T \in Int /\ CRUISE_T <= JoinStart /\ CRUISE_T < End /\ End \in Int
  BY DistType, EndType DEF JoinStart
<1>5. CASE x.man_t < CRUISE_T
  <2>1. Waiting(x)
    BY <1>5 DEF Course
  <2>2. /\ y \in Truck /\ y.man_on /\ SameState(y, x) /\ y.man_des = 7 /\ Fresh(y)
        /\ y.used = {} /\ y.des_f_dist = 0 /\ y.split_d = 0 /\ y.join_d = 0
        /\ y.man_t \in Nat \ {0} /\ y.cruise_t \in Nat \ {0}
        /\ y.man_t = x.man_t + 1 /\ y.man_t <= y.cruise_t + 1
    BY <1>4, <1>5, <2>1, AdvanceWaiting, ClockTypes, TickIs, DistType
  <2>3. x.des_f_dist = 0
    BY <2>1 DEF Waiting, Idle
  <2>4. CASE y.man_t < CRUISE_T
    <3>1. z = y
      BY <1>3, <2>4 DEF JoinOneByOne
    <3>2. Waiting(w) /\ Keeps(w, y)
      BY <2>2, <3>1, StillWaiting
    <3>3. Goes(w, x) /\ w.man_t < CRUISE_T
      BY <2>2, <2>3, <2>4, <3>2, SmallIs DEF Goes, Keeps
    <3>. QED BY <3>2, <3>3 DEF Course
  <2>5. CASE y.man_t = CRUISE_T
    <3>1. /\ JoinTurn(w, CRUISE_T, dist) /\ w.man_t = CRUISE_T /\ w.man_on
          /\ Small(w.des_f_dist, dist)
      BY <1>2, <1>3, <1>4, <2>2, <2>5, JoinTurnBegins
    <3>2. ~(w.man_t < CRUISE_T)
      BY <1>4, <3>1
    <3>. QED BY <1>2, <2>3, <3>1, <3>2 DEF Course, Goes
  <2>. QED BY <1>4, <1>5, <2>2, <2>4, <2>5, ClockTypes
<1>6. CASE ~(x.man_t < CRUISE_T)
  <2>1. JoinTurn(x, CRUISE_T, dist) /\ CRUISE_T <= x.man_t
    BY <1>2, <1>4, <1>6, ClockTypes DEF Course
  <2>2. Goes(w, x) /\ JoinTurn(w, CRUISE_T, dist) /\ w.man_t = y.man_t
    BY <1>3, <1>4, <2>1, JoinTurnStep
  <2>3. y.man_t = Tick(x.man_t, End)
    BY AdvanceIs
  <2>4. ~(w.man_t < CRUISE_T)
    BY <1>4, <2>1, <2>2, <2>3, TickIs, ClockTypes
  <2>. QED BY <1>2, <2>2, <2>4 DEF Course
<1>. QED BY <1>5, <1>6

\* When its second half begins, the first half of task 8 is over.
LEMMA ReadyToJoin ==
  ASSUME NEW x \in Truck, veh_id # 1, SplitTurn(x), x.man_t = JoinStart - 1
  PROVE  Cruising(x, DIST) /\ x.used = {"split"} /\ (veh_id = 2 \/ x.join_d = 0)
<1>1. CRUISE_T \in Nat /\ CRUISE_T > 2 /\ SPLIT_T \in Nat \ {0}
  BY DistType, CruiseAssumption
<1>2. CASE veh_id = 2
  <2>1. PICK t \in Int : t = x.man_t - CRUISE_T - SPLIT_T
    BY <1>1, ClockTypes
  <2>2. t > SPLIT_T + 1
    BY <1>1, <2>1 DEF JoinStart
  <2>3. SplitSecond(x, t)
    BY <1>2, <2>1 DEF SplitTurn
  <2>4. ~(t < - SPLIT_T) /\ ~(t < 0) /\ ~(t < SPLIT_T) /\ t # SPLIT_T /\ t # SPLIT_T + 1
    BY <1>1, <2>2
  <2>. QED BY <1>2, <2>3, <2>4 DEF SplitSecond
<1>3. CASE veh_id # 2
  <2>1. PICK t \in Int : t = x.man_t - CRUISE_T
    BY <1>1, ClockTypes
  <2>2. t > 2 * SPLIT_T
    BY <1>1, <2>1 DEF JoinStart
  <2>3. SplitLast(x, t)
    BY <1>3, <2>1 DEF SplitTurn
  <2>4. ~(t < 0) /\ ~(t < SPLIT_T) /\ ~(t < 2 * SPLIT_T) /\ t # 2
    BY <1>1, <2>2
  <2>. QED BY <2>3, <2>4 DEF SplitLast
<1>. QED BY <1>2, <1>3

LEMMA OneByOneTaskStep ==
  ASSUME NEW x \in Truck, x.man_on, veh_id # 1, task = 8, Course(x),
         NEW y, y = Advance(x), NEW z, z = ForTask(y), NEW w, w = Turned(z)
  PROVE  Goes(w, x) /\ Course(w)
<1>1. z = IF y.man_t < JoinStart THEN SplitOneByOne(y) ELSE JoinOneByOne(y, JoinStart, DIST)
  BY DEF ForTask, JoinStart
<1>2. JoinStart \in Int /\ JoinStart <= JoinStart /\ JoinStart < End /\ End \in Int /\ DIST \in Int
  BY DistType, EndType DEF JoinStart
<1>3. y \in Truck /\ y.man_on /\ y.man_t = Tick(x.man_t, End)
  BY AdvanceIs
<1>4. PICK d \in Int : d = DIST
  BY <1>2
<1>5. PICK start \in Int : start = JoinStart
  BY <1>2
<1>6. start <= JoinStart
  BY <1>2, <1>5
<1>7. CASE x.man_t < JoinStart
  <2>1. SplitTurn(x)
    BY <1>7 DEF Course
  <2>2. y.man_t = x.man_t + 1
    BY <1>2, <1>3, <1>7, TickIs, ClockTypes
  <2>3. CASE y.man_t < JoinStart
    <3>1. z = SplitOneByOne(y)
      BY <1>1, <2>3
    <3>2. Goes(w, x) /\ SplitTurn(w) /\ w.man_t = y.man_t
      BY <2>1, <3>1, SplitTurnStep
    <3>. QED BY <2>3, <3>2 DEF Course
  <2>4. CASE ~(y.man_t < JoinStart)
    <3>1. x.man_t = JoinStart - 1 /\ y.man_t = start
      BY <1>2, <1>5, <1>7, <2>2, <2>4, ClockTypes
    <3>2. Cruising(x, DIST) /\ x.used = {"split"} /\ (veh_id = 2 \/ x.join_d = 0)
      BY <2>1, <3>1, ReadyToJoin
    <3>3. /\ y \in Truck /\ y.man_on /\ y.man_des = 7 /\ Fresh(y) /\ "join" \notin y.used
          /\ y.des_f_dist = d /\ (veh_id = 2 \/ y.join_d = 0)
      BY <1>4, <3>2, AdvanceCruising
    <3>4. z = JoinOneByOne(y, start, d)
      BY <1>1, <1>4, <1>5, <2>4
    <3>5. /\ JoinTurn(w, start, d) /\ w.man_t = start /\ w.man_on
          /\ Small(w.des_f_dist, d)
      BY <3>1, <3>3, <3>4, JoinTurnBegins
    <3>6. ~(w.man_t < JoinStart)
      BY <1>2, <1>5, <3>5
    <3>7. x.des_f_dist = d
      BY <1>4, <3>2 DEF Cruising
    <3>. QED BY <1>4, <1>5, <3>5, <3>6, <3>7 DEF Course, Goes
  <2>. QED BY <2>3, <2>4
<1>8. CASE ~(x.man_t < JoinStart)
  <2>1. JoinTurn(x, start, d) /\ start <= x.man_t
    BY <1>2, <1>4, <1>5, <1>8, ClockTypes DEF Course
  <2>2. ~(y.man_t < JoinStart)
    BY <1>2, <1>3, <1>8, TickIs, ClockTypes
  <2>3. z = JoinOneByOne(y, start, d)
    BY <1>1, <1>4, <1>5, <2>2
  <2>4. Goes(w, x) /\ JoinTurn(w, start, d) /\ w.man_t = y.man_t
    BY <1>6, <2>1, <2>3, JoinTurnStep
  <2>. QED BY <1>4, <1>5, <2>2, <2>4 DEF Course
<1>. QED BY <1>7, <1>8

LEMMA CourseStep ==
  ASSUME NEW x \in Truck, x.man_on, veh_id # 1, task \in 3 .. 8, Course(x),
         NEW y, y = Advance(x), NEW z, z = ForTask(y), NEW w, w = Turned(z)
  PROVE  Goes(w, x) /\ Course(w)
BY SplitTaskStep, JoinTaskStep, BothTaskStep, SplitTurnTaskStep, JoinTurnTaskStep,
   OneByOneTaskStep
-----------------------------------------------------------------------------
\* A truck that waits, or has not cruised yet, is left to its speed.
LEMMA ForTaskWaits ==
  ASSUME NEW y \in Truck, task \in 3 .. 8, y.man_des \notin {6, 8}, y.cruise_t <= CRUISE_T,
         y.man_t < CRUISE_T
  PROVE  ForTask(y) = y
<1>1. /\ y.man_t \in Int /\ y.cruise_t \in Int /\ DIST \in Int
      /\ CRUISE_T \in Nat /\ SPLIT_T \in Nat /\ 3 * CRUISE_T \in Int
  BY ClockTypes, DistType
<1>2. Split(y) = y
  BY SplitIs
<1>3. ASSUME NEW c \in Int, c >= CRUISE_T, NEW d \in Int
      PROVE  Join(y, c, d) = y
  BY <1>1, <1>3, JoinIs
<1>4. SplitOneByOne(y) = y
  BY DEF SplitOneByOne
<1>5. CASE task = 3
  BY <1>2, <1>5 DEF ForTask
<1>6. CASE task = 4
  <2>1. PICK d \in Int : d = 0
    OBVIOUS
  <2>2. Join(y, CRUISE_T, 0) = y
    BY <1>1, <1>3, <2>1
  <2>. QED BY <1>6, <2>2 DEF ForTask
<1>7. CASE task = 5
  <2>1. Join(y, 3 * CRUISE_T, DIST) = y
    BY <1>1, <1>3
  <2>. QED BY <1>2, <1>7, <2>1 DEF ForTask
<1>8. CASE task = 6
  BY <1>4, <1>8 DEF ForTask
<1>9. CASE task = 7
  <2>1. JoinOneByOne(y, CRUISE_T, 0) = y
    BY DEF JoinOneByOne
  <2>. QED BY <1>9, <2>1 DEF ForTask
<1>10. CASE task = 8
  <2>1. y.man_t < 2 * (CRUISE_T + SPLIT_T)
    BY <1>1
  <2>. QED BY <1>4, <1>10, <2>1 DEF ForTask
<1>. QED BY <1>5, <1>6, <1>7, <1>8, <1>9, <1>10

LEMMA WaitingOnCourse ==
  ASSUME NEW x, task \in 3 .. 8, Waiting(x), x.cruise_t <= CRUISE_T,
         x.man_t \in Int, x.man_t < CRUISE_T
  PROVE  Course(x)
<1>1. x.man_t \in Int /\ CRUISE_T \in Nat /\ SPLIT_T \in Nat \ {0}
  BY DistType
<1>2. x.man_t - CRUISE_T < 0 /\ x.man_t - CRUISE_T - SPLIT_T < - SPLIT_T
  BY <1>1
<1>3. SplitTurn(x)
  BY <1>2 DEF SplitTurn, SplitSecond, SplitLast
<1>4. x.man_t < JoinStart
  BY <1>1 DEF JoinStart
<1>5. SplitCourse(x)
  BY DEF SplitCourse
<1>6. CASE task = 3
  BY <1>5, <1>6 DEF Course
<1>7. CASE task = 4
  BY <1>7 DEF Course
<1>8. CASE task = 5
  BY <1>5, <1>8 DEF Course
<1>9. CASE task = 6
  BY <1>3, <1>9 DEF Course
<1>10. CASE task = 7
  BY <1>10 DEF Course
<1>11. CASE task = 8
  BY <1>3, <1>4, <1>11 DEF Course
<1>. QED BY <1>6, <1>7, <1>8, <1>9, <1>10, <1>11

LEMMA SpeedSets ==
  ASSUME NEW x \in Truck, NEW m \in Maneuver, NEW c \in 0 .. 3 * CRUISE_T + 1,
         NEW s, s = [x EXCEPT !.man_des = m, !.cruise_t = c]
  PROVE  s \in Truck
BY DEF Truck

\* The speed sets the maneuver of a truck that has not cruised yet.
LEMMA ForSpeedIs ==
  ASSUME NEW x \in Truck, Before(x), NEW speed \in {"below", "at", "above"},
         NEW s, s = ForSpeed(x, speed)
  PROVE  /\ s \in Truck /\ SameState(s, x) /\ SameTime(s, x)
         /\ s.man_des \in {0, 1, 3, 7, 27} /\ s.used = x.used /\ s.des_f_dist = x.des_f_dist
         /\ s.cruise_t = 0 /\ (x.man_id1 = 7 => s.man_des \in {3, 7, 27})
<1>1. x.cruise_t = 0 /\ x.man_des \in {0, 1, 3, 7, 27} /\ x.man_id1 = x.man_des
  BY DEF Before, Idle
<1>2. ASSUME NEW m \in {0, 1, 3, 7, 27}, x.man_id1 = 7 => m \in {3, 7, 27},
             s = [x EXCEPT !.man_des = m, !.cruise_t = 0]
      PROVE  /\ s \in Truck /\ SameState(s, x) /\ SameTime(s, x)
             /\ s.man_des \in {0, 1, 3, 7, 27} /\ s.used = x.used /\ s.des_f_dist = x.des_f_dist
             /\ s.cruise_t = 0 /\ (x.man_id1 = 7 => s.man_des \in {3, 7, 27})
  <2>1. PICK c \in 0 .. 3 * CRUISE_T + 1 : c = 0
    BY DistType
  <2>2. s \in Truck
    <3>1. m \in Maneuver
      BY DEF Maneuver
    <3>2. s = [x EXCEPT !.man_des = m, !.cruise_t = c]
      BY <1>2, <2>1
    <3>. QED BY <3>1, <3>2, SpeedSets
  <2>3. SameState(s, x) /\ SameTime(s, x)
    BY <1>2 DEF Truck, SameState, SameTime
  <2>4. s.man_des = m /\ s.cruise_t = 0 /\ s.used = x.used /\ s.des_f_dist = x.des_f_dist
    BY <1>2 DEF Truck
  <2>. QED BY <1>2, <2>2, <2>3, <2>4
<1>3. CASE speed = "below"
  <2>1. PICK m \in {0, 1, 3, 7, 27} : m = 3
    OBVIOUS
  <2>2. s = [x EXCEPT !.man_des = m, !.cruise_t = 0]
    BY <1>3, <2>1 DEF ForSpeed
  <2>. QED BY <1>2, <2>1, <2>2
<1>4. CASE speed = "above"
  <2>1. PICK m \in {0, 1, 3, 7, 27} : m = 27
    OBVIOUS
  <2>2. s = [x EXCEPT !.man_des = m, !.cruise_t = 0]
    BY <1>4, <2>1 DEF ForSpeed
  <2>. QED BY <1>2, <2>1, <2>2
<1>5. CASE speed = "at"
  <2>1. PICK m \in {0, 1, 3, 7, 27} : m = IF x.man_id1 \in {3, 27} THEN 7 ELSE x.man_des
    BY <1>1
  <2>2. s = [x EXCEPT !.man_des = m]
    BY <1>5, <2>1 DEF ForSpeed
  <2>3. m \in Maneuver
    BY DEF Maneuver
  <2>4. x.man_id1 = 7 => m = 7
    BY <1>1, <2>1
  <2>. QED BY <1>1, <2>2, <2>3, <2>4 DEF Truck, SameState, SameTime
<1>. QED BY <1>3, <1>4, <1>5

\* A truck rests, takes up its speed, and then cruises for the first time.
LEMMA BeforeStep ==
  ASSUME NEW x \in Truck, veh_id # 1, task \in 3 .. 8, ~x.man_on, Before(x),
         NEW speed \in {"below", "at", "above"},
         NEW z, NEW w, w = Turned(z)
  PROVE  /\ z = [x EXCEPT !.man_des = 1] =>
              Before(w) /\ w.man_des = 1 /\ w.des_f_dist = 0
         /\ z = ForTask(Cruised(ForSpeed(x, speed))) =>
              /\ w.des_f_dist = 0
              /\ IF w.man_on THEN Course(w) ELSE Before(w)
<1>1. /\ Fresh(x) /\ x.used = {} /\ x.split_d = 0 /\ x.join_d = 0 /\ x.des_f_dist = 0
      /\ x.man_id1 = x.man_des /\ x.man_t = 0 /\ x.cruise_t = 0
      /\ x.man_des \in {0, 1, 3, 7, 27}
  BY DEF Before, Idle
<1>2. CRUISE_T \in Nat /\ CRUISE_T > 2 /\ End \in Nat /\ End > 2
  BY DistType, CruiseAssumption, EndType
<1>3. ASSUME z = [x EXCEPT !.man_des = 1]
      PROVE  Before(w) /\ w.man_des = 1 /\ w.des_f_dist = 0
  <2>1. /\ z \in Truck /\ Fresh(z) /\ z.used = {} /\ z.split_d = 0 /\ z.join_d = 0
        /\ z.des_f_dist = 0 /\ z.man_t = 0 /\ z.cruise_t = 0 /\ ~z.man_on /\ z.man_des = 1
    BY <1>1, <1>3 DEF Truck, Maneuver, Fresh
  <2>2. Fresh(w) /\ Keeps(w, z) /\ w.man_des = 1 /\ w.man_id1 = 1
    BY <2>1, IdleTurn DEF Turned
  <2>. QED BY <2>1, <2>2 DEF Before, Idle, Keeps
<1>4. ASSUME z = ForTask(Cruised(ForSpeed(x, speed)))
      PROVE  /\ w.des_f_dist = 0
             /\ IF w.man_on THEN Course(w) ELSE Before(w)
  <2> DEFINE s == ForSpeed(x, speed)
             c == Cruised(s)
  <2>1. /\ s \in Truck /\ SameState(s, x) /\ SameTime(s, x)
        /\ s.man_des \in {0, 1, 3, 7, 27} /\ s.used = x.used /\ s.des_f_dist = x.des_f_dist
        /\ s.cruise_t = 0 /\ (x.man_id1 = 7 => s.man_des \in {3, 7, 27})
    BY ForSpeedIs
  <2> HIDE DEF s
  <2>2. /\ s.man_id1 = x.man_id1 /\ ~s.man_on /\ s.man_t = 0 /\ s.split_d = 0 /\ s.join_d = 0
        /\ Fresh(s) /\ s.used = {} /\ s.des_f_dist = 0
    BY <1>1, <2>1 DEF SameState, SameTime, Fresh
  <2>3. /\ c \in Truck /\ SameState(c, s)
        /\ c.man_on = (s.man_on \/ s.man_id1 = 7)
        /\ c.man_t = IF s.man_on \/ s.man_id1 = 7 THEN Tick(s.man_t, End) ELSE s.man_t
        /\ c.cruise_t = IF s.man_id1 = 7 THEN Tick(s.cruise_t, 3 * CRUISE_T + 1) ELSE s.cruise_t
        /\ c.man_des = s.man_des /\ c.used = s.used /\ c.des_f_dist = s.des_f_dist
        /\ c.split_d = s.split_d /\ c.join_d = s.join_d
    BY <2>1, CruisedIs
  <2> HIDE DEF c
  <2>4. z = ForTask(c)
    BY <1>4 DEF c, s
  <2>5. Fresh(c) /\ c.used = {} /\ c.split_d = 0 /\ c.join_d = 0 /\ c.des_f_dist = 0
    BY <2>2, <2>3 DEF SameState, Fresh
  <2>6. IF x.man_id1 = 7 THEN c.man_t = 1 /\ c.cruise_t = 1
                         ELSE c.man_t = 0 /\ c.cruise_t = 0
    BY <1>2, <2>1, <2>2, <2>3 DEF Tick
  <2>7. z = c
    <3>1. c.man_des \notin {6, 8} /\ c.cruise_t <= CRUISE_T /\ c.man_t < CRUISE_T
      BY <1>2, <2>1, <2>3, <2>6
    <3>. QED BY <2>3, <2>4, <3>1, ForTaskWaits
  <2>8. Fresh(w) /\ Keeps(w, c) /\ w.man_des = c.man_des /\ w.man_id1 = c.man_des
    <3>1. CASE c.man_des = 7
      BY <2>3, <2>7, <3>1, CruiseTurnIs DEF Cruising
    <3>2. CASE c.man_des # 7
      BY <2>1, <2>3, <2>5, <2>7, <3>2, IdleTurn DEF Turned
    <3>. QED BY <3>1, <3>2
  <2>9. Idle(w) /\ w.man_t = c.man_t /\ w.cruise_t = c.cruise_t /\ w.man_on = c.man_on
        /\ w.des_f_dist = 0
    BY <2>5, <2>8 DEF Idle, Keeps
  <2>10. CASE x.man_id1 = 7
    <3>1. w.man_des \in {3, 7, 27} /\ w.man_t = 1 /\ w.cruise_t = 1
      BY <2>1, <2>3, <2>6, <2>8, <2>9, <2>10
    <3>2. w.man_on
      BY <2>2, <2>3, <2>9, <2>10
    <3>3. Waiting(w)
      BY <2>9, <3>1 DEF Waiting
    <3>4. Course(w)
      BY <1>2, <3>1, <3>3, WaitingOnCourse
    <3>. QED BY <2>9, <3>2, <3>4
  <2>11. CASE x.man_id1 # 7
    <3>1. ~w.man_on
      BY <2>2, <2>3, <2>9, <2>11
    <3>2. Before(w)
      BY <2>1, <2>3, <2>6, <2>8, <2>9, <2>11, <3>1 DEF Before
    <3>. QED BY <2>9, <3>1, <3>2
  <2>. QED BY <2>10, <2>11
<1>. QED BY <1>3, <1>4

\* The leader's distance is left alone.
LEMMA LeaderTurn ==
  ASSUME veh_id = 1, NEW x \in Truck, NEW t, NEW speed \in {"below", "at", "above"},
         NEW stop, ~stop, NEW z, z = Normal(x, t, speed, stop), NEW w, w = Turned(z)
  PROVE  w.des_f_dist = x.des_f_dist
<1>1. z \in {[x EXCEPT !.man_des = 0], [x EXCEPT !.man_des = 1], ForSpeed(x, speed)}
  BY DEF Normal
<1>2. z \in Truck /\ z.des_f_dist = x.des_f_dist
  <2>1. [x EXCEPT !.man_des = 0] \in Truck /\ [x EXCEPT !.man_des = 0].des_f_dist = x.des_f_dist
    BY DEF Truck, Maneuver
  <2>2. [x EXCEPT !.man_des = 1] \in Truck /\ [x EXCEPT !.man_des = 1].des_f_dist = x.des_f_dist
    BY DEF Truck, Maneuver
  <2>3. ForSpeed(x, speed) \in Truck /\ ForSpeed(x, speed).des_f_dist = x.des_f_dist
    <3>1. 0 \in 0 .. 3 * CRUISE_T + 1
      BY DistType
    <3>2. CASE speed = "below"
      BY <3>1, <3>2 DEF ForSpeed, Truck, Maneuver
    <3>3. CASE speed = "above"
      BY <3>1, <3>3 DEF ForSpeed, Truck, Maneuver
    <3>4. CASE speed = "at"
      BY <3>4 DEF ForSpeed, Truck, Maneuver
    <3>. QED BY <3>2, <3>3, <3>4
  <2>. QED BY <1>1, <2>1, <2>2, <2>3
<1> DEFINE y == [z EXCEPT !.man_id1 = z.man_des]
<1>3. y \in Truck /\ y.des_f_dist = z.des_f_dist /\ y.man_des = z.man_des
  BY <1>2, Noted DEF Keeps
<1>4. w = CASE y.man_des \in {0, 1} -> Resting(y)
            [] y.man_des \in {27, 29} -> Decelerating(y)
            [] y.man_des = 3 -> Accelerating(y)
            [] y.man_des = 6 -> IF veh_id = 1 THEN y ELSE Joining(y, FALSE)
            [] y.man_des = 7 -> CruiseOn(Apart(y, 0))
            [] y.man_des = 8 -> IF veh_id = 1 THEN y ELSE Splitting(y, FALSE)
            [] y.man_des = 13 -> EmergencySplitting(y)
  BY DEF Turned, maneuver
<1> HIDE DEF y
<1>5. \A u, d : Apart(u, d) = u
  BY DEF Apart
<1>6. Resting(y) = y /\ Decelerating(y) = y /\ Accelerating(y) = y
  BY <1>5 DEF Resting, Decelerating, Accelerating
<1>7. CruiseOn(Apart(y, 0)).des_f_dist = y.des_f_dist
  <2>1. CruiseOn(y).des_f_dist = y.des_f_dist
    BY <1>3 DEF CruiseOn, Truck
  <2>. QED BY <1>5, <2>1
<1>8. EmergencySplitting(y).des_f_dist = y.des_f_dist
  <2> DEFINE u == IF "e_split" \in y.sampled THEN y ELSE Sampled(y, "e_split")
  <2>1. u \in Truck /\ u.des_f_dist = y.des_f_dist
    BY <1>3 DEF Truck, Sampled
  <2>2. EmergencySplitting(y) \in {[u EXCEPT !.e_split_t = @ + 1], [y EXCEPT !.man_id2 = 1]}
    BY <1>5 DEF EmergencySplitting
  <2> HIDE DEF u
  <2>3. [u EXCEPT !.e_split_t = @ + 1].des_f_dist = y.des_f_dist
    BY <2>1 DEF Truck
  <2>4. [y EXCEPT !.man_id2 = 1].des_f_dist = y.des_f_dist
    BY <1>3 DEF Truck
  <2>. QED BY <2>2, <2>3, <2>4
<1>9. y.man_des \in Maneuver
  BY <1>3 DEF Truck
<1>10. w \in {y, CruiseOn(Apart(y, 0)), EmergencySplitting(y)}
  BY <1>4, <1>6, <1>9 DEF Maneuver
<1>. QED BY <1>2, <1>3, <1>7, <1>8, <1>10

LEMMA CourseKept ==
  ASSUME NEW x, task \in 3 .. 8, task' = task, veh_id' = veh_id, Course(x)
  PROVE  Course(x)'
<1>1. SplitTurn(x) => SplitTurn(x)'
  BY DEF SplitTurn
<1>2. /\ JoinTurn(x, CRUISE_T, 0) => JoinTurn(x, CRUISE_T, 0)'
      /\ JoinTurn(x, JoinStart, DIST) => JoinTurn(x, JoinStart, DIST)'
  BY DEF JoinTurn
<1>3. CASE task = 6
  BY <1>1, <1>3 DEF Course
<1>4. CASE task = 7
  BY <1>2, <1>4 DEF Course
<1>5. CASE task = 8
  BY <1>1, <1>2, <1>5 DEF Course
<1>6. CASE task = 3
  BY <1>6 DEF Course
<1>7. CASE task = 4
  BY <1>7 DEF Course
<1>8. CASE task = 5
  BY <1>8 DEF Course
<1>. QED BY <1>3, <1>4, <1>5, <1>6, <1>7, <1>8

\* One cycle of a truck that is not disturbed.
LEMMA CourseCycle ==
  ASSUME Inv, OnCourse, NEW speed \in {"below", "at", "above"}, NEW fault \in Fault,
         NEW refused \in BOOLEAN, Cycle(speed, fault, refused)
  PROVE  OnCourse' /\ (steady' => Small(v'.des_f_dist, v.des_f_dist))
<1>1. CASE ~steady'
  BY <1>1 DEF OnCourse
<1>2. CASE steady'
  <2>1. steady /\ fault < 2 /\ ~refused /\ ~past' /\ (v.man_on => speed = "at")
    BY <1>2, Zenon DEF Cycle
  <2>2. fault \notin {2, 3} /\ refused = FALSE
    BY <2>1, FaultAssumption
  <2>3. /\ v \in Truck /\ v.des_f_dist \in Int /\ veh_id \in 1 .. 3 /\ task \in 3 .. 8
        /\ time \in 0 .. t_wait + 1 /\ t_wait \in Nat
    BY DistType, VehicleAssumption, TaskAssumption DEF Inv, Clocks, Good, Truck
  <2>4. PICK x : x = Normal(v, time', speed, past')
    OBVIOUS
  <2>5. v' = Turned(x)
    BY <2>2, <2>4 DEF Cycle, coording, Turned
  <2>6. task' = task /\ veh_id' = veh_id /\ time' = Tick(time, t_wait + 1)
    BY DEF Cycle
  <2>7. CASE veh_id = 1
    <3>1. PICK stop : stop = past'
      OBVIOUS
    <3>2. v'.des_f_dist = v.des_f_dist
      BY <2>1, <2>3, <2>4, <2>5, <2>7, <3>1, LeaderTurn
    <3>. QED BY <2>3, <2>6, <2>7, <3>2, SmallIs DEF OnCourse
  <2>8. CASE veh_id # 1
    <3>1. IF v.man_on THEN time > t_wait /\ Course(v)
          ELSE Before(v) /\ (v.man_des \in {3, 7, 27} => time > t_wait)
      BY <2>1, <2>8 DEF OnCourse
    <3>2. time > t_wait => time' > t_wait
      BY <2>3, <2>6 DEF Tick
    <3>3. x = IF time' <= t_wait THEN [v EXCEPT !.man_des = 1]
              ELSE ForTask(Cruised(ForSpeed(v, speed)))
      BY <2>1, <2>4, <2>8 DEF Normal
    <3>4. time' \in Int /\ (time' <= t_wait \/ time' > t_wait)
      BY <2>3, <2>6 DEF Tick
    <3>5. CASE v.man_on
      <4>1. time' > t_wait /\ Course(v) /\ ~(time' <= t_wait)
        BY <2>3, <3>1, <3>2, <3>4, <3>5
      <4>2. x = ForTask(Advance(v))
        BY <2>1, <3>3, <3>5, <4>1 DEF Advance
      <4>3. PICK y : y = Advance(v)
        OBVIOUS
      <4>4. PICK w : w = v'
        OBVIOUS
      <4>5. Goes(w, v) /\ Course(w)
        BY <2>3, <2>5, <2>8, <3>5, <4>1, <4>2, <4>3, <4>4, CourseStep
      <4>6. Course(v)'
        BY <2>3, <2>6, <4>4, <4>5, CourseKept
      <4>. QED BY <4>1, <4>4, <4>5, <4>6 DEF OnCourse, Goes
    <3>6. CASE ~v.man_on
      <4>1. Before(v) /\ (v.man_des \in {3, 7, 27} => time > t_wait) /\ v.des_f_dist = 0
        BY <3>1, <3>6 DEF Before, Idle
      <4>2. PICK w : w = v'
        OBVIOUS
      <4>3. CASE time' <= t_wait
        <5>1. Before(w) /\ w.man_des = 1 /\ w.des_f_dist = 0
          BY <2>3, <2>5, <2>8, <3>3, <3>6, <4>1, <4>2, <4>3, BeforeStep
        <5>2. ~w.man_on
          BY <5>1 DEF Before
        <5>. QED BY <4>1, <4>2, <5>1, <5>2, SmallIs DEF OnCourse
      <4>4. CASE time' > t_wait
        <5>1. w.des_f_dist = 0 /\ IF w.man_on THEN Course(w) ELSE Before(w)
          BY <2>3, <2>5, <2>8, <3>3, <3>4, <3>6, <4>1, <4>2, <4>4, BeforeStep
        <5>2. Course(w) => Course(w)'
          BY <2>3, <2>6, CourseKept
        <5>. QED BY <4>1, <4>2, <4>4, <5>1, <5>2, SmallIs DEF OnCourse
      <4>. QED BY <3>4, <4>3, <4>4
    <3>. QED BY <3>5, <3>6
  <2>. QED BY <2>7, <2>8
<1>. QED BY <1>1, <1>2

LEMMA InitOnCourse == Init => OnCourse
BY DEF Init, OnCourse, Before, Idle, Fresh

LEMMA StaysOnCourse ==
  Inv /\ OnCourse /\ [Next]_vars => OnCourse' /\ (steady' => Small(v'.des_f_dist, v.des_f_dist))
<1>1. ASSUME Inv, OnCourse, Next
      PROVE  OnCourse' /\ (steady' => Small(v'.des_f_dist, v.des_f_dist))
  BY <1>1, CourseCycle DEF Next
<1>2. ASSUME Inv, OnCourse, UNCHANGED vars
      PROVE  OnCourse' /\ (steady' => Small(v'.des_f_dist, v.des_f_dist))
  <2>1. /\ v' = v /\ steady' = steady /\ veh_id' = veh_id /\ task' = task /\ time' = time
    BY <1>2 DEF vars
  <2>2. v.des_f_dist \in Int /\ task \in 3 .. 8
    BY <1>2, TaskAssumption DEF Inv, Clocks, Good, Truck
  <2>3. PICK w : w = v
    OBVIOUS
  <2>4. Course(w) => Course(w)'
    BY <2>1, <2>2, CourseKept
  <2>5. OnCourse'
    BY <1>2, <2>1, <2>3, <2>4 DEF OnCourse
  <2>. QED BY <2>1, <2>2, <2>5, SmallIs
<1>. QED BY <1>1, <1>2

(* Unless it is disturbed, the distance that a truck is told to keep never *)
(* changes by more than its ramps do in a cycle, for all times and tasks:  *)
(* what coording computes in one time window of a task begins where the    *)
(* window, or the maneuver, before it has ended.                           *)
THEOREM DistanceWithoutJumps == Spec => DistanceIsSmooth
<1>1. Inv /\ OnCourse /\ [Next]_vars => OnCourse'
  BY StaysOnCourse
<1>2. Inv /\ OnCourse /\ [Next]_vars =>
        (steady' => /\ v'.des_f_dist - v.des_f_dist <= MaxStep
                    /\ v.des_f_dist - v'.des_f_dist <= MaxStep)
  BY StaysOnCourse DEF Small
<1>3. Spec => []OnCourse
  BY <1>1, InitOnCourse, Invariance, PTL DEF Spec
<1>. QED BY <1>2, <1>3, Invariance, PTL DEF Spec, DistanceIsSmooth
-----------------------------------------------------------------------------
\* By the end of a task the truck has come to its last phase.
LEMMA CourseEnds ==
  ASSUME NEW x \in Truck, veh_id # 1, task \in 3 .. 8, Course(x), x.man_t = End
  PROVE  x.man_des = 7 /\ x.des_f_dist = TaskDistance
<1>1. /\ CRUISE_T \in Nat /\ CRUISE_T > 2 /\ SPLIT_T \in Nat \ {0} /\ JOIN_T \in Nat \ {0}
      /\ DIST \in Nat
      /\ End = 4 * CRUISE_T + 2 * SPLIT_T + 2 * JOIN_T + 4
  BY DistType, CruiseAssumption DEF End
<1>2. x.cruise_t \in Int
  BY ClockTypes
<1>3. SplitCourse(x) => FALSE
  <2>1. x.cruise_t <= CRUISE_T => ~Waiting(x)
    BY <1>1, <1>2 DEF Waiting
  <2>2. \A i \in 1 .. SPLIT_T + 1 : ~(x.man_t <= CRUISE_T + 1 + i)
    BY <1>1
  <2>3. ~(x.man_t <= CRUISE_T + SPLIT_T + 3)
    BY <1>1
  <2>. QED BY <2>1, <2>2, <2>3 DEF SplitCourse
<1>4. ASSUME NEW t \in Int, t <= 4 * CRUISE_T + SPLIT_T + 4, NEW dist \in Int,
             JoinCourse(x, t, dist)
      PROVE  Cruising(x, dist - DIST)
  <2>1. \A i \in 1 .. JOIN_T : ~(x.man_t <= t + i)
    BY <1>1, <1>4
  <2>2. ~(x.man_t <= t + JOIN_T + 1)
    BY <1>1, <1>4
  <2>. QED BY <1>4, <2>1, <2>2 DEF JoinCourse
<1>5. ASSUME NEW start \in Int, start <= JoinStart, NEW dist \in Int, JoinTurn(x, start, dist)
      PROVE  Cruising(x, dist - DIST)
  <2>1. PICK t \in Int : t = x.man_t - start
    BY <1>1
  <2>2. t > 2 * JOIN_T
    BY <1>1, <1>5, <2>1 DEF JoinStart
  <2>3. ~(t < JOIN_T) /\ ~(t < 2 * JOIN_T) /\ t # 2 * JOIN_T
    BY <1>1, <2>2
  <2>. QED BY <1>5, <2>1, <2>3 DEF JoinTurn, JoinSecond, JoinLast
<1>6. SplitTurn(x) => Cruising(x, DIST)
  <2>1. PICK t \in Int : t = x.man_t - CRUISE_T
    BY <1>1
  <2>2. PICK s \in Int : s = x.man_t - CRUISE_T - SPLIT_T
    BY <1>1
  <2>3. ~(t < 0) /\ ~(t < SPLIT_T) /\ ~(t < 2 * SPLIT_T) /\ t # 2
    BY <1>1, <2>1
  <2>4. ~(s < - SPLIT_T) /\ ~(s < 0) /\ ~(s < SPLIT_T) /\ s # SPLIT_T /\ s # SPLIT_T + 1
    BY <1>1, <2>2
  <2>. QED BY <2>1, <2>2, <2>3, <2>4 DEF SplitTurn, SplitSecond, SplitLast
<1>7. CASE task = 3
  <2>1. Cruising(x, DIST)
    BY <1>3, <1>7 DEF Course
  <2>. QED BY <1>7, <2>1 DEF Cruising, TaskDistance
<1>8. CASE task = 4
  <2>1. PICK dist \in Int : dist = 0
    OBVIOUS
  <2>2. JoinCourse(x, CRUISE_T + 1, dist)
    <3>1. ~(Waiting(x) /\ x.cruise_t <= CRUISE_T)
      BY <1>1, <1>2 DEF Waiting
    <3>. QED BY <1>8, <2>1, <3>1 DEF Course
  <2>3. Cruising(x, dist - DIST)
    BY <1>1, <1>4, <2>2
  <2>4. dist - DIST = - DIST
    BY <1>1, <2>1
  <2>. QED BY <1>8, <2>3, <2>4 DEF Cruising, TaskDistance
<1>9. CASE task = 5
  <2>1. PICK t \in Int : t = 4 * CRUISE_T + SPLIT_T + 4
    BY <1>1
  <2>2. ~Between(x)
    BY <1>1, <1>2 DEF Between
  <2>3. JoinCourse(x, t, DIST)
    BY <1>3, <1>9, <2>1, <2>2 DEF Course
  <2>4. PICK d \in Int : d = DIST
    BY <1>1
  <2>5. Cruising(x, d - DIST)
    BY <1>1, <1>4, <2>1, <2>3, <2>4
  <2>6. d - DIST = 0
    BY <1>1, <2>4
  <2>. QED BY <1>9, <2>5, <2>6 DEF Cruising, TaskDistance
<1>10. CASE task = 6
  BY <1>6, <1>10 DEF Course, Cruising, TaskDistance
<1>11. CASE task = 7
  <2>1. PICK dist \in Int : dist = 0
    OBVIOUS
  <2>2. ~(x.man_t < CRUISE_T) /\ CRUISE_T <= JoinStart
    BY <1>1 DEF JoinStart
  <2>3. JoinTurn(x, CRUISE_T, dist)
    BY <1>11, <2>1, <2>2 DEF Course
  <2>4. Cruising(x, dist - DIST)
    BY <1>1, <1>5, <2>2, <2>3
  <2>5. dist - DIST = - DIST
    BY <1>1, <2>1
  <2>. QED BY <1>11, <2>4, <2>5 DEF Cruising, TaskDistance
<1>12. CASE task = 8
  <2>1. PICK start \in Int : start = JoinStart
    BY <1>1 DEF JoinStart
  <2>2. ~(x.man_t < JoinStart) /\ start <= JoinStart
    BY <1>1, <2>1 DEF JoinStart
  <2>3. PICK d \in Int : d = DIST
    BY <1>1
  <2>4. JoinTurn(x, start, d)
    BY <1>12, <2>1, <2>2, <2>3 DEF Course
  <2>5. Cruising(x, d - DIST)
    BY <1>5, <2>2, <2>4
  <2>6. d - DIST = 0
    BY <1>1, <2>3
  <2>. QED BY <1>12, <2>5, <2>6 DEF Cruising, TaskDistance
<1>. QED BY <1>7, <1>8, <1>9, <1>10, <1>11, <1>12

(* For all times a follower that was not disturbed has ended its task by   *)
(* the time End: it cruises, at the distance that its splits and joins add *)
(* up to.                                                                  *)
THEOREM TaskEndsRight == Spec => []EndsAtTaskDistance
<1>1. Inv /\ OnCourse => EndsAtTaskDistance
  <2>. SUFFICES ASSUME Inv, OnCourse, steady, veh_id # 1, v.man_t = End
                PROVE  v.man_des = 7 /\ v.des_f_dist = TaskDistance
    BY DEF EndsAtTaskDistance
  <2>1. v \in Truck /\ task \in 3 .. 8
    BY TaskAssumption DEF Inv, Clocks, Good
  <2>2. v.man_on
    <3>1. v.man_t # 0
      BY EndType, DistType
    <3>. QED BY <3>1 DEF OnCourse, Before
  <2>3. Course(v)
    BY <2>2 DEF OnCourse
  <2>. QED BY <2>1, <2>3, CourseEnds
<1>2. Inv /\ OnCourse /\ [Next]_vars => OnCourse'
  BY StaysOnCourse
<1>. QED BY <1>1, <1>2, InitOnCourse, Invariance, PTL DEF Spec
=============================================================================
