------------------------------ MODULE CaccComm ------------------------------
(***************************************************************************)
(* What a truck of the platoon knows of the trucks ahead of it.  Their     *)
(* control processes put a packet into their databases every cycle,        *)
(* veh_snd sends whatever packet is there, veh_rcv writes a packet that    *)
(* arrives, in whatever order, into the database of the truck me, whose    *)
(* control process reads it every cycle, judges the link by it (cacc_comm  *)
(* of long_trk_func.c), takes the speeds of others from it and brakes      *)
(* when a driver ahead does (run_tasks of long_trk.c).                     *)
(*                                                                         *)
(* Of a packet the time stamp, global_time, and the brakes matter.  A      *)
(* stamp is only ever compared with another one, so that a stamp no longer *)
(* in use stands for a new one; the trucks keep their place (veh_id is     *)
(* MyPltnPos, as Veh_ID_ReConfig is not defined) and auto_contr is on.     *)
(* What me sends, its global_time and its handshake are left out: nothing  *)
(* here depends on them.                                                   *)
(***************************************************************************)
EXTENDS Integers, FiniteSets

CONSTANTS
  me,              \* veh_id, a follower's; its platoon may go on behind it
  K,               \* the number of stamps
  MaxAir,          \* bound on the packets of a truck on their way
  COMM_ERR_BOUND,  \* cycles without a new stamp that a link survives: 20
  Remainder        \* the first cycles, in which nothing is taken from a packet: 10

ASSUME MeAssumption == me \in Nat /\ me > 1
ASSUME BoundAssumption ==
  /\ K \in Nat \ {0} /\ MaxAir \in Nat
  /\ COMM_ERR_BOUND \in Nat /\ Remainder \in Nat

Lead == 1
Pre == me - 1
Ahead == 1 .. me - 1

Stamp == 0 .. K - 1
Packet == [time : Stamp, brakes : BOOLEAN]
\* comm_time_old before the first cycle: 0.0.
NoTime == K

VARIABLES
  alive,           \* of each truck ahead: whether its control process runs
  tx,              \* its DB_COMM_TX
  air,             \* its packets on their way
  comm,            \* its packet in the database of me
  comm_time_old,   \* the stamp that me saw last
  comm_f_counter,  \* the cycles of me since it saw a new one
  comm_p,          \* 1 for a link that has failed
  f_comm,          \* f_index.comm
  cycles,          \* the cycles of me, up to the end of Remainder
  taken,           \* the trucks whose speed the last cycle took from a packet
  braking,         \* whether it braked because of a driver ahead
  trusted          \* the cycles that took a speed of Lead though its process is dead

others == <<alive, tx, air, comm>>
links == <<comm_time_old, comm_f_counter, comm_p, f_comm>>
own == <<links, cycles, taken, braking, trusted>>
vars == <<others, own>>

(* A dead leader is trusted for as long as its packets on their way, each  *)
(* arriving as late as can be and twice, make it seem alive.               *)
Trusted == (COMM_ERR_BOUND + 1) * (2 * MaxAir + 2)

TypeOK ==
  /\ alive \in [Ahead -> BOOLEAN]
  /\ tx \in [Ahead -> Packet] /\ comm \in [Ahead -> Packet]
  /\ air \in [Ahead -> SUBSET Packet] /\ \A p \in Ahead : Cardinality(air[p]) <= MaxAir
  /\ comm_time_old \in [Ahead -> Stamp \cup {NoTime}]
  /\ comm_f_counter \in [Ahead -> 0 .. COMM_ERR_BOUND + 1]
  /\ comm_p \in [Ahead -> 0 .. 1] /\ f_comm \in 0 .. 1
  /\ cycles \in 0 .. Remainder
  /\ taken \subseteq Ahead /\ braking \in BOOLEAN
  /\ trusted \in 0 .. Trusted + 1

Fresh == [time |-> 0, brakes |-> FALSE]

Started ==
  /\ comm_time_old = [p \in Ahead |-> NoTime]
  /\ comm_f_counter = [p \in Ahead |-> 0]
  /\ comm_p = [p \in Ahead |-> 0] /\ f_comm = 0
  /\ cycles = 0 /\ taken = {} /\ braking = FALSE /\ trusted = 0

Init ==
  /\ alive = [p \in Ahead |-> TRUE]
  /\ tx = [p \in Ahead |-> Fresh] /\ comm = [p \in Ahead |-> Fresh]
  /\ air = [p \in Ahead |-> {}]
  /\ Started

-----------------------------------------------------------------------------
\* The stamps of p that somebody still holds.
InUse(p) == {tx[p].time, comm[p].time, comm_time_old[p]} \cup {m.time : m \in air[p]}

\* A cycle of the control process of p: a new local_time goes into its packet.
Tell(p, brakes) ==
  LET next == (tx[p].time + 1) % K IN
  /\ alive[p] /\ next \notin InUse(p)
  /\ tx' = [tx EXCEPT ![p] = [time |-> next, brakes |-> brakes]]
  /\ UNCHANGED <<alive, air, comm, own>>

\* It exits or crashes, or is started again; the database keeps its packet.
Die(p) == alive[p] /\ alive' = [alive EXCEPT ![p] = FALSE] /\ UNCHANGED <<tx, air, comm, own>>
Return(p) ==
  /\ ~alive[p] /\ alive' = [alive EXCEPT ![p] = TRUE]
  /\ trusted' = IF p = Lead THEN 0 ELSE trusted
  /\ UNCHANGED <<tx, air, comm, links, cycles, taken, braking>>

\* veh_snd of p sends the packet it finds in the database, new or not.
Send(p) ==
  /\ Cardinality(air[p] \cup {tx[p]}) <= MaxAir
  /\ air' = [air EXCEPT ![p] = @ \cup {tx[p]}]
  /\ UNCHANGED <<alive, tx, comm, own>>

(* Mutant: only a packet whose stamp is higher than the last one's is kept. *)
ReceiveHigher(p, m) ==
  /\ m \in air[p]
  /\ comm' = IF m.time > comm[p].time THEN [comm EXCEPT ![p] = m] ELSE comm
  /\ air' = [air EXCEPT ![p] = @ \ {m}]
  /\ UNCHANGED <<alive, tx, own>>

\* veh_rcv of me writes the packet that arrives to the variable of its sender.
Receive(p, m) ==
  /\ m \in air[p]
  /\ comm' = [comm EXCEPT ![p] = m]
  /\ air' = [air EXCEPT ![p] = @ \ {m}]
  /\ UNCHANGED <<alive, tx, own>>

Lose(p, m) ==
  /\ m \in air[p]
  /\ air' = [air EXCEPT ![p] = @ \ {m}] /\ UNCHANGED <<alive, tx, comm, own>>

-----------------------------------------------------------------------------
Changed(p) == comm[p].time # comm_time_old[p]

\* comm_f_counter after the cycle; all beyond the bound are alike.
Count(p) ==
  IF Changed(p) THEN 0
  ELSE IF comm_f_counter[p] > COMM_ERR_BOUND THEN comm_f_counter[p] ELSE comm_f_counter[p] + 1

(* Mutant: the fault is reported in one cycle only. *)
FailedOnce(p) ==
  IF ~Changed(p) /\ comm_f_counter[p] = COMM_ERR_BOUND THEN 1 ELSE 0

(* Mutant: a new stamp clears the counter, not the fault. *)
FailedForGood(p) == IF Count(p) > COMM_ERR_BOUND THEN 1 ELSE comm_p[p]

\* comm_p after the cycle.
Failed(p) ==
  IF Changed(p) THEN 0 ELSE IF Count(p) > COMM_ERR_BOUND THEN 1 ELSE comm_p[p]

(* Mutant: the stamp is remembered only once. *)
SeenFirst(p) == IF comm_time_old[p] = NoTime THEN comm[p].time ELSE comm_time_old[p]

\* comm_time_old after the cycle.
Seen(p) == comm[p].time

\* The trucks whose speed the cycle takes: the leader's link alone decides.
Taken == IF cycles = Remainder /\ Failed(Lead) = 0 THEN {Lead, Pre} ELSE {}

\* The trucks whose driver's brakes me looks at: it does so as second or third.
Watched == IF me \in {2, 3} THEN Ahead ELSE {}

\* long_read_vehicle_state, cacc_comm and the emergency braking of run_tasks.
Cycle ==
  /\ comm_time_old' = [p \in Ahead |-> Seen(p)]
  /\ comm_f_counter' = [p \in Ahead |-> Count(p)]
  /\ comm_p' = [p \in Ahead |-> Failed(p)]
  /\ f_comm' = Failed(Lead)
  /\ cycles' = IF cycles = Remainder THEN cycles ELSE cycles + 1
  /\ taken' = Taken
  /\ braking' = \E p \in Watched : comm[p].brakes
  /\ trusted' = IF alive[Lead] \/ Lead \notin Taken \/ trusted > Trusted THEN trusted ELSE trusted + 1
  /\ UNCHANGED others

\* The process of me is started again: its database keeps what it has received.
Restart ==
  /\ comm_time_old' = [p \in Ahead |-> NoTime]
  /\ comm_f_counter' = [p \in Ahead |-> 0]
  /\ comm_p' = [p \in Ahead |-> 0] /\ f_comm' = 0
  /\ cycles' = 0 /\ taken' = {} /\ braking' = FALSE /\ trusted' = 0
  /\ UNCHANGED others

Next ==
  \/ \E p \in Ahead : \/ \E brakes \in BOOLEAN : Tell(p, brakes)
                      \/ Die(p) \/ Return(p) \/ Send(p)
                      \/ \E m \in Packet : Receive(p, m) \/ Lose(p, m)
  \/ Cycle \/ Restart

\* The processes run at their timers' pace; no packet is on its way for ever, and a
\* radio link that is tried again and again lets one through now and then.
Fairness ==
  /\ WF_vars(Cycle)
  /\ \A p \in Ahead :
       /\ WF_vars(\E brakes \in BOOLEAN : Tell(p, brakes))
       /\ SF_vars(Send(p)) /\ SF_vars(\E m \in Packet : Receive(p, m))
       /\ \A m \in Packet : WF_vars(Receive(p, m) \/ Lose(p, m))

Spec == Init /\ [][Next]_vars /\ Fairness

-----------------------------------------------------------------------------
(* While me does not start again, its control takes the leader's speed     *)
(* from packets of a process that is dead for a bounded number of its      *)
(* cycles, however late and in whatever order they come: cacc_comm judges  *)
(* a link by the stamp of the process, not by the packets that veh_snd     *)
(* goes on to send for it.                                                 *)
TrustEnds == trusted <= Trusted

(* A leader whose process stays dead ends up as a fault of communication,  *)
(* and the fault stays, though its radio goes on.                          *)
DeadLeaderFound == <>[](~alive[Lead] /\ cycles = Remainder) => <>[](f_comm = 1)

(* A fault of communication does not outlive a leader that stays alive.    *)
FaultEnds == <>[]alive[Lead] => []<>(f_comm = 0)

(* When a driver ahead goes on braking, me ends up braking, and when none  *)
(* does any more, it stops: an old packet that comes late changes it only  *)
(* for a while.                                                            *)
FollowsBrakes ==
  /\ \A p \in Ahead : <>[](tx[p].brakes /\ cycles = Remainder) => <>[]braking
  /\ <>[](\A p \in Ahead : ~tx[p].brakes) => <>[]~braking
=============================================================================
