----------------------------- MODULE DviDisplay -----------------------------
(***************************************************************************)
(* What the tablet shows of the trucks of the platoon.  veh_rcv writes the *)
(* packets of the other trucks into the database, the control process that *)
(* of its own truck, and the data server notifies dvi_snd of every write.  *)
(* dvi_snd takes one notification every 50 ms, fewer than may come, and    *)
(* reads the packet that is there by then: a truck is shown with an error  *)
(* when the packet it reads is not later than the one it read before.  A   *)
(* notification that dvi_snd's queue refuses ends those of that truck: the *)
(* data server removes the trigger, and only a restart sets it again.      *)
(*                                                                         *)
(* A packet is its driver's or its control's braking, and whether its time *)
(* stamp is later than the last one read: two packets that arrive within a *)
(* millisecond have the same stamp.  The notifications are counted, not    *)
(* queued: whatever the order in which they wait, it is among these.  A    *)
(* clock that is set back and a silence of 12 hours, after which a stamp   *)
(* counts as an earlier one, are left out.                                 *)
(***************************************************************************)
EXTENDS Integers, Functions

CONSTANTS
  Size,         \* the trucks of the platoon, 2 or 3
  me,           \* my_pip of the truck whose tablet it is
  MaxWaiting    \* the notifications for which dvi_snd's queue has room

ASSUME DisplayAssumption ==
  Size \in 2 .. 3 /\ me \in 1 .. Size /\ MaxWaiting \in Nat \ {0}

Truck == 1 .. Size
Others == Truck \ {me}

VARIABLES
  brakes,     \* in the packet of each truck in the database
  later,      \* whether the stamp of another's packet is later than the last one read
  waiting,    \* notifications of each truck that dvi_snd has not taken
  triggers,   \* the trucks whose packets the data server still notifies dvi_snd of
  type,       \* vehicles[].type: 0 nothing, 1 a truck, 2 one with a communication error
  isBraking,  \* vehicles[].isBraking
  toTarget,   \* CACCActiveConnectionToTarget
  fromFollower  \* CACCActiveConnectionFromFollower

database == <<brakes, later>>
display == <<type, isBraking, toTarget, fromFollower>>
dviVars == <<database, waiting, triggers, display>>

DviTypeOK ==
  /\ brakes \in [Truck -> BOOLEAN] /\ later \in [Others -> BOOLEAN]
  /\ waiting \in [Truck -> Nat] /\ triggers \subseteq Truck
  /\ type \in [Truck -> 0 .. 2] /\ isBraking \in [Truck -> BOOLEAN]
  /\ toTarget \in BOOLEAN /\ fromFollower \in BOOLEAN

DviInit ==
  /\ brakes = [p \in Truck |-> FALSE] /\ later = [p \in Others |-> FALSE]
  /\ waiting = [p \in Truck |-> 0] /\ triggers = Truck
  /\ type = [p \in Truck |-> 0] /\ isBraking = [p \in Truck |-> FALSE]
  /\ toTarget = FALSE /\ fromFollower = FALSE

-----------------------------------------------------------------------------
\* A packet is written, an older one perhaps, and dvi_snd notified if its trigger
\* is set.  All trucks share its queue, which also takes what is not modelled here
\* and so may refuse a notification at any time.
Write(p, b) ==
  /\ brakes' = [brakes EXCEPT ![p] = b]
  /\ \E new \in BOOLEAN : later' = [q \in Others |-> IF q = p THEN new ELSE later[q]]
  /\ \/ /\ p \in triggers /\ SumFunction(waiting) < MaxWaiting
        /\ waiting' = [waiting EXCEPT ![p] = @ + 1]
        /\ UNCHANGED triggers
     \/ /\ triggers' = triggers \ {p}
        /\ UNCHANGED waiting
  /\ UNCHANGED display

(* Mutant: an error stays. *)
TypeLatched(p) == IF later[p] /\ type[p] # 2 THEN 1 ELSE 2

\* vehicles[].type after its packet has been read.
TypeOf(p) == IF later[p] THEN 1 ELSE 2

(* Mutant: the braking is shown of a truck that was shown without error before. *)
BrakingOnce(p) == IF type[p] = 1 THEN brakes[p] ELSE isBraking[p]

\* vehicles[].isBraking after it: that of a truck with an error stays.
BrakingOf(p) == IF TypeOf(p) = 1 THEN brakes[p] ELSE isBraking[p]

\* A notification of a truck is taken.
Taken(p) == waiting[p] > 0 /\ waiting' = [waiting EXCEPT ![p] = @ - 1]

\* A notification of another truck: clt_ipc_receive, the read and the two messages sent.
TakeOther(p) ==
  /\ p # me /\ Taken(p)
  /\ type' = [type EXCEPT ![p] = TypeOf(p)]
  /\ isBraking' = [isBraking EXCEPT ![p] = BrakingOf(p)]
  /\ later' = [later EXCEPT ![p] = FALSE]
  /\ UNCHANGED <<brakes, triggers, toTarget, fromFollower>>

Connected(S) == \E p \in S : type[p] = 1

(* Mutant: the second truck's target is taken for its follower. *)
AheadOff == Truck \cap 1 .. me

\* The trucks that are the target of me, and those that follow it, by its place.
Ahead == Truck \cap 1 .. me - 1
Behind == Truck \cap me + 1 .. 3

\* A notification of the own truck: the connections are counted anew.
TakeOwn ==
  /\ Taken(me)
  /\ type' = [type EXCEPT ![me] = 1]
  /\ isBraking' = [isBraking EXCEPT ![me] = brakes[me]]
  /\ toTarget' = Connected(Ahead) /\ fromFollower' = Connected(Behind)
  /\ UNCHANGED <<database, triggers>>

\* dvi_snd ends, or is killed, and is started again: its queue is a new one, and
\* it sets its triggers.
DviRestart ==
  /\ type' = [p \in Truck |-> 0] /\ isBraking' = [p \in Truck |-> FALSE]
  /\ toTarget' = FALSE /\ fromFollower' = FALSE
  /\ waiting' = [p \in Truck |-> 0] /\ triggers' = Truck
  /\ later' = [p \in Others |-> FALSE]
  /\ UNCHANGED brakes

DviNext ==
  \/ \E p \in Truck : TakeOther(p) \/ \E b \in BOOLEAN : Write(p, b)
  \/ TakeOwn \/ DviRestart

\* Notifications are taken in the order in which they came: each has its turn.
DviSpec ==
  /\ DviInit /\ [][DviNext]_dviVars
  /\ WF_dviVars(TakeOwn) /\ \A p \in Others : WF_dviVars(TakeOther(p))

-----------------------------------------------------------------------------
(* Of a truck shown without error, and with its trigger in place, the      *)
(* braking shown is that of its last packet, unless a notification of the  *)
(* truck still waits, however many packets came between two readings.      *)
ShownIsLast ==
  \A p \in triggers :
    type[p] = 1 /\ waiting[p] = 0 => isBraking[p] = brakes[p]

\* From some time on dvi_snd runs and no notification of p is refused.
Notified(p) == <>[][~DviRestart]_dviVars /\ <>[](p \in triggers)

\* Packets of p with later stamps come again and again, and from some time on an
\* older one does not overwrite such a packet before it has been read.
LaterPackets(p) ==
  /\ []<>later[p]
  /\ <>[][later[p] => later'[p] \/ TakeOther(p)]_dviVars

(* A truck whose packets go on with later stamps is shown without error    *)
(* again and again, as long as no notification of it is refused: one that  *)
(* is ends all others until dvi_snd is restarted, and an error then stays. *)
ErrorPasses ==
  \A p \in Others : Notified(p) /\ LaterPackets(p) => []<>(type[p] = 1)

\* The own control process goes on to write its packets.
OwnPackets == []<><<\E b \in BOOLEAN : Write(me, b)>>_dviVars

(* The connections shown end up being those of the trucks shown, once      *)
(* these change no more, as long as the own control process goes on to     *)
(* write its packets and none of their notifications is refused.           *)
ConnectionsAgree ==
  Notified(me) /\ OwnPackets /\ <>[][UNCHANGED type]_dviVars =>
    <>[](/\ toTarget = Connected({p \in Truck : p < me})
         /\ fromFollower = Connected({p \in Truck : p > me}))
=============================================================================
