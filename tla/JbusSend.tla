------------------------------ MODULE JbusSend ------------------------------
(***************************************************************************)
(* The process that turns the control variable of the database into the    *)
(* messages of the vehicle's J1939 bus:                                    *)
(* src/truckcontrol/long_ctl/src/avcs/jbussend.c.  A step is  *)
(* one loop of main, 5 milliseconds.  A time that the code compares is     *)
(* known only to the period of a message: one period old, give or take the *)
(* delay of a timer, or older.                                             *)
(***************************************************************************)
EXTENDS Integers, FiniteSets

CONSTANTS
  MAX_LOOP_NUMBER,  \* loops from one brake warning to the next
  MaxLost,          \* bound on the messages of an override that the bus loses
  Ctrl,             \* what the control process may ask for
  Masks             \* the sets of message types that option -a may make active

TSC_OVERRIDE_DISABLED == 0
TSC_SPEED_CONTROL == 1
TSC_TORQUE_CONTROL == 2
XBR_NOT_ACTIVE == 0
XBR_ACTIVE == 2

Tsc == {"engine", "retarder"}
Types == Tsc \cup {"xbr", "warn"}

Mode == {TSC_OVERRIDE_DISABLED, TSC_SPEED_CONTROL, TSC_TORQUE_CONTROL}

\* A torque has the right sign when it is not negative for the engine, not
\* positive for the retarder.
TscCommand == [mode : Mode, right_sign : BOOLEAN]

LongOutput == [engine : TscCommand, retarder : TscCommand, xbr : {XBR_NOT_ACTIVE, XBR_ACTIVE}]

ASSUME LoopAssumption == MAX_LOOP_NUMBER \in Nat \ {0}
ASSUME LossAssumption == MaxLost \in 0 .. 2
ASSUME CommandAssumption == Ctrl \subseteq LongOutput
ASSUME MaskAssumption == Masks \subseteq SUBSET Types

VARIABLES
  db_up,            \* whether the data server runs
  long_output,      \* DB_LONG_OUTPUT_VAR
  control,          \* whether the control process runs, has exited or crashed
  active,           \* the message types that are sent
  loop_number,
  old_mode,         \* of each ready_to_send of a TSC1: the mode it saw last
  state_change_counter,  \* of each: disabling messages left, and one
  recent,           \* whether a message's last_time is no more than a period ago
  engine_speed_mode,
  running,          \* FALSE once a signal has ended the process
  sent,             \* the types of the messages of the last loop
  lost,             \* how many TSC1s the bus has lost since the last hand-over
  ecu               \* the mode the engine, the retarder and the brakes are in

sender == <<active, loop_number, old_mode, state_change_counter, recent,
            engine_speed_mode, running, sent, lost, ecu>>
command == <<db_up, long_output, control>>
vars == <<command, sender>>

inactive_ctrl ==
  [engine |-> [mode |-> TSC_OVERRIDE_DISABLED, right_sign |-> TRUE],
   retarder |-> [mode |-> TSC_OVERRIDE_DISABLED, right_sign |-> TRUE],
   xbr |-> XBR_NOT_ACTIVE]

Ecu == Tsc \cup {"xbr"}

TypeOK ==
  /\ db_up \in BOOLEAN /\ control \in {"on", "exited", "crashed"}
  /\ long_output \in Ctrl \cup {inactive_ctrl}
  /\ active \in SUBSET Types
  /\ loop_number \in 0 .. MAX_LOOP_NUMBER - 1
  /\ old_mode \in [Tsc -> Mode]
  /\ state_change_counter \in [Tsc -> 0 .. 3]
  /\ recent \in [Types -> BOOLEAN]
  /\ engine_speed_mode \in BOOLEAN
  /\ running \in BOOLEAN
  /\ sent \in SUBSET active
  /\ lost \in [Tsc -> 0 .. MaxLost]
  /\ ecu \in [Ecu -> Mode]

\* send_jbus_init: every active message counts as just sent.  A variable that is
\* not there yet, or has never been written, is inactive control.
Init ==
  /\ db_up = TRUE /\ control = "on"
  /\ long_output = inactive_ctrl
  /\ active \in Masks
  /\ loop_number = 0
  /\ old_mode = [i \in Tsc |-> TSC_OVERRIDE_DISABLED]
  /\ state_change_counter = [i \in Tsc |-> 0]
  /\ recent = [i \in Types |-> TRUE]
  /\ engine_speed_mode = FALSE
  /\ running = TRUE
  /\ sent = {}
  /\ lost = [i \in Tsc |-> 0]
  /\ ecu = [e \in Ecu |-> 0]

-----------------------------------------------------------------------------
\* get_ctrl_var: the variable, or the inactive control when the login or the
\* read fails.
get_ctrl_var == {inactive_ctrl} \cup {v \in {long_output} : db_up}

\* The loops in which messages of type i can be sent.
active_loop(i, n) ==
  \/ i = "engine" /\ n % 4 = 1
  \/ i = "retarder" /\ n % 4 = 2
  \/ i = "xbr" /\ n % 4 = 3
  \/ i = "warn" /\ n % MAX_LOOP_NUMBER = 0

\* The types that this loop can send: one at most.
Visited == {i \in active : active_loop(i, loop_number)}

\* Whether the interval since last_time has passed, seen every interval.
Due(i) == {TRUE} \cup {~recent[i]}

-----------------------------------------------------------------------------
\* The ready_to_send of i sees control given up: a hand-over begins.
HandOver(i, c) == c.mode = TSC_OVERRIDE_DISABLED /\ old_mode[i] # TSC_OVERRIDE_DISABLED

\* Mutant: the hand-over is one message short.
ShortHandOver(i, c) == IF HandOver(i, c) THEN 3 ELSE state_change_counter[i]

\* state_change_counter once ready_to_send has looked at the command.
Counting(i, c) == IF HandOver(i, c) THEN 4 ELSE state_change_counter[i]

\* Mutant: nothing is sent unless control is on.
ReadyWhenOn(i, c) ==
  IF Counting(i, c) = 0 /\ c.mode # TSC_OVERRIDE_DISABLED /\ c.right_sign
  THEN Due(i) ELSE {FALSE}

\* What ready_to_send_engine_src_acc and ready_to_send_engine_retarder_src_acc
\* may return: nothing but the hand-over is sent while it lasts.
ready_to_send(i, c) ==
  IF Counting(i, c) > 1 THEN {TRUE}
  ELSE IF Counting(i, c) = 0 /\ c.mode # TSC_OVERRIDE_DISABLED /\ c.right_sign
  THEN Due(i) ELSE {FALSE}

\* update_engine_tsc, in every loop: a speed override has a time limit, but the
\* time it is tested against is not set: it may have passed or not.
UpdateSpeedMode(c) ==
  IF "engine" \in active /\ c.engine.mode = TSC_SPEED_CONTROL
  THEN engine_speed_mode' \in {TRUE, ~engine_speed_mode}
  ELSE engine_speed_mode' = FALSE

\* EnOvrdCtrlM as update_command leaves it: the mode of the command, whatever
\* ready_to_send had put there for the hand-over.
EnOvrdCtrlM(i, c) ==
  IF i = "engine" /\ c.mode = TSC_SPEED_CONTROL /\ ~engine_speed_mode'
  THEN TSC_OVERRIDE_DISABLED ELSE c.mode

\* The bus carries a message to its receiver.
Delivered(i, mode) == ecu' = [ecu EXCEPT ![i] = mode]

\* How many messages were lost since the hand-over that is the last now.
LostBefore(i, c) == IF HandOver(i, c) THEN 0 ELSE lost[i]

\* A TSC1 in the loops of its type.
VisitTsc(i, c) ==
  /\ old_mode' = [old_mode EXCEPT ![i] = c.mode]
  /\ state_change_counter' = [state_change_counter EXCEPT ![i] =
       IF Counting(i, c) > 0 THEN Counting(i, c) - 1 ELSE 0]
  /\ \E can_send \in ready_to_send(i, c) :
       /\ recent' = [recent EXCEPT ![i] = can_send]
       /\ sent' = {j \in {i} : can_send}
       /\ \/ /\ can_send /\ Delivered(i, EnOvrdCtrlM(i, c))
             /\ lost' = [lost EXCEPT ![i] = LostBefore(i, c)]
          \/ /\ can_send /\ LostBefore(i, c) < MaxLost /\ UNCHANGED ecu
             /\ lost' = [lost EXCEPT ![i] = LostBefore(i, c) + 1]
          \/ ~can_send /\ UNCHANGED <<ecu, lost>>

\* Mutant: no brake message while the brakes are not asked for.
VisitXbrWhenActive(c) ==
  /\ \E can_send \in {due /\ c.xbr = XBR_ACTIVE : due \in Due("xbr")} :
       /\ recent' = [recent EXCEPT !["xbr"] = can_send]
       /\ sent' = {j \in {"xbr"} : can_send}
       /\ \/ can_send /\ Delivered("xbr", c.xbr)
          \/ ~can_send /\ UNCHANGED ecu
  /\ UNCHANGED <<old_mode, state_change_counter, lost>>

\* The brake message, active or not, as ready_to_send_xbr says.
VisitXbr(c) ==
  /\ \E can_send \in Due("xbr") :
       /\ recent' = [recent EXCEPT !["xbr"] = can_send]
       /\ sent' = {j \in {"xbr"} : can_send}
       /\ \/ can_send /\ Delivered("xbr", c.xbr)
          \/ ~can_send /\ UNCHANGED ecu
  /\ UNCHANGED <<old_mode, state_change_counter, lost>>

VisitWarn ==
  /\ \E can_send \in Due("warn") :
       /\ recent' = [recent EXCEPT !["warn"] = can_send]
       /\ sent' = {j \in {"warn"} : can_send}
  /\ UNCHANGED <<old_mode, state_change_counter, lost, ecu>>

\* A loop in which no message can be sent.
VisitNone ==
  /\ Visited = {}
  /\ sent' = {}
  /\ UNCHANGED <<old_mode, state_change_counter, recent, lost, ecu>>

\* One loop of main, which has read c.
LoopWith(c) ==
  /\ running
  /\ loop_number' = (loop_number + 1) % MAX_LOOP_NUMBER
  /\ UpdateSpeedMode(c)
  /\ \/ \E i \in Visited \cap Tsc : VisitTsc(i, c[i])
     \/ "xbr" \in Visited /\ VisitXbr(c)
     \/ "warn" \in Visited /\ VisitWarn
     \/ VisitNone
  /\ UNCHANGED <<command, active, running>>

Loop == \E c \in get_ctrl_var : LoopWith(c)

\* A loop that sends a message of type i, as control asks.
Answered(i) == LoopWith(long_output) /\ i \in sent'

\* The bus at most loses one of several messages sent at the same time.
LostAtOnce == {{}} \cup IF Cardinality(active) > 1 THEN {{i} : i \in active} ELSE {}

\* Mutant: the retarder is left out.
ExitWithoutRetarder ==
  /\ running
  /\ running' = FALSE
  /\ sent' = active \ {"retarder"}
  /\ \E gone \in LostAtOnce :
       ecu' = [e \in Ecu |-> IF e \in sent' \ gone THEN 0 ELSE ecu[e]]
  /\ UNCHANGED <<command, active, loop_number, old_mode, state_change_counter,
                 recent, engine_speed_mode, lost>>

\* send_jbus_exit, once a signal has taken main out of its loop: a disabling
\* message of each active type, all at the same time.
send_jbus_exit ==
  /\ running
  /\ running' = FALSE
  /\ sent' = active
  /\ \E gone \in LostAtOnce :
       ecu' = [e \in Ecu |-> IF e \in sent' \ gone THEN 0 ELSE ecu[e]]
  /\ UNCHANGED <<command, active, loop_number, old_mode, state_change_counter,
                 recent, engine_speed_mode, lost>>

-----------------------------------------------------------------------------
\* The control process (long_ctl.c) saves the command of a cycle.
Control ==
  /\ control = "on" /\ db_up
  /\ long_output' \in Ctrl
  /\ UNCHANGED <<db_up, control, sender>>

\* Mutant: control ends without deactivating.
ExitSilently ==
  /\ control = "on"
  /\ control' = "exited"
  /\ UNCHANGED <<db_up, long_output, sender>>

\* A signal or an update that fails takes the control process out of its loop:
\* exit_tasks and then main write the inactive control.
exit_tasks ==
  /\ control = "on"
  /\ control' = "exited"
  /\ long_output' = inactive_ctrl
  /\ UNCHANGED <<db_up, sender>>

ControlCrash ==
  /\ control = "on"
  /\ control' = "crashed"
  /\ UNCHANGED <<db_up, long_output, sender>>

\* With the data server goes the variable: a later server has none, or one that
\* has never been written.
ServerStops ==
  /\ db_up
  /\ db_up' = FALSE
  /\ long_output' = inactive_ctrl
  /\ UNCHANGED <<control, sender>>

ServerStarts ==
  /\ ~db_up
  /\ db_up' = TRUE
  /\ UNCHANGED <<long_output, control, sender>>

Next == \/ Loop \/ send_jbus_exit
        \/ Control \/ exit_tasks \/ ControlCrash \/ ServerStops \/ ServerStarts

\* The loop is driven by a timer.  The database does not fail for ever in just
\* the loops of one message type, nor is its message found not due every time.
Spec == Init /\ [][Next]_vars /\ WF_vars(Loop) /\ \A i \in Ecu : SF_vars(Answered(i))

-----------------------------------------------------------------------------
\* "Send three TSC messages ... After this you stop": by the third loop of a
\* hand-over the engine and the retarder are free, whichever MaxLost of its
\* messages the bus lost, and nothing takes hold of them again until control
\* comes back.
HandOverReleases ==
  running => \A i \in active \cap Tsc :
    old_mode[i] = TSC_OVERRIDE_DISABLED /\ state_change_counter[i] < 2
      => ecu[i] = TSC_OVERRIDE_DISABLED

\* After an exit at most one receiver is left with a command.
ExitReleasesAllButOne ==
  ~running => Cardinality({e \in Ecu : ecu[e] # 0}) <= 1

\* Control that is given up for good gives up the vehicle for good.
ReleaseReaches ==
  \A i \in Tsc : <>[](running /\ long_output[i].mode = TSC_OVERRIDE_DISABLED)
                   => <>[](ecu[i] = TSC_OVERRIDE_DISABLED)

\* What control asks of the brakes for good is what they are told, again and
\* again, however often the process reads inactive control instead.
BrakeCommandReaches ==
  \A m \in {XBR_NOT_ACTIVE, XBR_ACTIVE} :
    <>[](running /\ "xbr" \in active /\ db_up /\ long_output.xbr = m) => []<>(ecu["xbr"] = m)

\* When the control process has exited, or the data server has stopped for good,
\* the whole vehicle is given up.  After a crash of the control process it need
\* not be: nothing tells a command from one that is old.
LossOfControlReleases ==
  <>[](running /\ (control = "exited" \/ ~db_up)) => <>[](\A e \in Ecu : ecu[e] = 0)
=============================================================================
