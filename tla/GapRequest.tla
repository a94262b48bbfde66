----------------------------- MODULE GapRequest -----------------------------
(***************************************************************************)
(* How a press of a button reaches the gap that the truck keeps.  The      *)
(* driver's tablet sends a byte every 50 ms: the button of the last press  *)
(* for as long as it is held high, 0 otherwise.  dvi_rcv turns the bytes   *)
(* that arrive into requests in the database, the control process selects  *)
(* its mode and its time gap by them in every cycle (run_tasks of          *)
(* long_trk.c), and dvi_snd shows the level that the control selected.     *)
(*                                                                         *)
(* A tick of the model is the tablet's 50 ms; a byte arrives in its tick   *)
(* or not at all.  Of ts - ts_sav the ticks matter: at exactly 200 ms the  *)
(* comparison of floats goes either way.                                   *)
(***************************************************************************)
EXTENDS Integers

CONSTANTS
  Hold,      \* ticks that a press is held high: 200 ms, 4
  Window,    \* ticks within which a gap button counts once: 0.2 s, 4
  Levels,    \* the gap levels, 1 .. Levels: 5
  Garbage    \* requests that the uninitialised dvi_out may hold

ASSUME GapAssumption ==
  /\ Hold \in Nat \ {0} /\ Window \in Nat \ {0} /\ Hold <= Window
  /\ Levels \in 1 .. 5

\* The bytes of the tablet that dvi_rcv looks at; ACC is 5, CACC 6, MINUS 7, PLUS 8.
Button == {"ACC", "CACC", "MINUS", "PLUS"}
GapButton == {"MINUS", "PLUS"}

Level == -1 .. Levels + 1
\* A level as an unsigned char, and a byte that is no level.
Byte(level) == IF level = -1 THEN 255 ELSE level
Other == 100
Request == 0 .. 3          \* of acc_cacc_request; 3 stands for all the rest
Gap == {Byte(level) : level \in Level} \cup {Other}
Out == [acc_cacc_request : Request, gap_request : Gap]

\* Of the ticks since ts_sav: midnight has passed, and no gap button yet (ts_sav is 0).
Wrapped == 0
Never == Window + 2
Since == 0 .. Window + 2

ASSUME GarbageAssumption == Garbage \subseteq Out

VARIABLES
  veh_id,      \* 1 the leader, 2 a follower
  button,      \* the last press, "none" before the first
  held,        \* the ticks for which it stays high
  since,       \* ticks from ts_sav to the next byte, Wrapped or Never
  gap_level,   \* of dvi_rcv
  dvi_out,     \* of dvi_rcv, uninitialised before the first request
  written,     \* DB_DVI_OUT
  mode,        \* "ACC" or "CACC": truck_ACC and truck_CACC of the control
  tGap,        \* CACC_tGap of the control, in tenths of a second
  selected,    \* selected_gap_level
  shown,       \* CACCTimeGap on the tablet
  asked,       \* the last button that dvi_rcv received, "none" since its start
  steps        \* the steps of gap_level since the last press

tablet == <<button, held>>
receiver == <<since, gap_level, dvi_out, written, asked>>
control == <<mode, tGap, selected>>
vars == <<veh_id, tablet, receiver, control, shown, steps>>

\* Every time gap that the control knows.
TimeGap == {6, 9, 11, 12, 13, 14, 15, 16, 17, 18, 19}

\* The time gap selected for a requested level: a byte that is no level, 0 among them,
\* selects the middle one; behind another vehicle the three smallest are not kept.
TimeGapOf(request, cut_in) ==
  CASE veh_id = 1 -> IF request \in 1 .. Levels THEN 9 + 2 * request ELSE 16
    [] veh_id # 1 /\ cut_in /\ request \notin {4, 5} -> 14
    [] OTHER -> IF request \in 1 .. Levels THEN 3 + 3 * request ELSE 12

TypeOK ==
  /\ veh_id \in 1 .. 2
  /\ button \in Button \cup {"none"} /\ held \in 0 .. Hold
  /\ since \in Since /\ gap_level \in Level
  /\ dvi_out \in Out /\ written \in Out
  /\ mode \in {"ACC", "CACC"} /\ tGap \in TimeGap
  /\ selected \in Gap /\ shown \in 0 .. Levels - 1
  /\ asked \in Button \cup {"none"}
  /\ steps \in 0 .. Hold

Init ==
  /\ veh_id \in 1 .. 2
  /\ button = "none" /\ held = 0
  /\ since = Never /\ gap_level = 0 /\ asked = "none"
  /\ dvi_out \in Garbage
  /\ written = [acc_cacc_request |-> 0, gap_request |-> 0]
  /\ mode = IF veh_id = 1 THEN "ACC" ELSE "CACC"
  /\ tGap = TimeGapOf(0, FALSE) /\ selected = 0 /\ shown = Levels - 1
  /\ steps = 0

-----------------------------------------------------------------------------
Press(b) ==
  /\ button' = b /\ held' = Hold /\ steps' = 0
  /\ UNCHANGED <<veh_id, receiver, control, shown>>

\* ts - ts_sav > 0.2, for the byte that arrives now.
Elapsed == IF since = Window THEN BOOLEAN ELSE {since > Window}

Later == IF since \in {Wrapped, Window + 1, Never} THEN since ELSE since + 1

\* gap_level after a gap button: the old level is compared, after it was changed.
Stepped(b) ==
  CASE b = "MINUS" -> IF gap_level < 0 THEN 0 ELSE gap_level - 1
    [] b = "PLUS" -> IF gap_level > Levels THEN Levels ELSE gap_level + 1

\* What dvi_rcv asks for: the other request is taken back.
Asks(b, level) ==
  CASE b = "ACC" -> [acc_cacc_request |-> 1, gap_request |-> 0]
    [] b = "CACC" -> [acc_cacc_request |-> 2, gap_request |-> 0]
    [] OTHER -> [acc_cacc_request |-> 0, gap_request |-> Byte(level)]

High == IF held > 0 THEN {button} ELSE {}

TickDown == held' = IF held > 0 THEN held - 1 ELSE 0

(* Mutant: the time of the step is not saved. *)
SavedNot == Later

\* ts_sav = ts, as the ticks until the next byte.
Saved == 1

\* A gap button arrives at dvi_rcv.
ReceiveGap ==
  /\ High \cap GapButton # {}
  /\ \E elapsed \in Elapsed :
       LET level == IF elapsed THEN Stepped(button) ELSE gap_level IN
       /\ gap_level' = level /\ steps' = IF elapsed THEN steps + 1 ELSE steps
       /\ dvi_out' = Asks(button, level)
  /\ since' = Saved /\ asked' = button
  /\ written' = dvi_out' /\ TickDown
  /\ UNCHANGED <<veh_id, button, control, shown>>

ReceiveMode ==
  /\ High \ GapButton # {}
  /\ dvi_out' = Asks(button, gap_level) /\ asked' = button
  /\ since' = Later /\ written' = dvi_out' /\ TickDown
  /\ UNCHANGED <<veh_id, button, gap_level, control, shown, steps>>

(* Mutant: a byte without a button takes the request back. *)
ReceiveNoneClears ==
  /\ High = {}
  /\ since' = Later /\ dvi_out' = [acc_cacc_request |-> 0, gap_request |-> 0] /\ written' = dvi_out'
  /\ UNCHANGED <<veh_id, tablet, gap_level, asked, control, shown, steps>>

\* No button is high: what was asked for last is written once more.
ReceiveNone ==
  /\ High = {}
  /\ since' = Later /\ written' = dvi_out
  /\ UNCHANGED <<veh_id, tablet, gap_level, dvi_out, asked, control, shown, steps>>

LoseByte ==
  /\ since' = Later /\ TickDown
  /\ UNCHANGED <<veh_id, button, gap_level, dvi_out, written, asked, control, shown, steps>>

\* sec_past_midnight_float starts again from 0.
Midnight ==
  /\ since' = IF since = Never THEN 1 ELSE Wrapped
  /\ UNCHANGED <<veh_id, tablet, gap_level, dvi_out, written, asked, control, shown, steps>>

\* dvi_rcv is started again; DB_DVI_OUT keeps what it held.
Restart ==
  /\ since' = Never /\ gap_level' = 0 /\ asked' = "none" /\ dvi_out' \in Garbage
  /\ steps' = 0
  /\ UNCHANGED <<veh_id, tablet, written, control, shown>>

\* A cycle of the control: the leader drives in ACC whatever is asked.
Cycle ==
  /\ mode' = IF veh_id = 1 \/ written.acc_cacc_request = 1 THEN "ACC" ELSE "CACC"
  /\ \E cut_in \in BOOLEAN : tGap' = TimeGapOf(written.gap_request, cut_in)
  /\ selected' = written.gap_request
  /\ UNCHANGED <<veh_id, tablet, receiver, shown, steps>>

(* Mutant: the level is shown as the control counts it. *)
ShowUnshifted ==
  /\ shown' = IF selected \in 1 .. Levels - 1 THEN selected ELSE Levels - 1
  /\ UNCHANGED <<veh_id, tablet, receiver, control, steps>>

\* dvi_snd after a cycle of the control.
Show ==
  /\ shown' = IF selected \in 1 .. Levels THEN selected - 1 ELSE Levels - 1
  /\ UNCHANGED <<veh_id, tablet, receiver, control, steps>>

Next ==
  \/ \E b \in Button : Press(b)
  \/ ReceiveGap \/ ReceiveMode \/ ReceiveNone \/ LoseByte
  \/ Midnight \/ Restart \/ Cycle \/ Show

\* The control and dvi_snd run at their timers' pace.
Spec == Init /\ [][Next]_vars /\ WF_vars(Cycle) /\ WF_vars(Show)

-----------------------------------------------------------------------------
(* However many of the bytes of one press arrive, it moves the level once  *)
(* at most, across midnight too.                                           *)
OneStepPerPress == steps <= 1

(* The mode of a follower changes only at the driver's request: neither    *)
(* the bytes without a button nor lost ones take a request back, as long   *)
(* as dvi_rcv runs.                                                        *)
ModeAsKept ==
  [][/\ mode = "ACC" /\ mode' = "CACC" => asked # "ACC"
     /\ mode = "CACC" /\ mode' = "ACC" => asked \notin {"CACC", "MINUS", "PLUS"}]_vars

(* A request that stays in the database is what the truck ends up doing,   *)
(* and what the tablet ends up showing: at a level the gap shown is the    *)
(* gap kept, unless somebody cuts in.                                      *)
RequestRules ==
  <>[][UNCHANGED written]_vars =>
    <>[](/\ mode = "ACC" <=> veh_id = 1 \/ written.acc_cacc_request = 1
         /\ written.gap_request \in 1 .. Levels =>
              /\ shown = written.gap_request - 1
              /\ tGap \in {TimeGapOf(shown + 1, FALSE), TimeGapOf(shown + 1, TRUE)})
=============================================================================
