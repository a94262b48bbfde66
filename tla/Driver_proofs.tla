--------------------------- MODULE Driver_proofs ---------------------------
(***************************************************************************)
(* Theorems about the driver's tablet.  Those about GapRequest are for     *)
(* every number of levels and for every press that is held high no longer  *)
(* than a gap button counts once; those about DviDisplay for every         *)
(* platoon, place in it and queue.                                         *)
(*                                                                         *)
(* That a press moves the level at most once rests on the ticks: after the *)
(* step, the ticks since the last gap button and those for which the press *)
(* is still high make less than the press.  That a mode is kept rests on   *)
(* the request: it stays in the database as the driver made it.            *)
(***************************************************************************)
EXTENDS GapRequest, DviDisplay, TLAPS

\* What is left of a press that has moved the level is within the window.
Spent == steps = 1 /\ held > 0 => since \in 0 .. Hold - held

\* dvi_rcv and the database hold the request of the last button.
Held ==
  /\ asked = "ACC" => dvi_out.acc_cacc_request = 1 /\ written.acc_cacc_request = 1
  /\ asked = "CACC" => dvi_out.acc_cacc_request = 2 /\ written.acc_cacc_request = 2
  /\ asked \in GapButton => dvi_out.acc_cacc_request = 0 /\ written.acc_cacc_request = 0

\* The leader never leaves ACC, and only a press is high.
Fixed ==
  /\ veh_id = 1 => mode = "ACC"
  /\ held > 0 => button \in Button

Inv == TypeOK /\ OneStepPerPress /\ Spent /\ Held /\ Fixed

-----------------------------------------------------------------------------
LEMMA Numbers ==
  /\ Hold \in Nat /\ Hold > 0 /\ Window \in Nat /\ Window > 0 /\ Hold <= Window
  /\ Levels \in Nat /\ Levels > 0 /\ Levels <= 5
BY GapAssumption

LEMMA LevelType ==
  ASSUME NEW level \in Level PROVE Byte(level) \in Gap
BY DEF Gap

LEMMA SteppedType ==
  ASSUME gap_level \in Level, NEW b \in GapButton PROVE Stepped(b) \in Level
<1>1. CASE b = "MINUS"
  BY <1>1, Numbers DEF Stepped, Level
<1>2. CASE b = "PLUS"
  BY <1>2, Numbers DEF Stepped, Level
<1> QED
  BY <1>1, <1>2 DEF GapButton

LEMMA AsksType ==
  ASSUME NEW b \in Button, NEW level \in Level PROVE Asks(b, level) \in Out
<1>1. Byte(level) \in Gap
  BY LevelType
<1>2. 0 \in Gap
  <2>1. 0 \in Level /\ Byte(0) = 0
    BY Numbers DEF Level, Byte
  <2> QED
    BY <2>1, LevelType
<1>3. CASE b = "ACC"
  BY <1>2, <1>3 DEF Asks, Out, Request
<1>4. CASE b = "CACC"
  BY <1>2, <1>4 DEF Asks, Out, Request
<1>5. CASE b \notin {"ACC", "CACC"}
  BY <1>1, <1>5 DEF Asks, Out, Request
<1> QED
  BY <1>3, <1>4, <1>5

LEMMA AsksMode ==
  ASSUME NEW b \in Button, NEW level
  PROVE  /\ b = "ACC" => Asks(b, level).acc_cacc_request = 1
         /\ b = "CACC" => Asks(b, level).acc_cacc_request = 2
         /\ b \in GapButton => Asks(b, level).acc_cacc_request = 0
BY DEF Asks, GapButton, Button

LEMMA TimeGapType ==
  ASSUME NEW request, NEW cut_in \in BOOLEAN PROVE TimeGapOf(request, cut_in) \in TimeGap
<1>1. CASE request \in 1 .. Levels
  <2>1. request \in 1 .. 5
    BY <1>1, Numbers
  <2>2. request \in {1, 2, 3, 4, 5}
    BY <2>1
  <2> QED
    BY <1>1, <2>2 DEF TimeGapOf, TimeGap
<1>2. CASE request \notin 1 .. Levels
  BY <1>2 DEF TimeGapOf, TimeGap
<1> QED
  BY <1>1, <1>2

LEMMA InitInv == Init => Inv
<1> SUFFICES ASSUME Init PROVE Inv
  OBVIOUS
<1>1. 0 \in Gap /\ 0 \in Level
  <2>1. 0 \in Level /\ Byte(0) = 0
    BY Numbers DEF Level, Byte
  <2> QED
    BY <2>1, LevelType
<1>2. TypeOK
  <2>1. dvi_out \in Out /\ written \in Out
    BY <1>1, GarbageAssumption DEF Init, Out, Request
  <2>2. veh_id \in 1 .. 2 /\ mode \in {"ACC", "CACC"} /\ tGap \in TimeGap
    BY TimeGapType DEF Init
  <2>3. since \in Since /\ shown \in 0 .. Levels - 1 /\ steps \in 0 .. Hold /\ held \in 0 .. Hold
    BY Numbers DEF Init, Since, Never
  <2> QED
    BY <1>1, <2>1, <2>2, <2>3 DEF TypeOK, Init
<1> QED
  BY <1>2 DEF Inv, Init, OneStepPerPress, Spent, Held, Fixed, GapButton

\* The parts of the invariant after a step that leaves the request alone.
LEMMA SameRequest ==
  ASSUME Held, UNCHANGED <<asked, dvi_out, written>> PROVE Held'
BY DEF Held

LEMMA LaterType ==
  ASSUME since \in Since
  PROVE  /\ Later \in Since
         /\ Later \in {since, since + 1}
BY Numbers DEF Later, Since, Wrapped, Never

\* A tick that moves nothing leaves what is left of the press within the window.
LEMMA TickSpent ==
  ASSUME TypeOK, Spent, since' = Later, TickDown, steps' = steps
  PROVE  Spent'
<1>1. CASE steps = 1 /\ held > 1
  <2>1. since \in 0 .. Hold - held /\ held \in 0 .. Hold /\ held' = held - 1
    BY <1>1 DEF Spent, TypeOK, TickDown
  <2>2. since' \in {since, since + 1}
    BY LaterType DEF TypeOK
  <2> QED
    BY <2>1, <2>2, Numbers DEF Spent
<1>2. CASE ~(steps = 1 /\ held > 1)
  BY <1>2 DEF Spent, TypeOK, TickDown
<1> QED
  BY <1>1, <1>2

LEMMA PressInv == ASSUME Inv, NEW b \in Button, Press(b) PROVE Inv'
<1>1. TypeOK'
  BY Numbers DEF Inv, Press, TypeOK, receiver, control
<1>2. OneStepPerPress' /\ Spent'
  BY DEF Press, OneStepPerPress, Spent
<1>3. Held'
  BY SameRequest DEF Inv, Press, receiver
<1>4. Fixed'
  BY DEF Inv, Press, Fixed, control
<1> QED
  BY <1>1, <1>2, <1>3, <1>4 DEF Inv

LEMMA ReceiveGapInv == ASSUME Inv, ReceiveGap PROVE Inv'
<1>1. held \in 1 .. Hold /\ button \in GapButton /\ button \in Button
  BY Numbers DEF Inv, TypeOK, ReceiveGap, High, GapButton, Button
<1>2. PICK elapsed \in Elapsed :
        LET level == IF elapsed THEN Stepped(button) ELSE gap_level IN
        /\ gap_level' = level /\ steps' = IF elapsed THEN steps + 1 ELSE steps
        /\ dvi_out' = Asks(button, level)
  BY DEF ReceiveGap
<1>3. elapsed => steps = 0
  <2> SUFFICES ASSUME elapsed, steps = 1 PROVE FALSE
    BY DEF Inv, OneStepPerPress, TypeOK
  <2>1. since \in 0 .. Hold - held
    BY <1>1 DEF Inv, Spent
  <2>2. since < Window
    BY <1>1, <2>1, Numbers
  <2>3. since # Window /\ ~(since > Window)
    BY <2>1, <2>2, Numbers
  <2>4. Elapsed = {FALSE}
    BY <2>3 DEF Elapsed
  <2> QED
    BY <2>4
<1>4. gap_level' \in Level /\ steps' \in 0 .. 1
  BY <1>1, <1>2, <1>3, SteppedType DEF Inv, OneStepPerPress, TypeOK
<1>5. dvi_out' = Asks(button, gap_level')
  BY <1>2
<1>6. TypeOK'
  <2>1. dvi_out' \in Out /\ written' \in Out
    BY <1>1, <1>4, <1>5, AsksType DEF ReceiveGap
  <2>2. since' \in Since /\ held' \in 0 .. Hold /\ steps' \in 0 .. Hold
    BY <1>1, <1>4, Numbers DEF ReceiveGap, Saved, Since, TickDown
  <2> QED
    BY <1>1, <1>4, <2>1, <2>2 DEF Inv, TypeOK, ReceiveGap, control
<1>7. OneStepPerPress'
  BY <1>4 DEF OneStepPerPress
<1>8. Spent'
  BY <1>1, Numbers DEF ReceiveGap, Spent, Saved, TickDown
<1>9. Held'
  <2>1. dvi_out'.acc_cacc_request = 0 /\ written' = dvi_out' /\ asked' = button
    BY <1>1, <1>5, AsksMode DEF ReceiveGap
  <2> QED
    BY <1>1, <2>1 DEF Held, GapButton
<1>10. Fixed'
  BY <1>1 DEF Inv, ReceiveGap, Fixed, control
<1> QED
  BY <1>6, <1>7, <1>8, <1>9, <1>10 DEF Inv

LEMMA ReceiveModeInv == ASSUME Inv, ReceiveMode PROVE Inv'
<1>1. held > 0 /\ button \in Button \ GapButton
  <2>1. held > 0
    BY DEF ReceiveMode, High
  <2> QED
    BY <2>1 DEF Inv, Fixed, ReceiveMode, High
<1>2. TypeOK'
  <2>1. dvi_out' \in Out /\ written' \in Out
    BY <1>1, AsksType DEF Inv, TypeOK, ReceiveMode
  <2>2. since' \in Since /\ held' \in 0 .. Hold
    BY <1>1, LaterType, Numbers DEF Inv, TypeOK, ReceiveMode, TickDown
  <2> QED
    BY <1>1, <2>1, <2>2 DEF Inv, TypeOK, ReceiveMode, control
<1>3. OneStepPerPress' /\ Spent'
  BY TickSpent DEF Inv, ReceiveMode, OneStepPerPress
<1>4. Held'
  BY <1>1, AsksMode DEF ReceiveMode, Held, GapButton, Button
<1>5. Fixed'
  BY <1>1 DEF Inv, ReceiveMode, Fixed, control
<1> QED
  BY <1>2, <1>3, <1>4, <1>5 DEF Inv

LEMMA ReceiveNoneInv == ASSUME Inv, ReceiveNone PROVE Inv'
<1>1. TypeOK'
  BY LaterType DEF Inv, TypeOK, ReceiveNone, tablet, control
<1>2. held = 0 /\ held' = held /\ steps' = steps
  BY DEF Inv, TypeOK, ReceiveNone, High, tablet
<1>3. OneStepPerPress' /\ Spent'
  BY <1>2 DEF Inv, OneStepPerPress, Spent
<1>4. Held'
  BY DEF Inv, ReceiveNone, Held
<1>5. Fixed'
  BY DEF Inv, ReceiveNone, Fixed, tablet, control
<1> QED
  BY <1>1, <1>3, <1>4, <1>5 DEF Inv

LEMMA LoseByteInv == ASSUME Inv, LoseByte PROVE Inv'
<1>1. TypeOK'
  BY LaterType, Numbers DEF Inv, TypeOK, LoseByte, TickDown, control
<1>2. OneStepPerPress' /\ Spent'
  BY TickSpent DEF Inv, LoseByte, OneStepPerPress
<1>3. Held'
  BY SameRequest DEF Inv, LoseByte
<1>4. Fixed'
  BY Numbers DEF Inv, TypeOK, LoseByte, TickDown, Fixed, control
<1> QED
  BY <1>1, <1>2, <1>3, <1>4 DEF Inv

LEMMA MidnightInv == ASSUME Inv, Midnight PROVE Inv'
<1>1. TypeOK'
  BY Numbers DEF Inv, TypeOK, Midnight, tablet, control, Since, Wrapped
<1>2. OneStepPerPress'
  BY DEF Inv, Midnight, OneStepPerPress
<1>3. Spent'
  <2>1. held' = held /\ steps' = steps
    BY DEF Midnight, tablet
  <2>2. CASE steps = 1 /\ held > 0
    <3>1. since \in 0 .. Hold - held /\ held \in 0 .. Hold
      BY <2>2 DEF Inv, Spent, TypeOK
    <3>2. since # Never
      BY <2>2, <3>1, Numbers DEF Never
    <3> QED
      BY <2>1, <3>1, <3>2, Numbers DEF Midnight, Spent, Wrapped
  <2>3. CASE ~(steps = 1 /\ held > 0)
    BY <2>1, <2>3 DEF Spent
  <2> QED
    BY <2>2, <2>3
<1>4. Held'
  BY SameRequest DEF Inv, Midnight
<1>5. Fixed'
  BY DEF Inv, Midnight, Fixed, tablet, control
<1> QED
  BY <1>1, <1>2, <1>3, <1>4, <1>5 DEF Inv

LEMMA RestartInv == ASSUME Inv, Restart PROVE Inv'
<1>1. TypeOK'
  BY Numbers, GarbageAssumption DEF Inv, TypeOK, Restart, tablet, control, Since, Never, Level
<1> QED
  BY <1>1 DEF Inv, Restart, OneStepPerPress, Spent, Held, Fixed, GapButton, tablet, control

LEMMA CycleInv == ASSUME Inv, Cycle PROVE Inv'
<1>1. tGap' \in TimeGap
  BY TimeGapType DEF Cycle
<1>2. selected' \in Gap
  BY DEF Inv, TypeOK, Cycle, Out
<1>3. TypeOK'
  BY <1>1, <1>2 DEF Inv, TypeOK, Cycle, tablet, receiver
<1>4. OneStepPerPress' /\ Spent' /\ Held'
  BY DEF Inv, Cycle, tablet, receiver, OneStepPerPress, Spent, Held
<1>5. Fixed'
  BY DEF Inv, Cycle, Fixed, tablet
<1> QED
  BY <1>3, <1>4, <1>5 DEF Inv

LEMMA ShowInv == ASSUME Inv, Show PROVE Inv'
<1>1. shown' \in 0 .. Levels - 1
  BY Numbers DEF Show
<1>2. TypeOK'
  BY <1>1 DEF Inv, TypeOK, Show, tablet, receiver, control
<1>3. OneStepPerPress' /\ Spent' /\ Held'
  BY DEF Inv, Show, tablet, receiver, OneStepPerPress, Spent, Held
<1>4. Fixed'
  BY DEF Inv, Show, Fixed, tablet, control
<1> QED
  BY <1>2, <1>3, <1>4 DEF Inv

THEOREM Invariant == Spec => []Inv
<1>1. Inv /\ UNCHANGED vars => Inv'
  BY DEF Inv, vars, tablet, receiver, control, TypeOK, OneStepPerPress, Spent, Held, Fixed
<1>2. Inv /\ Next => Inv'
  BY PressInv, ReceiveGapInv, ReceiveModeInv, ReceiveNoneInv, LoseByteInv, MidnightInv,
     RestartInv, CycleInv, ShowInv DEF Next
<1> QED
  BY <1>1, <1>2, InitInv, PTL DEF Spec

\* The level stays between -1 and one more than the levels, whatever is pressed, and every
\* request and gap is one that the code has (dvi_rcv.c:120-160, long_trk.c:776-862).
THEOREM TypeCorrect == Spec => []TypeOK
<1>1. Inv => TypeOK
  BY DEF Inv
<1> QED
  BY <1>1, Invariant, PTL

\* One press is one step at most, however many of its bytes arrive (dvi_rcv.c:141-156).
THEOREM OneStep == Spec => []OneStepPerPress
<1>1. Inv => OneStepPerPress
  BY DEF Inv
<1> QED
  BY <1>1, Invariant, PTL

\* The mode of a follower is kept until the driver asks for another (long_trk.c:800-814).
THEOREM ModeKept == Spec => ModeAsKept
<1> DEFINE Kept ==
  /\ mode = "ACC" /\ mode' = "CACC" => asked # "ACC"
  /\ mode = "CACC" /\ mode' = "ACC" => asked \notin {"CACC", "MINUS", "PLUS"}
<1>1. ASSUME Inv, Next PROVE Kept
  <2>1. CASE Cycle
    BY <1>1, <2>1 DEF Inv, Held, Fixed, Cycle, GapButton
  <2>2. CASE ~Cycle
    <3>1. mode' = mode
      BY <1>1, <2>2 DEF Next, Press, ReceiveGap, ReceiveMode, ReceiveNone, LoseByte, Midnight,
           Restart, Show, control
    <3> QED
      BY <3>1
  <2> QED
    BY <2>1, <2>2
<1>2. UNCHANGED vars => Kept
  BY DEF vars, control
<1> QED
  BY <1>1, <1>2, Invariant, PTL DEF Spec, ModeAsKept

-----------------------------------------------------------------------------
(* What the actions that take a notification share keeps its type.         *)
LEMMA TakenType ==
  ASSUME DviTypeOK, NEW p \in Truck, Taken(p)
  PROVE  waiting' \in [Truck -> Nat]
<1>1. waiting[p] - 1 \in Nat
  BY DEF DviTypeOK, Taken
<1>. QED BY <1>1 DEF DviTypeOK, Taken

LEMMA DviInitType == DviInit => DviTypeOK
<1>1. 0 \in Nat /\ 0 \in 0 .. 2
  OBVIOUS
<1>. QED BY <1>1 DEF DviInit, DviTypeOK

LEMMA DviNextType == DviTypeOK /\ [DviNext]_dviVars => DviTypeOK'
<1>. SUFFICES ASSUME DviTypeOK, [DviNext]_dviVars PROVE DviTypeOK'
  OBVIOUS
<1>m. me \in Truck
  BY DisplayAssumption DEF Truck
<1>1. ASSUME NEW p \in Truck, TakeOther(p) PROVE DviTypeOK'
  <2>1. p \in Others
    BY <1>1 DEF TakeOther, Others
  <2>2. waiting' \in [Truck -> Nat]
    BY <1>1, TakenType DEF TakeOther
  <2>3. TypeOf(p) \in 0 .. 2
    BY DEF TypeOf
  <2>4. BrakingOf(p) \in BOOLEAN
    BY DEF BrakingOf, DviTypeOK
  <2>. QED BY <1>1, <2>1, <2>2, <2>3, <2>4 DEF DviTypeOK, TakeOther
<1>2. ASSUME NEW p \in Truck, NEW b \in BOOLEAN, Write(p, b) PROVE DviTypeOK'
  <2>1. brakes' \in [Truck -> BOOLEAN] /\ triggers' \subseteq Truck
    BY <1>2 DEF Write, DviTypeOK
  <2>2. later' \in [Others -> BOOLEAN]
    BY <1>2 DEF Write, DviTypeOK
  <2>3. waiting' \in [Truck -> Nat]
    BY <1>2 DEF Write, DviTypeOK
  <2>. QED BY <1>2, <2>1, <2>2, <2>3 DEF Write, DviTypeOK, display
<1>3. CASE TakeOwn
  <2>1. waiting' \in [Truck -> Nat]
    BY <1>3, <1>m, TakenType DEF TakeOwn
  <2>2. Connected(Ahead) \in BOOLEAN /\ Connected(Behind) \in BOOLEAN
    BY DEF Connected
  <2>3. type' \in [Truck -> 0 .. 2] /\ isBraking' \in [Truck -> BOOLEAN]
    BY <1>3, <1>m DEF TakeOwn, DviTypeOK
  <2>. QED BY <1>3, <2>1, <2>2, <2>3 DEF TakeOwn, DviTypeOK, database
<1>4. CASE DviRestart
  <2>1. 0 \in Nat /\ 0 \in 0 .. 2
    OBVIOUS
  <2>. QED BY <1>4, <2>1 DEF DviRestart, DviTypeOK
<1>5. CASE UNCHANGED dviVars
  BY <1>5 DEF DviTypeOK, dviVars, database, display
<1>. QED BY <1>1, <1>2, <1>3, <1>4, <1>5 DEF DviNext

(* The types of the display's variables, in every state.                   *)
THEOREM DviTypeCorrect == DviSpec => []DviTypeOK
BY DviInitType, DviNextType, PTL DEF DviSpec

-----------------------------------------------------------------------------
(* A truck shown without error, its trigger in place and no notification   *)
(* of it waiting, is shown with the braking of its last packet: a write    *)
(* adds a notification or takes the trigger away, and a reading that       *)
(* clears the error copies the braking.                                    *)
LEMMA NextShown == DviTypeOK /\ ShownIsLast /\ [DviNext]_dviVars => ShownIsLast'
<1>. SUFFICES ASSUME DviTypeOK, ShownIsLast, [DviNext]_dviVars, NEW q \in triggers',
                     type'[q] = 1, waiting'[q] = 0
              PROVE  isBraking'[q] = brakes'[q]
  BY DEF ShownIsLast
<1>q. q \in Truck
  BY DviNextType DEF DviTypeOK
<1>1. ASSUME NEW p \in Truck, TakeOther(p) PROVE isBraking'[q] = brakes'[q]
  <2>1. CASE p = q
    BY <1>1, <1>q, <2>1 DEF TakeOther, BrakingOf, DviTypeOK
  <2>2. CASE p # q
    BY <1>1, <1>q, <2>2 DEF TakeOther, Taken, ShownIsLast, DviTypeOK
  <2>. QED BY <2>1, <2>2
<1>2. ASSUME NEW p \in Truck, NEW b \in BOOLEAN, Write(p, b)
      PROVE  isBraking'[q] = brakes'[q]
  <2>1. p # q
    <3>1. CASE waiting' = [waiting EXCEPT ![p] = @ + 1]
      BY <3>1 DEF DviTypeOK
    <3>2. CASE triggers' = triggers \ {p}
      BY <3>2
    <3>. QED BY <1>2, <3>1, <3>2 DEF Write
  <2>2. waiting'[q] = waiting[q] /\ q \in triggers /\ brakes'[q] = brakes[q]
    BY <1>2, <1>q, <2>1 DEF Write, DviTypeOK
  <2>. QED BY <1>2, <2>2 DEF Write, display, ShownIsLast
<1>3. CASE TakeOwn
  <2>1. CASE q = me
    BY <1>3, <1>q, <2>1 DEF TakeOwn, database, DviTypeOK
  <2>2. CASE q # me
    BY <1>3, <1>q, <2>2 DEF TakeOwn, Taken, database, ShownIsLast, DviTypeOK
  <2>. QED BY <2>1, <2>2
<1>4. CASE DviRestart
  BY <1>4, <1>q DEF DviRestart
<1>5. CASE UNCHANGED dviVars
  BY <1>5 DEF ShownIsLast, dviVars, database, display
<1>. QED BY <1>1, <1>2, <1>3, <1>4, <1>5 DEF DviNext

(* No order of packets and readings leaves an old braking on the tablet    *)
(* unnoticed, as long as no notification of the truck was refused.         *)
THEOREM LastShown == DviSpec => []ShownIsLast
<1>1. DviInit => ShownIsLast
  BY DEF DviInit, ShownIsLast
<1>2. DviTypeOK /\ ShownIsLast /\ [DviNext]_dviVars => ShownIsLast'
  BY NextShown
<1>. QED BY <1>1, <1>2, DviTypeCorrect, PTL DEF DviSpec
=============================================================================
