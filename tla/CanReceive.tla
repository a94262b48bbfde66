----------------------------- MODULE CanReceive -----------------------------
(***************************************************************************)
(* The receiving half of the CAN driver: can_dev_interrupt of              *)
(* src/can/drv_sja1000/can_dev.c and src/can/drv_i82527/can_dev.c,         *)
(* can_handle_interrupt of src/can/drv_common/can_init.c, can_new_msg,     *)
(* can_dev_read, can_dev_empty_q and can_dev_arm of can_if.c, and the      *)
(* readers that use them through src/can/client/can_client.c.  A reader    *)
(* asks for one message after every pulse that the driver sends it.  The   *)
(* handler runs to its end before the driver serves another request, but   *)
(* frames arrive meanwhile.  The chip's interrupt is taken to be level     *)
(* triggered: one that is left is raised again when it is unmasked.        *)
(***************************************************************************)
EXTENDS Integers, Sequences

CONSTANTS
  Reader,
  NoReader,     \* the NULL notify_pocb
  Id,           \* the ids of frames
  ZeroId,       \* those that the filter set by can_init lets pass
  InSize,       \* CAN_IN_BUFFER_SIZE
  ChipSize,     \* how many frames the chip holds
  PerMessage,   \* TRUE for the SJA1000, whose handler counts its messages;
                \* FALSE for the i82527's
  MaxFrames,    \* bound on the frames that arrive
  MaxOpens,     \* bound on the calls of can_open
  MaxBusOff     \* bound on the resets of the chip

ASSUME ReaderAssumption == NoReader \notin Reader
ASSUME RxSizeAssumption == InSize \in Nat \ {0} /\ ChipSize \in Nat \ {0}
ASSUME IdAssumption == ZeroId \subseteq Id
ASSUME RxChipAssumption == PerMessage \in BOOLEAN
ASSUME RxBoundAssumption == MaxFrames \in Nat /\ MaxOpens \in Nat /\ MaxBusOff \in Nat

VARIABLES
  fifo,      \* the frames in the chip, oldest first
  in_buff,   \* the messages for readers, oldest first
  filter,    \* the ids that pass
  notify,    \* the reader that notify_pocb belongs to, or NoReader
  reader,    \* what each reader has done of can_open: closed, open, filtered,
             \* emptied, armed, and reading in can_read
  pulses,    \* the pulses in each reader's channel
  handler,   \* the handler's place and its local variables
  missed,    \* the pulses that notify was never sent: for the messages in
             \* in_buff when it was armed, and those that a reset dropped
  frames, opens, busoffs

rxVars == <<fifo, in_buff, filter, notify, reader, pulses, handler, missed,
          frames, opens, busoffs>>

In == INSTANCE RecentQueue WITH
  Item <- Id, Size <- InSize, NoItem <- NoReader, queue <- in_buff, returned <- NoReader

\* The driver waits for requests and pulses.
Waiting == [at |-> "wait"]

Running == [at : {"run"}, i : Nat, rmc : Nat, retval : Nat]

RxTypeOK ==
  /\ fifo \in Seq(Id) /\ Len(fifo) <= ChipSize
  /\ in_buff \in Seq(Id) /\ Len(in_buff) <= InSize
  /\ filter \in {ZeroId, Id}
  /\ notify \in Reader \cup {NoReader}
  /\ reader \in [Reader -> {"closed", "open", "filtered", "emptied", "armed", "reading"}]
  /\ pulses \in [Reader -> Nat]
  /\ handler \in {Waiting} \cup Running
  /\ missed \in Nat
  /\ frames \in 0 .. MaxFrames /\ opens \in 0 .. MaxOpens /\ busoffs \in 0 .. MaxBusOff
  /\ handler.at = "run" /\ PerMessage => handler.i <= handler.rmc + 1

\* can_init.
RxInit ==
  /\ fifo = <<>> /\ in_buff = <<>> /\ filter = ZeroId /\ notify = NoReader
  /\ reader = [r \in Reader |-> "closed"]
  /\ pulses = [r \in Reader |-> 0]
  /\ handler = Waiting /\ missed = 0
  /\ frames = 0 /\ opens = 0 /\ busoffs = 0

-----------------------------------------------------------------------------
\* A frame arrives; a full chip loses it.
Arrive(id) ==
  /\ frames < MaxFrames
  /\ frames' = frames + 1
  /\ fifo' = IF Len(fifo) < ChipSize THEN Append(fifo, id) ELSE fifo
  /\ UNCHANGED <<in_buff, filter, notify, reader, pulses, handler, missed, opens, busoffs>>

\* For a frame or any other interrupt, can_handle_interrupt enters
\* can_dev_interrupt, which reads the number of frames waiting.
EnterHandler ==
  /\ handler = Waiting
  /\ handler' = [at |-> "run", i |-> 0, rmc |-> Len(fifo), retval |-> 0]
  /\ UNCHANGED <<fifo, in_buff, filter, notify, reader, pulses, missed, frames, opens, busoffs>>

\* can_new_msg: a message that the filter rejects is gone.
can_new_msg(id) == in_buff' = IF id \in filter THEN In!Added(in_buff, id) ELSE in_buff

\* Mutant: the handler stays for one turn more.
OverstaysMore == PerMessage /\ handler.i > handler.rmc + 1

\* The SJA1000's handler returns after as many turns as there were frames and
\* one more.
Overstays == PerMessage /\ handler.i > handler.rmc

\* Mutant: the i82527's way of counting.
NotifiesOnce == 1

\* The i82527's retval says only that there was a message.
AnyReceived == 1

\* retval after one more message.
Notifies == IF PerMessage THEN handler.retval + 1 ELSE AnyReceived

\* One turn of the loop that finds a frame.
ReceiveFrame ==
  /\ handler.at = "run" /\ ~Overstays
  /\ fifo # <<>>
  /\ can_new_msg(Head(fifo))
  /\ fifo' = Tail(fifo)
  /\ handler' = [handler EXCEPT !.i = @ + 1, !.retval = Notifies]
  /\ UNCHANGED <<filter, notify, reader, pulses, missed, frames, opens, busoffs>>

\* One turn of the SJA1000's loop for another interrupt, without a frame.
OtherInterrupt ==
  /\ handler.at = "run" /\ PerMessage /\ ~Overstays
  /\ fifo = <<>>
  /\ handler' = [handler EXCEPT !.i = @ + 1]
  /\ UNCHANGED <<fifo, in_buff, filter, notify, reader, pulses, missed, frames, opens, busoffs>>

\* What can_dev_interrupt returns after a reset of the chip.
ResetReturns == 0

\* can_handle_interrupt delivers n events.  The memory of a closed reader's
\* notify_pocb has been freed: no event reaches a reader that is open.
Deliver(n) ==
  pulses' = IF notify # NoReader /\ reader[notify] # "closed"
            THEN [pulses EXCEPT ![notify] = @ + n]
            ELSE pulses

\* An error interrupt that the handler takes for bus off, which it does by an
\* uninitialized status_val on the SJA1000: the chip is reset.
BusOff ==
  /\ handler.at = "run" /\ ~Overstays
  /\ busoffs < MaxBusOff
  /\ busoffs' = busoffs + 1
  /\ fifo' = <<>>
  /\ Deliver(ResetReturns)
  /\ missed' = missed + handler.retval - ResetReturns
  /\ handler' = Waiting
  /\ UNCHANGED <<in_buff, filter, notify, reader, frames, opens>>

\* The handler has nothing left to do, or has stayed long enough.
LeaveHandler ==
  /\ handler.at = "run"
  /\ fifo = <<>> \/ Overstays
  /\ Deliver(handler.retval)
  /\ handler' = Waiting
  /\ UNCHANGED <<fifo, in_buff, filter, notify, reader, missed, frames, opens, busoffs>>

-----------------------------------------------------------------------------
\* can_open for reading makes a channel, then three requests to the driver.
Open(r) ==
  /\ reader[r] = "closed"
  /\ opens < MaxOpens
  /\ opens' = opens + 1
  /\ reader' = [reader EXCEPT ![r] = "open"]
  /\ pulses' = [pulses EXCEPT ![r] = 0]
  /\ UNCHANGED <<fifo, in_buff, filter, notify, handler, missed, frames, busoffs>>

can_dev_add_filter(r) ==
  /\ reader[r] = "open" /\ handler = Waiting
  /\ reader' = [reader EXCEPT ![r] = "filtered"]
  /\ filter' = Id
  /\ UNCHANGED <<fifo, in_buff, notify, pulses, handler, missed, frames, opens, busoffs>>

can_dev_empty_q(r) ==
  /\ reader[r] = "filtered" /\ handler = Waiting
  /\ reader' = [reader EXCEPT ![r] = "emptied"]
  /\ in_buff' = <<>>
  /\ UNCHANGED <<fifo, filter, notify, pulses, handler, missed, frames, opens, busoffs>>

can_dev_arm(r) ==
  /\ reader[r] = "emptied" /\ handler = Waiting
  /\ reader' = [reader EXCEPT ![r] = "armed"]
  /\ notify' = r
  /\ missed' = Len(in_buff)
  /\ UNCHANGED <<fifo, in_buff, filter, pulses, handler, frames, opens, busoffs>>

\* can_read waits for a pulse, and then asks for a message.
MsgReceive(r) ==
  /\ reader[r] = "armed"
  /\ pulses[r] > 0
  /\ reader' = [reader EXCEPT ![r] = "reading"]
  /\ pulses' = [pulses EXCEPT ![r] = @ - 1]
  /\ UNCHANGED <<fifo, in_buff, filter, notify, handler, missed, frames, opens, busoffs>>

\* Mutant: the read only looks at the first message.
ReadFirst(r) ==
  /\ reader[r] = "reading" /\ handler = Waiting
  /\ reader' = [reader EXCEPT ![r] = "armed"]
  /\ UNCHANGED <<fifo, in_buff, filter, notify, pulses, handler, missed, frames, opens, busoffs>>

\* The driver answers with the oldest message, or with an error if there is none.
can_dev_read(r) ==
  /\ reader[r] = "reading" /\ handler = Waiting
  /\ reader' = [reader EXCEPT ![r] = "armed"]
  /\ in_buff' = IF in_buff = <<>> THEN <<>> ELSE Tail(in_buff)
  /\ UNCHANGED <<fifo, filter, notify, pulses, handler, missed, frames, opens, busoffs>>

\* can_close: "Should there be a can_disarm?"  notify_pocb keeps its value.
can_close(r) ==
  /\ reader[r] = "armed"
  /\ reader' = [reader EXCEPT ![r] = "closed"]
  /\ UNCHANGED <<fifo, in_buff, filter, notify, pulses, handler, missed, frames, opens, busoffs>>

RxNext ==
  \/ \E id \in Id : Arrive(id)
  \/ EnterHandler \/ ReceiveFrame \/ OtherInterrupt \/ BusOff \/ LeaveHandler
  \/ \E r \in Reader : \/ Open(r) \/ can_dev_add_filter(r) \/ can_dev_empty_q(r)
                       \/ can_dev_arm(r) \/ MsgReceive(r) \/ can_dev_read(r) \/ can_close(r)

\* The driver handles the interrupts of frames, and an armed reader goes on
\* reading: dispatch_block lets its request wait only for what came before it.
RxSpec == /\ RxInit /\ [][RxNext]_rxVars
        /\ WF_rxVars(fifo # <<>> /\ EnterHandler)
        /\ WF_rxVars(ReceiveFrame \/ LeaveHandler)
        /\ \A r \in Reader : WF_rxVars(MsgReceive(r)) /\ SF_rxVars(can_dev_read(r))

-----------------------------------------------------------------------------
\* The pulses that the handler will deliver.
Coming == IF handler = Waiting THEN 0 ELSE handler.retval

Armed(r) == reader[r] \in {"armed", "reading"}

\* The pulse that a reader has taken and not yet used.
Taken(r) == IF reader[r] = "reading" THEN 1 ELSE 0

\* The armed reader has, or will be sent, a pulse for every message that waits,
\* apart from the missed ones: whatever arrives while the handler runs, the
\* buffer drops, the filter rejects or another reader still takes, no message
\* is left to wait for the arrival of a later one.
PulseForEachMessage ==
  notify # NoReader /\ Armed(notify) =>
    Len(in_buff) <= pulses[notify] + Taken(notify) + Coming + missed

\* Unless messages were missed, an armed reader empties the buffer.
Drains ==
  \A r \in Reader :
    notify = r /\ Armed(r) /\ missed = 0 /\ in_buff # <<>> ~>
      in_buff = <<>> \/ notify # r \/ reader[r] = "closed" \/ missed > 0
=============================================================================
