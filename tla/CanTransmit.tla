---------------------------- MODULE CanTransmit ----------------------------
(***************************************************************************)
(* The sending half of the CAN driver: can_dev_write and can_dev_flush_q   *)
(* of src/can/drv_common/can_if.c with can_send and the transmit and error *)
(* interrupts of src/can/drv_sja1000/can_dev.c and                         *)
(* src/can/drv_i82527/can_dev.c.  The driver is one process: a write and   *)
(* the handler of an interrupt's pulse do not overlap, but the chip goes   *)
(* on sending between and during them.  Messages are numbered in the order *)
(* in which clients write them.                                            *)
(***************************************************************************)
EXTENDS Integers, Sequences

CONSTANTS
  OutSize,      \* CAN_OUT_BUFFER_SIZE
  FlushLimit,   \* how many messages may wait before old ones are thrown out
  Chip,         \* the chips for which the driver is built
  MaxWrites,    \* bound on the writes
  MaxResets     \* bound on the bus errors that make the handler reset the chip

ASSUME SizeAssumption == OutSize \in Nat /\ FlushLimit \in Nat \ {0} /\ FlushLimit < OutSize
ASSUME ChipAssumption == Chip \subseteq {"sja1000", "i82527"}
ASSUME BoundAssumption == MaxWrites \in Nat /\ MaxResets \in Nat

VARIABLES
  dev,        \* the chip of this driver
  out_buff,   \* the messages waiting, oldest first
  chip,       \* the message in the chip's transmit buffer, or NoMsg
  irq,        \* whether a transmit interrupt is pending
  late,       \* whether last_time_can_sent is more than a second ago
  bus,        \* what the bus has carried
  written,    \* how many messages clients have written
  flushed,    \* whether messages were thrown out
  raced,      \* whether a message was sent again with its interrupt pending
  resets

vars == <<dev, out_buff, chip, irq, late, bus, written, flushed, raced, resets>>

NoMsg == 0

Msg == 1 .. MaxWrites

\* Whether can_send changes what a busy chip is sending.
Replaces == dev = "i82527"

\* out_buff is a circular buffer: see CircularBuffer.
Out == INSTANCE RecentQueue WITH
  Item <- Msg, Size <- OutSize, NoItem <- NoMsg, queue <- out_buff, returned <- NoMsg

\* A buffer as big as it can get is still smaller than CAN_OUT_BUFFER_SIZE:
\* can_cq_add never displaces a message.
TypeOK ==
  /\ dev \in Chip
  /\ out_buff \in Seq(Msg) /\ Len(out_buff) <= FlushLimit
  /\ chip \in Msg \cup {NoMsg}
  /\ irq \in BOOLEAN /\ late \in BOOLEAN /\ flushed \in BOOLEAN /\ raced \in BOOLEAN
  /\ bus \in Seq(Msg)
  /\ written \in 0 .. MaxWrites /\ resets \in 0 .. MaxResets

\* last_time_can_sent is 0 to begin with.
Init ==
  /\ dev \in Chip
  /\ out_buff = <<>> /\ chip = NoMsg /\ irq = FALSE /\ late = TRUE
  /\ bus = <<>> /\ written = 0 /\ flushed = FALSE /\ raced = FALSE /\ resets = 0

-----------------------------------------------------------------------------
\* can_send puts the oldest message of buff into the chip.  The SJA1000's
\* buffer is locked while it holds a message; the i82527's is overwritten.
can_send(buff) ==
  /\ chip' = IF chip = NoMsg \/ Replaces THEN Head(buff) ELSE chip
  /\ late' = FALSE

\* can_dev_flush_q: only the newest message stays.
can_dev_flush_q(buff) == <<buff[Len(buff)]>>

\* Mutant: nothing is sent to a chip that has not interrupted.
WaitsForInterrupt(buff) ==
  \/ Len(buff) = 1 /\ can_send(buff) /\ UNCHANGED <<irq, raced>>
  \/ Len(buff) # 1 /\ UNCHANGED <<chip, late, irq, raced>>

\* The first message waiting is sent; when others wait the chip has one, unless
\* an interrupt was missed: after a second the oldest is sent again.  On the
\* i82527 that clears a pending interrupt.
SendOnWrite(buff) ==
  \/ /\ Len(buff) = 1 \/ late
     /\ can_send(buff)
     /\ irq' = (irq /\ ~Replaces)
     /\ raced' = (raced \/ irq')
  \/ /\ Len(buff) # 1 /\ ~late
     /\ UNCHANGED <<chip, late, irq, raced>>

can_dev_write ==
  /\ written < MaxWrites
  /\ written' = written + 1
  /\ LET buff == Out!Added(out_buff, written')
     IN  /\ SendOnWrite(buff)
         /\ \/ Len(buff) <= FlushLimit /\ out_buff' = buff /\ UNCHANGED flushed
            \/ /\ Len(buff) > FlushLimit
               /\ out_buff' = can_dev_flush_q(buff)
               /\ flushed' = TRUE
  /\ UNCHANGED <<dev, bus, resets>>

-----------------------------------------------------------------------------
\* The pop of tx_process_interrupt: of an empty buffer nothing.
Rest(buff) == IF buff = <<>> THEN <<>> ELSE Tail(buff)

\* tx_process_interrupt, Interrupt_Request_Tx: the oldest message is taken for
\* the one that was sent, and the next one is sent.
tx_process_interrupt ==
  /\ out_buff' = Rest(out_buff)
  /\ IF out_buff' = <<>> THEN UNCHANGED <<chip, late>> ELSE can_send(out_buff')

\* can_dev_interrupt for a transmit interrupt.
TransmitInterrupt ==
  /\ irq
  /\ irq' = FALSE
  /\ tx_process_interrupt
  /\ UNCHANGED <<dev, bus, written, flushed, raced, resets>>

\* Mutant: the reset empties the buffer as well.
ResetForgets ==
  /\ resets < MaxResets
  /\ resets' = resets + 1
  /\ out_buff' = <<>> /\ chip' = NoMsg /\ irq' = FALSE
  /\ UNCHANGED <<dev, late, bus, written, flushed, raced>>

\* Mutant: the message that the reset stops waits again, as the last.
ResetRequeues ==
  /\ resets < MaxResets
  /\ resets' = resets + 1
  /\ out_buff' = IF chip = NoMsg THEN out_buff ELSE Append(Rest(out_buff), chip)
  /\ chip' = NoMsg /\ irq' = FALSE
  /\ UNCHANGED <<dev, late, bus, written, flushed, raced>>

\* can_dev_interrupt for an error interrupt that takes the bus for off: a reset
\* of the chip throws away the message in it.  The SJA1000's handler serves a
\* transmit interrupt first when both are pending; the i82527's, one at a time,
\* error first, loses it.
ErrorInterrupt ==
  /\ resets < MaxResets
  /\ resets' = resets + 1
  /\ \/ /\ irq /\ ~Replaces
        /\ out_buff' = Rest(out_buff)
        /\ late' = IF out_buff' = <<>> THEN late ELSE FALSE
     \/ (irq => Replaces) /\ UNCHANGED <<out_buff, late>>
  /\ chip' = NoMsg /\ irq' = FALSE
  /\ UNCHANGED <<dev, bus, written, flushed, raced>>

-----------------------------------------------------------------------------
\* The chip has sent its message.
Transmitted ==
  /\ chip # NoMsg
  /\ bus' = Append(bus, chip)
  /\ chip' = NoMsg
  /\ irq' = TRUE
  /\ UNCHANGED <<dev, out_buff, late, written, flushed, raced, resets>>

\* can_dev_write: "must have missed an interrupt".
InterruptMissed ==
  /\ irq
  /\ irq' = FALSE
  /\ UNCHANGED <<dev, out_buff, chip, late, bus, written, flushed, raced, resets>>

SecondPasses ==
  /\ ~late
  /\ late' = TRUE
  /\ UNCHANGED <<dev, out_buff, chip, irq, bus, written, flushed, raced, resets>>

Next == \/ can_dev_write \/ TransmitInterrupt \/ ErrorInterrupt
        \/ Transmitted \/ InterruptMissed \/ SecondPasses

\* can_dev_write: "Assumes message sends are at least 1 Hz".  Nothing else is
\* certain to happen: the bus may stay blocked and interrupts be missed.
Spec == Init /\ [][Next]_vars /\ WF_vars(can_dev_write)

-----------------------------------------------------------------------------
\* Messages wait, but the chip has nothing to send and will not interrupt.
Stalled == out_buff # <<>> /\ chip = NoMsg /\ ~irq

\* Whatever interrupts are missed and whatever is thrown out or sent again, the
\* bus never carries an older message after a newer one.
BusInOrder == \A i, j \in DOMAIN bus : i < j => bus[i] <= bus[j]

\* A missed interrupt or a reset loses no message: as long as none were thrown
\* out and none was sent again while its interrupt was pending, every message
\* written waits or has been sent.
NothingLost ==
  ~flushed /\ ~raced =>
    \A m \in 1 .. written : (\E i \in DOMAIN out_buff : out_buff[i] = m)
                              \/ \E i \in DOMAIN bus : bus[i] = m

\* A stall ends with the next write after a second.
StallEnds == Stalled /\ late /\ written < MaxWrites ~> ~Stalled
=============================================================================
