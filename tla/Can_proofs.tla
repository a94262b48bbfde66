----------------------------- MODULE Can_proofs -----------------------------
(***************************************************************************)
(* Theorems about the two halves of the CAN driver, for every size of its  *)
(* buffers.                                                                *)
(*                                                                         *)
(* CanTransmit, for every limit of the flush, set of chips and number of   *)
(* writes and resets.  The order of the bus is not inductive by itself: it *)
(* rests on the order of what waits, of the message in the chip before all *)
(* that wait, and of both after all that was sent.                         *)
(*                                                                         *)
(* CanReceive, for every set of readers and size of the chip, and however  *)
(* often they open and close: the pulses follow the messages step by step. *)
(***************************************************************************)
EXTENDS CanTransmit, CanReceive, TLAPS


USE SizeAssumption, ChipAssumption, BoundAssumption

\* Messages sent, in the chip and waiting are in the order of their writing.
\* An empty chip's NoMsg is below all of them.
Order(buff, c, sent, w) ==
  /\ \A i, j \in 1 .. Len(buff) : i < j => buff[i] <= buff[j]
  /\ \A i \in 1 .. Len(buff) : c <= buff[i] /\ buff[i] <= w
  /\ c <= w
  /\ \A i, j \in 1 .. Len(sent) : i < j => sent[i] <= sent[j]
  /\ \A i \in 1 .. Len(sent) :
       /\ \A j \in 1 .. Len(buff) : sent[i] <= buff[j]
       /\ c # NoMsg => sent[i] <= c
       /\ sent[i] <= w

Ordered == Order(out_buff, chip, bus, written)

Inv == TypeOK /\ Ordered

-----------------------------------------------------------------------------
\* A message that is written comes after all others.
LEMMA OrderAdd ==
  ASSUME NEW buff \in Seq(Msg), NEW c \in Msg \cup {NoMsg}, NEW sent \in Seq(Msg),
         NEW w \in Nat, w < MaxWrites, Order(buff, c, sent, w)
  PROVE  /\ Append(buff, w + 1) \in Seq(Msg)
         /\ Len(Append(buff, w + 1)) = Len(buff) + 1
         /\ Append(buff, w + 1) # <<>>
         /\ Order(Append(buff, w + 1), c, sent, w + 1)
<1> DEFINE a == Append(buff, w + 1)
<1>1. w + 1 \in Msg
  BY DEF Msg
<1>2. /\ a \in Seq(Msg) /\ Len(a) = Len(buff) + 1
      /\ \A i \in 1 .. Len(buff) : a[i] = buff[i]
      /\ a[Len(buff) + 1] = w + 1
  BY <1>1
<1>3. /\ \A i \in 1 .. Len(buff) : buff[i] \in Nat
      /\ \A i \in 1 .. Len(sent) : sent[i] \in Nat
      /\ c \in Nat
  BY DEF Msg, NoMsg
<1> HIDE DEF a
<1>4. \A i, j \in 1 .. Len(a) : i < j => a[i] <= a[j]
  <2> TAKE i, j \in 1 .. Len(a)
  <2> HAVE i < j
  <2>1. i \in 1 .. Len(buff)
    BY <1>2
  <2>2. CASE j \in 1 .. Len(buff)
    BY <1>2, <2>1, <2>2 DEF Order
  <2>3. CASE j = Len(buff) + 1
    <3>1. a[i] = buff[i] /\ buff[i] \in Nat /\ buff[i] <= w
      BY <1>2, <1>3, <2>1 DEF Order
    <3> QED
      BY <1>2, <2>3, <3>1
  <2>4. j \in 1 .. Len(buff) \/ j = Len(buff) + 1
    <3>1. Len(buff) \in Nat /\ Len(a) = Len(buff) + 1
      BY <1>2
    <3> QED
      BY <3>1
  <2> QED
    BY <2>2, <2>3, <2>4
<1>5. \A i \in 1 .. Len(a) : c <= a[i] /\ a[i] <= w + 1
  BY <1>2, <1>3, SMTT(20) DEF Order
<1>6. \A i \in 1 .. Len(sent) : /\ \A j \in 1 .. Len(a) : sent[i] <= a[j]
                                /\ c # NoMsg => sent[i] <= c
                                /\ sent[i] <= w + 1
  BY <1>2, <1>3 DEF Order
<1>7. c <= w + 1
  BY <1>3 DEF Order
<1>8. Order(a, c, sent, w + 1)
  BY <1>4, <1>5, <1>6, <1>7 DEF Order
<1>9. a # <<>>
  BY <1>2
<1> QED
  BY <1>2, <1>8, <1>9 DEF a

\* The oldest message may be taken away.
LEMMA OrderRest ==
  ASSUME NEW buff \in Seq(Msg), NEW c \in Msg \cup {NoMsg}, NEW sent \in Seq(Msg),
         NEW w \in Nat, Order(buff, c, sent, w)
  PROVE  /\ Rest(buff) \in Seq(Msg) /\ Len(Rest(buff)) <= Len(buff)
         /\ Order(Rest(buff), c, sent, w)
<1>1. CASE buff = <<>>
  BY <1>1 DEF Rest
<1>2. CASE buff # <<>>
  <2> DEFINE t == Tail(buff)
  <2>1. /\ t \in Seq(Msg) /\ Len(t) = Len(buff) - 1
        /\ \A i \in 1 .. Len(t) : t[i] = buff[i + 1] /\ i + 1 \in 1 .. Len(buff)
    BY <1>2
  <2>2. Rest(buff) = t
    BY <1>2 DEF Rest
  <2> HIDE DEF t
  <2>3. \A i, j \in 1 .. Len(t) : i < j => t[i] <= t[j]
    <3> TAKE i, j \in 1 .. Len(t)
    <3> HAVE i < j
    <3>1. /\ i + 1 \in 1 .. Len(buff) /\ j + 1 \in 1 .. Len(buff) /\ i + 1 < j + 1
          /\ t[i] = buff[i + 1] /\ t[j] = buff[j + 1]
      BY <2>1
    <3> QED
      BY <3>1 DEF Order
  <2>4. \A i \in 1 .. Len(t) : c <= t[i] /\ t[i] <= w
    BY <2>1 DEF Order
  <2>5. \A i \in 1 .. Len(sent) : \A j \in 1 .. Len(t) : sent[i] <= t[j]
    BY <2>1 DEF Order
  <2>6. Order(t, c, sent, w)
    BY <2>3, <2>4, <2>5 DEF Order
  <2> QED
    BY <2>1, <2>2, <2>6
<1> QED
  BY <1>1, <1>2

\* The oldest message may be put into the chip, in place of another one.
LEMMA OrderSend ==
  ASSUME NEW buff \in Seq(Msg), buff # <<>>, NEW c, NEW sent \in Seq(Msg),
         NEW w \in Nat, Order(buff, c, sent, w)
  PROVE  Head(buff) \in Msg /\ Order(buff, Head(buff), sent, w)
<1>1. /\ Head(buff) = buff[1] /\ 1 \in 1 .. Len(buff)
      /\ \A i \in 1 .. Len(buff) : buff[i] \in Msg /\ buff[i] \in Nat
  BY DEF Msg
<1>2. \A i \in 1 .. Len(buff) : buff[1] <= buff[i]
  BY <1>1 DEF Order
<1> QED
  BY <1>1, <1>2 DEF Order

\* All but the newest message may be thrown out.
LEMMA OrderFlush ==
  ASSUME NEW buff \in Seq(Msg), buff # <<>>, NEW c, NEW sent \in Seq(Msg),
         NEW w \in Nat, Order(buff, c, sent, w)
  PROVE  /\ can_dev_flush_q(buff) \in Seq(Msg) /\ Len(can_dev_flush_q(buff)) = 1
         /\ Order(can_dev_flush_q(buff), c, sent, w)
<1> DEFINE f == can_dev_flush_q(buff)
<1>1. Len(buff) \in 1 .. Len(buff) /\ buff[Len(buff)] \in Msg
  OBVIOUS
<1>2. f \in Seq(Msg) /\ Len(f) = 1 /\ f[1] = buff[Len(buff)]
  BY <1>1 DEF can_dev_flush_q
<1> HIDE DEF f
<1>3. Order(f, c, sent, w)
  BY <1>1, <1>2 DEF Order
<1> QED
  BY <1>2, <1>3 DEF f

\* The chip may lose its message.
LEMMA OrderReset ==
  ASSUME NEW buff \in Seq(Msg), NEW c, NEW sent \in Seq(Msg),
         NEW w \in Nat, Order(buff, c, sent, w)
  PROVE  Order(buff, NoMsg, sent, w)
<1>1. \A i \in 1 .. Len(buff) : NoMsg <= buff[i]
  BY DEF Msg, NoMsg
<1>2. NoMsg <= w
  BY DEF NoMsg
<1> QED
  BY <1>1, <1>2 DEF Order

\* The message in the chip may be sent.
LEMMA OrderTransmit ==
  ASSUME NEW buff \in Seq(Msg), NEW c \in Msg, NEW sent \in Seq(Msg),
         NEW w \in Nat, Order(buff, c, sent, w)
  PROVE  Append(sent, c) \in Seq(Msg) /\ Order(buff, NoMsg, Append(sent, c), w)
<1> DEFINE a == Append(sent, c)
<1>1. /\ a \in Seq(Msg) /\ Len(a) = Len(sent) + 1
      /\ \A i \in 1 .. Len(sent) : a[i] = sent[i]
      /\ a[Len(sent) + 1] = c
  OBVIOUS
<1>2. c # NoMsg /\ c \in Nat
  BY DEF Msg, NoMsg
<1>3. Order(buff, NoMsg, sent, w)
  BY OrderReset
<1> HIDE DEF a
<1>4. \A i, j \in 1 .. Len(a) : i < j => a[i] <= a[j]
  BY <1>1, <1>2, SMTT(20) DEF Order
<1>5. \A i \in 1 .. Len(a) : /\ \A j \in 1 .. Len(buff) : a[i] <= buff[j]
                             /\ a[i] <= w
  BY <1>1, <1>2 DEF Order
<1>6. Order(buff, NoMsg, a, w)
  BY <1>3, <1>4, <1>5 DEF Order
<1> QED
  BY <1>1, <1>6 DEF a

-----------------------------------------------------------------------------
LEMMA InitInv == Init => Inv
<1> SUFFICES ASSUME Init PROVE Inv
  OBVIOUS
<1>1. out_buff \in Seq(Msg) /\ Len(out_buff) = 0 /\ bus \in Seq(Msg) /\ Len(bus) = 0
  BY DEF Init
<1>2. TypeOK
  <2>1. FlushLimit \in Nat /\ 0 \in 0 .. MaxWrites /\ 0 \in 0 .. MaxResets
    OBVIOUS
  <2> QED
    <3>1. irq \in BOOLEAN /\ late \in BOOLEAN /\ flushed \in BOOLEAN /\ raced \in BOOLEAN
      BY DEF Init
    <3>2. Len(out_buff) <= FlushLimit /\ written \in 0 .. MaxWrites /\ resets \in 0 .. MaxResets
      BY <1>1, <2>1 DEF Init
    <3>3. dev \in Chip /\ chip \in Msg \cup {NoMsg}
      BY DEF Init
    <3> QED
      BY <1>1, <3>1, <3>2, <3>3 DEF TypeOK
<1>3. Ordered
  BY <1>1 DEF Init, Ordered, Order, NoMsg
<1> QED
  BY <1>2, <1>3 DEF Inv

\* can_send of a buffer that is not empty.
LEMMA CanSendKeeps ==
  ASSUME NEW buff \in Seq(Msg), buff # <<>>, NEW sent \in Seq(Msg), NEW w \in Nat,
         chip \in Msg \cup {NoMsg}, Order(buff, chip, sent, w), can_send(buff)
  PROVE  chip' \in Msg \cup {NoMsg} /\ late' = FALSE /\ Order(buff, chip', sent, w)
BY OrderSend DEF can_send

LEMMA WriteKeepsInv ==
  ASSUME Inv, can_dev_write
  PROVE  Inv'
<1> DEFINE buff == Append(out_buff, written + 1)
<1>1. /\ out_buff \in Seq(Msg) /\ Len(out_buff) <= FlushLimit
      /\ chip \in Msg \cup {NoMsg} /\ bus \in Seq(Msg) /\ written \in Nat
      /\ written < MaxWrites /\ written' = written + 1
      /\ Order(out_buff, chip, bus, written)
  BY DEF Inv, TypeOK, Ordered, can_dev_write
<1>2. /\ buff \in Seq(Msg) /\ Len(buff) = Len(out_buff) + 1 /\ buff # <<>>
      /\ Order(buff, chip, bus, written')
  BY <1>1, OrderAdd
<1>3. Out!Added(out_buff, written') = buff
  BY <1>1 DEF Out!Added
<1> HIDE DEF buff
<1>4. /\ SendOnWrite(buff)
      /\ \/ Len(buff) <= FlushLimit /\ out_buff' = buff /\ flushed' = flushed
         \/ out_buff' = can_dev_flush_q(buff) /\ flushed' = TRUE
      /\ dev' = dev /\ bus' = bus /\ resets' = resets
  BY <1>3 DEF can_dev_write
<1>5. /\ chip' \in Msg \cup {NoMsg} /\ late' \in BOOLEAN
      /\ Order(buff, chip', bus, written')
  <2>1. CASE can_send(buff)
    <3>1. written' \in Nat
      BY <1>1
    <3>2. /\ chip' \in Msg \cup {NoMsg} /\ late' = FALSE
          /\ Order(buff, chip', bus, written')
      BY <1>1, <1>2, <2>1, <3>1, CanSendKeeps
    <3> QED
      BY <3>2
  <2>2. CASE UNCHANGED <<chip, late, irq, raced>>
    <3>1. chip' = chip
      BY <2>2
    <3>2. late' \in BOOLEAN
      BY <2>2 DEF Inv, TypeOK
    <3>3. Order(buff, chip', bus, written')
      BY <1>2, <3>1
    <3> QED
      BY <1>1, <3>1, <3>2, <3>3
  <2> QED
    BY <1>4, <2>1, <2>2 DEF SendOnWrite
<1>6. irq' \in BOOLEAN /\ raced' \in BOOLEAN
  BY <1>4 DEF SendOnWrite, Inv, TypeOK, Replaces
<1>7. /\ out_buff' \in Seq(Msg) /\ Len(out_buff') <= FlushLimit
      /\ Order(out_buff', chip', bus, written')
  <2>1. CASE Len(buff) <= FlushLimit /\ out_buff' = buff
    BY <1>2, <1>5, <2>1
  <2>2. CASE out_buff' = can_dev_flush_q(buff)
    BY <1>1, <1>2, <1>5, <2>2, OrderFlush
  <2> QED
    BY <1>4, <2>1, <2>2
<1>8. TypeOK'
  <2>1. dev' \in Chip /\ bus' \in Seq(Msg) /\ resets' \in 0 .. MaxResets
    BY <1>4 DEF Inv, TypeOK
  <2>2. flushed' \in BOOLEAN /\ written' \in 0 .. MaxWrites
    <3>1. flushed \in BOOLEAN /\ written \in 0 .. MaxWrites /\ MaxWrites \in Nat
      BY DEF Inv, TypeOK
    <3>2. flushed' \in BOOLEAN
      BY <1>4, <3>1
    <3>3. written' \in 0 .. MaxWrites
      BY <1>1, <3>1
    <3> QED
      BY <3>2, <3>3
  <2> QED
    BY <1>5, <1>6, <1>7, <2>1, <2>2 DEF TypeOK
<1> QED
  BY <1>4, <1>7, <1>8 DEF Inv, Ordered

LEMMA TransmitInterruptKeepsInv ==
  ASSUME Inv, TransmitInterrupt
  PROVE  Inv'
<1>1. /\ out_buff \in Seq(Msg) /\ Len(out_buff) <= FlushLimit
      /\ chip \in Msg \cup {NoMsg} /\ bus \in Seq(Msg) /\ written \in Nat
      /\ Order(out_buff, chip, bus, written)
  BY DEF Inv, TypeOK, Ordered
<1>2. /\ out_buff' = Rest(out_buff)
      /\ irq' = FALSE /\ UNCHANGED <<dev, bus, written, flushed, raced, resets>>
      /\ \/ out_buff' = <<>> /\ UNCHANGED <<chip, late>>
         \/ out_buff' # <<>> /\ can_send(out_buff')
  BY DEF TransmitInterrupt, tx_process_interrupt
<1>3. /\ out_buff' \in Seq(Msg) /\ Len(out_buff') <= FlushLimit
      /\ Order(out_buff', chip, bus, written)
  <2>1. /\ Rest(out_buff) \in Seq(Msg) /\ Len(Rest(out_buff)) <= Len(out_buff)
        /\ Order(Rest(out_buff), chip, bus, written)
    BY <1>1, OrderRest
  <2>2. Len(Rest(out_buff)) \in Nat /\ Len(out_buff) \in Nat
    BY <1>1, <2>1
  <2> QED
    BY <1>1, <1>2, <2>1, <2>2
<1>4. chip' \in Msg \cup {NoMsg} /\ late' \in BOOLEAN /\ Order(out_buff', chip', bus, written)
  <2>1. CASE UNCHANGED <<chip, late>>
    BY <1>1, <1>3, <2>1 DEF Inv, TypeOK
  <2>2. CASE out_buff' # <<>> /\ can_send(out_buff')
    BY <1>1, <1>3, <2>2, CanSendKeeps
  <2> QED
    BY <1>2, <2>1, <2>2
<1> QED
  BY <1>2, <1>3, <1>4 DEF Inv, TypeOK, Ordered

LEMMA ErrorInterruptKeepsInv ==
  ASSUME Inv, ErrorInterrupt
  PROVE  Inv'
<1>1. /\ out_buff \in Seq(Msg) /\ Len(out_buff) <= FlushLimit
      /\ chip \in Msg \cup {NoMsg} /\ bus \in Seq(Msg) /\ written \in Nat
      /\ Order(out_buff, chip, bus, written)
  BY DEF Inv, TypeOK, Ordered
<1>2. /\ out_buff' = Rest(out_buff) \/ out_buff' = out_buff
      /\ chip' = NoMsg /\ irq' = FALSE /\ late' \in BOOLEAN
      /\ resets < MaxResets /\ resets' = resets + 1
      /\ UNCHANGED <<dev, bus, written, flushed, raced>>
  BY DEF ErrorInterrupt, Inv, TypeOK
<1>3. /\ out_buff' \in Seq(Msg) /\ Len(out_buff') <= FlushLimit
      /\ Order(out_buff', chip, bus, written)
  <2>1. /\ Rest(out_buff) \in Seq(Msg) /\ Len(Rest(out_buff)) <= Len(out_buff)
        /\ Order(Rest(out_buff), chip, bus, written)
    BY <1>1, OrderRest
  <2>2. Len(Rest(out_buff)) \in Nat /\ Len(out_buff) \in Nat
    BY <1>1, <2>1
  <2> QED
    BY <1>1, <1>2, <2>1, <2>2
<1>4. Order(out_buff', NoMsg, bus, written)
  BY <1>1, <1>3, OrderReset
<1>5. TypeOK'
  <2>1. resets' \in 0 .. MaxResets
    BY <1>2 DEF Inv, TypeOK
  <2> QED
    BY <1>2, <1>3, <2>1 DEF Inv, TypeOK
<1> QED
  BY <1>2, <1>4, <1>5 DEF Inv, Ordered

LEMMA TransmittedKeepsInv ==
  ASSUME Inv, Transmitted
  PROVE  Inv'
<1>1. /\ out_buff \in Seq(Msg) /\ chip \in Msg /\ bus \in Seq(Msg) /\ written \in Nat
      /\ Order(out_buff, chip, bus, written)
  BY DEF Inv, TypeOK, Ordered, Transmitted
<1>2. bus' \in Seq(Msg) /\ Order(out_buff, NoMsg, bus', written)
  BY <1>1, OrderTransmit DEF Transmitted
<1> QED
  BY <1>2 DEF Transmitted, Inv, TypeOK, Ordered

LEMMA Invariance == Spec => []Inv
<1>1. Inv /\ [Next]_vars => Inv'
  <2> SUFFICES ASSUME Inv, [Next]_vars
               PROVE  Inv'
    OBVIOUS
  <2>1. CASE can_dev_write
    BY <2>1, WriteKeepsInv
  <2>2. CASE TransmitInterrupt
    BY <2>2, TransmitInterruptKeepsInv
  <2>3. CASE ErrorInterrupt
    BY <2>3, ErrorInterruptKeepsInv
  <2>4. CASE Transmitted
    BY <2>4, TransmittedKeepsInv
  <2>5. CASE InterruptMissed \/ SecondPasses
    BY <2>5 DEF InterruptMissed, SecondPasses, Inv, TypeOK, Ordered
  <2>6. CASE UNCHANGED vars
    BY <2>6 DEF vars, Inv, TypeOK, Ordered
  <2> QED
    BY <2>1, <2>2, <2>3, <2>4, <2>5, <2>6 DEF Next
<1> QED
  BY <1>1, InitInv, PTL DEF Spec

(***************************************************************************)
(* The buffer never exceeds the limit of the flush, so that can_cq_add     *)
(* never displaces the message that the chip is sending.                   *)
(***************************************************************************)
THEOREM TypeCorrect == Spec => []TypeOK
<1>1. Inv => TypeOK
  BY DEF Inv
<1> QED
  BY <1>1, Invariance, PTL

(***************************************************************************)
(* Whatever interrupts are missed, whatever is sent again, thrown out or   *)
(* lost in a reset, the bus never carries an older message after a newer.  *)
(***************************************************************************)
THEOREM SentInOrder == Spec => []BusInOrder
<1>1. Inv => BusInOrder
  <2> SUFFICES ASSUME Inv PROVE BusInOrder
    OBVIOUS
  <2>1. bus \in Seq(Msg)
    BY DEF Inv, TypeOK
  <2>2. DOMAIN bus = 1 .. Len(bus)
    BY <2>1
  <2> QED
    BY <2>2 DEF Inv, Ordered, Order, BusInOrder
<1> QED
  BY <1>1, Invariance, PTL

-----------------------------------------------------------------------------
Elements(s) == {s[i] : i \in DOMAIN s}

\* As long as nothing was thrown out or raced with its interrupt, the chip holds
\* the oldest message that waits, a pending interrupt is for the oldest one, and
\* no message is missing.
Tracked ==
  ~flushed /\ ~raced =>
    /\ chip # NoMsg => out_buff # <<>> /\ chip = Head(out_buff) /\ ~irq
    /\ irq => out_buff # <<>> /\ Head(out_buff) \in Elements(bus)
    /\ 1 .. written \subseteq Elements(out_buff) \cup Elements(bus)

LEMMA AppendElements ==
  ASSUME NEW s \in Seq(Msg), NEW m \in Msg
  PROVE  /\ Elements(Append(s, m)) = Elements(s) \cup {m}
         /\ Append(s, m) # <<>>
         /\ Head(Append(s, m)) = IF s = <<>> THEN m ELSE Head(s)
<1> DEFINE a == Append(s, m)
<1>1. /\ a \in Seq(Msg) /\ DOMAIN s = 1 .. Len(s) /\ DOMAIN a = 1 .. Len(s) + 1
      /\ \A i \in 1 .. Len(s) : a[i] = s[i]
      /\ a[Len(s) + 1] = m /\ Len(s) \in Nat
  OBVIOUS
<1> HIDE DEF a
<1>2. DOMAIN a = DOMAIN s \cup {Len(s) + 1}
  BY <1>1
<1>3. Elements(a) = Elements(s) \cup {m}
  BY <1>1, <1>2 DEF Elements
<1>4. a # <<>> /\ Head(a) = a[1]
  BY <1>1
<1>5. Head(a) = IF s = <<>> THEN m ELSE Head(s)
  BY <1>1, <1>4
<1> QED
  BY <1>3, <1>4, <1>5 DEF a

LEMMA TailElements ==
  ASSUME NEW s \in Seq(Msg), s # <<>>
  PROVE  Elements(s) = Elements(Tail(s)) \cup {Head(s)} /\ Head(s) # NoMsg
<1> DEFINE t == Tail(s)
<1>1. /\ t \in Seq(Msg) /\ DOMAIN s = 1 .. Len(s) /\ DOMAIN t = 1 .. Len(s) - 1
      /\ \A i \in DOMAIN t : t[i] = s[i + 1]
      /\ Head(s) = s[1] /\ Len(s) \in Nat /\ Len(s) >= 1 /\ s[1] \in Msg
  OBVIOUS
<1> HIDE DEF t
<1>2. Elements(s) \subseteq Elements(t) \cup {Head(s)}
  <2> SUFFICES ASSUME NEW i \in 1 .. Len(s) PROVE s[i] \in Elements(t) \cup {Head(s)}
    BY <1>1 DEF Elements
  <2>1. CASE i = 1
    BY <1>1, <2>1
  <2>2. CASE i # 1
    <3>1. i - 1 \in DOMAIN t /\ t[i - 1] = s[i]
      BY <1>1, <2>2
    <3> QED
      BY <3>1 DEF Elements
  <2> QED
    BY <2>1, <2>2
<1>3. Elements(t) \cup {Head(s)} \subseteq Elements(s)
  <2>1. \A i \in DOMAIN t : i + 1 \in DOMAIN s /\ t[i] = s[i + 1]
    BY <1>1
  <2>2. 1 \in DOMAIN s /\ Head(s) = s[1]
    BY <1>1
  <2> QED
    BY <2>1, <2>2 DEF Elements
<1>4. Head(s) # NoMsg
  BY <1>1 DEF Msg, NoMsg
<1> QED
  BY <1>2, <1>3, <1>4 DEF t

LEMMA WriteKeepsTracked ==
  ASSUME Inv, Tracked, can_dev_write
  PROVE  Tracked'
<1> SUFFICES ASSUME ~flushed', ~raced'
             PROVE  /\ chip' # NoMsg => out_buff' # <<>> /\ chip' = Head(out_buff') /\ ~irq'
                    /\ irq' => out_buff' # <<>> /\ Head(out_buff') \in Elements(bus')
                    /\ 1 .. written' \subseteq Elements(out_buff') \cup Elements(bus')
  BY DEF Tracked
<1> DEFINE buff == Append(out_buff, written + 1)
<1>1. /\ out_buff \in Seq(Msg) /\ Len(out_buff) <= FlushLimit /\ written \in Nat
      /\ written + 1 \in Msg /\ written' = written + 1 /\ bus' = bus
  BY DEF Inv, TypeOK, Msg, can_dev_write
<1>2. Out!Added(out_buff, written') = buff
  BY <1>1 DEF Out!Added
<1>3. /\ Elements(buff) = Elements(out_buff) \cup {written + 1} /\ buff # <<>>
      /\ Head(buff) = IF out_buff = <<>> THEN written + 1 ELSE Head(out_buff)
      /\ Len(buff) # 1 => out_buff # <<>>
  BY <1>1, AppendElements
<1> HIDE DEF buff
<1>4. SendOnWrite(buff) /\ out_buff' = buff /\ ~flushed
  BY <1>2 DEF can_dev_write
<1>5. ~raced
  BY <1>4 DEF SendOnWrite, Inv, TypeOK
<1>6. /\ chip # NoMsg => out_buff # <<>> /\ chip = Head(out_buff) /\ ~irq
      /\ irq => out_buff # <<>> /\ Head(out_buff) \in Elements(bus)
      /\ 1 .. written \subseteq Elements(out_buff) \cup Elements(bus)
  BY <1>4, <1>5 DEF Tracked
<1>7. 1 .. written' \subseteq Elements(out_buff') \cup Elements(bus')
  BY <1>1, <1>3, <1>4, <1>6
<1>8. CASE can_send(buff) /\ raced' = (raced \/ irq')
  <2>1. chip' = Head(buff)
    BY <1>3, <1>6, <1>8 DEF can_send
  <2> QED
    BY <1>3, <1>4, <1>7, <1>8, <2>1
<1>9. CASE Len(buff) # 1 /\ UNCHANGED <<chip, late, irq, raced>>
  BY <1>1, <1>3, <1>4, <1>6, <1>7, <1>9
<1> QED
  BY <1>4, <1>8, <1>9 DEF SendOnWrite

LEMMA StepKeepsTracked ==
  ASSUME Inv, Tracked, [Next]_vars
  PROVE  Tracked'
<1>1. out_buff \in Seq(Msg) /\ bus \in Seq(Msg) /\ chip \in Msg \cup {NoMsg}
  BY DEF Inv, TypeOK
<1>2. CASE can_dev_write
  BY <1>2, WriteKeepsTracked
<1>3. CASE TransmitInterrupt
  <2> SUFFICES ASSUME ~flushed, ~raced PROVE Tracked'
    BY <1>3 DEF TransmitInterrupt, Tracked
  <2>1. /\ out_buff # <<>> /\ Head(out_buff) \in Elements(bus) /\ chip = NoMsg
        /\ 1 .. written \subseteq Elements(out_buff) \cup Elements(bus)
    BY <1>3 DEF TransmitInterrupt, Tracked
  <2>2. Elements(out_buff) \cup Elements(bus) = Elements(Tail(out_buff)) \cup Elements(bus)
    BY <1>1, <2>1, TailElements
  <2>3. out_buff' = Tail(out_buff) /\ irq' = FALSE /\ bus' = bus /\ written' = written
    BY <1>3, <2>1 DEF TransmitInterrupt, tx_process_interrupt, Rest
  <2>4. chip' # NoMsg => out_buff' # <<>> /\ chip' = Head(out_buff')
    BY <1>3, <2>1 DEF TransmitInterrupt, tx_process_interrupt, can_send
  <2>5. 1 .. written' \subseteq Elements(out_buff') \cup Elements(bus')
    BY <2>1, <2>2, <2>3
  <2> QED
    BY <2>3, <2>4, <2>5 DEF Tracked
<1>4. CASE ErrorInterrupt
  <2> SUFFICES ASSUME ~flushed, ~raced PROVE Tracked'
    BY <1>4 DEF ErrorInterrupt, Tracked
  <2>1. /\ irq => out_buff # <<>> /\ Head(out_buff) \in Elements(bus)
        /\ 1 .. written \subseteq Elements(out_buff) \cup Elements(bus)
    BY DEF Tracked
  <2>2. chip' = NoMsg /\ irq' = FALSE /\ bus' = bus /\ written' = written
    BY <1>4 DEF ErrorInterrupt
  <2>3. CASE out_buff' = out_buff
    BY <2>1, <2>2, <2>3 DEF Tracked
  <2>4. CASE irq /\ out_buff' = Rest(out_buff)
    <3>1. out_buff # <<>> /\ out_buff' = Tail(out_buff)
      BY <2>1, <2>4 DEF Rest
    <3>2. Elements(out_buff) \cup Elements(bus) = Elements(Tail(out_buff)) \cup Elements(bus)
      BY <1>1, <2>1, <2>4, <3>1, TailElements
    <3>3. 1 .. written' \subseteq Elements(out_buff') \cup Elements(bus')
      BY <2>1, <2>2, <3>1, <3>2
    <3> QED
      BY <2>2, <3>3 DEF Tracked
  <2> QED
    BY <1>4, <2>3, <2>4 DEF ErrorInterrupt
<1>5. CASE Transmitted
  <2> SUFFICES ASSUME ~flushed, ~raced PROVE Tracked'
    BY <1>5 DEF Transmitted, Tracked
  <2>1. /\ chip # NoMsg /\ out_buff # <<>> /\ chip = Head(out_buff)
        /\ 1 .. written \subseteq Elements(out_buff) \cup Elements(bus)
    BY <1>5 DEF Transmitted, Tracked
  <2>2. /\ bus' = Append(bus, chip) /\ chip' = NoMsg /\ out_buff' = out_buff
        /\ written' = written
    BY <1>5 DEF Transmitted
  <2>3. Elements(bus') = Elements(bus) \cup {chip}
    BY <1>1, <2>1, <2>2, AppendElements
  <2> QED
    BY <2>1, <2>2, <2>3 DEF Tracked
<1>6. CASE InterruptMissed
  BY <1>6 DEF InterruptMissed, Tracked
<1>7. CASE SecondPasses
  BY <1>7 DEF SecondPasses, Tracked
<1>8. CASE UNCHANGED vars
  BY <1>8 DEF vars, Tracked
<1> QED
  BY <1>2, <1>3, <1>4, <1>5, <1>6, <1>7, <1>8 DEF Next

(***************************************************************************)
(* A missed interrupt or a reset of the chip loses no message: unless some *)
(* were thrown out, or one was sent again with its interrupt pending, each *)
(* message written still waits or has been sent (can_dev_write,            *)
(* tx_process_interrupt, the resets of can_dev_interrupt).                 *)
(***************************************************************************)
THEOREM NoneIsLost == Spec => []NothingLost
<1>1. Init => Tracked
  <2> SUFFICES ASSUME Init PROVE Tracked
    OBVIOUS
  <2>1. chip = NoMsg /\ irq = FALSE /\ 1 .. written = {}
    BY DEF Init
  <2> QED
    BY <2>1 DEF Tracked
<1>2. Tracked => NothingLost
  BY DEF Tracked, NothingLost, Elements
<1>3. Inv /\ Tracked /\ [Next]_vars => Tracked'
  BY StepKeepsTracked
<1> QED
  BY <1>1, <1>2, <1>3, Invariance, PTL DEF Spec

-----------------------------------------------------------------------------
(* The receiving half.                                                     *)

\* A message added to the buffer makes it longer by one at most, and never
\* longer than its size.
LEMMA AddedType ==
  ASSUME NEW q \in Seq(Id), Len(q) <= InSize, NEW id \in Id
  PROVE  /\ In!Added(q, id) \in Seq(Id)
         /\ Len(In!Added(q, id)) <= InSize
         /\ Len(In!Added(q, id)) <= Len(q) + 1
<1>1. CASE Len(q) = InSize
  <2>1. q # <<>>
    BY <1>1, RxSizeAssumption
  <2>2. Tail(q) \in Seq(Id) /\ Len(Tail(q)) = Len(q) - 1
    BY <2>1
  <2>. QED BY <1>1, <2>2, RxSizeAssumption DEF In!Added
<1>2. CASE Len(q) # InSize
  BY <1>2, RxSizeAssumption DEF In!Added
<1>. QED BY <1>1, <1>2

LEMMA TailType ==
  ASSUME NEW q \in Seq(Id), q # <<>>
  PROVE  /\ Tail(q) \in Seq(Id) /\ Len(Tail(q)) = Len(q) - 1
         /\ Head(q) \in Id
OBVIOUS

\* Whatever the filter says, can_new_msg leaves a buffer of messages.
LEMMA NewMsgType ==
  ASSUME RxTypeOK, NEW id \in Id, can_new_msg(id)
  PROVE  /\ in_buff' \in Seq(Id) /\ Len(in_buff') <= InSize
         /\ Len(in_buff') <= Len(in_buff) + 1
BY AddedType DEF RxTypeOK, can_new_msg

\* The handler's variables while it runs.
LEMMA RunType ==
  ASSUME RxTypeOK, handler.at = "run"
  PROVE  /\ handler \in Running
         /\ handler.i \in Nat /\ handler.rmc \in Nat /\ handler.retval \in Nat
         /\ handler # Waiting
BY DEF RxTypeOK, Running, Waiting

\* One more turn of the loop, which the handler takes as long as it does not
\* overstay.
LEMMA TurnType ==
  ASSUME RxTypeOK, handler.at = "run", ~Overstays, NEW n \in Nat,
         handler' = [handler EXCEPT !.i = @ + 1, !.retval = n]
  PROVE  /\ handler' \in Running /\ handler'.at = "run" /\ handler'.retval = n
         /\ PerMessage => handler'.i <= handler'.rmc + 1
<1>1. handler \in Running
  BY RunType
<1>2. /\ handler' = [at |-> "run", i |-> handler.i + 1, rmc |-> handler.rmc, retval |-> n]
      /\ handler.i \in Nat /\ handler.rmc \in Nat
  BY <1>1 DEF Running
<1>3. PerMessage => handler.i <= handler.rmc
  BY <1>1 DEF Overstays, Running
<1>. QED BY <1>1, <1>2, <1>3 DEF Running

\* The channels stay counters.
LEMMA DeliverType ==
  ASSUME RxTypeOK, NEW n \in Nat, Deliver(n)
  PROVE  /\ pulses' \in [Reader -> Nat]
         /\ notify # NoReader /\ reader[notify] # "closed" =>
              pulses'[notify] = pulses[notify] + n
<1>1. CASE notify # NoReader /\ reader[notify] # "closed"
  <2>1. notify \in Reader /\ pulses[notify] + n \in Nat
    BY <1>1 DEF RxTypeOK
  <2>. QED BY <1>1, <2>1 DEF RxTypeOK, Deliver
<1>2. CASE ~(notify # NoReader /\ reader[notify] # "closed")
  BY <1>2 DEF RxTypeOK, Deliver
<1>. QED BY <1>1, <1>2

LEMMA NotifiesType ==
  ASSUME RxTypeOK, handler.at = "run"
  PROVE  /\ Notifies \in Nat
         /\ PerMessage => Notifies = handler.retval + 1
BY RunType DEF Notifies, AnyReceived

LEMMA RxInitType == RxInit => RxTypeOK
<1>. SUFFICES ASSUME RxInit PROVE RxTypeOK
  OBVIOUS
<1>1. Len(<<>>) = 0 /\ <<>> \in Seq(Id)
  OBVIOUS
<1>2. handler.at # "run"
  BY DEF RxInit, Waiting
<1>. QED BY <1>1, <1>2, RxSizeAssumption, RxBoundAssumption DEF RxInit, RxTypeOK

\* What the steps that only move a reader along do to the types.
LEMMA ReaderType ==
  ASSUME RxTypeOK, NEW r \in Reader,
         NEW st \in {"closed", "open", "filtered", "emptied", "armed", "reading"},
         reader' = [reader EXCEPT ![r] = st]
  PROVE  reader' \in [Reader -> {"closed", "open", "filtered", "emptied", "armed", "reading"}]
BY DEF RxTypeOK

LEMMA RxNextType == RxTypeOK /\ [RxNext]_rxVars => RxTypeOK'
<1>. SUFFICES ASSUME RxTypeOK, [RxNext]_rxVars PROVE RxTypeOK'
  OBVIOUS
<1>1. ASSUME NEW id \in Id, Arrive(id) PROVE RxTypeOK'
  <2>1. fifo' \in Seq(Id) /\ Len(fifo') <= ChipSize
    BY <1>1, RxSizeAssumption DEF Arrive, RxTypeOK
  <2>2. frames' \in 0 .. MaxFrames
    BY <1>1, RxBoundAssumption DEF Arrive, RxTypeOK
  <2>. QED BY <1>1, <2>1, <2>2 DEF Arrive, RxTypeOK
<1>2. CASE EnterHandler
  <2>1. handler' \in Running /\ handler'.i <= handler'.rmc + 1
    BY <1>2 DEF EnterHandler, Running, RxTypeOK
  <2>. QED BY <1>2, <2>1 DEF EnterHandler, RxTypeOK
<1>3. CASE ReceiveFrame
  <2>1. fifo \in Seq(Id) /\ fifo # <<>> /\ Len(fifo) <= ChipSize
    BY <1>3 DEF ReceiveFrame, RxTypeOK
  <2>2. Head(fifo) \in Id /\ fifo' \in Seq(Id) /\ Len(fifo') <= ChipSize
    BY <1>3, <2>1, TailType, RxSizeAssumption DEF ReceiveFrame
  <2>3. in_buff' \in Seq(Id) /\ Len(in_buff') <= InSize
    BY <1>3, <2>2, NewMsgType DEF ReceiveFrame
  <2>4. handler' \in Running /\ (PerMessage => handler'.i <= handler'.rmc + 1)
    BY <1>3, TurnType, NotifiesType DEF ReceiveFrame
  <2>. QED BY <1>3, <2>2, <2>3, <2>4 DEF ReceiveFrame, RxTypeOK
<1>4. CASE OtherInterrupt
  <2>1. handler \in Running
    BY <1>4, RunType DEF OtherInterrupt
  <2>2. handler' = [handler EXCEPT !.i = @ + 1, !.retval = handler.retval]
    BY <1>4, <2>1 DEF OtherInterrupt, Running
  <2>3. handler' \in Running /\ (PerMessage => handler'.i <= handler'.rmc + 1)
    BY <1>4, <2>2, TurnType, RunType DEF OtherInterrupt
  <2>. QED BY <1>4, <2>3 DEF OtherInterrupt, RxTypeOK
<1>5. CASE BusOff
  <2>1. pulses' \in [Reader -> Nat]
    BY <1>5, DeliverType DEF BusOff, ResetReturns
  <2>2. missed' \in Nat
    BY <1>5, RunType DEF BusOff, ResetReturns, RxTypeOK
  <2>3. busoffs' \in 0 .. MaxBusOff
    BY <1>5, RxBoundAssumption DEF BusOff, RxTypeOK
  <2>4. handler' = Waiting /\ handler'.at # "run"
    BY <1>5 DEF BusOff, Waiting
  <2>5. fifo' \in Seq(Id) /\ Len(fifo') <= ChipSize
    BY <1>5, RxSizeAssumption DEF BusOff
  <2>. QED BY <1>5, <2>1, <2>2, <2>3, <2>4, <2>5 DEF BusOff, RxTypeOK
<1>6. CASE LeaveHandler
  <2>1. pulses' \in [Reader -> Nat]
    BY <1>6, DeliverType, RunType DEF LeaveHandler
  <2>2. handler' = Waiting /\ handler'.at # "run"
    BY <1>6 DEF LeaveHandler, Waiting
  <2>. QED BY <1>6, <2>1, <2>2 DEF LeaveHandler, RxTypeOK
<1>7. ASSUME NEW r \in Reader, Open(r) PROVE RxTypeOK'
  <2>1. opens' \in 0 .. MaxOpens
    BY <1>7, RxBoundAssumption DEF Open, RxTypeOK
  <2>2. pulses' \in [Reader -> Nat]
    BY <1>7 DEF Open, RxTypeOK
  <2>. QED BY <1>7, <2>1, <2>2, ReaderType DEF Open, RxTypeOK
<1>8. ASSUME NEW r \in Reader, can_dev_add_filter(r) PROVE RxTypeOK'
  BY <1>8, ReaderType DEF can_dev_add_filter, RxTypeOK
<1>9. ASSUME NEW r \in Reader, can_dev_empty_q(r) PROVE RxTypeOK'
  <2>1. in_buff' \in Seq(Id) /\ Len(in_buff') <= InSize
    BY <1>9, RxSizeAssumption DEF can_dev_empty_q
  <2>. QED BY <1>9, <2>1, ReaderType DEF can_dev_empty_q, RxTypeOK
<1>10. ASSUME NEW r \in Reader, can_dev_arm(r) PROVE RxTypeOK'
  <2>1. missed' \in Nat
    BY <1>10 DEF can_dev_arm, RxTypeOK
  <2>. QED BY <1>10, <2>1, ReaderType DEF can_dev_arm, RxTypeOK
<1>11. ASSUME NEW r \in Reader, MsgReceive(r) PROVE RxTypeOK'
  <2>1. pulses' \in [Reader -> Nat]
    BY <1>11 DEF MsgReceive, RxTypeOK
  <2>. QED BY <1>11, <2>1, ReaderType DEF MsgReceive, RxTypeOK
<1>12. ASSUME NEW r \in Reader, can_dev_read(r) PROVE RxTypeOK'
  <2>1. in_buff' \in Seq(Id) /\ Len(in_buff') <= InSize
    BY <1>12, RxSizeAssumption, TailType DEF can_dev_read, RxTypeOK
  <2>. QED BY <1>12, <2>1, ReaderType DEF can_dev_read, RxTypeOK
<1>13. ASSUME NEW r \in Reader, can_close(r) PROVE RxTypeOK'
  BY <1>13, ReaderType DEF can_close, RxTypeOK
<1>14. CASE UNCHANGED rxVars
  BY <1>14 DEF RxTypeOK, rxVars
<1>. QED
  BY <1>1, <1>2, <1>3, <1>4, <1>5, <1>6, <1>7, <1>8, <1>9, <1>10, <1>11, <1>12,
     <1>13, <1>14 DEF RxNext

(* Neither buffer grows beyond its size, and the SJA1000's handler stays   *)
(* no longer than one turn more than the frames it found: whatever arrives *)
(* while it runs, it gives the other requests of the driver their turn.    *)
THEOREM HandlerLeaves == RxSpec => []RxTypeOK
BY RxInitType, RxNextType, PTL DEF RxSpec

-----------------------------------------------------------------------------
\* The pulses a reader has or will have: what PulseForEachMessage counts.
Due(r) == pulses[r] + Taken(r) + Coming + missed

LEMMA DueType ==
  ASSUME RxTypeOK, NEW r \in Reader
  PROVE  Due(r) \in Nat /\ pulses[r] \in Nat /\ Taken(r) \in 0 .. 1 /\ Coming \in Nat
<1>1. Coming \in Nat
  BY DEF Coming, RxTypeOK, Running
<1>. QED BY <1>1 DEF Due, Taken, RxTypeOK

\* The step of one reader leaves the messages due to the armed one, unless
\* it is its own.
LEMMA OthersKeep ==
  ASSUME RxTypeOK, NEW n \in Reader, NEW r \in Reader, r # n,
         NEW st \in {"closed", "open", "filtered", "emptied", "armed", "reading"},
         reader' = [reader EXCEPT ![r] = st],
         pulses'[n] = pulses[n], UNCHANGED <<handler, missed>>
  PROVE  (Armed(n)' <=> Armed(n)) /\ Due(n)' = Due(n)
BY DEF RxTypeOK, Armed, Due, Taken, Coming

LEMMA NextPulse ==
  ASSUME PerMessage
  PROVE  RxTypeOK /\ PulseForEachMessage /\ [RxNext]_rxVars => PulseForEachMessage'
<1>. SUFFICES ASSUME RxTypeOK, PulseForEachMessage, [RxNext]_rxVars,
                     NEW n \in Reader, n = notify', Armed(n)'
              PROVE  Len(in_buff') <= Due(n)'
  <2>1. RxTypeOK /\ [RxNext]_rxVars => RxTypeOK'
    BY RxNextType
  <2>. QED BY <2>1 DEF PulseForEachMessage, RxTypeOK, Due
<1>t. RxTypeOK'
  BY RxNextType
<1>d. /\ Due(n) \in Nat /\ pulses[n] \in Nat /\ Taken(n) \in 0 .. 1 /\ Coming \in Nat
      /\ missed \in Nat /\ Len(in_buff) \in Nat
  BY DueType DEF RxTypeOK
<1>c. pulses'[n] \in Nat /\ Taken(n)' \in 0 .. 1 /\ Coming' \in Nat /\ missed' \in Nat
  <2>1. Coming' \in Nat
    BY <1>t DEF RxTypeOK, Coming, Running
  <2>. QED BY <1>t, <2>1 DEF RxTypeOK, Taken
<1>e. Due(n)' \in Nat
  BY <1>c DEF Due
<1>k. notify = n /\ Armed(n) => Len(in_buff) <= Due(n)
  BY ReaderAssumption DEF PulseForEachMessage, Due
\* A step that leaves the notified reader armed and its messages due as they
\* were, and adds nothing to the buffer, keeps the property.
<1>s. ASSUME notify = n, Armed(n), Due(n)' = Due(n), Len(in_buff') <= Len(in_buff),
             Len(in_buff') \in Nat
      PROVE  Len(in_buff') <= Due(n)'
  BY <1>s, <1>k, <1>d
<1>l. Len(in_buff') \in Nat
  BY <1>t DEF RxTypeOK
<1>1. ASSUME NEW id \in Id, Arrive(id) PROVE Len(in_buff') <= Due(n)'
  BY <1>1, <1>k DEF Arrive, Armed, Due, Taken, Coming
<1>2. CASE EnterHandler
  <2>1. Coming = 0 /\ Coming' = 0
    BY <1>2 DEF EnterHandler, Coming, Waiting
  <2>. QED BY <1>2, <1>k, <2>1 DEF EnterHandler, Armed, Due, Taken
<1>3. CASE ReceiveFrame
  <2>1. Head(fifo) \in Id
    BY <1>3 DEF ReceiveFrame, RxTypeOK
  <2>2. Len(in_buff') <= Len(in_buff) + 1
    BY <1>3, <2>1, NewMsgType DEF ReceiveFrame
  <2>3. Coming = handler.retval
    BY <1>3, RunType DEF ReceiveFrame, Coming
  <2>4. Notifies = handler.retval + 1
    BY <1>3, NotifiesType DEF ReceiveFrame
  <2>5. handler'.at = "run" /\ handler'.retval = Notifies
    BY <1>3, TurnType, NotifiesType DEF ReceiveFrame
  <2>6. Coming' = Coming + 1
    BY <2>3, <2>4, <2>5 DEF Coming, Waiting
  <2>7. /\ notify = n /\ Armed(n) /\ Taken(n)' = Taken(n)
        /\ pulses'[n] = pulses[n] /\ missed' = missed
    BY <1>3 DEF ReceiveFrame, Armed, Taken
  <2>8. Due(n)' = Due(n) + 1
    BY <1>d, <2>6, <2>7, SMTT(20) DEF Due
  <2>. QED BY <2>2, <2>7, <2>8, <1>k, <1>d, <1>l
<1>4. CASE OtherInterrupt
  <2>1. handler \in Running
    BY <1>4, RunType DEF OtherInterrupt
  <2>2. handler'.at = "run" /\ handler'.retval = handler.retval
    BY <1>4, <2>1 DEF OtherInterrupt, Running
  <2>3. Coming' = Coming
    BY <1>4, <2>2, RunType DEF OtherInterrupt, Coming, Waiting
  <2>. QED BY <1>4, <1>k, <2>3 DEF OtherInterrupt, Armed, Due, Taken
<1>5. CASE BusOff
  <2>1. notify = n /\ Armed(n) /\ reader[n] # "closed" /\ n # NoReader /\ Taken(n)' = Taken(n)
    BY <1>5, ReaderAssumption DEF BusOff, Armed, Taken
  <2>2. pulses'[n] = pulses[n] + 0
    BY <1>5, <2>1, DeliverType DEF BusOff, ResetReturns
  <2>3. Coming = handler.retval /\ Coming' = 0 /\ missed' = missed + handler.retval
    BY <1>5, RunType DEF BusOff, Coming, ResetReturns, RxTypeOK
  <2>4. Due(n)' = Due(n)
    BY <2>1, <2>2, <2>3, <1>d DEF Due
  <2>5. in_buff' = in_buff
    BY <1>5 DEF BusOff
  <2>. QED BY <2>1, <2>4, <2>5, <1>k
<1>6. CASE LeaveHandler
  <2>1. notify = n /\ Armed(n) /\ reader[n] # "closed" /\ n # NoReader /\ Taken(n)' = Taken(n)
    BY <1>6, ReaderAssumption DEF LeaveHandler, Armed, Taken
  <2>2. pulses'[n] = pulses[n] + handler.retval
    BY <1>6, <2>1, DeliverType, RunType DEF LeaveHandler
  <2>3. Coming = handler.retval /\ Coming' = 0 /\ missed' = missed
    BY <1>6, RunType DEF LeaveHandler, Coming
  <2>4. Due(n)' = Due(n)
    BY <2>1, <2>2, <2>3, <1>d DEF Due
  <2>5. in_buff' = in_buff
    BY <1>6 DEF LeaveHandler
  <2>. QED BY <2>1, <2>4, <2>5, <1>k
<1>7. ASSUME NEW r \in Reader, Open(r) PROVE Len(in_buff') <= Due(n)'
  <2>1. r # n
    BY <1>7 DEF Open, Armed, RxTypeOK
  <2>2. Armed(n) /\ Due(n)' = Due(n)
    BY <1>7, <2>1, OthersKeep DEF Open, RxTypeOK
  <2>. QED BY <1>7, <2>2, <1>k DEF Open
<1>8. ASSUME NEW r \in Reader, can_dev_add_filter(r) PROVE Len(in_buff') <= Due(n)'
  <2>1. r # n
    BY <1>8 DEF can_dev_add_filter, Armed, RxTypeOK
  <2>2. Armed(n) /\ Due(n)' = Due(n)
    BY <1>8, <2>1, OthersKeep DEF can_dev_add_filter
  <2>. QED BY <1>8, <2>2, <1>k DEF can_dev_add_filter
<1>9. ASSUME NEW r \in Reader, can_dev_empty_q(r) PROVE Len(in_buff') <= Due(n)'
  BY <1>9, <1>e DEF can_dev_empty_q
<1>10. ASSUME NEW r \in Reader, can_dev_arm(r) PROVE Len(in_buff') <= Due(n)'
  <2>1. missed' = Len(in_buff')
    BY <1>10 DEF can_dev_arm
  <2>. QED BY <2>1, <1>c, <1>l DEF Due
<1>11. ASSUME NEW r \in Reader, MsgReceive(r) PROVE Len(in_buff') <= Due(n)'
  <2>1. CASE r = n
    <3>1. Armed(n) /\ pulses'[n] = pulses[n] - 1 /\ Taken(n)' = 1 /\ Taken(n) = 0
      BY <1>11, <2>1 DEF MsgReceive, Armed, Taken, RxTypeOK
    <3>2. Due(n)' = Due(n)
      BY <1>11, <3>1, <1>d DEF MsgReceive, Due, Coming
    <3>. QED BY <1>11, <3>1, <3>2, <1>k DEF MsgReceive
  <2>2. CASE r # n
    <3>1. Armed(n) /\ Due(n)' = Due(n)
      BY <1>11, <2>2, OthersKeep DEF MsgReceive, RxTypeOK
    <3>. QED BY <1>11, <3>1, <1>k DEF MsgReceive
  <2>. QED BY <2>1, <2>2
<1>12. ASSUME NEW r \in Reader, can_dev_read(r) PROVE Len(in_buff') <= Due(n)'
  <2>0. in_buff \in Seq(Id)
    BY DEF RxTypeOK
  <2>1. \/ in_buff = <<>> /\ Len(in_buff') = 0
        \/ in_buff # <<>> /\ Len(in_buff') = Len(in_buff) - 1
    BY <1>12, <2>0, TailType DEF can_dev_read
  <2>2. CASE r = n
    <3>1. Armed(n) /\ Taken(n) = 1 /\ Taken(n)' = 0
      BY <1>12, <2>2 DEF can_dev_read, Armed, Taken, RxTypeOK
    <3>2. Due(n)' = Due(n) - 1
      BY <1>12, <3>1, <1>d DEF can_dev_read, Due, Coming
    <3>3. notify = n
      BY <1>12 DEF can_dev_read
    <3>. QED BY <2>1, <3>1, <3>2, <3>3, <1>k, <1>d, <1>e
  <2>3. CASE r # n
    <3>1. notify = n /\ Armed(n) /\ Due(n)' = Due(n)
      BY <1>12, <2>3, OthersKeep DEF can_dev_read
    <3>. QED BY <2>1, <3>1, <1>k, <1>d
  <2>. QED BY <2>2, <2>3
<1>13. ASSUME NEW r \in Reader, can_close(r) PROVE Len(in_buff') <= Due(n)'
  <2>1. r # n
    BY <1>13 DEF can_close, Armed, RxTypeOK
  <2>2. Armed(n) /\ Due(n)' = Due(n)
    BY <1>13, <2>1, OthersKeep DEF can_close
  <2>. QED BY <1>13, <2>2, <1>k DEF can_close
<1>14. CASE UNCHANGED rxVars
  BY <1>14, <1>k DEF rxVars, Armed, Due, Taken, Coming
<1>. QED
  BY <1>1, <1>2, <1>3, <1>4, <1>5, <1>6, <1>7, <1>8, <1>9, <1>10, <1>11, <1>12,
     <1>13, <1>14 DEF RxNext

(* The SJA1000's driver leaves no message to wait for the arrival of a     *)
(* later one, whatever the sizes of the chip and of the buffer and however *)
(* readers come, go and overlap: apart from the missed ones there is a     *)
(* pulse for each.  It rests on nothing but the types: every step that     *)
(* adds a message adds a pulse to come, and every read of one uses one.    *)
THEOREM NoMessageIsLeft ==
  ASSUME PerMessage
  PROVE  RxSpec => []PulseForEachMessage
<1>1. RxInit => PulseForEachMessage
  BY DEF RxInit, PulseForEachMessage
<1>2. RxTypeOK /\ PulseForEachMessage /\ [RxNext]_rxVars => PulseForEachMessage'
  BY NextPulse
<1>. QED BY <1>1, <1>2, HandlerLeaves, PTL DEF RxSpec
=============================================================================
