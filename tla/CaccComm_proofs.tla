-------------------------- MODULE CaccComm_proofs --------------------------
(***************************************************************************)
(* Theorems about CaccComm, for every place in the platoon, every bound on *)
(* the packets on their way and on the cycles that a link survives.        *)
(*                                                                         *)
(* Once the leader's process is dead there is an end to the new stamps me  *)
(* can still see: each stale packet on its way can replace the last one    *)
(* and be replaced by it again.  Every new stamp is worth one cycle and    *)
(* COMM_ERR_BOUND more; the invariant is that the cycles already spent and *)
(* those still to be had never exceed the bound.                           *)
(***************************************************************************)
EXTENDS CaccComm, FiniteSetTheorems, TLAPS

Run == COMM_ERR_BOUND + 1

\* The packets of Lead on their way that are not its last one.
Stale == {m \in air[Lead] : m.time # tx[Lead].time}

One(condition) == IF condition THEN 1 ELSE 0

\* A bound on the new stamps of Lead that me can still see.
Changes ==
  2 * Cardinality(Stale) + One(comm[Lead].time # tx[Lead].time) + One(Changed(Lead))

\* The cycles left for the stamp that me has seen.
Left ==
  IF Changed(Lead) \/ comm_p[Lead] = 1 \/ comm_f_counter[Lead] > COMM_ERR_BOUND THEN 0
  ELSE COMM_ERR_BOUND - comm_f_counter[Lead]

Potential == trusted + Changes * Run + Left

AirFinite == \A p \in Ahead : IsFiniteSet(air[p])

Inv ==
  /\ TypeOK /\ AirFinite
  /\ alive[Lead] => trusted = 0
  /\ ~alive[Lead] => Potential <= Trusted

-----------------------------------------------------------------------------
LEMMA Constants ==
  /\ Run \in Nat /\ Run > 0 /\ Run = COMM_ERR_BOUND + 1
  /\ Trusted \in Nat /\ Trusted = Run * (2 * MaxAir + 2)
  /\ Lead \in Ahead /\ Pre \in Ahead /\ Ahead \subseteq Nat
  /\ NoTime \notin Stamp
<1>1. COMM_ERR_BOUND \in Nat /\ MaxAir \in Nat /\ me \in Nat /\ me > 1 /\ K \in Nat
  BY BoundAssumption, MeAssumption
<1>2. \A a, b \in Nat : a * b \in Nat
  OBVIOUS
<1>3. Run \in Nat /\ Run > 0 /\ 2 * MaxAir + 2 \in Nat
  BY <1>1 DEF Run
<1>4. Trusted = Run * (2 * MaxAir + 2)
  BY DEF Trusted, Run
<1>5. Trusted \in Nat
  BY <1>2, <1>3, <1>4
<1> QED
  BY <1>1, <1>3, <1>4, <1>5 DEF Run, Lead, Pre, Ahead, NoTime, Stamp

LEMMA Times ==
  /\ \A a \in Nat : a * Run \in Nat /\ (a + 1) * Run = a * Run + Run
  /\ \A a, b \in Nat : a <= b => a * Run <= b * Run
<1>1. Run \in Nat
  BY Constants
<1>2. \A a \in Nat : a * Run \in Nat /\ (a + 1) * Run = a * Run + Run
  BY <1>1
<1>3. ASSUME NEW a \in Nat, NEW b \in Nat, a <= b PROVE a * Run <= b * Run
  <2>1. b - a \in Nat /\ b = a + (b - a)
    BY <1>3
  <2>2. b * Run = a * Run + (b - a) * Run
    BY <1>1, <2>1
  <2>3. (b - a) * Run \in Nat /\ a * Run \in Nat
    BY <1>2, <2>1
  <2> QED
    BY <2>2, <2>3
<1> QED
  BY <1>2, <1>3

LEMMA StaleCard ==
  ASSUME TypeOK, AirFinite
  PROVE  /\ IsFiniteSet(Stale) /\ Cardinality(Stale) \in Nat
         /\ Cardinality(Stale) <= MaxAir
<1>1. IsFiniteSet(air[Lead]) /\ Cardinality(air[Lead]) <= MaxAir
  BY Constants DEF TypeOK, AirFinite
<1>2. Stale \in SUBSET air[Lead]
  BY DEF Stale
<1>3. IsFiniteSet(Stale) /\ Cardinality(Stale) <= Cardinality(air[Lead])
  BY <1>1, <1>2, FS_Subset
<1> QED
  BY <1>1, <1>3, FS_CardinalityType, BoundAssumption

LEMMA PotentialType ==
  ASSUME TypeOK, AirFinite
  PROVE  /\ Changes \in Nat /\ Left \in 0 .. COMM_ERR_BOUND
         /\ Changes <= 2 * MaxAir + 2 /\ (~Changed(Lead) => Changes <= 2 * MaxAir + 1)
         /\ Changed(Lead) => Left = 0
<1>1. COMM_ERR_BOUND \in Nat /\ MaxAir \in Nat
  BY BoundAssumption
<1>2. comm_f_counter[Lead] \in Nat
  BY Constants, <1>1 DEF TypeOK
<1>3. Left \in 0 .. COMM_ERR_BOUND /\ (Changed(Lead) => Left = 0)
  BY <1>1, <1>2 DEF Left
<1> QED
  BY <1>1, <1>3, StaleCard DEF Changes, One

\* The bound holds of a process that has just died.
LEMMA AtDeath ==
  ASSUME TypeOK, AirFinite, trusted = 0
  PROVE  Potential <= Trusted
<1>1. MaxAir \in Nat /\ COMM_ERR_BOUND \in Nat
  BY BoundAssumption
<1>2. CASE Changed(Lead)
  <2>1. Left = 0 /\ Changes \in Nat /\ Changes <= 2 * MaxAir + 2
    BY <1>2, PotentialType
  <2>2. Changes * Run <= (2 * MaxAir + 2) * Run /\ Changes * Run \in Nat
    BY <1>1, <2>1, Times
  <2>3. (2 * MaxAir + 2) * Run = Trusted
    BY <1>1, Constants
  <2> QED
    BY <2>1, <2>2, <2>3 DEF Potential
<1>3. CASE ~Changed(Lead)
  <2>1. Left \in 0 .. COMM_ERR_BOUND /\ Changes \in Nat /\ Changes <= 2 * MaxAir + 1
    BY <1>3, PotentialType
  <2>2. /\ Changes * Run <= (2 * MaxAir + 1) * Run /\ Changes * Run \in Nat
        /\ (2 * MaxAir + 1) * Run \in Nat
        /\ ((2 * MaxAir + 1) + 1) * Run = (2 * MaxAir + 1) * Run + Run
    BY <1>1, <2>1, Times
  <2>3. ((2 * MaxAir + 1) + 1) * Run = Trusted
    BY <1>1, Constants
  <2>4. Run = COMM_ERR_BOUND + 1
    BY Constants
  <2> QED
    BY <1>1, <2>1, <2>2, <2>3, <2>4 DEF Potential
<1> QED
  BY <1>2, <1>3

LEMMA PrimedType ==
  ASSUME TypeOK', AirFinite'
  PROVE  /\ (Changes \in Nat)' /\ (Left \in 0 .. COMM_ERR_BOUND)' /\ (Changed(Lead) => Left = 0)'
         /\ (Cardinality(Stale) \in Nat)'
  BY PotentialType, StaleCard, PTL

LEMMA Worth ==
  ASSUME NEW c \in Nat, NEW d \in Nat, NEW t \in Nat, NEW u \in {t, t + 1},
         NEW k \in 0 .. COMM_ERR_BOUND, NEW l \in 0 .. COMM_ERR_BOUND
  PROVE  /\ d < c => u + d * Run + k <= t + c * Run + l
         /\ d <= c /\ k <= l => t + d * Run + k <= t + c * Run + l
<1>1. COMM_ERR_BOUND \in Nat /\ Run = COMM_ERR_BOUND + 1
  BY BoundAssumption, Constants
<1>2. c * Run \in Nat /\ d * Run \in Nat /\ (d + 1) * Run = d * Run + Run
  BY Times
<1>3. d < c => (d + 1) * Run <= c * Run
  BY Times
<1>4. d <= c => d * Run <= c * Run
  BY Times
<1> QED
  BY <1>1, <1>2, <1>3, <1>4

LEMMA PotentialPrime == Potential' = trusted' + Changes' * Run + Left'
BY DEF Potential, Run

LEMMA PotentialInt ==
  ASSUME TypeOK, AirFinite
  PROVE  Potential \in Nat /\ trusted <= Potential
<1>1. /\ Changes \in Nat /\ Left \in 0 .. COMM_ERR_BOUND
      /\ COMM_ERR_BOUND \in Nat /\ trusted \in Nat
  BY PotentialType, BoundAssumption, Constants DEF TypeOK
<1>2. Changes * Run \in Nat
  BY <1>1, Times
<1> QED
  BY <1>1, <1>2 DEF Potential

LEMMA PrimedInt ==
  ASSUME TypeOK', AirFinite'
  PROVE  (Potential \in Nat /\ trusted <= Potential)'
BY PotentialInt, PTL

LEMMA AtDeathPrime ==
  ASSUME TypeOK', AirFinite', (trusted = 0)'
  PROVE  (Potential <= Trusted)'
BY AtDeath, PTL

\* What makes the potential fall, or at least not rise.
LEMMA Falls ==
  ASSUME TypeOK, AirFinite, TypeOK', AirFinite', trusted' = trusted,
         \/ Changes' < Changes
         \/ Changes' <= Changes /\ Left' <= Left
  PROVE  Potential' <= Potential
<1>1. /\ Changes \in Nat /\ Left \in 0 .. COMM_ERR_BOUND
      /\ Changes' \in Nat /\ Left' \in 0 .. COMM_ERR_BOUND
      /\ trusted \in Nat
  BY PotentialType, PrimedType, BoundAssumption, Constants DEF TypeOK
<1>2. trusted + Changes' * Run + Left' <= trusted + Changes * Run + Left
  BY <1>1, Worth
<1> QED
  BY <1>2, PotentialPrime DEF Potential

LEMMA SameLead ==
  ASSUME TypeOK, AirFinite, TypeOK', AirFinite', trusted' = trusted,
         air'[Lead] = air[Lead], tx'[Lead] = tx[Lead], comm'[Lead] = comm[Lead], UNCHANGED links
  PROVE  Potential' <= Potential
<1>1. Stale' = Stale
  BY DEF Stale
<1>2. Changed(Lead)' = Changed(Lead)
  BY DEF Changed, links
<1>3. Changes' = Changes /\ Left' = Left
  BY <1>1, <1>2 DEF Changes, Left, One, links
<1> QED
  BY <1>3, PotentialType, Falls
-----------------------------------------------------------------------------
LEMMA InitInv == Init => Inv
<1> SUFFICES ASSUME Init PROVE Inv
  OBVIOUS
<1>1. COMM_ERR_BOUND \in Nat /\ MaxAir \in Nat /\ K \in Nat /\ K > 0 /\ Remainder \in Nat
  BY BoundAssumption
<1>2. Fresh \in Packet
  BY <1>1 DEF Fresh, Packet, Stamp
<1>3. AirFinite /\ \A p \in Ahead : Cardinality(air[p]) = 0
  BY FS_EmptySet DEF Init, AirFinite
<1>4. TypeOK
  <2>1. alive \in [Ahead -> BOOLEAN] /\ tx \in [Ahead -> Packet] /\ comm \in [Ahead -> Packet]
    BY <1>2 DEF Init
  <2>2. air \in [Ahead -> SUBSET Packet] /\ \A p \in Ahead : Cardinality(air[p]) <= MaxAir
    BY <1>1, <1>3 DEF Init
  <2>3. /\ comm_time_old \in [Ahead -> Stamp \cup {NoTime}]
        /\ comm_f_counter \in [Ahead -> 0 .. COMM_ERR_BOUND + 1]
        /\ comm_p \in [Ahead -> 0 .. 1] /\ f_comm \in 0 .. 1
    BY <1>1 DEF Init, Started
  <2>4. 0 \in 0 .. Remainder /\ 0 \in 0 .. Trusted + 1
    BY <1>1, Constants
  <2> QED
    BY <2>1, <2>2, <2>3, <2>4 DEF TypeOK, Init, Started
<1> QED
  BY <1>3, <1>4, Constants DEF Inv, Init, Started

LEMMA TellInv ==
  ASSUME Inv, NEW p \in Ahead, NEW brakes \in BOOLEAN, Tell(p, brakes)
  PROVE  Inv'
<1> USE DEF Inv
<1>1. K \in Nat \ {0}
  BY BoundAssumption
<1>2. [time |-> (tx[p].time + 1) % K, brakes |-> brakes] \in Packet
  BY <1>1 DEF TypeOK, Packet, Stamp
<1>3. TypeOK' /\ AirFinite'
  BY <1>2 DEF Tell, TypeOK, AirFinite, own, links
<1>4. trusted' = trusted /\ alive' = alive /\ UNCHANGED links
  BY DEF Tell, own
<1>5. ASSUME ~alive[Lead] PROVE Potential' <= Potential
  <2>1. p # Lead
    BY <1>5 DEF Tell
  <2> QED
    BY <1>3, <1>4, <2>1, SameLead, Constants DEF Tell, TypeOK
<1>6. Potential' \in Nat /\ Potential \in Nat /\ Trusted \in Nat
  BY <1>3, PrimedInt, PotentialInt, Constants
<1> QED
  BY <1>3, <1>4, <1>5, <1>6

\* What a step must keep, apart from the types: only a step of a dead leader counts.
LEMMA Kept ==
  ASSUME Inv, TypeOK', AirFinite', alive' = alive, trusted' = trusted,
         ~alive[Lead] => Potential' <= Potential
  PROVE  Inv'
<1>1. Potential' \in Nat /\ Potential \in Nat /\ Trusted \in Nat
  BY PrimedInt, PotentialInt, Constants DEF Inv
<1> QED
  BY <1>1 DEF Inv

LEMMA DieInv ==
  ASSUME Inv, NEW p \in Ahead, Die(p)
  PROVE  Inv'
<1> USE DEF Inv
<1>1. TypeOK' /\ AirFinite'
  BY DEF Die, TypeOK, AirFinite, own, links
<1>2. CASE p = Lead
  <2>1. trusted = 0 /\ ~alive'[Lead]
    BY <1>2 DEF Die, TypeOK
  <2>2. trusted' = 0
    BY <2>1 DEF Die, own
  <2>3. Potential' <= Trusted
    BY <1>1, <2>2, AtDeathPrime
  <2> QED
    BY <1>1, <2>1, <2>3
<1>3. CASE p # Lead
  <2>1. alive'[Lead] = alive[Lead] /\ trusted' = trusted /\ UNCHANGED <<tx, air, comm, links>>
    BY <1>3, Constants DEF Die, own, TypeOK
  <2>2. Potential' <= Potential
    BY <1>1, <2>1, SameLead
  <2>3. Potential' \in Nat /\ Potential \in Nat /\ Trusted \in Nat
    BY <1>1, PrimedInt, PotentialInt, Constants
  <2> QED
    BY <1>1, <2>1, <2>2, <2>3
<1> QED
  BY <1>2, <1>3

LEMMA ReturnInv ==
  ASSUME Inv, NEW p \in Ahead, Return(p)
  PROVE  Inv'
<1> USE DEF Inv
<1>1. TypeOK' /\ AirFinite'
  BY Constants DEF Return, TypeOK, AirFinite, links
<1>2. CASE p = Lead
  <2>1. alive'[Lead] /\ trusted' = 0
    BY <1>2 DEF Return, TypeOK
  <2> QED
    BY <1>1, <2>1
<1>3. CASE p # Lead
  <2>1. alive'[Lead] = alive[Lead] /\ trusted' = trusted /\ UNCHANGED <<tx, air, comm, links>>
    BY <1>3, Constants DEF Return, TypeOK
  <2>2. Potential' <= Potential
    BY <1>1, <2>1, SameLead
  <2>3. Potential' \in Nat /\ Potential \in Nat /\ Trusted \in Nat
    BY <1>1, PrimedInt, PotentialInt, Constants
  <2> QED
    BY <1>1, <2>1, <2>2, <2>3
<1> QED
  BY <1>2, <1>3

LEMMA SendInv ==
  ASSUME Inv, NEW p \in Ahead, Send(p)
  PROVE  Inv'
<1> USE DEF Inv
<1>1. IsFiniteSet(air[p] \cup {tx[p]})
  BY FS_AddElement DEF AirFinite
<1>2. TypeOK' /\ AirFinite'
  BY <1>1 DEF Send, TypeOK, AirFinite, own, links
<1>3. trusted' = trusted /\ alive' = alive /\ UNCHANGED links /\ tx' = tx /\ comm' = comm
  BY DEF Send, own
<1>4. Stale' = Stale
  BY <1>3, Constants DEF Send, Stale, TypeOK
<1>5. Changes' = Changes /\ Left' = Left
  BY <1>3, <1>4 DEF Changes, Left, One, Changed, links
<1>6. Potential' <= Potential
  BY <1>2, <1>3, <1>5, PotentialType, Falls
<1> QED
  BY <1>2, <1>3, <1>6, Kept

\* A packet of Lead that arrives or is lost: the stale ones get fewer if it is stale.
LEMMA OffTheAir ==
  ASSUME TypeOK, AirFinite, NEW m \in air[Lead], tx' = tx,
         air' = [air EXCEPT ![Lead] = @ \ {m}]
  PROVE  /\ m.time # tx[Lead].time => Cardinality(Stale') = Cardinality(Stale) - 1
         /\ m.time = tx[Lead].time => Stale' = Stale
<1>1. air'[Lead] = air[Lead] \ {m}
  BY Constants DEF TypeOK
<1>2. CASE m.time # tx[Lead].time
  <2>1. Stale' = Stale \ {m} /\ m \in Stale
    BY <1>1, <1>2 DEF Stale
  <2> QED
    BY <1>2, <2>1, StaleCard, FS_RemoveElement
<1>3. CASE m.time = tx[Lead].time
  BY <1>1, <1>3 DEF Stale
<1> QED
  BY <1>2, <1>3

LEMMA LessAir ==
  ASSUME TypeOK, AirFinite, NEW p \in Ahead, NEW m,
         air' = [air EXCEPT ![p] = @ \ {m}]
  PROVE  /\ air' \in [Ahead -> SUBSET Packet] /\ AirFinite'
         /\ \A q \in Ahead : Cardinality(air'[q]) <= MaxAir
<1>1. IsFiniteSet(air[p] \ {m}) /\ Cardinality(air[p] \ {m}) <= Cardinality(air[p])
  BY FS_Subset DEF AirFinite
<1>2. /\ Cardinality(air[p]) \in Nat /\ Cardinality(air[p] \ {m}) \in Nat
      /\ Cardinality(air[p]) <= MaxAir /\ MaxAir \in Nat
  BY <1>1, FS_CardinalityType, BoundAssumption DEF AirFinite, TypeOK
<1>3. Cardinality(air[p] \ {m}) <= MaxAir
  BY <1>1, <1>2
<1>4. \A q \in Ahead : air'[q] = IF q = p THEN air[p] \ {m} ELSE air[q]
  BY DEF TypeOK
<1> QED
  BY <1>1, <1>3, <1>4 DEF TypeOK, AirFinite

LEMMA LoseInv ==
  ASSUME Inv, NEW p \in Ahead, NEW m \in Packet, Lose(p, m)
  PROVE  Inv'
<1> USE DEF Inv
<1>1. TypeOK' /\ AirFinite'
  BY LessAir DEF Lose, TypeOK, own, links
<1>2. trusted' = trusted /\ alive' = alive /\ UNCHANGED links /\ tx' = tx /\ comm' = comm
  BY DEF Lose, own
<1>3. Left' = Left /\ Changed(Lead)' = Changed(Lead)
  BY <1>2 DEF Left, Changed, links
<1>4. CASE p = Lead
  <2>1. m \in air[Lead] /\ air' = [air EXCEPT ![Lead] = @ \ {m}]
    BY <1>4 DEF Lose
  <2>2. \/ Cardinality(Stale') = Cardinality(Stale) - 1
        \/ Stale' = Stale
    BY <1>2, <2>1, OffTheAir
  <2>3. Cardinality(Stale') <= Cardinality(Stale)
    BY <2>2, StaleCard
  <2>4. Changes' <= Changes
    BY <1>1, <1>2, <1>3, <2>3, StaleCard, PrimedType DEF Changes, One
  <2>5. Potential' <= Potential
    BY <1>1, <1>2, <1>3, <2>4, PotentialType, Falls
  <2> QED
    BY <1>1, <1>2, <2>5, Kept
<1>5. CASE p # Lead
  <2>1. air'[Lead] = air[Lead]
    BY <1>5, Constants DEF Lose, TypeOK
  <2>2. Potential' <= Potential
    BY <1>1, <1>2, <2>1, SameLead
  <2> QED
    BY <1>1, <1>2, <2>2, Kept
<1> QED
  BY <1>4, <1>5

LEMMA ReceiveInv ==
  ASSUME Inv, NEW p \in Ahead, NEW m \in Packet, Receive(p, m)
  PROVE  Inv'
<1> USE DEF Inv
<1>1. comm' \in [Ahead -> Packet]
  BY DEF Receive, TypeOK
<1>2. TypeOK' /\ AirFinite'
  BY <1>1, LessAir DEF Receive, TypeOK, own, links
<1>3. trusted' = trusted /\ alive' = alive /\ UNCHANGED links /\ tx' = tx
  BY DEF Receive, own
<1>4. CASE p = Lead
  <2>1. m \in air[Lead] /\ air' = [air EXCEPT ![Lead] = @ \ {m}] /\ comm'[Lead] = m
    BY <1>4 DEF Receive, TypeOK
  <2>2. ASSUME m.time # tx[Lead].time
       PROVE  Potential' <= Potential
    <3>1. Cardinality(Stale') = Cardinality(Stale) - 1
      BY <1>3, <2>1, <2>2, OffTheAir
    <3>2. /\ Changes = 2 * Cardinality(Stale) + One(comm[Lead].time # tx[Lead].time)
                       + One(Changed(Lead))
          /\ Changes' = 2 * Cardinality(Stale') + One(comm'[Lead].time # tx'[Lead].time)
                       + One(Changed(Lead)')
      BY DEF Changes, One
    <3>3. Changes' = 2 * Cardinality(Stale') + 1 + One(Changed(Lead)')
      BY <1>3, <2>1, <2>2, <3>2 DEF One
    <3>4. CASE Changes' < Changes
      BY <1>2, <1>3, <3>4, Falls
    <3>5. CASE ~(Changes' < Changes)
      <4>1. Changes' <= Changes /\ Changed(Lead)'
        BY <3>1, <3>2, <3>3, <3>5, StaleCard DEF One
      <4>2. Left' = 0 /\ Left >= 0
        BY <1>2, <4>1, PrimedType, PotentialType, BoundAssumption
      <4> QED
        BY <1>2, <1>3, <4>1, <4>2, Falls
    <3> QED
      BY <3>4, <3>5
  <2>3. ASSUME m.time = tx[Lead].time
       PROVE  Potential' <= Potential
    <3>1. Stale' = Stale /\ comm'[Lead].time = tx[Lead].time
      BY <1>3, <2>1, <2>3, OffTheAir
    <3>2. CASE comm[Lead].time = tx[Lead].time
      <4>1. Changed(Lead)' = Changed(Lead)
        BY <1>3, <3>1, <3>2 DEF Changed, links
      <4>2. Changes' = Changes /\ Left' = Left
        BY <1>3, <3>1, <3>2, <4>1 DEF Changes, Left, One, links
      <4> QED
        BY <1>2, <1>3, <4>2, PotentialType, Falls
    <3>3. CASE comm[Lead].time # tx[Lead].time
      <4>1. Changes' = 2 * Cardinality(Stale) + One(Changed(Lead)')
        BY <1>3, <3>1, StaleCard DEF Changes, One
      <4>2. Changes = 2 * Cardinality(Stale) + 1 + One(Changed(Lead))
        BY <3>3 DEF Changes, One
      <4>3. CASE Changed(Lead)'
        <5>1. Changes' <= Changes /\ Left' = 0 /\ Left >= 0
          BY <1>2, <4>1, <4>2, <4>3, StaleCard, PrimedType, PotentialType, BoundAssumption DEF One
        <5> QED
          BY <1>2, <1>3, <5>1, Falls
      <4>4. CASE ~Changed(Lead)'
        <5>1. Changes' < Changes
          BY <4>1, <4>2, <4>4, StaleCard DEF One
        <5> QED
          BY <1>2, <1>3, <5>1, Falls
      <4> QED
        BY <4>3, <4>4
    <3> QED
      BY <3>2, <3>3
  <2>4. Potential' <= Potential
    BY <2>2, <2>3
  <2> QED
    BY <1>2, <1>3, <2>4, Kept
<1>5. CASE p # Lead
  <2>1. air'[Lead] = air[Lead] /\ comm'[Lead] = comm[Lead]
    BY <1>5, Constants DEF Receive, TypeOK
  <2>2. Potential' <= Potential
    BY <1>2, <1>3, <2>1, SameLead
  <2> QED
    BY <1>2, <1>3, <2>2, Kept
<1> QED
  BY <1>4, <1>5

LEMMA RestartInv ==
  ASSUME Inv, Restart
  PROVE  Inv'
<1> USE DEF Inv
<1>1. COMM_ERR_BOUND \in Nat /\ Remainder \in Nat /\ Trusted \in Nat
  BY BoundAssumption, Constants
<1>2. AirFinite' /\ trusted' = 0 /\ alive' = alive
  BY DEF Restart, others, AirFinite
<1>3. TypeOK'
  <2>1. /\ comm_time_old' \in [Ahead -> Stamp \cup {NoTime}]
        /\ comm_f_counter' \in [Ahead -> 0 .. COMM_ERR_BOUND + 1]
        /\ comm_p' \in [Ahead -> 0 .. 1] /\ f_comm' \in 0 .. 1
    BY <1>1 DEF Restart
  <2>2. 0 \in 0 .. Remainder /\ 0 \in 0 .. Trusted + 1
    BY <1>1
  <2> QED
    BY <2>1, <2>2 DEF Restart, others, TypeOK
<1>4. Potential' <= Trusted
  BY <1>2, <1>3, AtDeathPrime
<1> QED
  BY <1>2, <1>3, <1>4

\* A cycle that trusts a dead leader pays for it.
LEMMA CyclePotential ==
  ASSUME TypeOK, AirFinite, TypeOK', AirFinite', Cycle, ~alive[Lead], Potential <= Trusted
  PROVE  Potential' <= Potential
<1>1. /\ Changes \in Nat /\ Left \in 0 .. COMM_ERR_BOUND
      /\ Changes' \in Nat /\ Left' \in 0 .. COMM_ERR_BOUND
      /\ COMM_ERR_BOUND \in Nat /\ trusted \in Nat /\ trusted' \in Nat
      /\ Run = COMM_ERR_BOUND + 1
  BY PotentialType, PrimedType, BoundAssumption, Constants DEF TypeOK
<1>2. trusted <= Trusted
  BY PotentialInt, Constants, <1>1
<1>3. /\ trusted' \in {trusted, trusted + 1}
      /\ Failed(Lead) = 1 => trusted' = trusted
  BY <1>1, <1>2, Constants DEF Cycle, Taken
<1>4. /\ comm_time_old'[Lead] = comm[Lead].time /\ comm_f_counter'[Lead] = Count(Lead)
      /\ comm_p'[Lead] = Failed(Lead) /\ comm' = comm /\ Stale' = Stale /\ tx' = tx
  BY Constants DEF Cycle, Seen, others, Stale
<1>5. ~Changed(Lead)'
  BY <1>4 DEF Changed
<1>6. /\ Changes = 2 * Cardinality(Stale) + One(comm[Lead].time # tx[Lead].time)
                   + One(Changed(Lead))
      /\ Changes' = 2 * Cardinality(Stale) + One(comm[Lead].time # tx[Lead].time)
  BY <1>4, <1>5, StaleCard DEF Changes, One
<1>7. CASE Changed(Lead)
  <2>1. Changes = Changes' + 1
    BY <1>6, <1>7, StaleCard DEF One
  <2>2. \A u \in {trusted, trusted + 1} :
          u + Changes' * Run + Left' <= trusted + Changes * Run + Left
    <3>1. \A n \in Nat : n < n + 1
      OBVIOUS
    <3>2. Changes' < Changes
      BY <1>1, <2>1, <3>1
    <3> QED
      BY <1>1, <3>2, Worth
  <2>3. trusted' + Changes' * Run + Left' <= trusted + Changes * Run + Left
    BY <1>3, <2>2
  <2> QED
    BY <2>3, PotentialPrime DEF Potential
<1>8. CASE ~Changed(Lead)
  <2>1. Changes' = Changes /\ Changes * Run \in Nat
    BY <1>1, <1>6, <1>8, StaleCard, Times DEF One
  <2>2. comm_f_counter[Lead] \in 0 .. COMM_ERR_BOUND + 1 /\ comm_p[Lead] \in 0 .. 1
    BY Constants DEF TypeOK
  <2>3. CASE Failed(Lead) = 1
    <3>1. Left' = 0
      BY <1>4, <2>3 DEF Left
    <3> QED
      BY <1>1, <1>3, <2>1, <2>3, <3>1, PotentialPrime DEF Potential
  <2>4. CASE Failed(Lead) # 1
    <3>1. /\ comm_p[Lead] = 0 /\ comm_f_counter[Lead] < COMM_ERR_BOUND
          /\ Count(Lead) = comm_f_counter[Lead] + 1
      BY <1>1, <1>8, <2>2, <2>4 DEF Failed, Count
    <3>2. Left = COMM_ERR_BOUND - comm_f_counter[Lead]
      BY <1>1, <1>8, <2>2, <3>1 DEF Left
    <3>3. Left' = COMM_ERR_BOUND - comm_f_counter[Lead] - 1
      BY <1>1, <1>4, <1>5, <2>2, <2>4, <3>1 DEF Left, Failed
    <3> QED
      BY <1>1, <1>3, <2>1, <2>2, <3>2, <3>3, PotentialPrime DEF Potential
  <2> QED
    BY <2>3, <2>4
<1> QED
  BY <1>7, <1>8

LEMMA CycleInv ==
  ASSUME Inv, Cycle
  PROVE  Inv'
<1> USE DEF Inv
<1>1. /\ COMM_ERR_BOUND \in Nat /\ Remainder \in Nat /\ Trusted \in Nat
      /\ Lead \in Ahead /\ Pre \in Ahead
  BY BoundAssumption, Constants
<1>2. AirFinite' /\ UNCHANGED others
  BY DEF Cycle, others, AirFinite
<1>3. \A p \in Ahead : /\ Seen(p) \in Stamp \cup {NoTime}
                       /\ Count(p) \in 0 .. COMM_ERR_BOUND + 1
                       /\ Failed(p) \in 0 .. 1
  <2> SUFFICES ASSUME NEW p \in Ahead
               PROVE  /\ Seen(p) \in Stamp \cup {NoTime}
                      /\ Count(p) \in 0 .. COMM_ERR_BOUND + 1
                      /\ Failed(p) \in 0 .. 1
    OBVIOUS
  <2>1. comm_f_counter[p] \in 0 .. COMM_ERR_BOUND + 1 /\ comm_p[p] \in 0 .. 1
    BY DEF TypeOK
  <2>2. comm[p].time \in Stamp
    BY DEF TypeOK, Packet
  <2> QED
    BY <1>1, <2>1, <2>2 DEF Seen, Count, Failed
<1>4. TypeOK'
  <2>1. /\ comm_time_old' \in [Ahead -> Stamp \cup {NoTime}]
        /\ comm_f_counter' \in [Ahead -> 0 .. COMM_ERR_BOUND + 1]
        /\ comm_p' \in [Ahead -> 0 .. 1] /\ f_comm' \in 0 .. 1
    BY <1>1, <1>3 DEF Cycle
  <2>2. cycles' \in 0 .. Remainder
    BY <1>1 DEF Cycle, TypeOK
  <2>3. taken' \subseteq Ahead /\ braking' \in BOOLEAN
    BY <1>1 DEF Cycle, Taken
  <2>4. trusted' \in 0 .. Trusted + 1
    BY <1>1 DEF Cycle, TypeOK
  <2> QED
    BY <1>2, <2>1, <2>2, <2>3, <2>4 DEF TypeOK, others
<1>5. CASE alive[Lead]
  BY <1>2, <1>4, <1>5 DEF Cycle, others
<1>6. CASE ~alive[Lead]
  <2>1. Potential' <= Potential
    BY <1>2, <1>4, <1>6, CyclePotential
  <2> QED
    BY <1>2, <1>4, <1>6, <2>1, PotentialInt, PrimedInt, Constants DEF others
<1> QED
  BY <1>5, <1>6

THEOREM Invariant == Spec => []Inv
<1>1. Inv /\ UNCHANGED vars => Inv'
  <2> SUFFICES ASSUME Inv, UNCHANGED vars PROVE Inv'
    OBVIOUS
  <2> USE DEF Inv, vars, others, own
  <2>1. TypeOK' /\ AirFinite' /\ trusted' = trusted /\ alive' = alive /\ UNCHANGED links
    BY DEF TypeOK, AirFinite, links
  <2>2. Potential' <= Potential
    BY <2>1, SameLead
  <2> QED
    BY <2>1, <2>2, Kept
<1>2. Inv /\ Next => Inv'
  BY TellInv, DieInv, ReturnInv, SendInv, ReceiveInv, LoseInv, CycleInv, RestartInv DEF Next
<1> QED
  BY <1>1, <1>2, InitInv, PTL DEF Spec

\* Every variable keeps its range, whatever the bounds: a failed link has run out of its
\* cycles, the speeds come from trucks ahead, and no more packets are on their way than may.
THEOREM TypeCorrect == Spec => []TypeOK
<1>1. Inv => TypeOK
  BY DEF Inv
<1> QED
  BY <1>1, Invariant, PTL

\* However old packets are delayed, doubled or exchanged, the speed of a dead leader is used
\* in at most Trusted cycles (long_trk_func.c:70-111, 178-200).
THEOREM Trust == Spec => []TrustEnds
<1>1. Inv => TrustEnds
  <2> SUFFICES ASSUME Inv PROVE TrustEnds
    OBVIOUS
  <2>1. Trusted \in Nat /\ Potential \in Nat /\ trusted <= Potential /\ trusted \in Nat
    BY PotentialInt, Constants DEF Inv, TypeOK
  <2> QED
    BY <2>1 DEF Inv, TrustEnds
<1> QED
  BY <1>1, Invariant, PTL
=============================================================================
