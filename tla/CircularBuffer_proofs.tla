------------------------ MODULE CircularBuffer_proofs ------------------------
(* Theorems about CircularBuffer, for every size and every set of items. *)
EXTENDS CircularBuffer, TLAPS

USE SizeAssumption

(***************************************************************************)
(* The indices of the buffer never leave the array and the count never     *)
(* exceeds it (get_circular_index, can_cq_pop_first).                      *)
(***************************************************************************)
THEOREM TypeCorrect == Spec => []TypeOK
<1>1. Init => TypeOK
  BY DEF Init, TypeOK, Index
<1>2. TypeOK /\ [Next]_vars => TypeOK'
  <2> SUFFICES ASSUME TypeOK, [Next]_vars
               PROVE  TypeOK'
    OBVIOUS
  <2>1. NextStart \in Index
    BY DEF NextStart, TypeOK, Index
  <2>2. ASSUME NEW m \in Item, can_cq_add(m)
        PROVE  TypeOK'
    BY <2>1, <2>2 DEF can_cq_add, ReuseOldest, TakeFree, TypeOK, Index
  <2>3. CASE can_cq_pop_first
    BY <2>1, <2>3 DEF can_cq_pop_first, PopSome, PopNone, TypeOK, Index
  <2>4. CASE can_cq_read_first
    BY <2>4 DEF can_cq_read_first, TypeOK
  <2>5. CASE UNCHANGED vars
    BY <2>5 DEF vars, TypeOK
  <2> QED
    BY <2>2, <2>3, <2>4, <2>5 DEF Next
<1> QED
  BY <1>1, <1>2, PTL DEF Spec

-----------------------------------------------------------------------------
\* A window of the array is a sequence of its items.
LEMMA WindowSeq ==
  ASSUME NEW array \in [Index -> Item], NEW start \in Index, NEW count \in 0 .. Size
  PROVE  /\ Window(array, start, count) \in Seq(Item)
         /\ Len(Window(array, start, count)) = count
         /\ \A i \in 1 .. count : Window(array, start, count)[i] = array[Place(start, i)]
<1>1. \A i \in 1 .. count : Place(start, i) \in Index
  BY DEF Place, Index
<1>2. \A i \in 1 .. count : array[Place(start, i)] \in Item
  BY <1>1
<1>3. Window(array, start, count) \in [1 .. count -> Item]
  BY <1>2 DEF Window
<1>4. count \in Nat
  OBVIOUS
<1> QED
  BY <1>3, <1>4 DEF Window

\* Two sequences of one length with the same elements are equal.
LEMMA SeqEqual ==
  ASSUME NEW S, NEW s \in Seq(S), NEW t \in Seq(S), Len(s) = Len(t),
         \A i \in 1 .. Len(s) : s[i] = t[i]
  PROVE  s = t
OBVIOUS

\* Overwriting the oldest of Size items with m and starting at the next place
\* drops the head of the window and appends m.
LEMMA WindowReuse ==
  ASSUME NEW array \in [Index -> Item], NEW start \in Index, NEW m \in Item
  PROVE  LET next == IF start + 1 = Size THEN 0 ELSE start + 1
         IN  Window([array EXCEPT ![start] = m], next, Size)
               = Append(Tail(Window(array, start, Size)), m)
<1> DEFINE next  == IF start + 1 = Size THEN 0 ELSE start + 1
           after == [array EXCEPT ![start] = m]
           w     == Window(array, start, Size)
           v     == Window(after, next, Size)
           a     == Append(Tail(w), m)
<1>1. after \in [Index -> Item] /\ next \in Index /\ Size \in 0 .. Size
  BY DEF Index
<1>2. /\ w \in Seq(Item) /\ Len(w) = Size
      /\ \A i \in 1 .. Size : w[i] = array[Place(start, i)]
  BY <1>1, WindowSeq
<1>3. /\ v \in Seq(Item) /\ Len(v) = Size
      /\ \A i \in 1 .. Size : v[i] = after[Place(next, i)]
  <2> HIDE DEF after, next
  <2> QED BY <1>1, WindowSeq
<1>4. /\ a \in Seq(Item) /\ Len(a) = Size /\ a[Size] = m
      /\ \A i \in 1 .. Size - 1 : a[i] = w[i + 1]
  <2> HIDE DEF w
  <2>1. w # <<>>
    BY <1>2
  <2>2. /\ Tail(w) \in Seq(Item) /\ Len(Tail(w)) = Size - 1
        /\ \A i \in 1 .. Size - 1 : Tail(w)[i] = w[i + 1]
    BY <1>2, <2>1
  <2> QED BY <2>2
<1>5. \A i \in 1 .. Size : v[i] = a[i]
  <2> SUFFICES ASSUME NEW i \in 1 .. Size PROVE v[i] = a[i]
    OBVIOUS
  <2>1. CASE i = Size
    <3>1. Place(next, Size) = start
      BY DEF Place, Index
    <3>2. after[start] = m
      OBVIOUS
    <3> QED
      <4> HIDE DEF v, a, after, next
      <4> QED BY <2>1, <3>1, <3>2, <1>3, <1>4
  <2>2. CASE i # Size
    <3>1. i \in 1 .. Size - 1 /\ i + 1 \in 1 .. Size
      BY <2>2
    <3>2. /\ Place(next, i) = Place(start, i + 1)
          /\ Place(start, i + 1) # start /\ Place(start, i + 1) \in Index
      BY <3>1 DEF Place, Index
    <3>3. after[Place(start, i + 1)] = array[Place(start, i + 1)]
      BY <3>2
    <3> QED
      <4> HIDE DEF v, a, w, after, next
      <4> QED BY <3>1, <3>2, <3>3, <1>2, <1>3, <1>4
  <2> QED BY <2>1, <2>2
<1> HIDE DEF v, a
<1>6. v = a
  BY <1>3, <1>4, <1>5, SeqEqual
<1> QED
  BY <1>6 DEF v, a

\* Writing m to the next free place appends it to the window.
LEMMA WindowAppend ==
  ASSUME NEW array \in [Index -> Item], NEW start \in Index, NEW m \in Item,
         NEW count \in 0 .. Size - 1
  PROVE  LET free == IF start + count >= Size THEN start + count - Size
                                              ELSE start + count
         IN  Window([array EXCEPT ![free] = m], start, count + 1)
               = Append(Window(array, start, count), m)
<1> DEFINE free  == IF start + count >= Size THEN start + count - Size
                                             ELSE start + count
           after == [array EXCEPT ![free] = m]
           w     == Window(array, start, count)
           v     == Window(after, start, count + 1)
           a     == Append(w, m)
<1>1. /\ after \in [Index -> Item] /\ free \in Index
      /\ count \in 0 .. Size /\ count + 1 \in 0 .. Size
  BY DEF Index
<1>2. /\ w \in Seq(Item) /\ Len(w) = count
      /\ \A i \in 1 .. count : w[i] = array[Place(start, i)]
  BY <1>1, WindowSeq
<1>3. /\ v \in Seq(Item) /\ Len(v) = count + 1
      /\ \A i \in 1 .. count + 1 : v[i] = after[Place(start, i)]
  <2> HIDE DEF after, free
  <2> QED BY <1>1, WindowSeq
<1>4. /\ a \in Seq(Item) /\ Len(a) = count + 1 /\ a[count + 1] = m
      /\ \A i \in 1 .. count : a[i] = w[i]
  <2> HIDE DEF w
  <2> QED BY <1>2
<1>5. \A i \in 1 .. count + 1 : v[i] = a[i]
  <2> SUFFICES ASSUME NEW i \in 1 .. count + 1 PROVE v[i] = a[i]
    OBVIOUS
  <2>1. CASE i = count + 1
    <3>1. Place(start, count + 1) = free
      BY DEF Place, Index
    <3>2. after[free] = m
      BY <1>1
    <3> QED
      <4> HIDE DEF v, a, after, free
      <4> QED BY <2>1, <3>1, <3>2, <1>3, <1>4
  <2>2. CASE i # count + 1
    <3>1. i \in 1 .. count
      BY <2>2
    <3>2. Place(start, i) # free /\ Place(start, i) \in Index
      BY <3>1 DEF Place, Index
    <3>3. after[Place(start, i)] = array[Place(start, i)]
      BY <3>2
    <3> QED
      <4> HIDE DEF v, a, w, after, free
      <4> QED BY <3>1, <3>3, <1>2, <1>3, <1>4
  <2> QED BY <2>1, <2>2
<1> HIDE DEF v, a
<1>6. v = a
  BY <1>3, <1>4, <1>5, SeqEqual
<1> QED
  BY <1>6 DEF v, a

\* Moving the start by one and counting one less drops the head.
LEMMA WindowTail ==
  ASSUME NEW array \in [Index -> Item], NEW start \in Index, NEW count \in 1 .. Size
  PROVE  LET next == IF start + 1 = Size THEN 0 ELSE start + 1
         IN  /\ Window(array, next, count - 1) = Tail(Window(array, start, count))
             /\ Window(array, start, count) # <<>>
             /\ Head(Window(array, start, count)) = array[start]
<1> DEFINE next == IF start + 1 = Size THEN 0 ELSE start + 1
           w    == Window(array, start, count)
           v    == Window(array, next, count - 1)
           a    == Tail(w)
<1>1. next \in Index /\ count \in 0 .. Size /\ count - 1 \in 0 .. Size
  BY DEF Index
<1>2. /\ w \in Seq(Item) /\ Len(w) = count
      /\ \A i \in 1 .. count : w[i] = array[Place(start, i)]
  BY <1>1, WindowSeq
<1>3. /\ v \in Seq(Item) /\ Len(v) = count - 1
      /\ \A i \in 1 .. count - 1 : v[i] = array[Place(next, i)]
  <2> HIDE DEF next
  <2> QED BY <1>1, WindowSeq
<1>4. w # <<>> /\ w[1] = array[start]
  <2>1. Place(start, 1) = start
    BY DEF Place, Index
  <2> HIDE DEF w
  <2> QED BY <2>1, <1>2
<1>5. /\ a \in Seq(Item) /\ Len(a) = count - 1
      /\ \A i \in 1 .. count - 1 : a[i] = w[i + 1]
  <2> HIDE DEF w
  <2> QED BY <1>2, <1>4
<1>6. \A i \in 1 .. count - 1 : v[i] = a[i]
  <2> SUFFICES ASSUME NEW i \in 1 .. count - 1 PROVE v[i] = a[i]
    OBVIOUS
  <2>1. Place(next, i) = Place(start, i + 1) /\ i + 1 \in 1 .. count
    BY DEF Place, Index
  <2> HIDE DEF v, a, w, next
  <2> QED BY <2>1, <1>2, <1>3, <1>5
<1> HIDE DEF v, a, w
<1>7. v = a
  BY <1>3, <1>5, <1>6, SeqEqual
<1>8. Head(w) = array[start]
  BY <1>4, <1>2
<1> QED
  BY <1>4, <1>7, <1>8 DEF v, a, w

-----------------------------------------------------------------------------
\* The empty buffer is the empty queue.
LEMMA InitRefines == Init => Recent!Init
<1> SUFFICES ASSUME Init PROVE Recent!Init
  OBVIOUS
<1>1. data_array \in [Index -> Item] /\ data_start \in Index /\ data_count \in 0 .. Size
  BY DEF Init, Index
<1>2. Contents \in Seq(Item) /\ Len(Contents) = 0
  BY <1>1, WindowSeq DEF Init, Contents
<1> QED
  BY <1>2 DEF Init, Recent!Init

\* can_cq_add is Add of the abstract queue.
LEMMA AddRefines ==
  ASSUME TypeOK, NEW m \in Item, can_cq_add(m)
  PROVE  Recent!Add(m)
<1>1. Contents \in Seq(Item) /\ Len(Contents) = data_count
  BY WindowSeq DEF TypeOK, Contents
<1>2. PICK index \in Index :
        /\ ReuseOldest(index) \/ TakeFree(index)
        /\ data_array' = [data_array EXCEPT ![index] = m]
  BY DEF can_cq_add
<1>3. Contents' = Recent!Added(Contents, m)
  <2>1. CASE ReuseOldest(index)
    <3>1. Contents' = Append(Tail(Contents), m)
      BY <1>2, <2>1, WindowReuse DEF TypeOK, ReuseOldest, NextStart, Contents
    <3>2. Len(Contents) = Size
      BY <1>1, <2>1 DEF ReuseOldest
    <3> QED BY <3>1, <3>2 DEF Recent!Added
  <2>2. CASE TakeFree(index)
    <3>1. data_count \in 0 .. Size - 1
      BY <2>2 DEF TakeFree, TypeOK
    <3>2. /\ index = IF data_start + data_count >= Size
                     THEN data_start + data_count - Size
                     ELSE data_start + data_count
          /\ data_start' = data_start /\ data_count' = data_count + 1
      BY <2>2 DEF TakeFree, TypeOK, Index
    <3>4. data_array \in [Index -> Item] /\ data_start \in Index
      BY DEF TypeOK
    <3>5. Window([data_array EXCEPT ![index] = m], data_start, data_count + 1)
            = Append(Contents, m)
      BY <3>1, <3>2, <3>4, WindowAppend DEF Contents
    <3>6. Contents' = Append(Contents, m)
      BY <1>2, <3>2, <3>5 DEF Contents
    <3>3. Len(Contents) # Size
      BY <1>1, <2>2 DEF TakeFree
    <3> QED BY <3>6, <3>3 DEF Recent!Added
  <2> QED BY <1>2, <2>1, <2>2
<1> QED
  BY <1>3 DEF can_cq_add, Recent!Add

\* can_cq_pop_first is a pop of the abstract queue, or its NULL result.
LEMMA PopRefines ==
  ASSUME TypeOK, can_cq_pop_first
  PROVE  Recent!PopSome \/ Recent!PopNone
<1>1. CASE PopSome
  <2>1. data_count \in 1 .. Size
    BY <1>1 DEF PopSome, TypeOK
  <2>2. /\ Contents' = Tail(Contents) /\ Contents # <<>>
        /\ Head(Contents) = data_array[data_start]
    BY <1>1, <2>1, WindowTail DEF TypeOK, PopSome, NextStart, Contents
  <2> QED BY <1>1, <2>2 DEF PopSome, Recent!PopSome
<1>2. CASE PopNone
  <2>1. Contents \in Seq(Item) /\ Len(Contents) = 0
    BY <1>2, WindowSeq DEF TypeOK, PopNone, Contents
  <2> QED BY <1>2, <2>1 DEF PopNone, Recent!PopNone, Contents
<1> QED
  BY <1>1, <1>2 DEF can_cq_pop_first

\* can_cq_read_first returns the head whenever there is one.
LEMMA ReadRefines ==
  ASSUME TypeOK, can_cq_read_first
  PROVE  Recent!ReadFirst
<1>1. Contents \in Seq(Item) /\ Len(Contents) = data_count
  BY WindowSeq DEF TypeOK, Contents
<1>2. Contents # <<>> => Head(Contents) = data_array[data_start]
  <2>1. Contents # <<>> => data_count \in 1 .. Size
    BY <1>1 DEF TypeOK
  <2> QED BY <2>1, WindowTail DEF TypeOK, Contents
<1> QED
  BY <1>2 DEF can_cq_read_first, Recent!ReadFirst, TypeOK, Contents

(***************************************************************************)
(* The circular buffer implements the queue of the Size most recent items: *)
(* can_cq_add, can_cq_pop_first and can_cq_read_first do to its contents   *)
(* what the abstract operations do, for a buffer of any size.              *)
(***************************************************************************)
THEOREM Refinement == Spec => ImplementsRecentQueue
<1>1. TypeOK /\ [Next]_vars => [Recent!Next]_(Recent!vars)
  <2> SUFFICES ASSUME TypeOK, [Next]_vars
               PROVE  Recent!Next \/ Recent!vars' = Recent!vars
    OBVIOUS
  <2>1. ASSUME NEW m \in Item, can_cq_add(m)
        PROVE  Recent!Next
    BY <2>1, AddRefines DEF Recent!Next
  <2>2. CASE can_cq_pop_first
    BY <2>2, PopRefines DEF Recent!Next
  <2>3. CASE can_cq_read_first
    BY <2>3, ReadRefines DEF Recent!Next
  <2>4. CASE UNCHANGED vars
    BY <2>4 DEF vars, Recent!vars, Contents
  <2> QED
    BY <2>1, <2>2, <2>3, <2>4 DEF Next
<1> QED
  BY <1>1, InitRefines, TypeCorrect, PTL DEF Spec, Recent!Spec, ImplementsRecentQueue
=============================================================================
