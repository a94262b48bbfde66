--------------------------- MODULE CircularBuffer ---------------------------
(***************************************************************************)
(* The circular buffer of src/path/local/sys_buff.c (cbuff_typ) with the   *)
(* can_cq_* operations that src/can/drv_common/can_if.c builds on it: the  *)
(* in_buff and out_buff of the CAN driver.  An item is a whole can_msg_t.  *)
(* A buffer of no items (max_data <= 0, data_array NULL) has no user.      *)
(***************************************************************************)
EXTENDS Integers, Sequences

CONSTANTS Item, Size, NoItem

ASSUME SizeAssumption == Size \in Nat \ {0}
ASSUME NoItemAssumption == NoItem \notin Item

VARIABLES
  data_array,   \* the storage, indexed from 0
  data_start,   \* index of the oldest item
  data_count,   \* how many items are held
  returned      \* the result of the last can_cq_pop_first or can_cq_read_first

vars == <<data_array, data_start, data_count, returned>>

Index == 0 .. Size - 1

TypeOK ==
  /\ data_array \in [Index -> Item]
  /\ data_start \in Index
  /\ data_count \in 0 .. Size
  /\ returned \in Item \cup {NoItem}

\* init_circular_buffer: malloc leaves arbitrary items in the array.
Init ==
  /\ data_array \in [Index -> Item]
  /\ data_start = 0
  /\ data_count = 0
  /\ returned = NoItem

\* data_start++ that starts over at the end of the array.
NextStart == IF data_start + 1 = Size THEN 0 ELSE data_start + 1

\* Mutant: the newest item replaces the oldest without moving data_start.
ReuseOldestInPlace(index) ==
  /\ data_count = Size
  /\ index = data_start
  /\ UNCHANGED <<data_start, data_count>>

\* get_circular_index on a full buffer: the oldest item's place is reused.
ReuseOldest(index) ==
  /\ data_count = Size
  /\ index = data_start
  /\ data_start' = NextStart
  /\ UNCHANGED data_count

\* get_circular_index otherwise: the next free place.
TakeFree(index) ==
  /\ data_count # Size
  /\ LET next == data_start + data_count
     IN  index = IF next >= Size THEN next - Size ELSE next
  /\ data_count' = data_count + 1
  /\ UNCHANGED data_start

can_cq_add(new_msg) ==
  \E index \in Index :
    /\ ReuseOldest(index) \/ TakeFree(index)
    /\ data_array' = [data_array EXCEPT ![index] = new_msg]
    /\ UNCHANGED returned

PopSome ==
  /\ data_count > 0
  /\ returned' = data_array[data_start]
  /\ data_count' = data_count - 1
  /\ data_start' = NextStart
  /\ UNCHANGED data_array

PopNone ==
  /\ data_count <= 0
  /\ returned' = NoItem
  /\ UNCHANGED <<data_array, data_start, data_count>>

can_cq_pop_first == PopSome \/ PopNone

\* Does not look at data_count: of an empty buffer it reads a stale item.
can_cq_read_first ==
  /\ returned' = data_array[data_start]
  /\ UNCHANGED <<data_array, data_start, data_count>>

Next == (\E m \in Item : can_cq_add(m)) \/ can_cq_pop_first \/ can_cq_read_first

Spec == Init /\ [][Next]_vars

-----------------------------------------------------------------------------
\* The place of the i-th oldest item, i counted from 1.
Place(start, i) == LET k == start + i - 1 IN IF k >= Size THEN k - Size ELSE k

\* The count items from start on, oldest first.
Window(array, start, count) == [i \in 1 .. count |-> array[Place(start, i)]]

Contents == Window(data_array, data_start, data_count)

Recent == INSTANCE RecentQueue WITH queue <- Contents

\* The buffer implements a queue of the Size most recent items: no sequence of
\* adds and pops, wrapping however often, loses, duplicates or reorders an
\* item other than the oldest ones that a full buffer drops.
ImplementsRecentQueue == Recent!Spec
=============================================================================
