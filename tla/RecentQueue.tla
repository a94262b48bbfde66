---------------------------- MODULE RecentQueue ----------------------------
(***************************************************************************)
(* What src/path/local/sys_buff.c and the can_cq_* functions promise their *)
(* callers: a queue read oldest first that keeps "the most recent max_data *)
(* items", an item added to a full queue displacing the oldest one.        *)
(***************************************************************************)
EXTENDS Naturals, Sequences

CONSTANTS
  Item,       \* what the queue holds: CAN messages in the driver
  Size,       \* max_data
  NoItem      \* the NULL that a pop of an empty queue returns

VARIABLES
  queue,      \* the items, oldest first
  returned    \* the result of the last pop or read

vars == <<queue, returned>>

\* The queue after item m has been added.
Added(q, m) == IF Len(q) = Size THEN Append(Tail(q), m) ELSE Append(q, m)

TypeOK == queue \in Seq(Item) /\ Len(queue) <= Size /\ returned \in Item \cup {NoItem}

Init == queue = <<>> /\ returned = NoItem

Add(m) == queue' = Added(queue, m) /\ UNCHANGED returned

PopSome == /\ queue # <<>>
           /\ returned' = Head(queue)
           /\ queue' = Tail(queue)

PopNone == /\ queue = <<>>
           /\ returned' = NoItem
           /\ UNCHANGED queue

\* Reading the first item leaves the queue alone; of an empty queue nothing is
\* promised but that some item's memory is read.
ReadFirst == /\ queue # <<>> => returned' = Head(queue)
             /\ returned' \in Item
             /\ UNCHANGED queue

Next == (\E m \in Item : Add(m)) \/ PopSome \/ PopNone \/ ReadFirst

Spec == Init /\ [][Next]_vars
=============================================================================
