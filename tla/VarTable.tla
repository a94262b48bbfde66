------------------------------ MODULE VarTable ------------------------------
(***************************************************************************)
(* What the headers of the calls in src/path/db/db_clt.c promise: a table  *)
(* of variables, each with a set of clients that watch it.                 *)
(***************************************************************************)
CONSTANTS Name, BadVar, Value, Zero, Queue

VARIABLES
  store,      \* the value of every variable that exists
  watchers,   \* the clients to trigger on its update
  turn        \* the request under way: none, telling the watchers, answered

vars == <<store, watchers, turn>>

Exists(n) == n \in DOMAIN store

Idle == [at |-> "recv"]

Answer(q, cmd, n, v) ==
  turn' = [at |-> "reply", clt |-> q, msg |-> [cmd |-> cmd, name |-> n, value |-> v]]

\* clt_read of a variable that does not exist is answered with the bad one.
Read(q, n) ==
  /\ LET shown == IF Exists(n) THEN n ELSE BadVar
     IN  Answer(q, "READ", shown, store[shown])
  /\ UNCHANGED <<store, watchers>>

Create(q, n) ==
  /\ ~Exists(n)
  /\ store' = [m \in DOMAIN store \cup {n} |-> IF m = n THEN Zero ELSE store[m]]
  /\ watchers' = [m \in DOMAIN store \cup {n} |-> IF m = n THEN {} ELSE watchers[m]]
  /\ Answer(q, "CREATE", BadVar, TRUE)

Destroy(q, n) ==
  /\ Exists(n)
  /\ store' = [m \in DOMAIN store \ {n} |-> store[m]]
  /\ watchers' = [m \in DOMAIN store \ {n} |-> watchers[m]]
  /\ Answer(q, "DESTROY", BadVar, TRUE)

Update(q, n, v) ==
  /\ Exists(n)
  /\ store' = [store EXCEPT ![n] = v]
  /\ turn' = [at |-> "trig", clt |-> q, name |-> n, untold |-> watchers[n]]
  /\ UNCHANGED watchers

Watch(q, n) ==
  /\ Exists(n) /\ q \notin watchers[n]
  /\ watchers' = [watchers EXCEPT ![n] = @ \cup {q}]
  /\ Answer(q, "TRIG_SET", BadVar, TRUE)
  /\ UNCHANGED store

\* The answer is not specified: the code always says FALSE.
Unwatch(q, n) ==
  /\ Exists(n) /\ q \in watchers[n]
  /\ watchers' = [watchers EXCEPT ![n] = @ \ {q}]
  /\ \E status \in BOOLEAN : Answer(q, "TRIG_UNSET", BadVar, status)
  /\ UNCHANGED store

\* Logging in and out touches neither the variables nor the watchers.
Session(q, cmd) ==
  /\ \E status \in BOOLEAN : Answer(q, cmd, BadVar, status)
  /\ UNCHANGED <<store, watchers>>

Refuse(q, cmd, n) ==
  /\ \/ cmd = "CREATE" /\ Exists(n)
     \/ cmd \in {"UPDATE", "DESTROY"} /\ ~Exists(n)
     \/ cmd = "TRIG_SET" /\ (Exists(n) => q \in watchers[n])
     \/ cmd = "TRIG_UNSET" /\ (Exists(n) => q \notin watchers[n])
  /\ Answer(q, cmd, BadVar, FALSE)
  /\ UNCHANGED <<store, watchers>>

Serve(q, n, v) ==
  /\ turn = Idle
  /\ \/ Create(q, n) \/ Read(q, n) \/ Update(q, n, v) \/ Destroy(q, n)
     \/ Watch(q, n) \/ Unwatch(q, n)
     \/ \E cmd \in {"LOGIN", "LOGOUT"} : Session(q, cmd)
     \/ \E cmd \in {"CREATE", "UPDATE", "DESTROY", "TRIG_SET", "TRIG_UNSET"} :
          Refuse(q, cmd, n)

\* One watcher is triggered; it stops being one if that fails.
Tell(q) ==
  /\ turn.at = "trig" /\ q \in turn.untold
  /\ turn' = [turn EXCEPT !.untold = @ \ {q}]
  /\ watchers' \in {watchers, [watchers EXCEPT ![turn.name] = @ \ {q}]}
  /\ UNCHANGED store

AllTold ==
  /\ turn.at = "trig" /\ turn.untold = {}
  /\ Answer(turn.clt, "UPDATE", BadVar, TRUE)
  /\ UNCHANGED <<store, watchers>>

Answered ==
  /\ turn.at = "reply"
  /\ turn' = Idle
  /\ UNCHANGED <<store, watchers>>

Init ==
  /\ store = [n \in {BadVar} |-> Zero]
  /\ watchers = [n \in {BadVar} |-> {}]
  /\ turn = Idle

Next ==
  \/ \E q \in Queue, n \in Name \cup {BadVar}, v \in Value : Serve(q, n, v)
  \/ \E q \in Queue : Tell(q)
  \/ AllTold
  \/ Answered

Spec == Init /\ [][Next]_vars
=============================================================================
