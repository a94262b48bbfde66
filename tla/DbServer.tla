------------------------------ MODULE DbServer ------------------------------
(***************************************************************************)
(* The data server of src/path/db/db_slv.c: a list of variables, each with *)
(* the clients to trigger when it is updated, served one request at a time.*)
(* A variable's (var, type) pair is one Name; a client is the message      *)
(* queue that its answers and triggers go to.  How messages travel is left *)
(* to the modules that extend this one: here a request can come from any   *)
(* queue whenever the server waits for one, and a trigger can fail.        *)
(* Allocation failures (CALLOC, dl_create, dl_append) are not modelled.    *)
(***************************************************************************)
EXTENDS Integers, Sequences, SequencesExt

CONSTANTS
  Name,       \* the (var, type) pairs that clients use
  BadVar,     \* the pair (DB_BAD_VAR, DB_BAD_TYPE)
  Value,      \* what a variable can hold
  Zero,       \* what it holds after CALLOC
  Queue,      \* the message queue ids of clients
  Destroyable, \* the names that clients ask to destroy
  MaxUsers    \* bound on the logins that pusr records

ASSUME NameAssumption == BadVar \notin Name /\ Destroyable \subseteq Name \cup {BadVar}
ASSUME ValueAssumption == Zero \in Value /\ BOOLEAN \cap Value = {}

VARIABLES
  pdb,        \* the variables, newest first
  pusr,       \* the queues of the logged-in clients, oldest first
  job         \* where the server is in its loop

dbVars == <<pdb, pusr, job>>

Entry == [name : Name \cup {BadVar}, value : Value, trigs : Seq(Queue)]

Commands == {"CREATE", "READ", "UPDATE", "DESTROY", "LOGIN", "LOGOUT",
             "TRIG_SET", "TRIG_UNSET"}

Reply == [cmd : Commands, name : Name \cup {BadVar}, value : Value \cup BOOLEAN]

-----------------------------------------------------------------------------
\* The places the server can be at.  In the walk of slv_update, pnode is the
\* position in the trigger list of the client to be triggered next.
Receiving == [at |-> "recv"]

Walking(q, n, k) == [at |-> "trig", clt |-> q, name |-> n, pnode |-> k]
Replying(q, m) == [at |-> "reply", clt |-> q, msg |-> m]
Crashed == [at |-> "crash"]

Job == {Receiving, Crashed}
         \cup [at : {"trig"}, clt : Queue, name : Name \cup {BadVar}, pnode : Nat \ {0}]
         \cup [at : {"reply"}, clt : Queue, msg : Reply]

TypeOK == pdb \in Seq(Entry) /\ pusr \in Seq(Queue) /\ job \in Job

-----------------------------------------------------------------------------
\* dl_first with db_entry_cmp: i is the first entry for n.
db_entry_find(i, n) == /\ i \in DOMAIN pdb
                       /\ pdb[i].name = n
                       /\ \A j \in 1 .. i - 1 : pdb[j].name # n

Unknown(n) == \A i \in DOMAIN pdb : pdb[i].name # n

slv_bool_reply(q, cmd, status) ==
  job' = Replying(q, [cmd |-> cmd, name |-> BadVar, value |-> status])

slv_var_reply(q, entry) ==
  job' = Replying(q, [cmd |-> "READ", name |-> entry.name, value |-> entry.value])

\* The result of comm_done on a channel of the message transports.
comm_done == FALSE

NewEntry(n) == [name |-> n, value |-> Zero, trigs |-> <<>>]

\* Mutant: the duplicate check of db_entry_create is lost.
CreateAlways(q, n) ==
  /\ slv_bool_reply(q, "CREATE", TRUE)
  /\ pdb' = <<NewEntry(n)>> \o pdb
  /\ UNCHANGED pusr

\* Mutant: a new variable goes to the end of the list.
CreateAtEnd(q, n) ==
  /\ slv_bool_reply(q, "CREATE", Unknown(n))
  /\ pdb' = IF Unknown(n) THEN Append(pdb, NewEntry(n)) ELSE pdb
  /\ UNCHANGED pusr

db_entry_create(q, n) ==
  /\ \/ /\ Unknown(n)
        /\ pdb' = <<NewEntry(n)>> \o pdb
        /\ slv_bool_reply(q, "CREATE", TRUE)
     \/ /\ ~Unknown(n)
        /\ slv_bool_reply(q, "CREATE", FALSE)
        /\ UNCHANGED pdb
  /\ UNCHANGED pusr

ReadKnown(q, n) ==
  \E i \in DOMAIN pdb : db_entry_find(i, n) /\ slv_var_reply(q, pdb[i])

\* Mutant: the first entry is taken for the bad one.
ReadUnknownFirst(q, n) ==
  /\ Unknown(n)
  /\ IF pdb = <<>> THEN job' = Crashed ELSE slv_var_reply(q, pdb[1])

\* db_entry_bad answers with the last entry; of an empty list it follows NULL.
ReadUnknown(q, n) ==
  /\ Unknown(n)
  /\ IF pdb = <<>> THEN job' = Crashed ELSE slv_var_reply(q, pdb[Len(pdb)])

Read(q, n) == (ReadKnown(q, n) \/ ReadUnknown(q, n)) /\ UNCHANGED <<pdb, pusr>>

slv_update(q, n, v) ==
  /\ \/ \E i \in DOMAIN pdb :
          /\ db_entry_find(i, n)
          /\ pdb' = [pdb EXCEPT ![i].value = v]
          /\ job' = Walking(q, n, 1)
     \/ /\ Unknown(n)
        /\ slv_bool_reply(q, "UPDATE", FALSE)
        /\ UNCHANGED pdb
  /\ UNCHANGED pusr

db_entry_rm(q, n) ==
  /\ \/ \E i \in DOMAIN pdb :
          /\ db_entry_find(i, n)
          /\ pdb' = RemoveAt(pdb, i)
          /\ slv_bool_reply(q, "DESTROY", TRUE)
     \/ /\ Unknown(n)
        /\ slv_bool_reply(q, "DESTROY", FALSE)
        /\ UNCHANGED pdb
  /\ UNCHANGED pusr

slv_clt_add(q) ==
  /\ pusr' = Append(pusr, q)
  /\ slv_bool_reply(q, "LOGIN", TRUE)
  /\ UNCHANGED pdb

\* Mutant: the entry of another client is removed.
RemoveFirstUser(q) ==
  /\ pusr # <<>>
  /\ pusr' = Tail(pusr)
  /\ slv_bool_reply(q, "LOGOUT", comm_done)
  /\ UNCHANGED pdb

\* The client's triggers stay registered.
slv_clt_rm(q) ==
  /\ \/ \E i \in DOMAIN pusr :
          /\ pusr[i] = q /\ \A j \in 1 .. i - 1 : pusr[j] # q
          /\ pusr' = RemoveAt(pusr, i)
          /\ slv_bool_reply(q, "LOGOUT", comm_done)
     \/ /\ \A i \in DOMAIN pusr : pusr[i] # q
        /\ slv_bool_reply(q, "LOGOUT", FALSE)
        /\ UNCHANGED pusr
  /\ UNCHANGED pdb

\* Mutant: a client may register twice.
TrigSetAgain(q, n) ==
  /\ \/ \E i \in DOMAIN pdb :
          /\ db_entry_find(i, n)
          /\ pdb' = [pdb EXCEPT ![i].trigs = Append(@, q)]
          /\ slv_bool_reply(q, "TRIG_SET", TRUE)
     \/ Unknown(n) /\ slv_bool_reply(q, "TRIG_SET", FALSE) /\ UNCHANGED pdb
  /\ UNCHANGED pusr

slv_trig_set(q, n) ==
  /\ \/ \E i \in DOMAIN pdb :
          /\ db_entry_find(i, n)
          /\ q \notin ToSet(pdb[i].trigs)
          /\ pdb' = [pdb EXCEPT ![i].trigs = Append(@, q)]
          /\ slv_bool_reply(q, "TRIG_SET", TRUE)
     \/ /\ \A i \in DOMAIN pdb : db_entry_find(i, n) => q \in ToSet(pdb[i].trigs)
        /\ slv_bool_reply(q, "TRIG_SET", FALSE)
        /\ UNCHANGED pdb
  /\ UNCHANGED pusr

slv_trig_unset(q, n) ==
  /\ \/ \E i \in DOMAIN pdb : \E k \in DOMAIN pdb[i].trigs :
          /\ db_entry_find(i, n)
          /\ pdb[i].trigs[k] = q /\ \A j \in 1 .. k - 1 : pdb[i].trigs[j] # q
          /\ pdb' = [pdb EXCEPT ![i].trigs = RemoveAt(@, k)]
          /\ slv_bool_reply(q, "TRIG_UNSET", comm_done)
     \/ /\ \A i \in DOMAIN pdb : db_entry_find(i, n) => q \notin ToSet(pdb[i].trigs)
        /\ slv_bool_reply(q, "TRIG_UNSET", FALSE)
        /\ UNCHANGED pdb
  /\ UNCHANGED pusr

\* One turn of the server's loop: the request cmd about n, with value v, of
\* the client whose queue is q.
slv_cmd(q, cmd, n, v) ==
  /\ job = Receiving
  /\ \/ cmd = "CREATE"     /\ db_entry_create(q, n)
     \/ cmd = "READ"       /\ Read(q, n)
     \/ cmd = "UPDATE"     /\ slv_update(q, n, v)
     \/ cmd = "DESTROY"    /\ db_entry_rm(q, n)
     \/ cmd = "LOGIN"      /\ slv_clt_add(q)
     \/ cmd = "LOGOUT"     /\ slv_clt_rm(q)
     \/ cmd = "TRIG_SET"   /\ slv_trig_set(q, n)
     \/ cmd = "TRIG_UNSET" /\ slv_trig_unset(q, n)

-----------------------------------------------------------------------------
\* The loop of slv_update over the trigger list of the i-th entry, at the node
\* of client q.
AtTrigger(i, q) ==
  /\ job.at = "trig"
  /\ db_entry_find(i, job.name)
  /\ job.pnode \in DOMAIN pdb[i].trigs
  /\ pdb[i].trigs[job.pnode] = q

TrigSent(q) ==
  /\ \E i \in DOMAIN pdb : AtTrigger(i, q)
  /\ job' = [job EXCEPT !.pnode = @ + 1]
  /\ UNCHANGED <<pdb, pusr>>

\* Mutant: after a removal the walk also steps over the node that moved up.
TrigFailedSkip(q) ==
  /\ \E i \in DOMAIN pdb :
       /\ AtTrigger(i, q)
       /\ pdb' = [pdb EXCEPT ![i].trigs = RemoveAt(@, job.pnode)]
  /\ job' = [job EXCEPT !.pnode = @ + 1]
  /\ UNCHANGED pusr

\* dl_rm_node leaves pnode at the previous node, or NULL at the first: either
\* way the walk goes on with the node that followed the removed one.
TrigFailed(q) ==
  /\ \E i \in DOMAIN pdb :
       /\ AtTrigger(i, q)
       /\ pdb' = [pdb EXCEPT ![i].trigs = RemoveAt(@, job.pnode)]
  /\ UNCHANGED <<job, pusr>>

UpdateDone ==
  /\ job.at = "trig"
  /\ \A i \in DOMAIN pdb : db_entry_find(i, job.name) => job.pnode \notin DOMAIN pdb[i].trigs
  /\ slv_bool_reply(job.clt, "UPDATE", TRUE)
  /\ UNCHANGED <<pdb, pusr>>

\* comm_sync_reply returns; its result is not looked at.
ReplyDone ==
  /\ job.at = "reply"
  /\ job' = Receiving
  /\ UNCHANGED <<pdb, pusr>>

-----------------------------------------------------------------------------
\* slv_db_create puts the bad variable into an empty list.
DbInit == pdb = <<NewEntry(BadVar)>> /\ pusr = <<>> /\ job = Receiving

\* What the client library lets a client ask: clt_create refuses the built-in
\* variables, the other calls pass any name on.
Asked(cmd) == CASE cmd = "CREATE"  -> Name
                [] cmd = "DESTROY" -> Destroyable
                [] OTHER           -> Name \cup {BadVar}

DbNext ==
  \/ \E q \in Queue, cmd \in Commands, v \in Value : \E n \in Asked(cmd) :
       (cmd = "LOGIN" => Len(pusr) < MaxUsers) /\ slv_cmd(q, cmd, n, v)
  \/ \E q \in Queue : TrigSent(q) \/ TrigFailed(q)
  \/ UpdateDone
  \/ ReplyDone

DbSpec == DbInit /\ [][DbNext]_dbVars

-----------------------------------------------------------------------------
\* db_slv.c, above slv_db_create: "The last entry in the database is always a
\* bad variable, to be used as a reply for bogus requests."
BadVarLast == pdb # <<>> /\ pdb[Len(pdb)].name = BadVar

\* No two entries are for one variable: dl_first, which stops at the first
\* match, would hide the value and the triggers of the other.
NamesUnique == \A i, j \in DOMAIN pdb : pdb[i].name = pdb[j].name => i = j

\* No client is registered twice for a variable: it would be triggered twice
\* by one update, and stay registered after unsetting its trigger.
TriggersUnique ==
  \A i \in DOMAIN pdb : \A k, l \in DOMAIN pdb[i].trigs :
    pdb[i].trigs[k] = pdb[i].trigs[l] => k = l

\* A request for a variable that the server does not know is never answered
\* with the data of another one: what clt_read takes for an answer names the
\* variable that was asked for.
ReadsNameAsked ==
  [][\A q \in Queue, n \in Name :
       Read(q, n) /\ job = Receiving => /\ job'.at = "reply"
                                        /\ job'.msg.name \in {n, BadVar}]_dbVars

-----------------------------------------------------------------------------
Known == {pdb[i].name : i \in DOMAIN pdb}

Place(n) == CHOOSE i \in DOMAIN pdb : pdb[i].name = n

\* The clients whose turn in the walk is still to come.
Untold == LET trigs == pdb[Place(job.name)].trigs
          IN  {trigs[k] : k \in {l \in DOMAIN trigs : l >= job.pnode}}

Turn == IF job.at = "trig"
        THEN [at |-> "trig", clt |-> job.clt, name |-> job.name, untold |-> Untold]
        ELSE job

Store == [n \in Known |-> pdb[Place(n)].value]
Watchers == [n \in Known |-> ToSet(pdb[Place(n)].trigs)]

Table == INSTANCE VarTable WITH store <- Store, watchers <- Watchers, turn <- Turn

\* The lists implement the table that the client library documents: creating,
\* reading, updating and destroying act on one variable, an update is answered
\* only after every client registered for it has been tried exactly once, and
\* a trigger that cannot be delivered costs nobody else's registration.
ImplementsVarTable == Table!Spec
=============================================================================
