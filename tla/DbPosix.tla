------------------------------ MODULE DbPosix ------------------------------
(***************************************************************************)
(* The data server and its clients over System V message queues            *)
(* (COMM_PSX_XPORT): db_slv.c, db_clt.c and db_comm.c of src/path/db.      *)
(* The server receives every request from one queue; the answers and the   *)
(* triggers for a client share the queue made from that client's key.      *)
(* A client is one process, with one call at a time.  Signals, the timer's *)
(* in particular, interrupt a blocked msgsnd or msgrcv; clients crash.     *)
(***************************************************************************)
EXTENDS DbServer, FiniteSets, FiniteSetsExt

CONSTANTS
  Client,
  Call,          \* [Client -> SUBSET Commands]: the calls a client makes
  RetryLimit,    \* DB_MSGQ_RETRY_LIMIT
  SlvRoom,       \* how many messages the server's queue holds
  CltRoom,       \* how many messages a client's queue holds
  MaxFaults      \* bound on the signals that interrupt calls plus the crashes

\* msgget's result for a key without a queue: it is stored and compared like
\* any queue id.
NoQueue == -1

QueueId == Queue \ {NoQueue}

ASSUME QueueAssumption == NoQueue \in Queue /\ Queue \subseteq Int
ASSUME RoomAssumption == SlvRoom \in Nat \ {0} /\ CltRoom \in Nat \ {0}
ASSUME RetryAssumption == RetryLimit \in Nat \ {0}
ASSUME FaultAssumption == MaxFaults \in Nat
ASSUME ClientAssumption == IsFiniteSet(Client)
\* A client that has logged in does not log in again before it has logged out.
ASSUME CallAssumption == Call \in [Client -> SUBSET (Commands \ {"LOGIN"})]

VARIABLES
  slvq,       \* the server's queue of requests
  cltq,       \* the contents of every client queue
  key,        \* the queue that exists for a client's key, or NoQueue
  made,       \* the queue ids that msgget has given out
  pc,         \* where a client is: logged out, between calls, in msgsnd, in
              \* msgrcv, or crashed
  call,       \* the request of a client's call, while it lasts
  repeat,     \* how often the msgsnd or msgrcv under way has failed
  slvRepeat,  \* the same for the server's trigger
  failed,     \* whether comm_sync_send ever returned FALSE to a client
  backlog,    \* the length of a client's queue when its request was sent
  faults      \* how many interrupts and crashes there were

cltVars == <<pc, call, repeat, failed, backlog>>
queueVars == <<slvq, cltq, key, made>>
vars == <<dbVars, queueVars, cltVars, slvRepeat, faults>>

Requests == [clt : Client, cmd : Commands, name : Name \cup {BadVar}, value : Value]

Trigger(n) == [cmd |-> "TRIGGER", name |-> n]

Message == Reply \cup [cmd : {"TRIGGER"}, name : Name \cup {BadVar}]

\* What msgrcv with DB_TRIGGER and MSG_EXCEPT takes.
IsReply(m) == m.cmd # "TRIGGER"

NoCall == <<>>

\* A client between clt_login and clt_logout that has not crashed.
Up(c) == pc[c] \in {"idle", "send", "wait"}

Exists(q) == q # NoQueue /\ \E c \in Client : key[c] = q

HasRoom(q) == Len(cltq[q]) < CltRoom

PosixTypeOK ==
  /\ TypeOK
  /\ slvq \in Seq(Requests) /\ Len(slvq) <= SlvRoom
  /\ \A q \in QueueId : cltq[q] \in Seq(Message) /\ Len(cltq[q]) <= CltRoom
  /\ key \in [Client -> Queue]
  /\ pc \in [Client -> {"out", "idle", "send", "wait", "dead"}]
  /\ repeat \in [Client -> 0 .. RetryLimit] /\ slvRepeat \in 0 .. RetryLimit
  /\ \A c \in Client : Up(c) => key[c] # NoQueue

Init ==
  /\ DbInit
  /\ slvq = <<>>
  /\ cltq = [q \in QueueId |-> <<>>]
  /\ key = [c \in Client |-> NoQueue]
  /\ made = {}
  /\ pc = [c \in Client |-> "out"]
  /\ call = [c \in Client |-> NoCall]
  /\ repeat = [c \in Client |-> 0]
  /\ slvRepeat = 0
  /\ failed = [c \in Client |-> FALSE]
  /\ backlog = [c \in Client |-> 0]
  /\ faults = 0

-----------------------------------------------------------------------------
\* Mutant: without IPC_CREAT only an existing queue is opened.
OpenExisting(c) == UNCHANGED <<key, made>>

\* comm_init: msgget with IPC_CREAT finds the queue that exists for the key,
\* with what an earlier login left in it, or makes a new one.
comm_init(c) ==
  IF key[c] # NoQueue
  THEN UNCHANGED <<key, made>>
  ELSE \E q \in QueueId \ made :
         /\ \A r \in QueueId : r < q => r \in made
         /\ made' = made \cup {q}
         /\ key' = [key EXCEPT ![c] = q]

BeginSend(c, cmd, n, v) ==
  /\ pc' = [pc EXCEPT ![c] = "send"]
  /\ call' = [call EXCEPT ![c] = [clt |-> c, cmd |-> cmd, name |-> n, value |-> v]]
  /\ repeat' = [repeat EXCEPT ![c] = 0]
  /\ UNCHANGED <<dbVars, slvq, cltq, failed, backlog, slvRepeat, faults>>

\* A login starts by opening the reply queue; every other call needs one.
clt_login(c) ==
  /\ pc[c] = "out"
  /\ comm_init(c)
  /\ BeginSend(c, "LOGIN", BadVar, Zero)

clt_call(c, cmd, n, v) ==
  /\ pc[c] = "idle"
  /\ BeginSend(c, cmd, n, v)
  /\ UNCHANGED <<key, made>>

\* comm_cleanup: IPC_RMID removes the reply queue with all that is in it.
comm_cleanup(c) ==
  /\ key' = [key EXCEPT ![c] = NoQueue]
  /\ cltq' = [cltq EXCEPT ![key[c]] = <<>>]

\* What clt_login makes of the db_bool of its answer, which is any data when
\* the answer is to an earlier read.
Accepts(m) == IF m.value \in BOOLEAN THEN {m.value} ELSE BOOLEAN

\* The call is over: comm_sync_send has returned status and left the client's
\* queue as q; db_bool can be any of oks.
\* clt_logout ignores status; a failed clt_login leaves the queue behind.
Return(c, status, oks, q) ==
  /\ call' = [call EXCEPT ![c] = NoCall]
  /\ failed' = [failed EXCEPT ![c] = @ \/ ~status]
  /\ repeat' = [repeat EXCEPT ![c] = 0]
  /\ CASE call[c].cmd = "LOGOUT" -> pc' = [pc EXCEPT ![c] = "out"] /\ comm_cleanup(c)
       [] call[c].cmd = "LOGIN" ->
            /\ \E ok \in oks :
                 pc' = [pc EXCEPT ![c] = IF status /\ ok THEN "idle" ELSE "out"]
            /\ cltq' = [cltq EXCEPT ![key[c]] = q]
            /\ UNCHANGED key
       [] OTHER -> /\ pc' = [pc EXCEPT ![c] = "idle"]
                   /\ cltq' = [cltq EXCEPT ![key[c]] = q]
                   /\ UNCHANGED key
  /\ UNCHANGED <<dbVars, made, slvRepeat>>

\* The msgsnd of comm_sync_send succeeds.  When all the tries but this one have
\* been used, repeat has reached the limit and the call gives up all the same.
SendRequest(c) ==
  /\ pc[c] = "send"
  /\ Len(slvq) < SlvRoom
  /\ slvq' = Append(slvq, call[c])
  /\ backlog' = [backlog EXCEPT ![c] = Len(cltq[key[c]])]
  /\ IF repeat[c] >= RetryLimit
     THEN Return(c, FALSE, {FALSE}, cltq[key[c]])
     ELSE /\ pc' = [pc EXCEPT ![c] = "wait"]
          /\ repeat' = [repeat EXCEPT ![c] = 0]
          /\ UNCHANGED <<dbVars, cltq, key, made, call, failed, slvRepeat>>
  /\ UNCHANGED faults

\* Mutant: the first message of any kind is taken for the reply.
FirstMessage(q) == IF cltq[q] = <<>> THEN 0 ELSE 1

FirstReply(q) == SelectInSeq(cltq[q], IsReply)

\* The msgrcv of comm_sync_send takes the first message that is no trigger.
\* At the limit it is thrown away.
ReceiveReply(c) ==
  /\ pc[c] = "wait"
  /\ LET k == FirstReply(key[c])
     IN  /\ k # 0
         /\ Return(c, repeat[c] < RetryLimit, Accepts(cltq[key[c]][k]),
                   RemoveAt(cltq[key[c]], k))
  /\ backlog' = [backlog EXCEPT ![c] = 0]
  /\ UNCHANGED <<slvq, faults>>

Blocked(c) == \/ pc[c] = "send" /\ Len(slvq) = SlvRoom
              \/ pc[c] = "wait" /\ FirstReply(key[c]) = 0

\* A signal makes the blocked msgsnd or msgrcv fail: it is tried again until
\* repeat has passed the limit.
Interrupt(c) ==
  /\ Blocked(c)
  /\ faults < MaxFaults
  /\ faults' = faults + 1
  /\ IF repeat[c] < RetryLimit
     THEN /\ repeat' = [repeat EXCEPT ![c] = @ + 1]
          /\ UNCHANGED <<dbVars, cltq, key, made, pc, call, failed, slvRepeat>>
     ELSE Return(c, FALSE, {FALSE}, cltq[key[c]])
  /\ UNCHANGED <<slvq, backlog>>

\* Between calls a client takes whatever message comes first.
clt_ipc_receive(c) ==
  /\ pc[c] = "idle"
  /\ cltq[key[c]] # <<>>
  /\ cltq' = [cltq EXCEPT ![key[c]] = Tail(@)]
  /\ UNCHANGED <<dbVars, slvq, key, made, cltVars, slvRepeat, faults>>

\* The process is gone; its queue, its login and its triggers stay.
Crash(c) ==
  /\ Up(c)
  /\ faults < MaxFaults
  /\ faults' = faults + 1
  /\ pc' = [pc EXCEPT ![c] = "dead"]
  /\ UNCHANGED <<dbVars, queueVars, call, repeat, failed, backlog, slvRepeat>>

-----------------------------------------------------------------------------
\* comm_sync_recv finds the sender's queue from its key, then the request is
\* served up to its reply or to the first trigger.
Serve ==
  /\ slvq # <<>>
  /\ LET r == Head(slvq) IN slv_cmd(key[r.clt], r.cmd, r.name, r.value)
  /\ slvq' = Tail(slvq)
  /\ UNCHANGED <<cltq, key, made, cltVars, slvRepeat, faults>>

\* comm_async_trig does not wait for room.  Sent at the last try, the trigger
\* counts as failed.
TriggerDelivered(q) ==
  /\ Exists(q) /\ HasRoom(q)
  /\ IF slvRepeat >= RetryLimit THEN TrigFailed(q) ELSE TrigSent(q)
  /\ cltq' = [cltq EXCEPT ![q] = Append(@, Trigger(job.name))]
  /\ slvRepeat' = 0
  /\ UNCHANGED <<slvq, key, made, cltVars, faults>>

\* Mutant: without IPC_NOWAIT the trigger waits for room.
TriggerBlocks(q) == FALSE /\ UNCHANGED vars

TriggerRefused(q) ==
  /\ Exists(q) /\ ~HasRoom(q)
  /\ IF slvRepeat < RetryLimit
     THEN /\ job.at = "trig" /\ \E i \in DOMAIN pdb : AtTrigger(i, q)
          /\ slvRepeat' = slvRepeat + 1
          /\ UNCHANGED dbVars
     ELSE TrigFailed(q) /\ slvRepeat' = 0
  /\ UNCHANGED <<queueVars, cltVars, faults>>

\* The queue was removed: every try fails.
TriggerStale(q) ==
  /\ ~Exists(q)
  /\ TrigFailed(q)
  /\ slvRepeat' = 0
  /\ UNCHANGED <<queueVars, cltVars, faults>>

EndUpdate ==
  /\ UpdateDone
  /\ UNCHANGED <<queueVars, cltVars, slvRepeat, faults>>

\* comm_sync_reply blocks while the client's queue is full; to a queue that is
\* gone nothing is sent.
SendReply ==
  /\ job.at = "reply"
  /\ IF Exists(job.clt)
     THEN HasRoom(job.clt) /\ cltq' = [cltq EXCEPT ![job.clt] = Append(@, job.msg)]
     ELSE UNCHANGED cltq
  /\ ReplyDone
  /\ UNCHANGED <<slvq, key, made, cltVars, slvRepeat, faults>>

ServerStep ==
  \/ Serve
  \/ \E q \in Queue : TriggerDelivered(q) \/ TriggerRefused(q) \/ TriggerStale(q)
  \/ EndUpdate
  \/ SendReply

ClientCall(c) ==
  \/ clt_login(c)
  \/ \E cmd \in Call[c] : \E n \in Name \cap Asked(cmd), v \in IF cmd = "UPDATE" THEN Value ELSE {Zero} :
       clt_call(c, cmd, n, v)

Next ==
  \/ ServerStep
  \/ \E c \in Client :
       \/ ClientCall(c) \/ SendRequest(c) \/ ReceiveReply(c)
       \/ Interrupt(c) \/ clt_ipc_receive(c) \/ Crash(c)

\* The server and the kernel always go on; a client that is not calling waits
\* for triggers.  Nothing makes a client call, be interrupted or crash.
Spec == /\ Init /\ [][Next]_vars
        /\ WF_vars(ServerStep)
        /\ \A c \in Client : /\ WF_vars(ReceiveReply(c))
                             /\ WF_vars(clt_ipc_receive(c))
-----------------------------------------------------------------------------
\* The requests, answers under way and replies not yet read of client c.
Outstanding(c) ==
  Cardinality({k \in DOMAIN slvq : slvq[k].clt = c})
    + (IF job.at \in {"trig", "reply"} /\ job.clt = key[c] THEN 1 ELSE 0)
    + Cardinality({k \in DOMAIN cltq[key[c]] : IsReply(cltq[key[c]][k])})

\* Until comm_sync_send first fails it, a client has exactly one request or
\* reply in the system while it waits, and none otherwise: no answer is lost,
\* duplicated or left for a later call, whatever the other clients do.
OneAnswerPerCall ==
  \A c \in Client :
    Up(c) /\ ~failed[c] => Outstanding(c) = IF pc[c] = "wait" THEN 1 ELSE 0

\* Until then the reply that a waiting client's msgrcv finds is the reply to its
\* call and, for a read, is about the variable asked for or the bad one.
AnswersFitCalls ==
  \A c \in Client :
    pc[c] = "wait" /\ ~failed[c] /\ FirstReply(key[c]) # 0 =>
      LET m == cltq[key[c]][FirstReply(key[c])]
      IN  /\ m.cmd = call[c].cmd
          /\ m.cmd = "READ" => m.name \in {call[c].name, BadVar}

\* The server waits in comm_sync_reply for room in a client's queue.
ServerWaits == job.at = "reply" /\ Exists(job.clt) /\ ~HasRoom(job.clt)

\* As long as no call has failed, one client's full queue stops the server for
\* everybody only if the client made its call with triggers unread: those that
\* arrive during the call are at most one for every client.
WaitsOnlyForBacklog ==
  ServerWaits /\ (\A c \in Client : ~failed[c]) =>
    \E c \in Client : key[c] = job.clt /\ backlog[c] + Cardinality(Client) >= CltRoom

\* The server's list of logins and the sessions agree: a client between calls
\* is in it once, and no entry is for a queue that has been removed.
LoginsAgree ==
  (\A c \in Client : ~failed[c]) =>
    /\ \A c \in Client : pc[c] = "idle" =>
         Cardinality({i \in DOMAIN pusr : pusr[i] = key[c]}) = 1
    /\ \A i \in DOMAIN pusr : Exists(pusr[i])

\* Nobody can empty the queue that the server waits for.
ServerStuck ==
  ServerWaits /\ \E c \in Client : key[c] = job.clt /\ pc[c] \in {"send", "wait", "dead"}

\* Every call returns, unless the server is stuck on a queue full of triggers
\* whose client is itself in a call or gone.
CallsReturn ==
  \A c \in Client : pc[c] = "wait" ~> pc[c] # "wait" \/ ServerStuck
=============================================================================
