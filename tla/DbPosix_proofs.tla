--------------------------- MODULE DbPosix_proofs ---------------------------
(***************************************************************************)
(* Theorems about DbPosix, for any clients, calls, queue ids, retry limit, *)
(* sizes of the queues and numbers of interrupts and crashes.              *)
(*                                                                         *)
(* Until comm_sync_send first fails a client, Calls says where its request *)
(* or its reply is: with the client's place in the call, there is one of   *)
(* them or none.  Keys says that no queue ever serves two clients, without *)
(* which an answer could reach the next owner of a queue.  Logins and      *)
(* Backlogs add what the server's list of logins and the lengths of the    *)
(* queues have to do with the calls.                                       *)
(***************************************************************************)
EXTENDS DbPosix, DbServer_proofs, FiniteSetTheorems, WellFoundedInduction

\* No element of s is in S; one is, and it is in G.
NoneIn(s, S) == \A k \in DOMAIN s : s[k] \notin S

OneIn(s, S, G) ==
  \E k \in DOMAIN s : /\ s[k] \in S \cap G
                      /\ \A l \in DOMAIN s : s[l] \in S => l = k

\* A client's requests, the replies among the messages, and those that fit its call.
From(c) == {r \in Requests : r.clt = c}

Replies == {m \in Message : IsReply(m)}

Fits(m, c) ==
  /\ m.cmd = call[c].cmd
  /\ m.cmd = "READ" => m.name \in {call[c].name, BadVar}
  /\ m.cmd = "LOGIN" => m.value = TRUE

Fitting(c) == {m \in Message : Fits(m, c)}

\* The server is at work on the request of the client whose queue is q.
Serving(q) == job.at \in {"trig", "reply"} /\ job.clt = q

\* Where the request of a client or its reply is, if there is one.
NoRequest(c) == NoneIn(slvq, From(c))
Requested(c) == OneIn(slvq, From(c), {call[c]})
NotServed(c) == key[c] # NoQueue => ~Serving(key[c])
NoReply(c) == key[c] # NoQueue => NoneIn(cltq[key[c]], Replies)
Replied(c) == OneIn(cltq[key[c]], Replies, Fitting(c))

Quiet(c) == NoRequest(c) /\ NotServed(c) /\ NoReply(c)

Queued(c) == key[c] # NoQueue /\ Requested(c) /\ NotServed(c) /\ NoReply(c)

Served(c) ==
  /\ key[c] # NoQueue /\ NoRequest(c) /\ Serving(key[c]) /\ NoReply(c)
  /\ job.at = "trig" => call[c].cmd = "UPDATE"
  /\ job.at = "reply" => Fits(job.msg, c)

Answered(c) == key[c] # NoQueue /\ NoRequest(c) /\ NotServed(c) /\ Replied(c)

InCall(c) == Queued(c) \/ Served(c) \/ Answered(c)

\* Until comm_sync_send first fails a client, its request and reply are where
\* its place in a call says.
CallOf(c) ==
  ~failed[c] =>
    /\ pc[c] = "out" => key[c] = NoQueue
    /\ pc[c] \in {"out", "idle", "send"} => Quiet(c)
    /\ pc[c] = "wait" => InCall(c)
    /\ pc[c] = "dead" => Quiet(c) \/ InCall(c)

Calls == \A c \in Client : CallOf(c)

\* Queues belong to one client and are never given out again.
Keys ==
  /\ \A c, d \in Client : key[c] = key[d] /\ key[c] # NoQueue => c = d
  /\ \A c \in Client : key[c] # NoQueue => key[c] \in made
  /\ \A q \in QueueId \ made : cltq[q] = <<>>
  /\ job.at \in {"trig", "reply"} => job.clt \in made \cup {NoQueue}
  /\ \A i \in DOMAIN pusr : pusr[i] \in made \cup {NoQueue}

\* A client's call and requests are ones that the client library makes.
Sound(r) == r.name \in Asked(r.cmd) /\ (r.cmd = "DESTROY" => r.name # BadVar)

RequestsType ==
  /\ slvq \in Seq(Requests) /\ Len(slvq) <= SlvRoom
  /\ \A k \in DOMAIN slvq : Sound(slvq[k])

AnswersType ==
  /\ cltq \in [QueueId -> Seq(Message)]
  /\ \A q \in QueueId : Len(cltq[q]) <= CltRoom

KeysType == key \in [Client -> Queue] /\ made \subseteq QueueId

ClientsType ==
  /\ pc \in [Client -> {"out", "idle", "send", "wait", "dead"}]
  /\ call \in [Client -> Requests \cup {NoCall}]
  /\ repeat \in [Client -> 0 .. RetryLimit]
  /\ failed \in [Client -> BOOLEAN]
  /\ \A c \in Client : pc[c] # "out" => key[c] # NoQueue
  /\ \A c \in Client : pc[c] \in {"send", "wait"} =>
       call[c] \in Requests /\ call[c].clt = c /\ Sound(call[c])

CountersType ==
  /\ backlog \in [Client -> Nat]
  /\ slvRepeat \in 0 .. RetryLimit
  /\ faults \in 0 .. MaxFaults

PosixType == RequestsType /\ AnswersType /\ KeysType /\ ClientsType /\ CountersType

\* A client's login is in the server's list from the time its login is served
\* to the time its logout is.
Enrolled(c) ==
  \/ pc[c] = "idle"
  \/ /\ pc[c] \in {"send", "wait"}
     /\ IF pc[c] = "wait" /\ NoRequest(c)
        THEN call[c].cmd # "LOGOUT" ELSE call[c].cmd # "LOGIN"

NoneFailed == \A c \in Client : ~failed[c]

LoginOf(c) ==
  ~failed[c] /\ Up(c) =>
    IF Enrolled(c) THEN OneIn(pusr, {key[c]}, {key[c]}) ELSE NoneIn(pusr, {key[c]})

Logins ==
  /\ \A c \in Client : LoginOf(c)
  /\ NoneFailed => \A i \in DOMAIN pusr : Exists(pusr[i])

\* The clients whose requests are ahead of c's, and the one that the server is
\* triggering c for: those who may still trigger c before its call is answered.
Ahead(c) ==
  {d \in Client : \E k \in DOMAIN slvq : slvq[k].clt = c /\ \E l \in 1 .. k : slvq[l].clt = d}

Waking(c) == {d \in Client : job.at = "trig" /\ job.clt = key[d] /\ key[c] \in Untold}

Before(c) == Ahead(c) \cup Waking(c)

\* The server has still to answer c.
Pending(c) == ~NoRequest(c) \/ ~NotServed(c)

BacklogOf(c) ==
  Len(cltq[key[c]]) + Cardinality(Before(c)) <= backlog[c] + Cardinality(Client)

Backlogs ==
  NoneFailed =>
    /\ job.at \in {"trig", "reply"} => \E d \in Client : Served(d)
    /\ \A c \in Client : Pending(c) => BacklogOf(c)

-----------------------------------------------------------------------------
(***************************************************************************)
(* Sequences with none or one element in a set.                            *)
(***************************************************************************)
LEMMA AppendOther ==
  ASSUME NEW T, NEW s \in Seq(T), NEW x \in T, NEW S, NEW G, x \notin S
  PROVE  /\ NoneIn(s, S) <=> NoneIn(Append(s, x), S)
         /\ OneIn(s, S, G) => OneIn(Append(s, x), S, G)
<1>1. /\ Len(Append(s, x)) = Len(s) + 1 /\ Append(s, x) \in Seq(T)
      /\ \A k \in 1 .. Len(s) : Append(s, x)[k] = s[k]
      /\ Append(s, x)[Len(s) + 1] = x
  OBVIOUS
<1> QED
  BY <1>1 DEF NoneIn, OneIn

LEMMA AppendFirst ==
  ASSUME NEW T, NEW s \in Seq(T), NEW x \in T, NEW S, NEW G, x \in S \cap G, NoneIn(s, S)
  PROVE  OneIn(Append(s, x), S, G)
<1>1. /\ Len(Append(s, x)) = Len(s) + 1 /\ Append(s, x) \in Seq(T)
      /\ \A k \in 1 .. Len(s) : Append(s, x)[k] = s[k]
      /\ Append(s, x)[Len(s) + 1] = x
  OBVIOUS
<1> QED
  BY <1>1 DEF NoneIn, OneIn

LEMMA TailOther ==
  ASSUME NEW T, NEW s \in Seq(T), NEW S, NEW G, s # <<>>
  PROVE  /\ NoneIn(s, S) => NoneIn(Tail(s), S) /\ Head(s) \notin S
         /\ Head(s) \notin S /\ OneIn(s, S, G) => OneIn(Tail(s), S, G)
         /\ Head(s) \in S /\ OneIn(s, S, G) => Head(s) \in G /\ NoneIn(Tail(s), S)
<1>1. /\ Len(Tail(s)) = Len(s) - 1 /\ Tail(s) \in Seq(T) /\ Len(s) \in Nat /\ Len(s) > 0
      /\ \A k \in 1 .. Len(s) - 1 : Tail(s)[k] = s[k + 1]
      /\ Head(s) = s[1]
  BY HeadTailProperties
<1>2. \A l \in DOMAIN s : l # 1 => l - 1 \in DOMAIN Tail(s) /\ Tail(s)[l - 1] = s[l]
  BY <1>1
<1>3. ASSUME Head(s) \notin S, OneIn(s, S, G)
      PROVE  OneIn(Tail(s), S, G)
  <2>1. PICK k \in DOMAIN s : /\ s[k] \in S \cap G
                              /\ \A l \in DOMAIN s : s[l] \in S => l = k
    BY <1>3 DEF OneIn
  <2>2. k # 1 /\ k - 1 \in DOMAIN Tail(s) /\ Tail(s)[k - 1] \in S \cap G
    BY <1>1, <1>2, <1>3, <2>1
  <2>3. \A l \in DOMAIN Tail(s) : Tail(s)[l] \in S => l = k - 1
    BY <1>1, <2>1
  <2> QED
    BY <2>2, <2>3 DEF OneIn
<1>4. ASSUME Head(s) \in S, OneIn(s, S, G)
      PROVE  Head(s) \in G /\ NoneIn(Tail(s), S)
  <2>1. PICK k \in DOMAIN s : /\ s[k] \in S \cap G
                              /\ \A l \in DOMAIN s : s[l] \in S => l = k
    BY <1>4 DEF OneIn
  <2>2. 1 \in DOMAIN s /\ k = 1
    BY <1>1, <1>4, <2>1
  <2>3. \A l \in DOMAIN Tail(s) : l + 1 \in DOMAIN s /\ l + 1 # 1 /\ Tail(s)[l] = s[l + 1]
    BY <1>1
  <2> QED
    BY <1>1, <2>1, <2>2, <2>3 DEF NoneIn
<1>5. NoneIn(s, S) => NoneIn(Tail(s), S) /\ Head(s) \notin S
  BY <1>1 DEF NoneIn
<1> QED
  BY <1>3, <1>4, <1>5

LEMMA RemoveOther ==
  ASSUME NEW T, NEW s \in Seq(T), NEW k \in DOMAIN s, NEW S, NEW G
  PROVE  /\ NoneIn(s, S) => NoneIn(RemoveAt(s, k), S)
         /\ s[k] \notin S /\ OneIn(s, S, G) => OneIn(RemoveAt(s, k), S, G)
         /\ s[k] \in S /\ OneIn(s, S, G) => s[k] \in G /\ NoneIn(RemoveAt(s, k), S)
<1>0. /\ RemoveAt(s, k) \in Seq(T) /\ Len(RemoveAt(s, k)) = Len(s) - 1
      /\ \A i \in 1 .. Len(s) - 1 :
           RemoveAt(s, k)[i] = IF i < k THEN s[i] ELSE s[i + 1]
  BY RemoveAtFacts
<1> DEFINE t == RemoveAt(s, k)
<1> HIDE DEF t
<1>1. /\ t \in Seq(T) /\ Len(t) = Len(s) - 1 /\ k \in 1 .. Len(s)
      /\ \A i \in 1 .. Len(s) - 1 : t[i] = IF i < k THEN s[i] ELSE s[i + 1]
  BY <1>0 DEF t
<1>2. \A l \in DOMAIN t : \E m \in DOMAIN s : m # k /\ t[l] = s[m]
  BY <1>1
<1>3. NoneIn(s, S) => NoneIn(t, S)
  BY <1>2 DEF NoneIn
<1>4. ASSUME s[k] \notin S, OneIn(s, S, G)
      PROVE  OneIn(t, S, G)
  <2>1. PICK j \in DOMAIN s : /\ s[j] \in S \cap G
                              /\ \A l \in DOMAIN s : s[l] \in S => l = j
    BY <1>4 DEF OneIn
  <2> DEFINE i == IF j < k THEN j ELSE j - 1
  <2>2. j # k /\ i \in DOMAIN t /\ t[i] = s[j]
    BY <1>1, <1>4, <2>1
  <2>3. \A l \in DOMAIN t : t[l] \in S => l = i
    BY <1>1, <2>1, <2>2, SMTT(20)
  <2> QED
    BY <2>1, <2>2, <2>3 DEF OneIn
<1>5. ASSUME s[k] \in S, OneIn(s, S, G)
      PROVE  s[k] \in G /\ NoneIn(t, S)
  BY <1>2, <1>5 DEF OneIn, NoneIn
<1> QED
  BY <1>3, <1>4, <1>5 DEF t

\* None and one, counted.
LEMMA Counted ==
  ASSUME NEW T, NEW s \in Seq(T), NEW S, NEW G
  PROVE  /\ NoneIn(s, S) => Cardinality({k \in DOMAIN s : s[k] \in S}) = 0
         /\ OneIn(s, S, G) => Cardinality({k \in DOMAIN s : s[k] \in S}) = 1
<1>1. ASSUME NoneIn(s, S)
      PROVE  Cardinality({k \in DOMAIN s : s[k] \in S}) = 0
  <2>1. {k \in DOMAIN s : s[k] \in S} = {}
    BY <1>1 DEF NoneIn
  <2> QED
    BY <2>1, FS_EmptySet
<1>2. ASSUME OneIn(s, S, G)
      PROVE  Cardinality({k \in DOMAIN s : s[k] \in S}) = 1
  <2>1. PICK k \in DOMAIN s : s[k] \in S /\ \A l \in DOMAIN s : s[l] \in S => l = k
    BY <1>2 DEF OneIn
  <2>2. {l \in DOMAIN s : s[l] \in S} = {k}
    BY <2>1
  <2> QED
    BY <2>2, FS_Singleton
<1> QED
  BY <1>1, <1>2

\* What SelectInSeq finds.
LEMMA FirstReplyFound ==
  ASSUME NEW q, cltq[q] \in Seq(Message)
  PROVE  /\ FirstReply(q) # 0 => /\ FirstReply(q) \in DOMAIN cltq[q]
                                 /\ cltq[q][FirstReply(q)] \in Replies
         /\ FirstReply(q) = 0 => NoneIn(cltq[q], Replies)
<1> DEFINE I == {i \in 1 .. Len(cltq[q]) : IsReply(cltq[q][i])}
<1>1. I \subseteq Nat /\ DOMAIN cltq[q] = 1 .. Len(cltq[q])
  OBVIOUS
<1>2. \A i \in DOMAIN cltq[q] : i \in I <=> cltq[q][i] \in Replies
  BY <1>1, ElementOfSeq DEF Replies
<1>3. FirstReply(q) = IF I # {} THEN Min(I) ELSE 0
  BY DEF FirstReply, SelectInSeq
<1>6. \A i \in I : i \in DOMAIN cltq[q] /\ i # 0
  OBVIOUS
<1>4. CASE I # {}
  <2>1. PICK m \in I : \A y \in I : ~(<<y, m>> \in OpToRel(<, Nat))
    BY <1>1, <1>4, WFMin, NatLessThanWellFounded
  <2>2. ASSUME NEW y \in I, y < m
        PROVE  FALSE
    <3>1. <<y, m>> \in Nat \X Nat /\ <<y, m>>[1] < <<y, m>>[2]
      BY <1>1, <2>2
    <3>2. <<y, m>> \in OpToRel(<, Nat)
      BY <3>1 DEF OpToRel
    <3> QED
      BY <2>1, <3>2
  <2>3. \A y \in I : m <= y
    BY <1>1, <2>2
  <2>4. Min(I) \in I
    BY <1>1, <2>3 DEF Min
  <2> HIDE DEF I
  <2>5. FirstReply(q) \in I /\ FirstReply(q) # 0
    BY <1>1, <1>3, <1>4, <1>6, <2>4
  <2> QED
    BY <1>1, <1>2, <1>6, <2>5
<1>5. CASE I = {}
  BY <1>1, <1>2, <1>3, <1>5 DEF NoneIn
<1> QED
  BY <1>4, <1>5

-----------------------------------------------------------------------------
(***************************************************************************)
(* Types, and what the clients ask of the server.                          *)
(***************************************************************************)
LEMMA Typing ==
  ASSUME PosixType
  PROVE  /\ slvq \in Seq(Requests)
         /\ \A q \in QueueId : cltq[q] \in Seq(Message)
         /\ \A c \in Client : /\ key[c] \in Queue
                              /\ key[c] # NoQueue => key[c] \in QueueId
         /\ \A c \in Client : pc[c] \in {"send", "wait"} =>
              call[c] \in Requests /\ call[c].clt = c /\ Sound(call[c])
BY DEF PosixType, RequestsType, AnswersType, KeysType, ClientsType, QueueId

\* The request that the server takes next.
LEMMA HeadSound ==
  ASSUME PosixType, slvq # <<>>
  PROVE  /\ Head(slvq) \in Requests /\ Sound(Head(slvq))
         /\ Tail(slvq) \in Seq(Requests)
         /\ \A k \in DOMAIN Tail(slvq) : Sound(Tail(slvq)[k])
         /\ Len(Tail(slvq)) <= Len(slvq)
<1>1. slvq \in Seq(Requests) /\ \A k \in DOMAIN slvq : Sound(slvq[k])
  BY DEF PosixType, RequestsType
<1>2. /\ Head(slvq) = slvq[1] /\ Tail(slvq) \in Seq(Requests) /\ 1 \in DOMAIN slvq
      /\ Len(Tail(slvq)) = Len(slvq) - 1
      /\ \A k \in DOMAIN Tail(slvq) : k + 1 \in DOMAIN slvq /\ Tail(slvq)[k] = slvq[k + 1]
  BY <1>1
<1> QED
  BY <1>1, <1>2

\* What the server does is a step of DbServer, and nobody destroys the bad variable.
LEMMA NextIsServerStep ==
  ASSUME PosixType, [Next]_vars
  PROVE  [Steps(Destroyable \ {BadVar})]_dbVars
<1>1. ASSUME Serve
      PROVE  Steps(Destroyable \ {BadVar})
  <2> DEFINE r == Head(slvq)
  <2>1. r \in Requests /\ Sound(r) /\ slv_cmd(key[r.clt], r.cmd, r.name, r.value)
    BY <1>1, HeadSound DEF Serve
  <2>2. /\ key[r.clt] \in Queue /\ r.cmd \in Commands /\ r.value \in Value
        /\ r.name \in Asked(r.cmd)
        /\ r.cmd = "DESTROY" => r.name \in Destroyable \ {BadVar}
    BY <2>1, Typing DEF Requests, Sound, Asked
  <2> QED
    BY <2>1, <2>2 DEF Steps
<1>2. ASSUME NEW q \in Queue, TriggerDelivered(q) \/ TriggerRefused(q) \/ TriggerStale(q)
      PROVE  [Steps(Destroyable \ {BadVar})]_dbVars
  BY <1>2 DEF TriggerDelivered, TriggerRefused, TriggerStale, Steps
<1>3. CASE EndUpdate \/ SendReply
  BY <1>3 DEF EndUpdate, SendReply, Steps
<1>4. ASSUME NEW c \in Client,
             \/ ClientCall(c) \/ SendRequest(c) \/ ReceiveReply(c)
             \/ Interrupt(c) \/ clt_ipc_receive(c) \/ Crash(c)
      PROVE  UNCHANGED dbVars
  BY <1>4 DEF ClientCall, clt_login, clt_call, BeginSend, SendRequest, ReceiveReply, Return,
              Interrupt, clt_ipc_receive, Crash
<1>5. CASE UNCHANGED vars
  BY <1>5 DEF vars
<1> QED
  BY <1>1, <1>2, <1>3, <1>4, <1>5 DEF Next, ServerStep

\* What the end of a call does to its client, and that it does nothing to the others.
LEMMA ReturnFacts ==
  ASSUME PosixType, NEW c \in Client, pc[c] \in {"send", "wait"},
         NEW status \in BOOLEAN, NEW oks \in SUBSET BOOLEAN, NEW q, Return(c, status, oks, q)
  PROVE  /\ \A d \in Client \ {c} : /\ pc'[d] = pc[d] /\ call'[d] = call[d]
                                    /\ key'[d] = key[d] /\ failed'[d] = failed[d]
         /\ pc'[c] \in {"out", "idle"}
         /\ failed'[c] = (failed[c] \/ ~status)
         /\ made' = made
         /\ \/ /\ call[c].cmd = "LOGOUT" /\ pc'[c] = "out"
               /\ key' = [key EXCEPT ![c] = NoQueue]
               /\ cltq' = [cltq EXCEPT ![key[c]] = <<>>]
            \/ /\ call[c].cmd # "LOGOUT" /\ key' = key
               /\ cltq' = [cltq EXCEPT ![key[c]] = q]
               /\ status /\ (call[c].cmd = "LOGIN" => oks \subseteq {TRUE}) => pc'[c] = "idle"
         /\ ClientsType' /\ KeysType'
<1>1. /\ pc \in [Client -> {"out", "idle", "send", "wait", "dead"}]
      /\ call \in [Client -> Requests \cup {NoCall}]
      /\ repeat \in [Client -> 0 .. RetryLimit]
      /\ failed \in [Client -> BOOLEAN]
      /\ key \in [Client -> Queue] /\ made \subseteq QueueId
      /\ \A d \in Client : pc[d] # "out" => key[d] # NoQueue
      /\ \A d \in Client : pc[d] \in {"send", "wait"} =>
           call[d] \in Requests /\ call[d].clt = d /\ Sound(call[d])
  BY DEF PosixType, ClientsType, KeysType
<1>2. /\ call' = [call EXCEPT ![c] = NoCall]
      /\ failed' = [failed EXCEPT ![c] = @ \/ ~status]
      /\ repeat' = [repeat EXCEPT ![c] = 0]
      /\ made' = made
  BY DEF Return
<1> DEFINE Logout == /\ call[c].cmd = "LOGOUT" /\ pc' = [pc EXCEPT ![c] = "out"]
                     /\ key' = [key EXCEPT ![c] = NoQueue]
                     /\ cltq' = [cltq EXCEPT ![key[c]] = <<>>]
           Back(p) == /\ call[c].cmd # "LOGOUT" /\ pc' = [pc EXCEPT ![c] = p]
                      /\ key' = key
                      /\ cltq' = [cltq EXCEPT ![key[c]] = q]
                      /\ status /\ (call[c].cmd = "LOGIN" => oks \subseteq {TRUE}) => p = "idle"
<1>3. Logout \/ \E p \in {"out", "idle"} : Back(p)
  <2>1. CASE call[c].cmd = "LOGOUT"
    BY <2>1 DEF Return, comm_cleanup
  <2>2. CASE call[c].cmd = "LOGIN"
    <3>1. PICK ok \in oks : pc' = [pc EXCEPT ![c] = IF status /\ ok THEN "idle" ELSE "out"]
      BY <2>2 DEF Return
    <3>2. key' = key /\ cltq' = [cltq EXCEPT ![key[c]] = q]
      BY <2>2 DEF Return
    <3>3. Back(IF status /\ ok THEN "idle" ELSE "out")
      BY <2>2, <3>1, <3>2
    <3> HIDE DEF Back
    <3> QED
      BY <3>3
  <2>3. CASE call[c].cmd \notin {"LOGIN", "LOGOUT"}
    <3>1. Back("idle")
      BY <2>3 DEF Return
    <3> HIDE DEF Back
    <3> QED
      BY <3>1
  <2> QED
    BY <2>1, <2>2, <2>3
<1>4. NoQueue \in Queue
  BY QueueAssumption
<1>5. 0 \in 0 .. RetryLimit
  BY RetryAssumption
<1>6. failed'[c] = (failed[c] \/ ~status) /\ failed' \in [Client -> BOOLEAN]
  BY <1>1, <1>2, Zenon
<1>7. \A d \in Client \ {c} : call'[d] = call[d] /\ failed'[d] = failed[d]
  BY <1>1, <1>2
<1>8. call' \in [Client -> Requests \cup {NoCall}] /\ repeat' \in [Client -> 0 .. RetryLimit]
  BY <1>1, <1>2, <1>5
<1>9. CASE Logout
  <2>1. pc'[c] = "out" /\ \A d \in Client \ {c} : pc'[d] = pc[d] /\ key'[d] = key[d]
    BY <1>1, <1>9
  <2>2. ClientsType' /\ KeysType'
    BY <1>1, <1>2, <1>4, <1>6, <1>7, <1>8, <1>9, <2>1 DEF ClientsType, KeysType, Sound
  <2> QED
    BY <1>2, <1>6, <1>7, <1>9, <2>1, <2>2
<1>10. ASSUME NEW p \in {"out", "idle"}, Back(p)
       PROVE  /\ pc'[c] = p /\ \A d \in Client \ {c} : pc'[d] = pc[d] /\ key'[d] = key[d]
              /\ ClientsType' /\ KeysType'
  <2>1. pc'[c] = p /\ \A d \in Client \ {c} : pc'[d] = pc[d] /\ key'[d] = key[d]
    BY <1>1, <1>10
  <2>2. ClientsType' /\ KeysType'
    BY <1>1, <1>2, <1>6, <1>7, <1>8, <1>10, <2>1 DEF ClientsType, KeysType, Sound
  <2> QED
    BY <2>1, <2>2
<1> QED
  BY <1>2, <1>3, <1>6, <1>7, <1>9, <1>10

\* A client that begins a call.
LEMMA CallFacts ==
  ASSUME PosixType, Keys, NEW c \in Client, ClientCall(c)
  PROVE  /\ slvq' = slvq /\ cltq' = cltq /\ job' = job /\ pusr' = pusr /\ failed' = failed
         /\ backlog' = backlog
         /\ \A d \in Client \ {c} : pc'[d] = pc[d] /\ call'[d] = call[d] /\ key'[d] = key[d]
         /\ pc[c] \in {"out", "idle"} /\ pc'[c] = "send" /\ key'[c] # NoQueue
         /\ pc[c] = "out" <=> call'[c].cmd = "LOGIN"
         /\ \/ key' = key /\ made' = made
            \/ /\ pc[c] = "out" /\ key[c] = NoQueue
               /\ key'[c] \in QueueId \ made /\ made' = made \cup {key'[c]}
         /\ ClientsType' /\ KeysType'
<1>1. /\ pc \in [Client -> {"out", "idle", "send", "wait", "dead"}]
      /\ call \in [Client -> Requests \cup {NoCall}]
      /\ repeat \in [Client -> 0 .. RetryLimit]
      /\ failed \in [Client -> BOOLEAN]
      /\ key \in [Client -> Queue] /\ made \subseteq QueueId
      /\ \A d \in Client : pc[d] # "out" => key[d] # NoQueue
      /\ \A d \in Client : pc[d] \in {"send", "wait"} =>
           call[d] \in Requests /\ call[d].clt = d /\ Sound(call[d])
  BY DEF PosixType, ClientsType, KeysType
<1>2. 0 \in 0 .. RetryLimit /\ Zero \in Value
  BY RetryAssumption, ValueAssumption
<1>3. ASSUME NEW cmd \in Commands, NEW n \in Name \cup {BadVar}, NEW v \in Value,
             n \in Asked(cmd), cmd = "DESTROY" => n # BadVar, BeginSend(c, cmd, n, v),
             key'[c] # NoQueue, \A d \in Client \ {c} : key'[d] = key[d]
      PROVE  /\ \A d \in Client \ {c} : pc'[d] = pc[d] /\ call'[d] = call[d]
             /\ pc'[c] = "send" /\ call'[c].cmd = cmd /\ ClientsType'
  <2> DEFINE r == [clt |-> c, cmd |-> cmd, name |-> n, value |-> v]
  <2>1. r \in Requests /\ r.clt = c /\ Sound(r) /\ r.cmd = cmd
    BY <1>3 DEF Requests, Sound
  <2> HIDE DEF r
  <2>2. /\ pc' = [pc EXCEPT ![c] = "send"] /\ call' = [call EXCEPT ![c] = r]
        /\ repeat' = [repeat EXCEPT ![c] = 0] /\ failed' = failed
    BY <1>3 DEF BeginSend, r
  <2>3. /\ pc' \in [Client -> {"out", "idle", "send", "wait", "dead"}]
        /\ call' \in [Client -> Requests \cup {NoCall}]
        /\ repeat' \in [Client -> 0 .. RetryLimit]
        /\ pc'[c] = "send" /\ call'[c] = r
        /\ \A d \in Client \ {c} : pc'[d] = pc[d] /\ call'[d] = call[d]
    BY <1>1, <1>2, <2>1, <2>2
  <2>4. ClientsType'
    BY <1>1, <1>3, <2>1, <2>2, <2>3 DEF ClientsType, Sound
  <2> QED
    BY <2>1, <2>3, <2>4
<1>4. ASSUME NEW cmd, NEW n, NEW v, BeginSend(c, cmd, n, v)
      PROVE  /\ slvq' = slvq /\ cltq' = cltq /\ job' = job /\ pusr' = pusr
             /\ failed' = failed /\ backlog' = backlog
  BY <1>4 DEF BeginSend, dbVars
<1>5. CASE clt_login(c)
  <2>1. pc[c] = "out" /\ comm_init(c) /\ BeginSend(c, "LOGIN", BadVar, Zero)
    BY <1>5 DEF clt_login
  <2>2. /\ \/ key' = key /\ made' = made /\ key[c] # NoQueue
           \/ /\ key[c] = NoQueue
              /\ key'[c] \in QueueId \ made /\ made' = made \cup {key'[c]}
        /\ key' \in [Client -> Queue]
        /\ \A d \in Client \ {c} : key'[d] = key[d]
    BY <1>1, <2>1 DEF comm_init, QueueId
  <2>3. key'[c] # NoQueue /\ KeysType'
    BY <1>1, <2>2 DEF QueueId, KeysType
  <2>4. "LOGIN" \in Commands /\ BadVar \in Asked("LOGIN")
    BY DEF Commands, Asked
  <2>5. /\ \A d \in Client \ {c} : pc'[d] = pc[d] /\ call'[d] = call[d]
        /\ pc'[c] = "send" /\ call'[c].cmd = "LOGIN" /\ ClientsType'
    BY <1>2, <1>3, <2>1, <2>2, <2>3, <2>4
  <2> QED
    BY <1>4, <2>1, <2>2, <2>3, <2>5
<1>6. ASSUME NEW cmd \in Call[c], NEW n \in Name \cap Asked(cmd), NEW v \in Value,
             clt_call(c, cmd, n, v)
      PROVE  /\ pc[c] = "idle" /\ call'[c].cmd # "LOGIN" /\ key' = key /\ made' = made
             /\ \A d \in Client \ {c} : pc'[d] = pc[d] /\ call'[d] = call[d]
             /\ pc'[c] = "send" /\ key'[c] # NoQueue
             /\ slvq' = slvq /\ cltq' = cltq /\ job' = job /\ pusr' = pusr
             /\ failed' = failed /\ backlog' = backlog
             /\ ClientsType' /\ KeysType'
  <2>1. /\ pc[c] = "idle" /\ BeginSend(c, cmd, n, v) /\ key' = key /\ made' = made
    BY <1>6 DEF clt_call
  <2>2. cmd \in Commands /\ cmd # "LOGIN" /\ n # BadVar /\ n \in Name
    BY CallAssumption, NameAssumption
  <2>3. key'[c] # NoQueue /\ KeysType'
    BY <1>1, <2>1 DEF KeysType
  <2>4. /\ \A d \in Client \ {c} : pc'[d] = pc[d] /\ call'[d] = call[d]
        /\ pc'[c] = "send" /\ call'[c].cmd = cmd /\ ClientsType'
    BY <1>3, <2>1, <2>2, <2>3
  <2> QED
    BY <1>4, <2>1, <2>2, <2>3, <2>4
<1>7. \A cmd : IF cmd = "UPDATE" THEN Value \subseteq Value ELSE {Zero} \subseteq Value
  BY <1>2
<1> QED
  BY <1>5, <1>6, <1>7 DEF ClientCall

\* A request that msgsnd has put into the server's queue.
LEMMA SendFacts ==
  ASSUME PosixType, NEW c \in Client, SendRequest(c)
  PROVE  /\ pc[c] = "send" /\ key[c] \in QueueId /\ UNCHANGED dbVars
         /\ slvq' = Append(slvq, call[c]) /\ call[c] \in Requests /\ call[c].clt = c
         /\ \A d \in Client \ {c} : /\ pc'[d] = pc[d] /\ call'[d] = call[d]
                                    /\ key'[d] = key[d] /\ failed'[d] = failed[d]
                                    /\ backlog'[d] = backlog[d]
         /\ backlog'[c] = Len(cltq[key[c]])
         /\ made' = made /\ faults' = faults /\ slvRepeat' = slvRepeat
         /\ \/ /\ pc'[c] = "wait" /\ key' = key /\ cltq' = cltq /\ call' = call /\ failed' = failed
            \/ /\ failed'[c] /\ key'[c] \in {key[c], NoQueue}
               /\ cltq' \in {cltq, [cltq EXCEPT ![key[c]] = <<>>]}
         /\ backlog' \in [Client -> Nat]
         /\ RequestsType' /\ ClientsType' /\ KeysType'
<1>1. /\ pc[c] = "send" /\ Len(slvq) < SlvRoom /\ slvq' = Append(slvq, call[c])
      /\ backlog' = [backlog EXCEPT ![c] = Len(cltq[key[c]])] /\ faults' = faults
  BY DEF SendRequest
<1>2. /\ pc \in [Client -> {"out", "idle", "send", "wait", "dead"}]
      /\ call \in [Client -> Requests \cup {NoCall}]
      /\ repeat \in [Client -> 0 .. RetryLimit]
      /\ failed \in [Client -> BOOLEAN]
      /\ key \in [Client -> Queue] /\ made \subseteq QueueId
      /\ \A d \in Client : pc[d] # "out" => key[d] # NoQueue
      /\ \A d \in Client : pc[d] \in {"send", "wait"} =>
           call[d] \in Requests /\ call[d].clt = d /\ Sound(call[d])
      /\ backlog \in [Client -> Nat]
      /\ cltq \in [QueueId -> Seq(Message)]
      /\ slvq \in Seq(Requests) /\ Len(slvq) <= SlvRoom /\ SlvRoom \in Nat
      /\ \A k \in DOMAIN slvq : Sound(slvq[k])
  BY RoomAssumption DEF PosixType, ClientsType, KeysType, CountersType, RequestsType, AnswersType
<1>3. key[c] \in QueueId /\ call[c] \in Requests /\ call[c].clt = c /\ Sound(call[c])
  BY <1>1, <1>2 DEF QueueId
<1>4. RequestsType'
  <2>1. /\ Append(slvq, call[c]) \in Seq(Requests) /\ Len(Append(slvq, call[c])) = Len(slvq) + 1
        /\ \A k \in 1 .. Len(slvq) : Append(slvq, call[c])[k] = slvq[k]
        /\ Append(slvq, call[c])[Len(slvq) + 1] = call[c]
    BY <1>2, <1>3
  <2>2. \A k \in DOMAIN slvq' : Sound(slvq'[k])
    BY <1>1, <1>2, <1>3, <2>1
  <2> QED
    BY <1>1, <1>2, <2>1, <2>2 DEF RequestsType, Sound
<1>5. /\ backlog' \in [Client -> Nat] /\ backlog'[c] = Len(cltq[key[c]])
      /\ \A d \in Client \ {c} : backlog'[d] = backlog[d]
  <2>1. Len(cltq[key[c]]) \in Nat
    BY <1>2, <1>3
  <2> QED
    BY <1>1, <1>2, <2>1
<1>6. CASE repeat[c] >= RetryLimit
  <2>1. Return(c, FALSE, {FALSE}, cltq[key[c]])
    BY <1>6 DEF SendRequest
  <2>2. /\ \A d \in Client \ {c} : /\ pc'[d] = pc[d] /\ call'[d] = call[d]
                                   /\ key'[d] = key[d] /\ failed'[d] = failed[d]
        /\ failed'[c] = (failed[c] \/ TRUE)
        /\ made' = made
        /\ \/ /\ key' = [key EXCEPT ![c] = NoQueue]
              /\ cltq' = [cltq EXCEPT ![key[c]] = <<>>]
           \/ /\ key' = key /\ cltq' = [cltq EXCEPT ![key[c]] = cltq[key[c]]]
        /\ ClientsType' /\ KeysType'
    BY <1>1, <2>1, ReturnFacts
  <2>3. cltq = [cltq EXCEPT ![key[c]] = cltq[key[c]]]
    BY <1>2, <1>3
  <2>4. UNCHANGED dbVars /\ slvRepeat' = slvRepeat
    BY <2>1 DEF Return
  <2>5. failed'[c]
    BY <2>2, Zenon
  <2>6. key'[c] \in {key[c], NoQueue} /\ cltq' \in {cltq, [cltq EXCEPT ![key[c]] = <<>>]}
    BY <1>2, <2>2, <2>3
  <2> QED
    BY <1>1, <1>3, <1>4, <1>5, <2>2, <2>4, <2>5, <2>6
<1>7. CASE ~(repeat[c] >= RetryLimit)
  <2>1. /\ pc' = [pc EXCEPT ![c] = "wait"] /\ repeat' = [repeat EXCEPT ![c] = 0]
        /\ UNCHANGED <<dbVars, cltq, key, made, call, failed, slvRepeat>>
    BY <1>7 DEF SendRequest
  <2>2. pc'[c] = "wait" /\ \A d \in Client \ {c} : pc'[d] = pc[d]
    BY <1>2, <2>1
  <2>3. ClientsType' /\ KeysType'
    BY <1>1, <1>2, <1>3, <2>1, <2>2, RetryAssumption DEF ClientsType, KeysType, Sound
  <2> QED
    BY <1>1, <1>3, <1>4, <1>5, <2>1, <2>2, <2>3
<1> QED
  BY <1>6, <1>7

\* What the end of msgrcv takes from the queue.
LEMMA ReceiveFacts ==
  ASSUME PosixType, NEW c \in Client, ReceiveReply(c)
  PROVE  /\ pc[c] = "wait" /\ key[c] \in QueueId /\ UNCHANGED <<dbVars, slvq, made>>
         /\ \A d \in Client \ {c} : /\ pc'[d] = pc[d] /\ call'[d] = call[d]
                                    /\ key'[d] = key[d] /\ failed'[d] = failed[d]
                                    /\ backlog'[d] = backlog[d]
         /\ \E k \in DOMAIN cltq[key[c]] : \E status \in BOOLEAN :
              LET m == cltq[key[c]][k]
              IN  /\ m \in Replies
                  /\ failed'[c] = (failed[c] \/ ~status)
                  /\ \/ /\ call[c].cmd = "LOGOUT" /\ pc'[c] = "out"
                        /\ key' = [key EXCEPT ![c] = NoQueue]
                        /\ cltq' = [cltq EXCEPT ![key[c]] = <<>>]
                     \/ /\ call[c].cmd # "LOGOUT" /\ key' = key
                        /\ cltq' = [cltq EXCEPT ![key[c]] = RemoveAt(cltq[key[c]], k)]
                        /\ status /\ (call[c].cmd = "LOGIN" => m.value = TRUE)
                             => pc'[c] = "idle"
         /\ pc'[c] \in {"out", "idle"}
         /\ backlog' \in [Client -> Nat] /\ faults' = faults /\ slvRepeat' = slvRepeat
         /\ ClientsType' /\ KeysType' /\ AnswersType'
<1> DEFINE k == FirstReply(key[c])
           m == cltq[key[c]][k]
           status == repeat[c] < RetryLimit
<1>1. /\ pc[c] = "wait" /\ k # 0
      /\ Return(c, status, Accepts(m), RemoveAt(cltq[key[c]], k))
      /\ backlog' = [backlog EXCEPT ![c] = 0] /\ slvq' = slvq /\ faults' = faults
  BY DEF ReceiveReply
<1>2. key[c] \in QueueId /\ cltq[key[c]] \in Seq(Message) /\ cltq \in [QueueId -> Seq(Message)]
  BY <1>1, Typing DEF PosixType, ClientsType, AnswersType
<1>3. k \in DOMAIN cltq[key[c]] /\ m \in Replies
  BY <1>1, <1>2, FirstReplyFound
<1>4. Accepts(m) \in SUBSET BOOLEAN /\ (m.value = TRUE => Accepts(m) \subseteq {TRUE})
  BY DEF Accepts
<1>5. UNCHANGED dbVars /\ slvRepeat' = slvRepeat
  BY <1>1 DEF Return
<1>6. backlog' \in [Client -> Nat] /\ \A d \in Client \ {c} : backlog'[d] = backlog[d]
  BY <1>1 DEF PosixType, CountersType
<1>7. status \in BOOLEAN
  OBVIOUS
<1>8. /\ Len(cltq[key[c]]) <= CltRoom /\ RemoveAt(cltq[key[c]], k) \in Seq(Message)
      /\ Len(RemoveAt(cltq[key[c]], k)) <= CltRoom
  <2>1. Len(cltq[key[c]]) <= CltRoom
    BY <1>2 DEF PosixType, AnswersType
  <2> HIDE DEF k
  <2>2. /\ RemoveAt(cltq[key[c]], k) \in Seq(Message)
        /\ Len(RemoveAt(cltq[key[c]], k)) = Len(cltq[key[c]]) - 1
    BY <1>2, <1>3, RemoveAtFacts
  <2> QED
    BY <1>2, <2>1, <2>2, RoomAssumption
<1> HIDE DEF status, m, k
<1>9. /\ \A d \in Client \ {c} : /\ pc'[d] = pc[d] /\ call'[d] = call[d]
                                 /\ key'[d] = key[d] /\ failed'[d] = failed[d]
      /\ pc'[c] \in {"out", "idle"}
      /\ failed'[c] = (failed[c] \/ ~status)
      /\ made' = made
      /\ \/ /\ call[c].cmd = "LOGOUT" /\ pc'[c] = "out"
            /\ key' = [key EXCEPT ![c] = NoQueue]
            /\ cltq' = [cltq EXCEPT ![key[c]] = <<>>]
         \/ /\ call[c].cmd # "LOGOUT" /\ key' = key
            /\ cltq' = [cltq EXCEPT ![key[c]] = RemoveAt(cltq[key[c]], k)]
            /\ status /\ (call[c].cmd = "LOGIN" => Accepts(m) \subseteq {TRUE})
                 => pc'[c] = "idle"
      /\ ClientsType' /\ KeysType'
  BY <1>1, <1>4, <1>7, ReturnFacts
<1>10. AnswersType'
  <2>1. \A q \in QueueId : Len(cltq[q]) <= CltRoom
    BY DEF PosixType, AnswersType
  <2>2. <<>> \in Seq(Message) /\ Len(<<>>) <= CltRoom
    BY RoomAssumption
  <2> QED
    BY <1>2, <1>8, <1>9, <2>1, <2>2 DEF AnswersType
<1>11. \/ /\ call[c].cmd = "LOGOUT" /\ pc'[c] = "out"
          /\ key' = [key EXCEPT ![c] = NoQueue]
          /\ cltq' = [cltq EXCEPT ![key[c]] = <<>>]
       \/ /\ call[c].cmd # "LOGOUT" /\ key' = key
          /\ cltq' = [cltq EXCEPT ![key[c]] = RemoveAt(cltq[key[c]], k)]
          /\ status /\ (call[c].cmd = "LOGIN" => m.value = TRUE) => pc'[c] = "idle"
  BY <1>4, <1>9
<1>12. \E i \in DOMAIN cltq[key[c]] : \E s \in BOOLEAN :
         /\ cltq[key[c]][i] \in Replies
         /\ failed'[c] = (failed[c] \/ ~s)
         /\ \/ /\ call[c].cmd = "LOGOUT" /\ pc'[c] = "out"
               /\ key' = [key EXCEPT ![c] = NoQueue]
               /\ cltq' = [cltq EXCEPT ![key[c]] = <<>>]
            \/ /\ call[c].cmd # "LOGOUT" /\ key' = key
               /\ cltq' = [cltq EXCEPT ![key[c]] = RemoveAt(cltq[key[c]], i)]
               /\ s /\ (call[c].cmd = "LOGIN" => cltq[key[c]][i].value = TRUE) => pc'[c] = "idle"
  BY <1>3, <1>7, <1>9, <1>11, Zenon DEF m
<1> QED
  BY <1>1, <1>2, <1>5, <1>6, <1>9, <1>10, <1>12

\* A try that a signal interrupts, and a client that crashes.
LEMMA InterruptFacts ==
  ASSUME PosixType, NEW c \in Client, Interrupt(c)
  PROVE  /\ key[c] \in QueueId /\ UNCHANGED <<dbVars, slvq, made, backlog>>
         /\ \A d \in Client \ {c} : /\ pc'[d] = pc[d] /\ call'[d] = call[d]
                                    /\ key'[d] = key[d] /\ failed'[d] = failed[d]
         /\ \/ UNCHANGED <<pc, key, cltq, call, failed>>
            \/ /\ failed'[c] /\ key'[c] \in {key[c], NoQueue}
               /\ cltq' \in {cltq, [cltq EXCEPT ![key[c]] = <<>>]}
         /\ ClientsType' /\ KeysType' /\ CountersType'
<1>1. /\ pc[c] \in {"send", "wait"} /\ faults < MaxFaults /\ faults' = faults + 1
      /\ slvq' = slvq /\ backlog' = backlog
  BY DEF Interrupt, Blocked
<1>2. /\ pc \in [Client -> {"out", "idle", "send", "wait", "dead"}]
      /\ repeat \in [Client -> 0 .. RetryLimit]
      /\ key \in [Client -> Queue]
      /\ cltq \in [QueueId -> Seq(Message)]
      /\ \A d \in Client : pc[d] # "out" => key[d] # NoQueue
      /\ faults \in 0 .. MaxFaults
  BY DEF PosixType, ClientsType, KeysType, AnswersType, CountersType
<1>3. key[c] \in QueueId /\ faults' \in 0 .. MaxFaults
  BY <1>1, <1>2, FaultAssumption DEF QueueId
<1>4. CASE repeat[c] < RetryLimit
  <2>1. /\ repeat' = [repeat EXCEPT ![c] = @ + 1]
        /\ UNCHANGED <<dbVars, cltq, key, made, pc, call, failed, slvRepeat>>
    BY <1>4 DEF Interrupt
  <2>2. repeat' \in [Client -> 0 .. RetryLimit]
    BY <1>2, <1>4, <2>1, RetryAssumption
  <2> QED
    BY <1>1, <1>3, <2>1, <2>2
       DEF PosixType, ClientsType, KeysType, CountersType, Sound
<1>5. CASE ~(repeat[c] < RetryLimit)
  <2>1. Return(c, FALSE, {FALSE}, cltq[key[c]])
    BY <1>5 DEF Interrupt
  <2>2. /\ \A d \in Client \ {c} : /\ pc'[d] = pc[d] /\ call'[d] = call[d]
                                   /\ key'[d] = key[d] /\ failed'[d] = failed[d]
        /\ failed'[c] = (failed[c] \/ TRUE)
        /\ made' = made
        /\ \/ /\ key' = [key EXCEPT ![c] = NoQueue]
              /\ cltq' = [cltq EXCEPT ![key[c]] = <<>>]
           \/ /\ key' = key /\ cltq' = [cltq EXCEPT ![key[c]] = cltq[key[c]]]
        /\ ClientsType' /\ KeysType'
    BY <1>1, <2>1, ReturnFacts
  <2>3. cltq = [cltq EXCEPT ![key[c]] = cltq[key[c]]]
    BY <1>2, <1>3
  <2>4. UNCHANGED dbVars /\ slvRepeat' = slvRepeat
    BY <2>1 DEF Return
  <2>5. failed'[c]
    BY <2>2, Zenon
  <2>6. key'[c] \in {key[c], NoQueue} /\ cltq' \in {cltq, [cltq EXCEPT ![key[c]] = <<>>]}
    BY <1>2, <2>2, <2>3
  <2>7. CountersType'
    BY <1>1, <1>3, <2>4 DEF PosixType, CountersType
  <2> QED
    BY <1>1, <1>3, <2>2, <2>4, <2>5, <2>6, <2>7
<1> QED
  BY <1>4, <1>5

\* A message that a client takes between calls, and a crash.
LEMMA IdleFacts ==
  ASSUME PosixType, NEW c \in Client, clt_ipc_receive(c)
  PROVE  /\ pc[c] = "idle" /\ key[c] \in QueueId /\ cltq[key[c]] # <<>>
         /\ cltq' = [cltq EXCEPT ![key[c]] = Tail(@)]
         /\ UNCHANGED <<dbVars, slvq, key, made, pc, call, failed, backlog>>
         /\ PosixType'
<1>1. /\ pc[c] = "idle" /\ cltq[key[c]] # <<>>
      /\ cltq' = [cltq EXCEPT ![key[c]] = Tail(@)]
      /\ UNCHANGED <<dbVars, slvq, key, made, pc, call, repeat, failed, backlog, slvRepeat, faults>>
  BY DEF clt_ipc_receive, cltVars
<1>2. /\ key[c] \in QueueId /\ cltq \in [QueueId -> Seq(Message)]
      /\ \A q \in QueueId : Len(cltq[q]) <= CltRoom
  BY <1>1 DEF PosixType, ClientsType, KeysType, AnswersType, QueueId
<1>3. Tail(cltq[key[c]]) \in Seq(Message) /\ Len(Tail(cltq[key[c]])) <= CltRoom
  BY <1>1, <1>2, RoomAssumption
<1>4. AnswersType'
  BY <1>1, <1>2, <1>3 DEF AnswersType
<1> QED
  BY <1>1, <1>2, <1>4
     DEF PosixType, RequestsType, KeysType, ClientsType, CountersType, Sound

LEMMA CrashFacts ==
  ASSUME PosixType, NEW c \in Client, Crash(c)
  PROVE  /\ Up(c) /\ pc'[c] = "dead" /\ \A d \in Client \ {c} : pc'[d] = pc[d]
         /\ UNCHANGED <<dbVars, slvq, cltq, key, made, call, failed, backlog>>
         /\ PosixType'
<1>1. /\ Up(c) /\ pc' = [pc EXCEPT ![c] = "dead"] /\ faults < MaxFaults /\ faults' = faults + 1
      /\ UNCHANGED <<dbVars, slvq, cltq, key, made, call, repeat, failed, backlog, slvRepeat>>
  BY DEF Crash, queueVars
<1>2. /\ pc \in [Client -> {"out", "idle", "send", "wait", "dead"}]
      /\ faults \in 0 .. MaxFaults
  BY DEF PosixType, ClientsType, CountersType
<1>3. pc'[c] = "dead" /\ \A d \in Client \ {c} : pc'[d] = pc[d]
  BY <1>1, <1>2
<1>4. ClientsType'
  BY <1>1, <1>2, <1>3 DEF PosixType, ClientsType, Sound, Up
<1>5. CountersType'
  BY <1>1, <1>2, FaultAssumption DEF PosixType, CountersType
<1> QED
  BY <1>1, <1>3, <1>4, <1>5
     DEF PosixType, RequestsType, AnswersType, KeysType, Sound

\* What the server leaves alone.
LEMMA ServerFacts ==
  ASSUME ServerStep
  PROVE  UNCHANGED <<key, made, pc, call, repeat, failed, backlog, faults>>
BY DEF ServerStep, Serve, TriggerDelivered, TriggerRefused, TriggerStale, EndUpdate, SendReply,
       queueVars, cltVars

\* A try to send a trigger to queue q, which may add it there.
TriggerStep(q) ==
  /\ slvq' = slvq
  /\ \/ TrigSent(q) \/ TrigFailed(q)
     \/ (\E i \in DOMAIN pdb : AtTrigger(i, q)) /\ UNCHANGED dbVars
  /\ \/ cltq' = cltq
     \/ /\ TrigSent(q) \/ TrigFailed(q)
        /\ Exists(q) /\ HasRoom(q)
        /\ cltq' = [cltq EXCEPT ![q] = Append(@, Trigger(job.name))]

LEMMA TriggerMessage ==
  ASSUME Inv, NEW q, TriggerStep(q)
  PROVE  /\ job.at = "trig" /\ job'.at = "trig" /\ job'.clt = job.clt /\ pusr' = pusr
         /\ Trigger(job.name) \in Message /\ Trigger(job.name) \notin Replies
<1>1. job.at = "trig"
  BY DEF TriggerStep, TrigSent, TrigFailed, AtTrigger
<1>2. job \in [at : {"trig"}, clt : Queue, name : Name \cup {BadVar}, pnode : Nat \ {0}]
  BY <1>1 DEF Inv, Job, Receiving, Crashed
<1>3. job'.at = "trig" /\ job'.clt = job.clt /\ pusr' = pusr
  <2>1. CASE TrigSent(q)
    BY <1>2, <2>1 DEF TrigSent
  <2>2. CASE TrigFailed(q)
    BY <1>1, <2>2 DEF TrigFailed
  <2>3. CASE UNCHANGED dbVars
    BY <1>1, <2>3 DEF dbVars
  <2> QED
    BY <2>1, <2>2, <2>3 DEF TriggerStep
<1>4. Trigger(job.name) \in Message /\ Trigger(job.name) \notin Replies
  BY <1>2 DEF Trigger, Message, Replies, IsReply
<1> QED
  BY <1>1, <1>3, <1>4

\* The reply that the server puts into the queue of the client it has served.
LEMMA ReplyFacts ==
  ASSUME Inv, SendReply
  PROVE  /\ job.at = "reply" /\ job.msg \in Replies /\ job' = Receiving /\ pusr' = pusr /\ pdb' = pdb
         /\ slvq' = slvq /\ slvRepeat' = slvRepeat
         /\ \/ /\ Exists(job.clt) /\ HasRoom(job.clt)
               /\ cltq' = [cltq EXCEPT ![job.clt] = Append(@, job.msg)]
            \/ ~Exists(job.clt) /\ cltq' = cltq
<1>1. job.at = "reply" /\ job' = Receiving /\ pusr' = pusr /\ pdb' = pdb
  BY DEF SendReply, ReplyDone
<1>2. job.msg \in Reply
  BY <1>1 DEF Inv, Job, Receiving, Crashed
<1>3. job.msg.cmd # "TRIGGER"
  BY <1>2 DEF Reply, Commands
<1> QED
  BY <1>1, <1>2, <1>3 DEF SendReply, Replies, Message, IsReply

LEMMA AppendRoom ==
  ASSUME PosixType, NEW q, Exists(q), HasRoom(q), NEW m \in Message,
         cltq' = [cltq EXCEPT ![q] = Append(@, m)]
  PROVE  /\ AnswersType' /\ q \in QueueId /\ cltq[q] \in Seq(Message)
         /\ cltq'[q] = Append(cltq[q], m)
         /\ \A r \in QueueId \ {q} : cltq'[r] = cltq[r]
<1>1. q \in QueueId /\ cltq[q] \in Seq(Message)
  BY Typing DEF Exists
<1>2. cltq \in [QueueId -> Seq(Message)] /\ \A r \in QueueId : Len(cltq[r]) <= CltRoom
  BY DEF PosixType, AnswersType
<1>3. Append(cltq[q], m) \in Seq(Message) /\ Len(Append(cltq[q], m)) <= CltRoom
  BY <1>1, RoomAssumption DEF HasRoom
<1>4. cltq'[q] = Append(cltq[q], m) /\ \A r \in QueueId \ {q} : cltq'[r] = cltq[r]
  BY <1>1, <1>2
<1>5. AnswersType'
  BY <1>1, <1>2, <1>3 DEF AnswersType
<1> QED
  BY <1>1, <1>4, <1>5

LEMMA EmptiedType ==
  ASSUME PosixType, NEW q, cltq' \in {cltq, [cltq EXCEPT ![q] = <<>>]}
  PROVE  AnswersType'
<1>1. <<>> \in Seq(Message) /\ Len(<<>>) <= CltRoom
  BY RoomAssumption
<1> QED
  BY <1>1 DEF PosixType, AnswersType

LEMMA TypeStep ==
  ASSUME Inv, PosixType, Keys, [Next]_vars
  PROVE  PosixType'
<1>1. ASSUME NEW c \in Client, ClientCall(c)
      PROVE  PosixType'
  <2>1. slvRepeat' = slvRepeat /\ faults' = faults
    BY <1>1 DEF ClientCall, clt_login, clt_call, BeginSend
  <2> QED
    BY <1>1, <2>1, CallFacts DEF PosixType, RequestsType, AnswersType, CountersType, Sound
<1>2. ASSUME NEW c \in Client, SendRequest(c)
      PROVE  PosixType'
  <2>1. AnswersType'
    <3>1. cltq' \in {cltq, [cltq EXCEPT ![key[c]] = <<>>]}
      BY <1>2, SendFacts
    <3> QED
      BY <3>1, EmptiedType
  <2> QED
    BY <1>2, <2>1, SendFacts DEF PosixType, CountersType
<1>3. ASSUME NEW c \in Client, ReceiveReply(c)
      PROVE  PosixType'
  <2>1. RequestsType'
    <3>1. slvq' = slvq
      BY <1>3, ReceiveFacts
    <3> QED
      BY <3>1 DEF PosixType, RequestsType
  <2>2. CountersType'
    BY <1>3, ReceiveFacts DEF PosixType, CountersType
  <2> QED
    BY <1>3, <2>1, <2>2, ReceiveFacts DEF PosixType
<1>4. ASSUME NEW c \in Client, Interrupt(c)
      PROVE  PosixType'
  <2>1. AnswersType'
    <3>1. cltq' \in {cltq, [cltq EXCEPT ![key[c]] = <<>>]}
      BY <1>4, InterruptFacts
    <3> QED
      BY <3>1, EmptiedType
  <2> QED
    BY <1>4, <2>1, InterruptFacts DEF PosixType, RequestsType, Sound
<1>5. ASSUME NEW c \in Client, clt_ipc_receive(c) \/ Crash(c)
      PROVE  PosixType'
  BY <1>5, IdleFacts, CrashFacts
<1>6. CASE ServerStep
  <2>1. KeysType' /\ ClientsType'
    BY <1>6, ServerFacts DEF PosixType, KeysType, ClientsType, Sound
  <2>2. CASE Serve
    <3>1. slvq' = Tail(slvq) /\ slvq # <<>> /\ cltq' = cltq /\ slvRepeat' = slvRepeat
      BY <2>2 DEF Serve
    <3>2. RequestsType'
      BY <3>1, HeadSound, RoomAssumption DEF PosixType, RequestsType, Sound
    <3> QED
      BY <1>6, <2>1, <3>1, <3>2, ServerFacts DEF PosixType, AnswersType, CountersType
  <2>3. ASSUME NEW q \in Queue, TriggerDelivered(q) \/ TriggerRefused(q) \/ TriggerStale(q)
        PROVE  PosixType'
    <3>1. TriggerStep(q) /\ slvRepeat' \in 0 .. RetryLimit
      BY <2>3, RetryAssumption
         DEF TriggerDelivered, TriggerRefused, TriggerStale, TriggerStep, queueVars,
             PosixType, CountersType
    <3>2. AnswersType'
      <4>1. CASE cltq' = cltq
        BY <4>1 DEF PosixType, AnswersType
      <4>2. CASE cltq' # cltq
        <5>1. /\ Exists(q) /\ HasRoom(q)
              /\ cltq' = [cltq EXCEPT ![q] = Append(@, Trigger(job.name))]
          BY <3>1, <4>2 DEF TriggerStep
        <5>2. Trigger(job.name) \in Message
          BY <3>1, TriggerMessage
        <5> QED
          BY <5>1, <5>2, AppendRoom
      <4> QED
        BY <4>1, <4>2
    <3>3. slvq' = slvq
      BY <3>1 DEF TriggerStep
    <3> QED
      BY <1>6, <2>1, <3>1, <3>2, <3>3, ServerFacts
         DEF PosixType, RequestsType, CountersType, Sound
  <2>4. CASE EndUpdate
    <3>1. slvq' = slvq /\ cltq' = cltq /\ slvRepeat' = slvRepeat
      BY <2>4 DEF EndUpdate, queueVars
    <3> QED
      BY <1>6, <2>1, <3>1, ServerFacts
         DEF PosixType, RequestsType, AnswersType, CountersType, Sound
  <2>5. CASE SendReply
    <3>1. AnswersType'
      <4>1. CASE cltq' = cltq
        BY <4>1 DEF PosixType, AnswersType
      <4>2. CASE cltq' # cltq
        BY <2>5, <4>2, ReplyFacts, AppendRoom DEF Replies
      <4> QED
        BY <4>1, <4>2
    <3> QED
      BY <1>6, <2>1, <2>5, <3>1, ReplyFacts, ServerFacts
         DEF PosixType, RequestsType, CountersType, Sound
  <2> QED
    BY <1>6, <2>2, <2>3, <2>4, <2>5 DEF ServerStep
<1>7. CASE UNCHANGED vars
  BY <1>7 DEF vars, cltVars, queueVars, PosixType, RequestsType, AnswersType, KeysType,
              ClientsType, CountersType, Sound
<1> QED
  BY <1>1, <1>2, <1>3, <1>4, <1>5, <1>6, <1>7 DEF Next

-----------------------------------------------------------------------------
(***************************************************************************)
(* Queues serve one client.                                                *)
(***************************************************************************)
\* What slv_cmd leads to: a reply to the request, or the walk of an update.
LEMMA ServeLeads ==
  ASSUME Inv, BadVarLast, NEW q \in Queue, NEW cmd \in Commands, NEW n \in Asked(cmd),
         NEW v \in Value, slv_cmd(q, cmd, n, v)
  PROVE  /\ job.at = "recv" /\ job'.at \in {"trig", "reply"} /\ job'.clt = q
         /\ job'.at = "trig" => cmd = "UPDATE"
         /\ job'.at = "reply" => /\ job'.msg.cmd = cmd
                                 /\ cmd = "READ" => job'.msg.name \in {n, BadVar}
                                 /\ cmd = "LOGIN" => job'.msg.value = TRUE
<1>1. job.at = "recv"
  BY DEF slv_cmd, Receiving
<1>2. CASE cmd = "READ"
  <2>1. Read(q, n)
    BY <1>2 DEF slv_cmd
  <2>2. ASSUME NEW i \in DOMAIN pdb, pdb[i].name \in {n, BadVar}, slv_var_reply(q, pdb[i])
        PROVE  /\ job'.at = "reply" /\ job'.clt = q
               /\ job'.msg.cmd = "READ" /\ job'.msg.name \in {n, BadVar}
    BY <2>2 DEF slv_var_reply, Replying
  <2>3. pdb # <<>> /\ pdb[Len(pdb)].name = BadVar /\ Len(pdb) \in DOMAIN pdb
    BY DEF BadVarLast, Inv, ListInv
  <2> QED
    BY <1>1, <1>2, <2>1, <2>2, <2>3 DEF Read, ReadKnown, ReadUnknown, db_entry_find
<1>3. CASE cmd = "UPDATE"
  <2>1. slv_update(q, n, v)
    BY <1>3 DEF slv_cmd
  <2>2. job' = Walking(q, n, 1) \/ slv_bool_reply(q, "UPDATE", FALSE)
    BY <2>1 DEF slv_update
  <2> QED
    BY <1>1, <1>3, <2>2 DEF Walking, slv_bool_reply, Replying
<1>4. CASE cmd = "LOGIN"
  BY <1>1, <1>4 DEF slv_cmd, slv_clt_add, slv_bool_reply, Replying
<1>5. CASE cmd \notin {"READ", "UPDATE", "LOGIN"}
  <2>1. \E status : slv_bool_reply(q, cmd, status)
    BY <1>5 DEF slv_cmd, db_entry_create, db_entry_rm, slv_clt_rm, slv_trig_set, slv_trig_unset
  <2> QED
    BY <1>1, <1>5, <2>1 DEF slv_bool_reply, Replying
<1> QED
  BY <1>2, <1>3, <1>4, <1>5

\* The list of logins changes only by the request of its client.
LEMMA UsersChange ==
  ASSUME NEW q \in Queue, NEW cmd, NEW n, NEW v, slv_cmd(q, cmd, n, v)
  PROVE  \/ cmd = "LOGIN" /\ pusr' = Append(pusr, q)
         \/ /\ cmd = "LOGOUT"
            /\ \/ \E i \in DOMAIN pusr : pusr[i] = q /\ pusr' = RemoveAt(pusr, i)
               \/ (\A i \in DOMAIN pusr : pusr[i] # q) /\ pusr' = pusr
         \/ cmd \notin {"LOGIN", "LOGOUT"} /\ pusr' = pusr
<1>1. CASE cmd = "LOGIN"
  BY <1>1 DEF slv_cmd, slv_clt_add
<1>2. CASE cmd = "LOGOUT"
  BY <1>2 DEF slv_cmd, slv_clt_rm
<1>3. CASE cmd \notin {"LOGIN", "LOGOUT"}
  BY <1>3 DEF slv_cmd, db_entry_create, Read, slv_update, db_entry_rm, slv_trig_set,
              slv_trig_unset
<1> QED
  BY <1>1, <1>2, <1>3

\* The request at the head, served.
LEMMA ServeFacts ==
  ASSUME Inv, BadVarLast, PosixType, Serve
  PROVE  LET r == Head(slvq)
             q == key[r.clt]
         IN  /\ slvq # <<>> /\ slvq' = Tail(slvq) /\ cltq' = cltq
             /\ r \in Requests /\ r.clt \in Client /\ q \in Queue
             /\ job.at = "recv" /\ job'.at \in {"trig", "reply"} /\ job'.clt = q
             /\ job'.at = "trig" => r.cmd = "UPDATE"
             /\ job'.at = "reply" =>
                  /\ job'.msg.cmd = r.cmd
                  /\ r.cmd = "READ" => job'.msg.name \in {r.name, BadVar}
                  /\ r.cmd = "LOGIN" => job'.msg.value = TRUE
             /\ \/ r.cmd = "LOGIN" /\ pusr' = Append(pusr, q)
                \/ /\ r.cmd = "LOGOUT"
                   /\ \/ \E i \in DOMAIN pusr : pusr[i] = q /\ pusr' = RemoveAt(pusr, i)
                      \/ (\A i \in DOMAIN pusr : pusr[i] # q) /\ pusr' = pusr
                \/ r.cmd \notin {"LOGIN", "LOGOUT"} /\ pusr' = pusr
<1> DEFINE r == Head(slvq)
           q == key[r.clt]
<1>1. /\ slvq # <<>> /\ slvq' = Tail(slvq) /\ cltq' = cltq
      /\ slv_cmd(q, r.cmd, r.name, r.value)
  BY DEF Serve
<1>2. r \in Requests /\ Sound(r)
  BY <1>1, HeadSound
<1>3. r.clt \in Client /\ r.cmd \in Commands /\ r.name \in Asked(r.cmd) /\ r.value \in Value
  BY <1>2 DEF Requests, Sound
<1>4. q \in Queue
  BY <1>3, Typing
<1> HIDE DEF r, q
<1>5. /\ job.at = "recv" /\ job'.at \in {"trig", "reply"} /\ job'.clt = q
      /\ job'.at = "trig" => r.cmd = "UPDATE"
      /\ job'.at = "reply" =>
           /\ job'.msg.cmd = r.cmd
           /\ r.cmd = "READ" => job'.msg.name \in {r.name, BadVar}
           /\ r.cmd = "LOGIN" => job'.msg.value = TRUE
  BY <1>1, <1>3, <1>4, ServeLeads
<1>6. \/ r.cmd = "LOGIN" /\ pusr' = Append(pusr, q)
      \/ /\ r.cmd = "LOGOUT"
         /\ \/ \E i \in DOMAIN pusr : pusr[i] = q /\ pusr' = RemoveAt(pusr, i)
            \/ (\A i \in DOMAIN pusr : pusr[i] # q) /\ pusr' = pusr
      \/ r.cmd \notin {"LOGIN", "LOGOUT"} /\ pusr' = pusr
  BY <1>1, <1>4, UsersChange
<1> QED
  BY <1>1, <1>2, <1>3, <1>4, <1>5, <1>6 DEF q, r

\* A step that keeps the queues and their owners keeps Keys.
LEMMA KeysStep ==
  ASSUME Inv, BadVarLast, PosixType, Keys, [Next]_vars
  PROVE  Keys'
<1>1. /\ \A c, d \in Client : key[c] = key[d] /\ key[c] # NoQueue => c = d
      /\ \A c \in Client : key[c] # NoQueue => key[c] \in made
      /\ \A q \in QueueId \ made : cltq[q] = <<>>
      /\ job.at \in {"trig", "reply"} => job.clt \in made \cup {NoQueue}
      /\ \A i \in DOMAIN pusr : pusr[i] \in made \cup {NoQueue}
  BY DEF Keys
<1>2. /\ key \in [Client -> Queue] /\ made \subseteq QueueId
      /\ cltq \in [QueueId -> Seq(Message)] /\ pusr \in Seq(Queue)
  BY DEF PosixType, KeysType, AnswersType, Inv
<1>3. ASSUME NEW c \in Client, ClientCall(c)
      PROVE  Keys'
  <2>1. /\ cltq' = cltq /\ job' = job /\ pusr' = pusr
        /\ \A d \in Client \ {c} : key'[d] = key[d]
        /\ \/ key' = key /\ made' = made
           \/ /\ key[c] = NoQueue
              /\ key'[c] \in QueueId \ made /\ made' = made \cup {key'[c]}
    BY <1>3, CallFacts
  <2>2. CASE key' = key /\ made' = made
    BY <1>1, <2>1, <2>2 DEF Keys
  <2>3. CASE key'[c] \in QueueId \ made /\ made' = made \cup {key'[c]}
    <3>1. \A d \in Client \ {c} : key'[d] # key'[c] \/ key'[d] = NoQueue
      BY <1>1, <2>1, <2>3
    <3>2. \A d, e \in Client : key'[d] = key'[e] /\ key'[d] # NoQueue => d = e
      BY <1>1, <2>1, <3>1
    <3>3. \A d \in Client : key'[d] # NoQueue => key'[d] \in made'
      BY <1>1, <2>1, <2>3
    <3>4. \A q \in QueueId \ made' : cltq'[q] = <<>>
      BY <1>1, <2>1, <2>3
    <3>5. job'.at \in {"trig", "reply"} => job'.clt \in made' \cup {NoQueue}
      BY <1>1, <2>1, <2>3
    <3>6. \A i \in DOMAIN pusr' : pusr'[i] \in made' \cup {NoQueue}
      BY <1>1, <2>1, <2>3
    <3> QED
      BY <3>2, <3>3, <3>4, <3>5, <3>6 DEF Keys
  <2> QED
    BY <2>1, <2>2, <2>3
<1>4. ASSUME NEW c \in Client, key[c] # NoQueue, UNCHANGED <<pusr, job, made>>,
             \A d \in Client \ {c} : key'[d] = key[d], key'[c] \in {key[c], NoQueue},
             \A q \in QueueId : q # key[c] => cltq'[q] = cltq[q]
      PROVE  Keys'
  <2>1. \A q \in QueueId \ made' : cltq'[q] = <<>>
    BY <1>1, <1>4
  <2>2. \A d, e \in Client : key'[d] = key'[e] /\ key'[d] # NoQueue => d = e
    BY <1>1, <1>4
  <2>3. \A d \in Client : key'[d] # NoQueue => key'[d] \in made'
    BY <1>1, <1>4
  <2>4. job'.at \in {"trig", "reply"} => job'.clt \in made' \cup {NoQueue}
    BY <1>1, <1>4
  <2>5. \A i \in DOMAIN pusr' : pusr'[i] \in made' \cup {NoQueue}
    BY <1>1, <1>4
  <2> QED
    BY <2>1, <2>2, <2>3, <2>4, <2>5 DEF Keys
<1>5. ASSUME NEW c \in Client, SendRequest(c) \/ Interrupt(c)
      PROVE  Keys'
  <2>1. /\ key[c] # NoQueue /\ UNCHANGED <<pusr, job, made>>
        /\ \A d \in Client \ {c} : key'[d] = key[d]
        /\ key'[c] \in {key[c], NoQueue}
        /\ cltq' \in {cltq, [cltq EXCEPT ![key[c]] = <<>>]}
    BY <1>5, SendFacts, InterruptFacts DEF QueueId, dbVars
  <2> QED
    BY <1>2, <1>4, <2>1
<1>6. ASSUME NEW c \in Client, ReceiveReply(c)
      PROVE  Keys'
  <2>1. /\ key[c] # NoQueue /\ UNCHANGED <<pusr, job, made>>
        /\ \A d \in Client \ {c} : key'[d] = key[d]
    BY <1>6, ReceiveFacts DEF QueueId, dbVars
  <2>2. \/ key' = [key EXCEPT ![c] = NoQueue] /\ cltq' = [cltq EXCEPT ![key[c]] = <<>>]
        \/ key' = key /\ \E s : cltq' = [cltq EXCEPT ![key[c]] = s]
    <3>1. PICK k : \/ key' = [key EXCEPT ![c] = NoQueue] /\ cltq' = [cltq EXCEPT ![key[c]] = <<>>]
                   \/ /\ key' = key
                      /\ cltq' = [cltq EXCEPT ![key[c]] = RemoveAt(cltq[key[c]], k)]
      BY <1>6, ReceiveFacts
    <3> QED
      BY <3>1
  <2>3. key'[c] \in {key[c], NoQueue} /\ \A q \in QueueId : q # key[c] => cltq'[q] = cltq[q]
    BY <1>2, <2>2
  <2> QED
    BY <1>4, <2>1, <2>3
<1>7. ASSUME NEW c \in Client, clt_ipc_receive(c)
      PROVE  Keys'
  <2>1. /\ key[c] # NoQueue /\ UNCHANGED <<pusr, job, made, key>>
        /\ cltq' = [cltq EXCEPT ![key[c]] = Tail(@)]
    BY <1>7, IdleFacts DEF QueueId, dbVars
  <2>2. \A q \in QueueId : q # key[c] => cltq'[q] = cltq[q]
    BY <1>2, <2>1
  <2> QED
    BY <1>4, <2>1, <2>2
<1>8. ASSUME NEW c \in Client, Crash(c)
      PROVE  Keys'
  BY <1>1, <1>8, CrashFacts DEF Keys, dbVars
<1>9. CASE Serve
  <2>1. UNCHANGED <<key, made>>
    BY <1>9 DEF Serve
  <2> DEFINE q == key[Head(slvq).clt]
  <2>2. /\ q \in made \cup {NoQueue} /\ q \in Queue /\ job'.clt = q /\ cltq' = cltq
        /\ \/ pusr' = Append(pusr, q) \/ pusr' = pusr
           \/ \E i \in DOMAIN pusr : pusr' = RemoveAt(pusr, i)
    BY <1>1, <1>9, ServeFacts
  <2> HIDE DEF q
  <2>3. \A i \in DOMAIN pusr' : pusr'[i] \in made \cup {NoQueue}
    <3>1. CASE pusr' = Append(pusr, q)
      BY <1>1, <1>2, <2>2, <3>1
    <3>2. ASSUME NEW i \in DOMAIN pusr, pusr' = RemoveAt(pusr, i)
          PROVE  \A j \in DOMAIN pusr' : pusr'[j] \in made \cup {NoQueue}
      <4>1. /\ Len(pusr') = Len(pusr) - 1 /\ pusr' \in Seq(Queue)
            /\ \A j \in 1 .. Len(pusr) - 1 : pusr'[j] = IF j < i THEN pusr[j] ELSE pusr[j + 1]
        BY <1>2, <3>2, RemoveAtFacts
      <4> QED
        BY <1>1, <1>2, <4>1, SMTT(20)
    <3> QED
      BY <1>1, <2>2, <3>1, <3>2
  <2> QED
    BY <1>1, <2>1, <2>2, <2>3 DEF Keys
<1>10. ASSUME NEW q \in Queue, TriggerDelivered(q) \/ TriggerRefused(q) \/ TriggerStale(q)
       PROVE  Keys'
  <2>1. TriggerStep(q) /\ UNCHANGED <<key, made>>
    BY <1>10 DEF TriggerDelivered, TriggerRefused, TriggerStale, TriggerStep, queueVars
  <2>2. job.at = "trig" /\ job'.at = "trig" /\ job'.clt = job.clt /\ pusr' = pusr
    BY <2>1, TriggerMessage
  <2>3. \A r \in QueueId \ made : cltq'[r] = cltq[r]
    BY <1>1, <1>2, <2>1 DEF TriggerStep, Exists
  <2> QED
    BY <1>1, <2>1, <2>2, <2>3 DEF Keys
<1>11. CASE EndUpdate
  BY <1>1, <1>11 DEF EndUpdate, UpdateDone, slv_bool_reply, Replying, queueVars, Keys
<1>12. CASE SendReply
  <2>1. \A r \in QueueId \ made : cltq'[r] = cltq[r]
    BY <1>1, <1>2, <1>12, ReplyFacts DEF Exists
  <2>2. UNCHANGED <<key, made, pusr>> /\ job' = Receiving
    BY <1>12 DEF SendReply, ReplyDone
  <2> QED
    BY <1>1, <2>1, <2>2 DEF Keys, Receiving
<1>13. CASE UNCHANGED vars
  BY <1>1, <1>13 DEF vars, queueVars, dbVars, Keys
<1> QED
  BY <1>3, <1>5, <1>6, <1>7, <1>8, <1>9, <1>10, <1>11, <1>12, <1>13 DEF Next, ServerStep

-----------------------------------------------------------------------------
(***************************************************************************)
(* Every call has one request or answer.                                   *)
(***************************************************************************)
\* A step that moves neither c nor anything of its call.
LEMMA CallKept ==
  ASSUME NEW c, CallOf(c), pc'[c] = pc[c], key'[c] = key[c], failed'[c] = failed[c],
         NoRequest(c) => NoRequest(c)', Requested(c) => Requested(c)',
         NotServed(c) => NotServed(c)', Served(c) => Served(c)',
         NoReply(c) => NoReply(c)', Answered(c) => Replied(c)'
  PROVE  CallOf(c)'
<1>1. Quiet(c) => Quiet(c)'
  BY DEF Quiet
<1>2. InCall(c) => InCall(c)'
  BY DEF InCall, Queued, Answered
<1> QED
  BY <1>1, <1>2 DEF CallOf

LEMMA SameRequests ==
  ASSUME NEW c, slvq' = slvq, call'[c] = call[c]
  PROVE  /\ NoRequest(c) <=> NoRequest(c)'
         /\ Requested(c) <=> Requested(c)'
BY DEF NoRequest, Requested, NoneIn, OneIn, From

LEMMA SameReplies ==
  ASSUME NEW c, key'[c] = key[c], call'[c] = call[c],
         key[c] # NoQueue => cltq'[key[c]] = cltq[key[c]]
  PROVE  /\ NoReply(c) <=> NoReply(c)'
         /\ key[c] # NoQueue => (Replied(c) <=> Replied(c)')
BY DEF NoReply, Replied, NoneIn, OneIn, Replies, Fitting, Fits

LEMMA SameService ==
  ASSUME NEW c, key'[c] = key[c], call'[c] = call[c], job' = job
  PROVE  /\ NotServed(c) <=> NotServed(c)'
         /\ Served(c) /\ NoRequest(c)' /\ NoReply(c)' => Served(c)'
BY DEF NotServed, Serving, Served, Fits

LEMMA OtherRequest ==
  ASSUME PosixType, NEW c, NEW r \in Requests, r.clt # c, slvq' = Append(slvq, r),
         call'[c] = call[c]
  PROVE  /\ NoRequest(c) <=> NoRequest(c)'
         /\ Requested(c) => Requested(c)'
<1>1. slvq \in Seq(Requests) /\ r \notin From(c)
  BY Typing DEF From
<1>2. From(c)' = From(c) /\ {call[c]}' = {call[c]}
  BY DEF From
<1>3. NoneIn(slvq, From(c)) <=> NoneIn(slvq', From(c))
  BY <1>1, AppendOther
<1>4. OneIn(slvq, From(c), {call[c]}) => OneIn(slvq', From(c), {call[c]})
  BY <1>1, AppendOther
<1>5. NoRequest(c)' <=> NoneIn(slvq', From(c))
  BY DEF NoRequest, NoneIn, From
<1>6. Requested(c)' <=> OneIn(slvq', From(c), {call[c]})
  BY DEF Requested, OneIn, From
<1> QED
  BY <1>3, <1>4, <1>5, <1>6 DEF NoRequest, Requested

\* What client a does is nothing to the call of another client.
LEMMA OthersCall ==
  ASSUME PosixType, Keys, NEW c \in Client, NEW a \in Client \ {c}, CallOf(c),
         job' = job, pc'[c] = pc[c], call'[c] = call[c], key'[c] = key[c],
         failed'[c] = failed[c],
         slvq' = slvq \/ \E r \in Requests : r.clt = a /\ slvq' = Append(slvq, r),
         key[a] \in QueueId, \A q \in QueueId : q # key[a] => cltq'[q] = cltq[q]
  PROVE  CallOf(c)'
<1>1. key[c] # NoQueue => cltq'[key[c]] = cltq[key[c]]
  BY Typing DEF Keys, QueueId
<1>2. NoRequest(c) => NoRequest(c)'
  BY SameRequests, OtherRequest
<1>3. Requested(c) => Requested(c)'
  BY SameRequests, OtherRequest
<1>4. NoReply(c) => NoReply(c)'
  BY <1>1, SameReplies
<1>5. Answered(c) => Replied(c)'
  BY <1>1, SameReplies DEF Answered
<1>6. NotServed(c) => NotServed(c)'
  BY SameService
<1>7. Served(c) => Served(c)'
  BY <1>2, <1>4, SameService DEF Served
<1> QED
  BY <1>2, <1>3, <1>4, <1>5, <1>6, <1>7, CallKept

LEMMA CallStepCall ==
  ASSUME PosixType, Keys, Calls, NEW a \in Client, ClientCall(a), NEW c \in Client
  PROVE  CallOf(c)'
<1>1. CallOf(c)
  BY DEF Calls
<1>2. /\ slvq' = slvq /\ cltq' = cltq /\ job' = job /\ failed' = failed
      /\ \A d \in Client \ {a} : pc'[d] = pc[d] /\ call'[d] = call[d] /\ key'[d] = key[d]
      /\ pc[a] \in {"out", "idle"} /\ pc'[a] = "send" /\ key'[a] # NoQueue
      /\ \/ key' = key
         \/ pc[a] = "out" /\ key[a] = NoQueue /\ key'[a] \in QueueId \ made
  BY CallFacts
<1>3. CASE c # a
  <2>1. key[c] # NoQueue => cltq'[key[c]] = cltq[key[c]]
    BY <1>2
  <2>2. key'[c] = key[c] /\ call'[c] = call[c] /\ pc'[c] = pc[c] /\ failed'[c] = failed[c]
    BY <1>2, <1>3
  <2> QED
    BY <1>1, <1>2, <2>1, <2>2, CallKept, SameRequests, SameReplies, SameService
       DEF Served, Answered
<1>4. CASE c = a /\ ~failed[c]
  <2>1. Quiet(c) /\ (pc[c] = "out" => key[c] = NoQueue)
    BY <1>1, <1>2, <1>4 DEF CallOf
  <2>2. NoRequest(c)'
    BY <1>2, <2>1 DEF Quiet, NoRequest, NoneIn, From
  <2>3. CASE key' = key
    BY <1>2, <1>4, <2>1, <2>2, <2>3
       DEF CallOf, Quiet, NotServed, Serving, NoReply, NoneIn, Replies
  <2>4. CASE key'[a] \in QueueId \ made
    <3>1. cltq'[key'[a]] = <<>> /\ ~Serving(key[a])'
      BY <1>2, <2>4 DEF Keys, QueueId, Serving
    <3> QED
      BY <1>2, <1>4, <2>2, <3>1
         DEF CallOf, Quiet, NotServed, NoReply, NoneIn
  <2> QED
    BY <1>2, <2>3, <2>4
<1>5. CASE c = a /\ failed[c]
  BY <1>2, <1>5 DEF CallOf
<1> QED
  BY <1>3, <1>4, <1>5

LEMMA CallStepSend ==
  ASSUME PosixType, Keys, Calls, NEW a \in Client, SendRequest(a), NEW c \in Client
  PROVE  CallOf(c)'
<1>1. CallOf(c)
  BY DEF Calls
<1>2. /\ pc[a] = "send" /\ key[a] \in QueueId /\ job' = job
      /\ slvq' = Append(slvq, call[a]) /\ call[a] \in Requests /\ call[a].clt = a
      /\ \A d \in Client \ {a} : /\ pc'[d] = pc[d] /\ call'[d] = call[d]
                                 /\ key'[d] = key[d] /\ failed'[d] = failed[d]
      /\ \/ /\ pc'[a] = "wait" /\ key' = key /\ cltq' = cltq /\ call' = call /\ failed' = failed
         \/ failed'[a] /\ cltq' \in {cltq, [cltq EXCEPT ![key[a]] = <<>>]}
  BY SendFacts DEF dbVars
<1>3. CASE c # a
  <2>1. \A q \in QueueId : q # key[a] => cltq'[q] = cltq[q]
    BY <1>2 DEF PosixType, AnswersType
  <2> QED
    BY <1>1, <1>2, <1>3, <2>1, OthersCall
<1>4. CASE c = a /\ ~failed'[c]
  <2>1. pc'[c] = "wait" /\ key' = key /\ cltq' = cltq /\ call' = call /\ ~failed[c]
    BY <1>2, <1>4
  <2>2. Quiet(c)
    BY <1>1, <1>2, <1>4, <2>1 DEF CallOf
  <2>3. call[c] \in From(c) \cap {call[c]} /\ slvq \in Seq(Requests)
    BY <1>2, <1>4, Typing DEF From
  <2>4. OneIn(slvq', From(c), {call[c]})
    BY <1>2, <1>4, <2>2, <2>3, AppendFirst DEF Quiet, NoRequest, From
  <2>5. Requested(c)'
    BY <2>1, <2>4 DEF Requested, OneIn, From
  <2>6. NotServed(c)' /\ NoReply(c)' /\ key'[c] # NoQueue
    BY <1>2, <1>4, <2>1, <2>2, SameService, SameReplies DEF Quiet, QueueId
  <2> QED
    BY <2>1, <2>5, <2>6 DEF CallOf, InCall, Queued
<1>5. CASE c = a /\ failed'[c]
  BY <1>5 DEF CallOf
<1> QED
  BY <1>3, <1>4, <1>5

LEMMA CallStepReceive ==
  ASSUME PosixType, Keys, Calls, NEW a \in Client, ReceiveReply(a), NEW c \in Client
  PROVE  CallOf(c)' /\ (c = a /\ ~failed'[c] => ~failed[c] /\ Answered(c) /\ Quiet(c)')
<1>1. CallOf(c)
  BY DEF Calls
<1>2. PICK k \in DOMAIN cltq[key[a]] : \E s \in BOOLEAN :
         /\ cltq[key[a]][k] \in Replies
         /\ failed'[a] = (failed[a] \/ ~s)
         /\ \/ /\ call[a].cmd = "LOGOUT" /\ pc'[a] = "out"
               /\ key' = [key EXCEPT ![a] = NoQueue]
               /\ cltq' = [cltq EXCEPT ![key[a]] = <<>>]
            \/ /\ call[a].cmd # "LOGOUT" /\ key' = key
               /\ cltq' = [cltq EXCEPT ![key[a]] = RemoveAt(cltq[key[a]], k)]
               /\ s /\ (call[a].cmd = "LOGIN" => cltq[key[a]][k].value = TRUE)
                    => pc'[a] = "idle"
  BY ReceiveFacts
<1>3. /\ pc[a] = "wait" /\ key[a] \in QueueId /\ job' = job /\ slvq' = slvq
      /\ \A d \in Client \ {a} : /\ pc'[d] = pc[d] /\ call'[d] = call[d]
                                 /\ key'[d] = key[d] /\ failed'[d] = failed[d]
      /\ pc'[a] \in {"out", "idle"}
  BY ReceiveFacts DEF dbVars
<1>4. /\ cltq \in [QueueId -> Seq(Message)] /\ key \in [Client -> Queue]
      /\ failed \in [Client -> BOOLEAN]
  BY DEF PosixType, AnswersType, KeysType, ClientsType
<1>5. CASE c # a
  <2>1. \A q \in QueueId : q # key[a] => cltq'[q] = cltq[q]
    BY <1>2, <1>4
  <2> QED
    BY <1>1, <1>3, <1>5, <2>1, OthersCall
<1>6. CASE c = a /\ ~failed'[c]
  <2> DEFINE m == cltq[key[a]][k]
  <2>1. ~failed[c] /\ m \in Replies
    BY <1>2, <1>6, Zenon
  <2>2. \/ /\ call[c].cmd = "LOGOUT" /\ pc'[c] = "out"
           /\ key' = [key EXCEPT ![c] = NoQueue]
           /\ cltq' = [cltq EXCEPT ![key[c]] = <<>>]
        \/ /\ call[c].cmd # "LOGOUT" /\ key' = key
           /\ cltq' = [cltq EXCEPT ![key[c]] = RemoveAt(cltq[key[c]], k)]
           /\ (call[c].cmd = "LOGIN" => m.value = TRUE) => pc'[c] = "idle"
    BY <1>2, <1>6, Zenon
  <2>3. InCall(c)
    BY <1>1, <1>3, <1>6, <2>1 DEF CallOf
  <2>4. ~NoReply(c)
    BY <1>2, <1>3, <1>6, <2>1 DEF NoReply, NoneIn, QueueId
  <2>5. Answered(c)
    BY <2>3, <2>4 DEF InCall, Queued, Served
  <2>6. m \in Fitting(c) /\ NoneIn(RemoveAt(cltq[key[c]], k), Replies)
    <3>1. /\ cltq[key[c]] \in Seq(Message) /\ k \in DOMAIN cltq[key[c]]
          /\ OneIn(cltq[key[c]], Replies, Fitting(c)) /\ cltq[key[c]][k] \in Replies
      BY <1>2, <1>3, <1>4, <1>6, <2>1, <2>5 DEF Answered, Replied
    <3> HIDE DEF m
    <3>2. cltq[key[c]][k] \in Fitting(c) /\ NoneIn(RemoveAt(cltq[key[c]], k), Replies)
      BY <3>1, RemoveOther
    <3> QED
      BY <1>6, <3>2 DEF m
  <2>7. m.cmd = call[c].cmd /\ (m.cmd = "LOGIN" => m.value = TRUE)
    BY <2>6 DEF Fitting, Fits
  <2> HIDE DEF m
  <2>8. CASE key' = [key EXCEPT ![c] = NoQueue] /\ pc'[c] = "out"
    <3>1. key'[c] = NoQueue
      BY <1>4, <2>8
    <3>2. Quiet(c)'
      BY <1>3, <2>5, <3>1 DEF Quiet, Answered, NotServed, NoReply, NoRequest, NoneIn, From
    <3> QED
      BY <1>6, <2>1, <2>5, <2>8, <3>1, <3>2 DEF CallOf
  <2>9. CASE key' = key /\ cltq' = [cltq EXCEPT ![key[c]] = RemoveAt(cltq[key[c]], k)]
             /\ pc'[c] = "idle"
    <3>1. key'[c] = key[c] /\ cltq'[key[c]] = RemoveAt(cltq[key[c]], k)
      BY <1>3, <1>4, <1>6, <2>9
    <3>2. NoReply(c)'
      BY <2>6, <3>1 DEF NoReply, NoneIn, Replies
    <3>3. NoRequest(c)' /\ NotServed(c)'
      BY <1>3, <2>5, <3>1 DEF Answered, NotServed, Serving, NoRequest, NoneIn, From
    <3> QED
      BY <1>6, <2>1, <2>5, <2>9, <3>2, <3>3 DEF CallOf, Quiet
  <2> QED
    BY <2>2, <2>7, <2>8, <2>9
<1>7. CASE c = a /\ failed'[c]
  BY <1>7 DEF CallOf
<1> QED
  BY <1>5, <1>6, <1>7

LEMMA CallStepInterrupt ==
  ASSUME PosixType, Keys, Calls, NEW a \in Client, Interrupt(a), NEW c \in Client
  PROVE  CallOf(c)'
<1>1. CallOf(c)
  BY DEF Calls
<1>2. /\ key[a] \in QueueId /\ job' = job /\ slvq' = slvq
      /\ \A d \in Client \ {a} : /\ pc'[d] = pc[d] /\ call'[d] = call[d]
                                 /\ key'[d] = key[d] /\ failed'[d] = failed[d]
      /\ \/ UNCHANGED <<pc, key, cltq, call, failed>>
         \/ failed'[a] /\ cltq' \in {cltq, [cltq EXCEPT ![key[a]] = <<>>]}
  BY InterruptFacts DEF dbVars
<1>3. CASE c # a
  <2>1. \A q \in QueueId : q # key[a] => cltq'[q] = cltq[q]
    BY <1>2 DEF PosixType, AnswersType
  <2> QED
    BY <1>1, <1>2, <1>3, <2>1, OthersCall
<1>4. CASE UNCHANGED <<pc, key, cltq, call, failed>>
  BY <1>1, <1>2, <1>4, CallKept, SameRequests, SameReplies, SameService DEF Served, Answered
<1>5. CASE c = a /\ failed'[c]
  BY <1>5 DEF CallOf
<1> QED
  BY <1>2, <1>3, <1>4, <1>5

LEMMA CallStepIdle ==
  ASSUME PosixType, Keys, Calls, NEW a \in Client, clt_ipc_receive(a), NEW c \in Client
  PROVE  CallOf(c)'
<1>1. CallOf(c)
  BY DEF Calls
<1>2. /\ pc[a] = "idle" /\ key[a] \in QueueId /\ cltq[key[a]] # <<>>
      /\ cltq' = [cltq EXCEPT ![key[a]] = Tail(@)]
      /\ UNCHANGED <<job, slvq, key, pc, call, failed>>
  BY IdleFacts DEF dbVars
<1>3. cltq \in [QueueId -> Seq(Message)]
  BY DEF PosixType, AnswersType
<1>4. CASE c # a
  <2>1. \A q \in QueueId : q # key[a] => cltq'[q] = cltq[q]
    BY <1>2, <1>3
  <2> QED
    BY <1>1, <1>2, <1>4, <2>1, OthersCall
<1>5. CASE c = a /\ ~failed[c]
  <2>1. Quiet(c)
    BY <1>1, <1>2, <1>5 DEF CallOf
  <2>2. NoneIn(cltq[key[a]], Replies)
    BY <1>2, <1>5, <2>1 DEF Quiet, NoReply, QueueId
  <2>3. cltq[key[a]] \in Seq(Message) /\ cltq'[key[a]] = Tail(cltq[key[a]])
    BY <1>2, <1>3
  <2>4. NoneIn(cltq'[key[a]], Replies)
    BY <1>2, <2>2, <2>3, TailOther
  <2>5. NoReply(c)'
    BY <1>2, <1>5, <2>4 DEF NoReply, NoneIn, Replies
  <2>6. NoRequest(c)' /\ NotServed(c)'
    BY <1>2, <2>1, SameRequests, SameService DEF Quiet
  <2> QED
    BY <1>2, <1>5, <2>5, <2>6 DEF CallOf, Quiet
<1>6. CASE c = a /\ failed[c]
  BY <1>2, <1>6 DEF CallOf
<1> QED
  BY <1>4, <1>5, <1>6

LEMMA CallStepCrash ==
  ASSUME PosixType, Keys, Calls, NEW a \in Client, Crash(a), NEW c \in Client
  PROVE  CallOf(c)'
<1>1. CallOf(c)
  BY DEF Calls
<1>2. /\ Up(a) /\ pc'[a] = "dead" /\ \A d \in Client \ {a} : pc'[d] = pc[d]
      /\ UNCHANGED <<job, slvq, cltq, key, call, failed>>
  BY CrashFacts DEF dbVars
<1>3. Quiet(c) => Quiet(c)'
  BY <1>2, SameRequests, SameReplies, SameService DEF Quiet
<1>4. InCall(c) => InCall(c)'
  BY <1>2, SameRequests, SameReplies, SameService DEF InCall, Queued, Served, Answered
<1> QED
  BY <1>1, <1>2, <1>3, <1>4 DEF CallOf, Up

LEMMA CallStepServe ==
  ASSUME Inv, BadVarLast, PosixType, Keys, Calls, Serve, NEW c \in Client
  PROVE  /\ CallOf(c)'
         /\ Head(slvq).clt # c => (NoRequest(c) <=> NoRequest(c)')
         /\ ~failed[c] /\ Head(slvq).clt = c =>
              /\ Queued(c) /\ Head(slvq) = call[c] /\ NoRequest(c)' /\ Served(c)'
<1> DEFINE r == Head(slvq)
           q == key[r.clt]
<1>1. CallOf(c)
  BY DEF Calls
<1>2. /\ slvq # <<>> /\ slvq' = Tail(slvq) /\ cltq' = cltq
      /\ r \in Requests /\ r.clt \in Client
      /\ job.at = "recv" /\ job'.at \in {"trig", "reply"} /\ job'.clt = q
      /\ job'.at = "trig" => r.cmd = "UPDATE"
      /\ job'.at = "reply" =>
           /\ job'.msg.cmd = r.cmd
           /\ r.cmd = "READ" => job'.msg.name \in {r.name, BadVar}
           /\ r.cmd = "LOGIN" => job'.msg.value = TRUE
  BY ServeFacts
<1>3. UNCHANGED <<key, pc, call, failed>>
  BY DEF Serve, cltVars
<1>4. slvq \in Seq(Requests)
  BY Typing
<1>5. NoReply(c) <=> NoReply(c)'
  BY <1>2, <1>3, SameReplies
<1>6. CASE r.clt # c
  <2>1. r \notin From(c)
    BY <1>6 DEF From
  <2>2. NoneIn(slvq, From(c)) <=> NoneIn(Tail(slvq), From(c))
    <3>1. NoneIn(slvq, From(c)) => NoneIn(Tail(slvq), From(c))
      BY <1>2, <1>4, TailOther
    <3>2. slvq[1] = r /\ \A l \in DOMAIN slvq : l # 1 =>
            l - 1 \in DOMAIN Tail(slvq) /\ Tail(slvq)[l - 1] = slvq[l]
      BY <1>2, <1>4
    <3> QED
      BY <2>1, <3>1, <3>2 DEF NoneIn
  <2>3. OneIn(slvq, From(c), {call[c]}) => OneIn(Tail(slvq), From(c), {call[c]})
    BY <1>2, <1>4, <2>1, TailOther
  <2>4. NoRequest(c) <=> NoRequest(c)'
    BY <1>2, <2>2 DEF NoRequest, NoneIn, From
  <2>5. Requested(c) => Requested(c)'
    BY <1>2, <1>3, <2>3 DEF Requested, OneIn, From
  <2>6. NotServed(c)'
    BY <1>2, <1>3, <1>6 DEF NotServed, Serving, Keys
  <2>7. ~Served(c)
    BY <1>2 DEF Served, Serving
  <2>8. Answered(c) => Replied(c)'
    BY <1>2, <1>3, SameReplies DEF Answered
  <2>9. CallOf(c)'
    BY <1>1, <1>3, <1>5, <2>4, <2>5, <2>6, <2>7, <2>8, CallKept
  <2> QED
    BY <1>6, <2>4, <2>9
<1>7. CASE r.clt = c /\ ~failed[c]
  <2>1. r \in From(c) /\ ~NoRequest(c)
    <3>1. 1 \in DOMAIN slvq /\ slvq[1] = r
      BY <1>2, <1>4
    <3> QED
      BY <1>2, <1>7, <3>1 DEF From, NoRequest, NoneIn
  <2>2. Queued(c) /\ pc[c] \in {"wait", "dead"}
    <3>1. pc[c] \in {"out", "idle", "send", "wait", "dead"}
      BY DEF PosixType, ClientsType
    <3> QED
      BY <1>1, <1>7, <2>1, <3>1 DEF CallOf, Quiet, InCall, Served, Answered
  <2>3. r = call[c] /\ NoneIn(Tail(slvq), From(c))
    <3>1. OneIn(slvq, From(c), {call[c]})
      BY <2>2 DEF Queued, Requested
    <3>2. Head(slvq) \in {call[c]} /\ NoneIn(Tail(slvq), From(c))
      BY <1>2, <1>4, <2>1, <3>1, TailOther
    <3> QED
      BY <3>2
  <2>4. NoRequest(c)' /\ NoReply(c)'
    BY <1>2, <1>5, <2>2, <2>3 DEF Queued, NoRequest, NoneIn, From
  <2>5. Serving(key[c])' /\ key[c] # NoQueue
    BY <1>2, <1>3, <1>7, <2>2 DEF Serving, Queued
  <2>6. job'.at = "reply" => Fits(job.msg, c)'
    BY <1>2, <1>3, <2>3 DEF Fits
  <2>7. Served(c)'
    BY <1>2, <1>3, <2>3, <2>4, <2>5, <2>6 DEF Served, Serving
  <2> QED
    BY <1>3, <1>7, <2>2, <2>3, <2>4, <2>7 DEF CallOf, InCall
<1>8. CASE r.clt = c /\ failed[c]
  BY <1>3, <1>8 DEF CallOf
<1> QED
  BY <1>6, <1>7, <1>8

LEMMA CallStepTrigger ==
  ASSUME Inv, PosixType, Keys, Calls, NEW q \in Queue, TriggerStep(q),
         UNCHANGED <<key, pc, call, failed>>, NEW c \in Client
  PROVE  CallOf(c)' /\ (Served(c) => Served(c)')
<1>1. CallOf(c)
  BY DEF Calls
<1>2. /\ job.at = "trig" /\ job'.at = "trig" /\ job'.clt = job.clt
      /\ Trigger(job.name) \in Message /\ Trigger(job.name) \notin Replies
  BY TriggerMessage
<1>3. slvq' = slvq
  BY DEF TriggerStep
<1>4. key[c] # NoQueue =>
        /\ NoneIn(cltq[key[c]], Replies) => NoneIn(cltq'[key[c]], Replies)
        /\ OneIn(cltq[key[c]], Replies, Fitting(c)) => OneIn(cltq'[key[c]], Replies, Fitting(c))
  <2>1. CASE cltq' = cltq
    BY <2>1
  <2>2. CASE cltq' # cltq
    <3>1. Exists(q) /\ HasRoom(q) /\ cltq' = [cltq EXCEPT ![q] = Append(@, Trigger(job.name))]
      BY <2>2 DEF TriggerStep
    <3>2. /\ cltq[q] \in Seq(Message) /\ cltq'[q] = Append(cltq[q], Trigger(job.name))
          /\ \A r \in QueueId \ {q} : cltq'[r] = cltq[r]
      BY <1>2, <3>1, AppendRoom
    <3>3. /\ NoneIn(cltq[q], Replies) => NoneIn(Append(cltq[q], Trigger(job.name)), Replies)
          /\ OneIn(cltq[q], Replies, Fitting(c))
               => OneIn(Append(cltq[q], Trigger(job.name)), Replies, Fitting(c))
      BY <1>2, <3>2, AppendOther
    <3> QED
      BY <3>2, <3>3, Typing DEF QueueId
  <2> QED
    BY <2>1, <2>2
<1>5. NoReply(c) => NoReply(c)'
  BY <1>4 DEF NoReply, NoneIn, Replies
<1>6. key[c] # NoQueue /\ Replied(c) => Replied(c)'
  BY <1>4 DEF Replied, OneIn, Replies, Fitting, Fits
<1>7. NoRequest(c) <=> NoRequest(c)'
  BY <1>3, SameRequests
<1>8. Requested(c) <=> Requested(c)'
  BY <1>3, SameRequests
<1>9. NotServed(c) <=> NotServed(c)'
  BY <1>2 DEF NotServed, Serving
<1>10. Served(c) => Served(c)'
  BY <1>2, <1>5, <1>7 DEF Served, Serving
<1> QED
  BY <1>1, <1>5, <1>6, <1>7, <1>8, <1>9, <1>10, CallKept DEF Answered

LEMMA CallStepUpdate ==
  ASSUME Inv, PosixType, Keys, Calls, EndUpdate, NEW c \in Client
  PROVE  CallOf(c)' /\ (Served(c) => Served(c)')
<1>1. CallOf(c)
  BY DEF Calls
<1>2. /\ UNCHANGED <<slvq, cltq, key, pc, call, failed>>
      /\ job.at = "trig"
      /\ job' = Replying(job.clt, [cmd |-> "UPDATE", name |-> BadVar, value |-> TRUE])
  BY DEF EndUpdate, UpdateDone, slv_bool_reply, queueVars, cltVars
<1>3. job'.at = "reply" /\ job'.clt = job.clt /\ job'.msg.cmd = "UPDATE"
  BY <1>2 DEF Replying
<1>4. NotServed(c) <=> NotServed(c)'
  BY <1>2, <1>3 DEF NotServed, Serving
<1>5. Served(c) => Served(c)'
  BY <1>2, <1>3, SameRequests, SameReplies DEF Served, Serving, Fits
<1> QED
  BY <1>1, <1>2, <1>4, <1>5, SameRequests, SameReplies, CallKept DEF Answered

LEMMA CallStepReply ==
  ASSUME Inv, PosixType, Keys, Calls, SendReply, NEW c \in Client
  PROVE  CallOf(c)'
<1>1. CallOf(c)
  BY DEF Calls
<1>2. /\ job.at = "reply" /\ job.msg \in Replies /\ job' = Receiving /\ slvq' = slvq
      /\ \/ /\ Exists(job.clt) /\ HasRoom(job.clt)
            /\ cltq' = [cltq EXCEPT ![job.clt] = Append(@, job.msg)]
         \/ ~Exists(job.clt) /\ cltq' = cltq
  BY ReplyFacts
<1>3. UNCHANGED <<key, pc, call, failed>>
  BY DEF SendReply, cltVars
<1>4. job'.at = "recv"
  BY <1>2 DEF Receiving
<1>5. /\ NoRequest(c) <=> NoRequest(c)'
      /\ Requested(c) <=> Requested(c)'
  BY <1>2, <1>3, SameRequests
<1>6. NotServed(c)'
  BY <1>4 DEF NotServed, Serving
<1>7. CASE ~Served(c) /\ NotServed(c)
  <2>1. key[c] # NoQueue => cltq'[key[c]] = cltq[key[c]]
    <3>1. key[c] # NoQueue => key[c] # job.clt /\ key[c] \in QueueId
      BY <1>2, <1>7, Typing DEF NotServed, Serving
    <3> QED
      BY <1>2, <3>1 DEF PosixType, AnswersType
  <2>2. /\ NoReply(c) <=> NoReply(c)'
        /\ key[c] # NoQueue => (Replied(c) <=> Replied(c)')
    BY <1>3, <2>1, SameReplies
  <2> QED
    BY <1>1, <1>3, <1>5, <1>6, <1>7, <2>2, CallKept DEF Answered
<1>8. CASE Served(c)
  <2>1. key[c] # NoQueue /\ job.clt = key[c] /\ Fits(job.msg, c) /\ NoReply(c)
    BY <1>2, <1>8 DEF Served, Serving
  <2>2. Exists(job.clt) /\ HasRoom(job.clt) /\ cltq' = [cltq EXCEPT ![job.clt] = Append(@, job.msg)]
    BY <1>2, <2>1 DEF Exists
  <2>3. job.msg \in Message /\ job.msg \in Replies \cap Fitting(c)
    BY <1>2, <2>1 DEF Replies, Fitting
  <2>4. cltq[job.clt] \in Seq(Message) /\ cltq'[job.clt] = Append(cltq[job.clt], job.msg)
    BY <2>2, <2>3, AppendRoom
  <2>5. OneIn(cltq'[key[c]], Replies, Fitting(c))
    BY <2>1, <2>3, <2>4, AppendFirst DEF NoReply
  <2>6. Replied(c)'
    BY <1>3, <2>5 DEF Replied, OneIn, Replies, Fitting, Fits
  <2>7. Answered(c)'
    BY <1>3, <1>5, <1>6, <1>8, <2>1, <2>6 DEF Answered, Served
  <2> QED
    BY <1>1, <1>3, <1>8, <2>7
       DEF CallOf, Quiet, InCall, Served, NotServed, PosixType, ClientsType
<1>9. CASE ~Served(c) /\ ~NotServed(c)
  BY <1>1, <1>3, <1>9 DEF CallOf, Quiet, InCall, Queued, Answered, PosixType, ClientsType
<1> QED
  BY <1>7, <1>8, <1>9

LEMMA CallsStep ==
  ASSUME Inv, BadVarLast, PosixType, Keys, Calls, [Next]_vars
  PROVE  Calls'
<1> SUFFICES ASSUME NEW c \in Client
             PROVE  CallOf(c)'
  BY DEF Calls
<1>1. ASSUME NEW a \in Client,
             \/ ClientCall(a) \/ SendRequest(a) \/ ReceiveReply(a)
             \/ Interrupt(a) \/ clt_ipc_receive(a) \/ Crash(a)
      PROVE  CallOf(c)'
  BY <1>1, CallStepCall, CallStepSend, CallStepReceive, CallStepInterrupt, CallStepIdle,
     CallStepCrash
<1>2. CASE Serve
  BY <1>2, CallStepServe
<1>3. ASSUME NEW q \in Queue, TriggerDelivered(q) \/ TriggerRefused(q) \/ TriggerStale(q)
      PROVE  CallOf(c)'
  <2>1. TriggerStep(q) /\ UNCHANGED <<key, pc, call, failed>>
    BY <1>3 DEF TriggerDelivered, TriggerRefused, TriggerStale, TriggerStep, queueVars, cltVars
  <2> QED
    BY <2>1, CallStepTrigger
<1>4. CASE EndUpdate \/ SendReply
  BY <1>4, CallStepUpdate, CallStepReply
<1>5. CASE UNCHANGED vars
  <2>1. UNCHANGED <<job, slvq, cltq, key, pc, call, failed>>
    BY <1>5 DEF vars, dbVars, queueVars, cltVars
  <2>2. CallOf(c)
    BY DEF Calls
  <2> QED
    BY <2>1, <2>2, CallKept, SameRequests, SameReplies, SameService DEF Served, Answered
<1> QED
  BY <1>1, <1>2, <1>3, <1>4, <1>5 DEF Next, ServerStep

-----------------------------------------------------------------------------
PosixInv == Inv /\ BadVarLast /\ WalkKnown /\ PosixType /\ Keys /\ Calls

LEMMA PosixInit == Init => PosixInv /\ Table!Init
<1> SUFFICES ASSUME Init
             PROVE  PosixInv /\ Table!Init
  OBVIOUS
<1>1. DbInit /\ slvq = <<>> /\ cltq = [q \in QueueId |-> <<>>]
      /\ key = [c \in Client |-> NoQueue] /\ made = {} /\ pc = [c \in Client |-> "out"]
      /\ call = [c \in Client |-> NoCall] /\ repeat = [c \in Client |-> 0] /\ slvRepeat = 0
      /\ failed = [c \in Client |-> FALSE] /\ backlog = [c \in Client |-> 0] /\ faults = 0
  BY DEF Init
<1>2. Inv /\ Table!Init /\ WalkKnown
  BY <1>1, InitInv, InitRefines
<1>3. BadVarLast /\ job.at = "recv" /\ pusr = <<>>
  BY <1>1 DEF DbInit, BadVarLast, NewEntry, Receiving
<1>4. RequestsType
  BY <1>1, RoomAssumption DEF RequestsType
<1>5. AnswersType
  BY <1>1, RoomAssumption DEF AnswersType
<1>6. KeysType /\ ClientsType /\ CountersType
  BY <1>1, QueueAssumption, RetryAssumption, FaultAssumption
     DEF KeysType, ClientsType, CountersType
<1>7. Keys
  BY <1>1, <1>3 DEF Keys
<1>8. Calls
  BY <1>1 DEF Calls, CallOf, Quiet, NoRequest, NotServed, NoReply, NoneIn
<1> QED
  BY <1>2, <1>3, <1>4, <1>5, <1>6, <1>7, <1>8 DEF PosixInv, PosixType

LEMMA PosixStep ==
  ASSUME PosixInv, [Next]_vars
  PROVE  PosixInv' /\ [Steps(Destroyable \ {BadVar})]_dbVars
<1>1. [Steps(Destroyable \ {BadVar})]_dbVars
  BY NextIsServerStep DEF PosixInv
<1>2. Inv'
  BY <1>1, StepKeepsInv DEF PosixInv
<1>3. BadVarLast'
  BY <1>1, BadVarStays DEF PosixInv
<1>4. WalkKnown'
  BY <1>1, <1>2, WalkStaysKnown DEF PosixInv
<1>5. PosixType' /\ Keys' /\ Calls'
  BY TypeStep, KeysStep, CallsStep DEF PosixInv
<1> QED
  BY <1>1, <1>2, <1>3, <1>4, <1>5 DEF PosixInv

LEMMA PosixInvariance == Spec => []PosixInv
<1>1. Init => PosixInv
  BY PosixInit
<1>2. PosixInv /\ [Next]_vars => PosixInv'
  BY PosixStep
<1> QED
  BY <1>1, <1>2, PTL DEF Spec

(***************************************************************************)
(* Whatever the clients ask, however their calls are interrupted and       *)
(* whichever crash, the queues hold only messages of their kinds and no    *)
(* more than there is room for, the retry counters stay within their limit,*)
(* and a client that is logged in has a queue (comm_init, comm_sync_send,  *)
(* comm_async_trig, comm_sync_reply).                                      *)
(***************************************************************************)
THEOREM QueuesStayTyped == Spec => []PosixTypeOK
<1>1. PosixInv => PosixTypeOK
  BY DEF PosixInv, Inv, ListInv, PosixType, RequestsType, AnswersType, KeysType, ClientsType,
         CountersType, PosixTypeOK, TypeOK, Up
<1> QED
  BY <1>1, PosixInvariance, PTL

(***************************************************************************)
(* With requests queued, calls interrupted, triggers refused and clients   *)
(* gone, the server still implements the table of variables: a whole       *)
(* request of the message queue is one of the table's operations, and the  *)
(* bad variable needs no assumption, since clt_destroy is never called for *)
(* it.                                                                     *)
(***************************************************************************)
THEOREM QueuedRequestsRefine == Spec => ImplementsVarTable
<1>1. Init => Table!Init
  BY PosixInit
<1>2. PosixInv /\ PosixInv' /\ [Next]_vars => [Table!Next]_(Table!vars)
  BY PosixStep, StepRefines DEF PosixInv
<1> QED
  BY <1>1, <1>2, PosixInvariance, PTL DEF Spec, ImplementsVarTable, Table!Spec

\* A client's requests, its replies and the server's work for it, counted.
LEMMA CountsOf ==
  ASSUME PosixInv, NEW c \in Client, key[c] # NoQueue
  PROVE  /\ Quiet(c) => Outstanding(c) = 0
         /\ InCall(c) => Outstanding(c) = 1
<1> DEFINE R == {k \in DOMAIN slvq : slvq[k] \in From(c)}
           A == {k \in DOMAIN cltq[key[c]] : cltq[key[c]][k] \in Replies}
           s == IF job.at \in {"trig", "reply"} /\ job.clt = key[c] THEN 1 ELSE 0
<1>1. slvq \in Seq(Requests) /\ cltq[key[c]] \in Seq(Message)
  BY Typing DEF PosixInv
<1>2. R = {k \in DOMAIN slvq : slvq[k].clt = c}
  <2>1. \A k \in DOMAIN slvq : slvq[k] \in Requests
    BY <1>1, ElementOfSeq
  <2> QED
    BY <2>1 DEF From
<1>3. A = {k \in DOMAIN cltq[key[c]] : IsReply(cltq[key[c]][k])}
  <2>1. \A k \in DOMAIN cltq[key[c]] : cltq[key[c]][k] \in Message
    BY <1>1, ElementOfSeq
  <2> QED
    BY <2>1 DEF Replies
<1>4. Outstanding(c) = Cardinality(R) + s + Cardinality(A)
  BY <1>2, <1>3 DEF Outstanding
<1>5. NoRequest(c) => Cardinality(R) = 0
  BY <1>1, Counted DEF NoRequest
<1>6. Requested(c) => Cardinality(R) = 1
  BY <1>1, Counted DEF Requested
<1>7. NoReply(c) => Cardinality(A) = 0
  BY <1>1, Counted DEF NoReply
<1>8. Replied(c) => Cardinality(A) = 1
  BY <1>1, Counted DEF Replied
<1>9. s = IF Serving(key[c]) THEN 1 ELSE 0
  BY DEF Serving
<1> HIDE DEF R, A, s
<1>10. NotServed(c) => s = 0
  BY <1>9 DEF NotServed
<1>11. Served(c) => s = 1 /\ NoRequest(c) /\ NoReply(c)
  BY <1>9 DEF Served
<1>12. Quiet(c) => Outstanding(c) = 0
  BY <1>4, <1>5, <1>7, <1>10 DEF Quiet
<1>13. InCall(c) => Outstanding(c) = 1
  BY <1>4, <1>5, <1>6, <1>7, <1>8, <1>10, <1>11 DEF InCall, Queued, Answered
<1> QED
  BY <1>12, <1>13

(***************************************************************************)
(* No answer is lost, duplicated or left behind for a later call while     *)
(* comm_sync_send has not failed the client, for any number of clients and *)
(* any interleaving of their calls: a waiting client has one request or    *)
(* reply in the system, another client none (comm_sync_send, slv_cmd,      *)
(* comm_sync_reply).                                                       *)
(***************************************************************************)
THEOREM AnswersAreNotLost == Spec => []OneAnswerPerCall
<1>1. PosixInv => OneAnswerPerCall
  <2> SUFFICES ASSUME PosixInv, NEW c \in Client, Up(c), ~failed[c]
               PROVE  Outstanding(c) = IF pc[c] = "wait" THEN 1 ELSE 0
    BY DEF OneAnswerPerCall
  <2>1. key[c] # NoQueue /\ CallOf(c) /\ pc[c] \in {"idle", "send", "wait"}
    BY DEF Up, PosixInv, PosixType, ClientsType, Calls
  <2>2. IF pc[c] = "wait" THEN InCall(c) ELSE Quiet(c)
    BY <2>1 DEF CallOf
  <2> QED
    BY <2>1, <2>2, CountsOf
<1> QED
  BY <1>1, PosixInvariance, PTL

(***************************************************************************)
(* The reply that msgrcv finds is the reply to the call that waits for it, *)
(* though it takes any message that is no trigger, and a read is about the *)
(* variable that was asked for or the bad one (comm_sync_send, clt_read).  *)
(***************************************************************************)
THEOREM AnswersBelongToCalls == Spec => []AnswersFitCalls
<1>1. PosixInv => AnswersFitCalls
  <2> SUFFICES ASSUME PosixInv, NEW c \in Client, pc[c] = "wait", ~failed[c],
                      FirstReply(key[c]) # 0
               PROVE  cltq[key[c]][FirstReply(key[c])] \in Fitting(c)
    BY DEF AnswersFitCalls, Fitting, Fits
  <2>1. key[c] # NoQueue /\ key[c] \in QueueId /\ InCall(c)
    BY Typing DEF PosixInv, PosixType, ClientsType, Calls, CallOf
  <2>2. cltq[key[c]] \in Seq(Message)
    BY <2>1, Typing DEF PosixInv
  <2>3. /\ FirstReply(key[c]) \in DOMAIN cltq[key[c]]
        /\ cltq[key[c]][FirstReply(key[c])] \in Replies
    BY <2>2, FirstReplyFound
  <2>4. Answered(c)
    BY <2>1, <2>3 DEF InCall, Queued, Served, NoReply, NoneIn
  <2> QED
    BY <2>3, <2>4 DEF Answered, Replied, OneIn
<1> QED
  BY <1>1, PosixInvariance, PTL

-----------------------------------------------------------------------------
(***************************************************************************)
(* The server's list of logins.                                            *)
(***************************************************************************)
LEMMA EnrolledKept ==
  ASSUME NEW c, pc'[c] = pc[c], call'[c] = call[c], NoRequest(c) <=> NoRequest(c)'
  PROVE  Enrolled(c) <=> Enrolled(c)'
BY DEF Enrolled

LEMMA LoginKept ==
  ASSUME NEW c, LoginOf(c), key'[c] = key[c], failed'[c] = failed[c],
         ~failed[c] /\ Up(c)' => Up(c) /\ (Enrolled(c) <=> Enrolled(c)'),
         OneIn(pusr, {key[c]}, {key[c]}) => OneIn(pusr', {key[c]}, {key[c]}),
         NoneIn(pusr, {key[c]}) => NoneIn(pusr', {key[c]})
  PROVE  LoginOf(c)'
<1>1. OneIn(pusr, {key[c]}, {key[c]})' <=> OneIn(pusr', {key[c]}, {key[c]})
  BY DEF OneIn
<1>2. NoneIn(pusr, {key[c]})' <=> NoneIn(pusr', {key[c]})
  BY DEF NoneIn
<1> QED
  BY <1>1, <1>2 DEF LoginOf

LEMMA LoginsOthers ==
  ASSUME PosixType, NEW c \in Client, NEW a \in Client \ {c}, LoginOf(c), pusr' = pusr,
         pc'[c] = pc[c], call'[c] = call[c], key'[c] = key[c], failed'[c] = failed[c],
         slvq' = slvq \/ \E r \in Requests : r.clt = a /\ slvq' = Append(slvq, r)
  PROVE  LoginOf(c)'
<1>1. NoRequest(c) <=> NoRequest(c)'
  BY SameRequests, OtherRequest
<1> QED
  BY <1>1, EnrolledKept, LoginKept DEF Up

\* The steps of client a, for its own login.
LEMMA LoginOwnStep ==
  ASSUME PosixInv, NEW a \in Client, LoginOf(a),
         \/ ClientCall(a) \/ SendRequest(a) \/ ReceiveReply(a)
         \/ Interrupt(a) \/ clt_ipc_receive(a) \/ Crash(a)
  PROVE  LoginOf(a)'
<1>1. PosixType /\ Keys /\ Calls /\ CallOf(a) /\ pusr \in Seq(Queue)
  BY DEF PosixInv, Calls, Inv
<1>2. CASE ClientCall(a) /\ ~failed[a]
  <2>1. /\ pusr' = pusr /\ failed' = failed
        /\ pc[a] \in {"out", "idle"} /\ pc'[a] = "send" /\ key'[a] # NoQueue
        /\ pc[a] = "out" <=> call'[a].cmd = "LOGIN"
        /\ \/ key' = key
           \/ pc[a] = "out" /\ key[a] = NoQueue /\ key'[a] \in QueueId \ made
    BY <1>1, <1>2, CallFacts
  <2>2. CASE pc[a] = "out"
    <3>1. key'[a] \in QueueId \ made /\ ~Enrolled(a)'
      BY <1>1, <1>2, <2>1, <2>2 DEF CallOf, Enrolled
    <3>2. NoneIn(pusr', {key'[a]})
      BY <1>1, <2>1, <3>1 DEF Keys, NoneIn, QueueId
    <3>3. NoneIn(pusr, {key[a]})'
      BY <3>2 DEF NoneIn
    <3> QED
      BY <3>1, <3>3 DEF LoginOf
  <2>3. CASE pc[a] = "idle"
    <3>1. Enrolled(a) /\ Enrolled(a)' /\ key' = key /\ Up(a)
      BY <2>1, <2>3 DEF Enrolled, Up
    <3> QED
      BY <2>1, <3>1, LoginKept
  <2> QED
    BY <2>1, <2>2, <2>3
<1>3. CASE SendRequest(a) /\ ~failed'[a]
  <2>1. /\ pc[a] = "send" /\ pusr' = pusr
        /\ pc'[a] = "wait" /\ key' = key /\ call' = call /\ failed' = failed
        /\ slvq' = Append(slvq, call[a]) /\ call[a] \in Requests /\ call[a].clt = a
    BY <1>1, <1>3, SendFacts DEF dbVars
  <2>2. ~NoRequest(a)'
    <3>1. slvq \in Seq(Requests)
      BY <1>1, Typing
    <3>2. Len(slvq) + 1 \in DOMAIN slvq' /\ slvq'[Len(slvq) + 1] \in From(a)
      BY <2>1, <3>1 DEF From
    <3> QED
      BY <3>2 DEF NoRequest, NoneIn, From
  <2>3. Enrolled(a) <=> Enrolled(a)'
    BY <2>1, <2>2 DEF Enrolled
  <2> QED
    BY <2>1, <2>3, LoginKept DEF Up
<1>4. CASE ReceiveReply(a) /\ ~failed'[a]
  <2>1. ~failed[a] /\ Answered(a)
    BY <1>1, <1>4, CallStepReceive
  <2>2. /\ pc[a] = "wait" /\ pusr' = pusr
        /\ \/ call[a].cmd = "LOGOUT" /\ pc'[a] = "out"
           \/ call[a].cmd # "LOGOUT" /\ key' = key
        /\ pc'[a] \in {"out", "idle"}
    BY <1>1, <1>4, ReceiveFacts DEF dbVars
  <2>3. CASE pc'[a] = "out"
    BY <2>3 DEF LoginOf, Up
  <2>4. CASE pc'[a] = "idle"
    <3>1. Enrolled(a) /\ Enrolled(a)' /\ Up(a) /\ key' = key
      BY <2>1, <2>2, <2>4 DEF Enrolled, Answered, Up
    <3>2. failed'[a] = failed[a]
      <4>1. failed[a] \in BOOLEAN /\ failed'[a] \in BOOLEAN
        BY <1>1, <1>4, ReceiveFacts DEF PosixType, ClientsType
      <4> QED
        BY <1>4, <2>1, <4>1
    <3> QED
      BY <2>2, <3>1, <3>2, LoginKept
  <2> QED
    BY <2>2, <2>3, <2>4
<1>5. CASE Interrupt(a) /\ ~failed'[a]
  <2>1. UNCHANGED <<pusr, slvq, pc, key, call, failed>>
    BY <1>1, <1>5, InterruptFacts DEF dbVars
  <2> QED
    BY <2>1, EnrolledKept, SameRequests, LoginKept DEF Up
<1>6. CASE clt_ipc_receive(a)
  <2>1. UNCHANGED <<pusr, slvq, pc, key, call, failed>>
    BY <1>1, <1>6, IdleFacts DEF dbVars
  <2> QED
    BY <2>1, EnrolledKept, SameRequests, LoginKept DEF Up
<1>7. CASE Crash(a)
  <2>1. ~Up(a)'
    BY <1>1, <1>7, CrashFacts DEF Up
  <2> QED
    BY <2>1 DEF LoginOf
<1>8. CASE failed'[a]
  BY <1>8 DEF LoginOf
<1>9. CASE ClientCall(a) /\ failed[a]
  <2>1. failed'[a]
    BY <1>1, <1>9, CallFacts
  <2> QED
    BY <2>1 DEF LoginOf
<1> QED
  BY <1>2, <1>3, <1>4, <1>5, <1>6, <1>7, <1>8, <1>9

LEMMA LoginServe ==
  ASSUME PosixInv, Serve, NEW c \in Client, LoginOf(c)
  PROVE  LoginOf(c)'
<1> DEFINE r == Head(slvq)
           q == key[r.clt]
<1>1. PosixType /\ Keys /\ Calls /\ CallOf(c) /\ pusr \in Seq(Queue) /\ Inv /\ BadVarLast
  BY DEF PosixInv, Calls, Inv
<1>2. /\ r \in Requests /\ r.clt \in Client /\ q \in Queue
      /\ \/ r.cmd = "LOGIN" /\ pusr' = Append(pusr, q)
         \/ /\ r.cmd = "LOGOUT"
            /\ \/ \E i \in DOMAIN pusr : pusr[i] = q /\ pusr' = RemoveAt(pusr, i)
               \/ (\A i \in DOMAIN pusr : pusr[i] # q) /\ pusr' = pusr
         \/ r.cmd \notin {"LOGIN", "LOGOUT"} /\ pusr' = pusr
  BY <1>1, ServeFacts
<1>3. UNCHANGED <<key, pc, call, failed>>
  BY DEF Serve, cltVars
<1> DEFINE One(s) == OneIn(s, {key[c]}, {key[c]})
           None(s) == NoneIn(s, {key[c]})
<1>4. CASE r.clt # c /\ key[c] # NoQueue
  <2>1. q \notin {key[c]}
    BY <1>1, <1>2, <1>4 DEF Keys
  <2> HIDE DEF q, r
  <2>2. (One(pusr) => One(pusr')) /\ (None(pusr) => None(pusr'))
    <3>1. CASE pusr' = Append(pusr, q)
      BY <1>1, <1>2, <2>1, <3>1, AppendOther
    <3>2. ASSUME NEW i \in DOMAIN pusr, pusr[i] = q, pusr' = RemoveAt(pusr, i)
          PROVE  (One(pusr) => One(pusr')) /\ (None(pusr) => None(pusr'))
      BY <1>1, <2>1, <3>2, RemoveOther
    <3>3. CASE pusr' = pusr
      BY <3>3
    <3> QED
      BY <1>2, <3>1, <3>2, <3>3
  <2>3. NoRequest(c) <=> NoRequest(c)'
    BY <1>1, <1>4, CallStepServe DEF r
  <2> QED
    BY <1>3, <2>2, <2>3, EnrolledKept, LoginKept DEF Up
<1>5. CASE r.clt = c /\ ~failed[c] /\ Up(c)
  <2>1. Queued(c) /\ r = call[c] /\ NoRequest(c)'
    BY <1>1, <1>5, CallStepServe
  <2>2. pc[c] = "wait" /\ ~NoRequest(c) /\ q = key[c]
    <3>1. ~Quiet(c) /\ ~NoRequest(c)
      BY <2>1 DEF Queued, Quiet, Requested, OneIn, NoRequest, NoneIn
    <3> QED
      BY <1>1, <1>5, <3>1 DEF Up, CallOf
  <2>3. Enrolled(c) <=> r.cmd # "LOGIN"
    BY <2>1, <2>2 DEF Enrolled
  <2>4. Enrolled(c)' <=> r.cmd # "LOGOUT"
    BY <1>3, <2>1, <2>2 DEF Enrolled
  <2> HIDE DEF q, r
  <2>5. IF r.cmd = "LOGIN" THEN None(pusr) ELSE One(pusr)
    BY <1>5, <2>3 DEF LoginOf
  <2>6. IF r.cmd = "LOGOUT" THEN None(pusr') ELSE One(pusr')
    <3>1. CASE r.cmd = "LOGIN"
      <4>1. pusr' = Append(pusr, q) /\ q \in {key[c]} \cap {key[c]}
        BY <1>2, <2>2, <3>1
      <4> QED
        BY <1>1, <1>2, <2>5, <3>1, <4>1, AppendFirst
    <3>2. CASE r.cmd = "LOGOUT"
      <4>1. ASSUME NEW i \in DOMAIN pusr, pusr[i] = q, pusr' = RemoveAt(pusr, i)
            PROVE  None(pusr')
        <5>1. One(pusr) /\ pusr[i] \in {key[c]}
          BY <2>2, <2>5, <3>2, <4>1
        <5> QED
          BY <1>1, <4>1, <5>1, RemoveOther
      <4>2. ASSUME \A i \in DOMAIN pusr : pusr[i] # q, pusr' = pusr
            PROVE  None(pusr')
        BY <2>2, <4>2 DEF NoneIn
      <4> QED
        BY <1>2, <3>2, <4>1, <4>2
    <3>3. CASE r.cmd \notin {"LOGIN", "LOGOUT"}
      BY <1>2, <2>5, <3>3
    <3> QED
      BY <3>1, <3>2, <3>3
  <2>7. One(pusr)' <=> One(pusr')
    BY <1>3 DEF OneIn
  <2>8. None(pusr)' <=> None(pusr')
    BY <1>3 DEF NoneIn
  <2> QED
    BY <2>4, <2>6, <2>7, <2>8 DEF LoginOf
<1>6. CASE failed[c] \/ ~Up(c)
  BY <1>3, <1>6 DEF LoginOf, Up
<1>7. Up(c) => key[c] # NoQueue
  BY <1>1 DEF Up, PosixType, ClientsType
<1> QED
  BY <1>4, <1>5, <1>6, <1>7

\* failed is never taken back.
LEMMA FailedStays ==
  ASSUME PosixInv, [Next]_vars, NoneFailed'
  PROVE  NoneFailed
<1>1. PosixType /\ Keys /\ failed \in [Client -> BOOLEAN]
  BY DEF PosixInv, PosixType, ClientsType
<1>2. ASSUME NEW a \in Client, ReceiveReply(a)
      PROVE  NoneFailed
  <2>1. ~failed[a] /\ \A d \in Client \ {a} : failed'[d] = failed[d]
    BY <1>1, <1>2, CallStepReceive, ReceiveFacts DEF NoneFailed, PosixInv
  <2> QED
    BY <2>1 DEF NoneFailed
<1>3. ASSUME NEW a \in Client,
             \/ ClientCall(a) \/ SendRequest(a) \/ Interrupt(a)
             \/ clt_ipc_receive(a) \/ Crash(a)
      PROVE  NoneFailed
  <2>1. failed' = failed \/ failed'[a]
    BY <1>1, <1>3, CallFacts, SendFacts, InterruptFacts, IdleFacts, CrashFacts
  <2> QED
    BY <2>1 DEF NoneFailed
<1>4. CASE ServerStep
  BY <1>4, ServerFacts DEF NoneFailed
<1>5. CASE UNCHANGED vars
  BY <1>5 DEF vars, cltVars, NoneFailed
<1> QED
  BY <1>2, <1>3, <1>4, <1>5 DEF Next

LEMMA LoginOfStep ==
  ASSUME PosixInv, Logins, [Next]_vars, NEW c \in Client
  PROVE  LoginOf(c)'
<1>1. PosixType /\ Keys /\ Calls /\ Inv /\ LoginOf(c)
  BY DEF PosixInv, Logins
<1>2. ASSUME NEW a \in Client,
             \/ ClientCall(a) \/ SendRequest(a) \/ ReceiveReply(a)
             \/ Interrupt(a) \/ clt_ipc_receive(a) \/ Crash(a)
      PROVE  LoginOf(c)'
  <2>1. CASE c = a
    BY <1>1, <1>2, <2>1, LoginOwnStep
  <2>2. CASE c # a
    <3>1. pc'[c] = pc[c] /\ call'[c] = call[c] /\ key'[c] = key[c] /\ failed'[c] = failed[c]
      <4>0. c \in Client \ {a}
        BY <2>2
      <4>1. CASE ClientCall(a)
        BY <1>1, <4>0, <4>1, CallFacts
      <4>2. CASE SendRequest(a)
        BY <1>1, <4>0, <4>2, SendFacts
      <4>3. CASE ReceiveReply(a)
        BY <1>1, <4>0, <4>3, ReceiveFacts
      <4>4. CASE Interrupt(a)
        BY <1>1, <4>0, <4>4, InterruptFacts
      <4>5. CASE clt_ipc_receive(a)
        BY <1>1, <4>5, IdleFacts
      <4>6. CASE Crash(a)
        BY <1>1, <4>0, <4>6, CrashFacts
      <4> QED
        BY <1>2, <4>1, <4>2, <4>3, <4>4, <4>5, <4>6
    <3>2. /\ pusr' = pusr
          /\ slvq' = slvq \/ \E r \in Requests : r.clt = a /\ slvq' = Append(slvq, r)
      <4>1. CASE SendRequest(a)
        BY <1>1, <4>1, SendFacts DEF dbVars
      <4>2. CASE ~SendRequest(a)
        BY <1>1, <1>2, <4>2, CallFacts, ReceiveFacts, InterruptFacts, IdleFacts, CrashFacts
           DEF dbVars
      <4> QED
        BY <4>1, <4>2
    <3> QED
      BY <1>1, <2>2, <3>1, <3>2, LoginsOthers
  <2> QED
    BY <2>1, <2>2
<1>3. CASE Serve
  BY <1>1, <1>3, LoginServe
<1>4. CASE ServerStep /\ ~Serve
  <2>1. UNCHANGED <<pc, call, key, failed>>
    BY <1>4, ServerFacts
  <2>2. slvq' = slvq /\ pusr' = pusr
    BY <1>4 DEF ServerStep, TriggerDelivered, TriggerRefused, TriggerStale, TrigSent, TrigFailed,
                EndUpdate, UpdateDone, SendReply, ReplyDone, queueVars, dbVars
  <2> QED
    BY <1>1, <2>1, <2>2, SameRequests, EnrolledKept, LoginKept DEF Up
<1>5. CASE UNCHANGED vars
  <2>1. UNCHANGED <<pc, call, key, failed, slvq, pusr>>
    BY <1>5 DEF vars, dbVars, queueVars, cltVars
  <2> QED
    BY <1>1, <2>1, SameRequests, EnrolledKept, LoginKept DEF Up
<1> QED
  BY <1>2, <1>3, <1>4, <1>5 DEF Next

\* Without failed calls, a login is always for a queue that exists.
LEMMA EntriesStep ==
  ASSUME PosixInv, Logins, [Next]_vars, NoneFailed'
  PROVE  \A i \in DOMAIN pusr' : Exists(pusr[i])'
<1>1. /\ PosixType /\ Keys /\ Calls /\ Inv /\ BadVarLast
      /\ pusr \in Seq(Queue) /\ key \in [Client -> Queue]
  BY DEF PosixInv, Inv, PosixType, KeysType
<1>2. \A i \in DOMAIN pusr : pusr[i] # NoQueue /\ \E d \in Client : key[d] = pusr[i]
  BY FailedStays DEF Logins, Exists
<1>3. SUFFICES \A i \in DOMAIN pusr' : pusr'[i] # NoQueue /\ \E d \in Client : key'[d] = pusr'[i]
  BY DEF Exists
<1>4. ASSUME NEW a \in Client, ClientCall(a)
      PROVE  \A i \in DOMAIN pusr' : pusr'[i] # NoQueue /\ \E d \in Client : key'[d] = pusr'[i]
  <2>1. /\ pusr' = pusr /\ \A d \in Client \ {a} : key'[d] = key[d]
        /\ key' = key \/ key[a] = NoQueue
    BY <1>1, <1>4, CallFacts
  <2> QED
    BY <1>2, <2>1
<1>5. ASSUME NEW a \in Client, ReceiveReply(a)
      PROVE  \A i \in DOMAIN pusr' : pusr'[i] # NoQueue /\ \E d \in Client : key'[d] = pusr'[i]
  <2>1. /\ pusr' = pusr /\ \A d \in Client \ {a} : key'[d] = key[d] /\ pc[a] = "wait"
        /\ call[a].cmd = "LOGOUT" \/ key' = key
    BY <1>1, <1>5, ReceiveFacts DEF dbVars
  <2>2. ~failed[a] /\ Answered(a)
    BY <1>1, <1>5, CallStepReceive DEF NoneFailed
  <2>3. CASE key' = key
    BY <1>2, <2>1, <2>3
  <2>4. CASE call[a].cmd = "LOGOUT"
    <3>1. pc[a] = "wait" /\ Up(a) /\ ~Enrolled(a)
      BY <1>5, <2>2, <2>4, ReceiveFacts, <1>1 DEF Enrolled, Answered, Up
    <3>2. NoneIn(pusr, {key[a]})
      BY <2>2, <3>1 DEF Logins, LoginOf
    <3>3. \A i \in DOMAIN pusr : pusr[i] # key[a]
      BY <3>2 DEF NoneIn
    <3> QED
      BY <1>2, <2>1, <3>3
  <2> QED
    BY <2>1, <2>3, <2>4
<1>6. ASSUME NEW a \in Client, SendRequest(a) \/ Interrupt(a)
      PROVE  pusr' = pusr /\ key' = key
  <2>1. pusr' = pusr /\ (key' = key \/ failed'[a])
    BY <1>1, <1>6, SendFacts, InterruptFacts DEF dbVars
  <2> QED
    BY <2>1 DEF NoneFailed
<1>7. ASSUME NEW a \in Client, clt_ipc_receive(a) \/ Crash(a)
      PROVE  pusr' = pusr /\ key' = key
  BY <1>1, <1>7, IdleFacts, CrashFacts DEF dbVars
<1>8. CASE Serve
  <2> DEFINE a == Head(slvq).clt
  <2>1. /\ a \in Client /\ key' = key
        /\ \/ pusr' = Append(pusr, key[a])
           \/ \E i \in DOMAIN pusr : pusr' = RemoveAt(pusr, i)
           \/ pusr' = pusr
    BY <1>1, <1>8, ServeFacts DEF Serve
  <2>2. key[a] # NoQueue
    <3>1. ~failed[a]
      BY <2>1, FailedStays DEF NoneFailed
    <3>2. Queued(a)
      BY <1>1, <1>8, <2>1, <3>1, CallStepServe
    <3> QED
      BY <3>2 DEF Queued
  <2> HIDE DEF a
  <2>3. CASE pusr' = Append(pusr, key[a])
    BY <1>1, <1>2, <2>1, <2>2, <2>3
  <2>4. ASSUME NEW i \in DOMAIN pusr, pusr' = RemoveAt(pusr, i)
        PROVE  \A j \in DOMAIN pusr' : \E l \in DOMAIN pusr : pusr'[j] = pusr[l]
    <3>1. /\ Len(pusr') = Len(pusr) - 1 /\ pusr' \in Seq(Queue)
          /\ \A j \in 1 .. Len(pusr) - 1 : pusr'[j] = IF j < i THEN pusr[j] ELSE pusr[j + 1]
      BY <1>1, <2>4, RemoveAtFacts
    <3> QED
      BY <1>1, <3>1
  <2> QED
    BY <1>2, <2>1, <2>3, <2>4
<1>9. CASE ServerStep /\ ~Serve
  <2>1. pusr' = pusr
    BY <1>9 DEF ServerStep, TriggerDelivered, TriggerRefused, TriggerStale, TrigSent, TrigFailed,
                EndUpdate, UpdateDone, SendReply, ReplyDone, dbVars
  <2> QED
    BY <1>2, <1>9, <2>1, ServerFacts
<1>10. CASE UNCHANGED vars
  BY <1>2, <1>10 DEF vars, dbVars, queueVars
<1> QED
  BY <1>2, <1>4, <1>5, <1>6, <1>7, <1>8, <1>9, <1>10 DEF Next

LEMMA LoginsInvariance == Spec => []Logins
<1>1. Init => Logins
  BY DEF Init, DbInit, Logins, LoginOf, Up
<1>2. PosixInv /\ Logins /\ [Next]_vars => Logins'
  <2> SUFFICES ASSUME PosixInv, Logins, [Next]_vars
               PROVE  Logins'
    OBVIOUS
  <2>1. \A c \in Client : LoginOf(c)'
    BY LoginOfStep
  <2>2. NoneFailed' => \A i \in DOMAIN pusr' : Exists(pusr[i])'
    BY EntriesStep
  <2> QED
    BY <2>1, <2>2 DEF Logins
<1> QED
  BY <1>1, <1>2, PosixInvariance, PTL DEF Spec

(***************************************************************************)
(* As long as no call has failed, the server's list of logins and the      *)
(* clients' sessions agree, though a login is recorded when its request is *)
(* served and a session begins and ends when the answer is read, with the  *)
(* requests and answers of others in between: a client between calls is    *)
(* listed once and no entry outlives its queue (slv_clt_add, slv_clt_rm,   *)
(* comm_init, comm_cleanup).                                               *)
(***************************************************************************)
THEOREM SessionsAreListed == Spec => []LoginsAgree
<1>1. PosixInv /\ Logins => LoginsAgree
  <2> SUFFICES ASSUME PosixInv, Logins, \A c \in Client : ~failed[c]
               PROVE  /\ \A c \in Client : pc[c] = "idle" =>
                           Cardinality({i \in DOMAIN pusr : pusr[i] = key[c]}) = 1
                      /\ \A i \in DOMAIN pusr : Exists(pusr[i])
    BY DEF LoginsAgree
  <2>1. \A i \in DOMAIN pusr : Exists(pusr[i])
    BY DEF Logins, NoneFailed
  <2>2. ASSUME NEW c \in Client, pc[c] = "idle"
        PROVE  Cardinality({i \in DOMAIN pusr : pusr[i] = key[c]}) = 1
    <3>1. OneIn(pusr, {key[c]}, {key[c]})
      BY <2>2 DEF Logins, LoginOf, Enrolled, Up
    <3>2. Cardinality({i \in DOMAIN pusr : pusr[i] \in {key[c]}}) = 1
      BY <3>1, Counted DEF PosixInv, Inv
    <3>3. {i \in DOMAIN pusr : pusr[i] \in {key[c]}} = {i \in DOMAIN pusr : pusr[i] = key[c]}
      OBVIOUS
    <3> QED
      BY <3>2, <3>3
  <2> QED
    BY <2>1, <2>2
<1> QED
  BY <1>1, PosixInvariance, LoginsInvariance, PTL

-----------------------------------------------------------------------------
(***************************************************************************)
(* How long a client's queue gets while it waits.                          *)
(***************************************************************************)
LEMMA PendingIs ==
  ASSUME PosixInv, NEW c \in Client, ~failed[c], Pending(c)
  PROVE  Queued(c) \/ Served(c)
BY DEF Pending, PosixInv, PosixType, ClientsType, Calls, CallOf, Quiet, InCall, Answered

LEMMA BeforeIsFinite ==
  /\ \A c \in Client : Before(c) \subseteq Client
  /\ \A S \in SUBSET Client : /\ IsFiniteSet(S) /\ Cardinality(S) \in Nat
                              /\ Cardinality(S) <= Cardinality(Client)
BY ClientAssumption, FS_Subset, FS_CardinalityType DEF Before, Ahead, Waking

\* A step after which no more clients can trigger c, and its queue is no longer.
LEMMA BacklogKept ==
  ASSUME PosixInv, PosixInv', NEW c \in Client, BacklogOf(c),
         key[c] # NoQueue, key'[c] = key[c], cltq'[key[c]] = cltq[key[c]],
         backlog'[c] = backlog[c], Ahead(c)' \subseteq Before(c), Waking(c)' \subseteq Before(c)
  PROVE  BacklogOf(c)'
<1>1. Before(c)' \subseteq Before(c)
  BY DEF Before
<1>2. Before(c) \subseteq Client /\ Before(c)' \subseteq Client
  BY BeforeIsFinite, <1>1
<1>3. /\ Cardinality(Before(c)) \in Nat /\ Cardinality(Before(c)') \in Nat
      /\ Cardinality(Before(c)') <= Cardinality(Before(c)) /\ Cardinality(Client) \in Nat
  BY <1>1, <1>2, BeforeIsFinite, ClientAssumption, FS_Subset, FS_CardinalityType
<1>4. cltq[key[c]] \in Seq(Message) /\ backlog[c] \in Nat
  BY Typing DEF PosixInv, PosixType, CountersType
<1>5. Len(cltq[key[c]]) \in Nat
  BY <1>4
<1> HIDE DEF Before
<1> QED
  BY <1>3, <1>4, <1>5 DEF BacklogOf

\* While the server works on a request, no change of a client's key makes it the
\* one that is served.
LEMMA WakingKept ==
  ASSUME PosixInv, NEW c \in Client, UNCHANGED dbVars, key'[c] = key[c],
         job.at \in {"trig", "reply"} => \E d \in Client : Served(d),
         \A d \in Client : key'[d] \in {key[d], NoQueue} \/ key'[d] \notin made
  PROVE  Waking(c)' \subseteq Waking(c)
<1> SUFFICES ASSUME NEW d \in Client, job.at = "trig", job.clt = key'[d], key[c] \in Untold
             PROVE  job.clt = key[d]
  <2>1. job' = job /\ Untold' = Untold
    BY DEF dbVars, Untold, Place
  <2> QED
    BY <2>1 DEF Waking
<1>1. PICK e \in Client : Served(e)
  OBVIOUS
<1>2. job.clt = key[e] /\ key[e] # NoQueue /\ key[e] \in made
  BY <1>1 DEF Served, Serving, PosixInv, Keys
<1> QED
  BY <1>2

\* Who is ahead of c in the server's queue changes only with c's own request.
LEMMA AheadKept ==
  ASSUME PosixInv, NEW c \in Client,
         slvq' = slvq \/ \E r \in Requests : r.clt # c /\ slvq' = Append(slvq, r)
  PROVE  Ahead(c)' \subseteq Ahead(c)
<1>1. slvq \in Seq(Requests)
  BY Typing DEF PosixInv
<1>2. CASE slvq' = slvq
  BY <1>2 DEF Ahead
<1>3. ASSUME NEW r \in Requests, r.clt # c, slvq' = Append(slvq, r)
      PROVE  Ahead(c)' \subseteq Ahead(c)
  <2>1. /\ Len(slvq') = Len(slvq) + 1 /\ slvq' \in Seq(Requests) /\ Len(slvq) \in Nat
        /\ \A k \in 1 .. Len(slvq) : slvq'[k] = slvq[k]
        /\ slvq'[Len(slvq) + 1] = r
    BY <1>1, <1>3
  <2>2. ASSUME NEW k \in DOMAIN slvq', slvq'[k].clt = c
        PROVE  k \in DOMAIN slvq /\ slvq[k].clt = c /\ \A l \in 1 .. k : slvq'[l] = slvq[l]
    BY <1>1, <1>3, <2>1, <2>2
  <2> QED
    BY <2>2 DEF Ahead
<1> QED
  BY <1>2, <1>3

LEMMA BacklogOthers ==
  ASSUME PosixInv, PosixInv', Backlogs, NoneFailed, NoneFailed',
         NEW c \in Client, NEW a \in Client \ {c}, Pending(c)',
         UNCHANGED dbVars, call'[c] = call[c], key'[c] = key[c], backlog'[c] = backlog[c],
         slvq' = slvq \/ \E r \in Requests : r.clt = a /\ slvq' = Append(slvq, r),
         \A d \in Client : key'[d] \in {key[d], NoQueue} \/ key'[d] \notin made,
         \A q \in QueueId : q = key[c] => cltq'[q] = cltq[q]
  PROVE  BacklogOf(c)'
<1>1. /\ NoRequest(c) <=> NoRequest(c)'
      /\ NotServed(c) <=> NotServed(c)'
  BY SameRequests, OtherRequest, SameService DEF PosixInv, dbVars
<1>2. Pending(c) /\ BacklogOf(c)
  BY <1>1 DEF Pending, Backlogs
<1>3. key[c] # NoQueue /\ key[c] \in QueueId
  BY <1>2, PendingIs, Typing DEF NoneFailed, Queued, Served, PosixInv
<1>4. Ahead(c)' \subseteq Ahead(c)
  BY AheadKept
<1>5. Waking(c)' \subseteq Waking(c)
  BY WakingKept DEF Backlogs
<1> QED
  BY <1>2, <1>3, <1>4, <1>5, BacklogKept DEF Before

\* The own steps of a client after which it has no call, or a new one.
LEMMA NotPending ==
  ASSUME PosixInv', NEW c \in Client, ~failed'[c], pc'[c] \in {"out", "idle", "send"}
  PROVE  ~Pending(c)'
BY DEF PosixInv, Calls, CallOf, Quiet, Pending

LEMMA BacklogClient ==
  ASSUME PosixInv, PosixInv', Backlogs, NoneFailed, NoneFailed', NEW c \in Client, Pending(c)',
         NEW a \in Client,
         \/ ClientCall(a) \/ SendRequest(a) \/ ReceiveReply(a)
         \/ Interrupt(a) \/ clt_ipc_receive(a) \/ Crash(a)
  PROVE  BacklogOf(c)'
<1>1. /\ PosixType /\ Keys /\ Calls
      /\ cltq \in [QueueId -> Seq(Message)] /\ key \in [Client -> Queue]
  BY DEF PosixInv, PosixType, AnswersType, KeysType
<1>2. ~failed[a] /\ ~failed'[a] /\ ~failed[c] /\ ~failed'[c]
  BY DEF NoneFailed
<1>3. key[c] = key[a] /\ key[c] # NoQueue => c = a
  BY <1>1 DEF Keys
<1>4. CASE ClientCall(a)
  <2>1. /\ UNCHANGED <<slvq, cltq, backlog>> /\ pc'[a] = "send"
        /\ \A d \in Client \ {a} : call'[d] = call[d] /\ key'[d] = key[d]
        /\ key' = key \/ key'[a] \notin made
    BY <1>1, <1>4, CallFacts
  <2>2. UNCHANGED dbVars
    BY <1>4 DEF ClientCall, clt_login, clt_call, BeginSend
  <2>3. c # a
    BY <1>2, <2>1, NotPending
  <2>4. a \in Client \ {c} /\ call'[c] = call[c] /\ key'[c] = key[c] /\ backlog'[c] = backlog[c]
    BY <2>1, <2>3
  <2>5. \A d \in Client : key'[d] \in {key[d], NoQueue} \/ key'[d] \notin made
    BY <2>1
  <2> QED
    BY <2>1, <2>2, <2>4, <2>5, BacklogOthers
<1>5. CASE SendRequest(a)
  <2>1. /\ UNCHANGED dbVars /\ key' = key /\ cltq' = cltq /\ call' = call
        /\ slvq' = Append(slvq, call[a]) /\ call[a] \in Requests /\ call[a].clt = a
        /\ \A d \in Client \ {a} : backlog'[d] = backlog[d]
        /\ backlog'[a] = Len(cltq[key[a]])
    BY <1>1, <1>2, <1>5, SendFacts
  <2>2. CASE c # a
    <3>1. a \in Client \ {c} /\ backlog'[c] = backlog[c]
      BY <2>1, <2>2
    <3> QED
      BY <2>1, <3>1, BacklogOthers
  <2>3. CASE c = a
    <3>1. Before(c)' \subseteq Client
      BY DEF Before, Ahead, Waking
    <3>2. /\ Cardinality(Before(c)') <= Cardinality(Client)
          /\ Cardinality(Before(c)') \in Nat /\ Cardinality(Client) \in Nat
      BY <3>1, BeforeIsFinite
    <3>3. key[a] \in QueueId /\ cltq[key[a]] \in Seq(Message)
      BY <1>1, <1>5, SendFacts, Typing
    <3>4. Len(cltq[key[a]]) \in Nat
      BY <3>3
    <3> QED
      BY <2>1, <2>3, <3>2, <3>4 DEF BacklogOf
  <2> QED
    BY <2>2, <2>3
<1>6. CASE ReceiveReply(a)
  <2>1. c # a
    BY <1>1, <1>2, <1>6, CallStepReceive DEF Pending, Quiet
  <2>2. /\ UNCHANGED <<dbVars, slvq>> /\ pc[a] = "wait" /\ key[a] \in QueueId
        /\ \A d \in Client \ {a} : /\ call'[d] = call[d] /\ key'[d] = key[d]
                                   /\ backlog'[d] = backlog[d]
        /\ key'[a] \in {key[a], NoQueue}
        /\ \E s : cltq' = [cltq EXCEPT ![key[a]] = s]
    <3>1. PICK k : \/ /\ key' = [key EXCEPT ![a] = NoQueue]
                      /\ cltq' = [cltq EXCEPT ![key[a]] = <<>>]
                   \/ /\ key' = key
                      /\ cltq' = [cltq EXCEPT ![key[a]] = RemoveAt(cltq[key[a]], k)]
      BY <1>1, <1>6, ReceiveFacts
    <3>2. \E s : cltq' = [cltq EXCEPT ![key[a]] = s]
      BY <3>1
    <3>3. key'[a] \in {key[a], NoQueue}
      BY <1>1, <3>1
    <3> QED
      BY <1>1, <1>6, <3>2, <3>3, ReceiveFacts
  <2>3. \A q \in QueueId : q = key[c] => cltq'[q] = cltq[q]
    BY <1>1, <1>3, <2>1, <2>2 DEF QueueId
  <2>4. a \in Client \ {c} /\ call'[c] = call[c] /\ key'[c] = key[c] /\ backlog'[c] = backlog[c]
    BY <2>1, <2>2
  <2>5. \A d \in Client : key'[d] \in {key[d], NoQueue} \/ key'[d] \notin made
    BY <2>2
  <2> QED
    BY <2>2, <2>3, <2>4, <2>5, BacklogOthers
<1>7. CASE clt_ipc_receive(a)
  <2>1. /\ pc[a] = "idle" /\ cltq' = [cltq EXCEPT ![key[a]] = Tail(@)]
        /\ UNCHANGED <<dbVars, slvq, key, pc, call, backlog>>
    BY <1>1, <1>7, IdleFacts
  <2>2. c # a
    BY <1>2, <2>1, NotPending
  <2>3. \A q \in QueueId : q = key[c] => cltq'[q] = cltq[q]
    BY <1>1, <1>3, <2>1, <2>2 DEF QueueId
  <2>4. a \in Client \ {c}
    BY <2>2
  <2> QED
    BY <2>1, <2>3, <2>4, BacklogOthers
<1>8. CASE Interrupt(a) \/ Crash(a)
  <2>1. UNCHANGED <<dbVars, slvq, cltq, key, call, backlog>>
    BY <1>1, <1>2, <1>8, InterruptFacts, CrashFacts
  <2>2. NoRequest(c)' = NoRequest(c) /\ NotServed(c)' = NotServed(c)
    BY <2>1 DEF NoRequest, NoneIn, From, NotServed, Serving, dbVars
  <2>3. Ahead(c)' = Ahead(c) /\ Waking(c)' = Waking(c)
    BY <2>1 DEF Ahead, Waking, Untold, Place, dbVars
  <2> QED
    BY <2>1, <2>2, <2>3 DEF Pending, Backlogs, BacklogOf, Before
<1> QED
  BY <1>4, <1>5, <1>6, <1>7, <1>8

LEMMA BacklogServe ==
  ASSUME PosixInv, PosixInv', Backlogs, NoneFailed, Serve, NEW c \in Client, Pending(c)'
  PROVE  BacklogOf(c)'
<1>1. PosixType /\ Keys /\ Calls /\ Inv /\ BadVarLast /\ ~failed[c]
  BY DEF PosixInv, NoneFailed
<1>0. PICK a \in Client : a = Head(slvq).clt
  BY <1>1, ServeFacts
<1>2. /\ slvq # <<>> /\ slvq' = Tail(slvq) /\ cltq' = cltq
      /\ job.at = "recv" /\ job'.clt = key[a]
  BY <1>0, <1>1, ServeFacts
<1>3. UNCHANGED <<key, pc, call, failed, backlog>>
  BY DEF Serve, cltVars
<1>4. ~failed[a]
  BY DEF NoneFailed
<1>5. Queued(a) /\ NoRequest(a)' /\ key[a] # NoQueue
  <2>1. Queued(a) /\ NoRequest(a)'
    BY <1>0, <1>1, <1>4, CallStepServe
  <2> QED
    BY <2>1 DEF Queued
<1>6. /\ slvq \in Seq(Requests) /\ 1 \in DOMAIN slvq /\ slvq[1].clt = a
      /\ \A k \in DOMAIN Tail(slvq) : k + 1 \in DOMAIN slvq /\ Tail(slvq)[k] = slvq[k + 1]
  <2>1. slvq \in Seq(Requests)
    BY <1>1, Typing
  <2> QED
    BY <1>0, <1>2, <2>1
<1>7. ~NoRequest(c)
  <2>1. CASE c = a
    BY <1>5, <2>1 DEF Queued, Requested, OneIn, NoRequest, NoneIn
  <2>2. CASE c # a
    <3>1. NotServed(c)'
      BY <1>1, <1>2, <1>3, <1>5, <2>2 DEF NotServed, Serving, Keys
    <3> QED
      BY <1>0, <1>1, <2>2, <3>1, CallStepServe DEF Pending
  <2> QED
    BY <2>1, <2>2
<1>8. Pending(c) /\ BacklogOf(c)
  BY <1>7 DEF Pending, Backlogs
<1>9. key[c] # NoQueue
  BY <1>1, <1>8, PendingIs DEF Queued, Served
<1>10. a \in Ahead(c)
  <2>1. PICK k \in DOMAIN slvq : slvq[k].clt = c
    BY <1>7 DEF NoRequest, NoneIn, From
  <2>2. 1 \in 1 .. k
    BY <1>6, <2>1
  <2> QED
    BY <1>2, <1>6, <2>1, <2>2 DEF Ahead
<1>11. Ahead(c)' \subseteq Ahead(c)
  <2> SUFFICES ASSUME NEW d \in Client, NEW k \in DOMAIN slvq', NEW l \in 1 .. k,
                      slvq'[k].clt = c, slvq'[l].clt = d
               PROVE  d \in Ahead(c)
    BY DEF Ahead
  <2>1. /\ k + 1 \in DOMAIN slvq /\ l + 1 \in 1 .. k + 1
        /\ slvq[k + 1].clt = c /\ slvq[l + 1].clt = d
    BY <1>2, <1>6
  <2> QED
    BY <2>1 DEF Ahead
<1>12. Waking(c)' \subseteq {a}
  BY <1>1, <1>2, <1>3, <1>5 DEF Waking, Keys
<1> QED
  BY <1>3, <1>2, <1>8, <1>9, <1>10, <1>11, <1>12, BacklogKept DEF Before

\* A try to trigger q is the last one of its walk.
LEMMA UntoldStep ==
  ASSUME Inv, Inv', NEW q \in Queue, TriggerStep(q)
  PROVE  /\ Untold' \subseteq Untold
         /\ TrigSent(q) \/ TrigFailed(q) => q \in Untold /\ q \notin Untold'
<1>1. CASE TrigSent(q) \/ TrigFailed(q)
  <2>1. Table!Tell(q)
    BY <1>1, TrigSentRefines, TrigFailedRefines
  <2>2. job.at = "trig" /\ job'.at = "trig"
    BY TriggerMessage
  <2>3. /\ Turn = [at |-> "trig", clt |-> job.clt, name |-> job.name, untold |-> Untold]
        /\ Turn' = [at |-> "trig", clt |-> job'.clt, name |-> job'.name, untold |-> Untold']
    BY <2>2 DEF Turn
  <2>4. q \in Untold /\ Turn' = [Turn EXCEPT !.untold = Turn.untold \ {q}]
    BY <2>1, <2>3 DEF Table!Tell
  <2>5. Turn'.untold = Untold \ {q} /\ Turn'.untold = Untold'
    BY <2>3, <2>4
  <2> QED
    BY <2>4, <2>5
<1>2. CASE UNCHANGED dbVars /\ ~TrigSent(q) /\ ~TrigFailed(q)
  BY <1>2 DEF dbVars, Untold, Place
<1> QED
  BY <1>1, <1>2 DEF TriggerStep

LEMMA BacklogTrigger ==
  ASSUME PosixInv, PosixInv', Backlogs, NoneFailed, NEW c \in Client, Pending(c)',
         NEW q \in Queue, TriggerStep(q), UNCHANGED <<key, pc, call, failed, backlog>>
  PROVE  BacklogOf(c)'
<1>1. PosixType /\ Keys /\ Calls /\ Inv /\ Inv' /\ ~failed[c]
  BY DEF PosixInv, NoneFailed
<1>2. /\ job.at = "trig" /\ job'.at = "trig" /\ job'.clt = job.clt
      /\ Trigger(job.name) \in Message
  BY <1>1, TriggerMessage
<1>3. slvq' = slvq
  BY DEF TriggerStep
<1>4. Pending(c) /\ BacklogOf(c)
  <2>1. /\ NoRequest(c) <=> NoRequest(c)'
        /\ NotServed(c) <=> NotServed(c)'
    BY <1>2, <1>3, SameRequests DEF NotServed, Serving
  <2> QED
    BY <2>1 DEF Pending, Backlogs
<1>5. key[c] # NoQueue /\ key[c] \in QueueId
  BY <1>1, <1>4, PendingIs, Typing DEF Queued, Served
<1>6. Ahead(c)' = Ahead(c)
  BY <1>3 DEF Ahead
<1>7. Waking(c)' \subseteq Waking(c)
  BY <1>1, <1>2, UntoldStep DEF Waking
<1>8. CASE cltq'[key[c]] = cltq[key[c]]
  BY <1>4, <1>5, <1>6, <1>7, <1>8, BacklogKept DEF Before
<1>9. CASE cltq'[key[c]] # cltq[key[c]]
  <2>1. /\ TrigSent(q) \/ TrigFailed(q)
        /\ Exists(q) /\ HasRoom(q)
        /\ cltq' = [cltq EXCEPT ![q] = Append(@, Trigger(job.name))]
    BY <1>9 DEF TriggerStep
  <2>2. /\ cltq[q] \in Seq(Message) /\ cltq'[q] = Append(cltq[q], Trigger(job.name))
        /\ \A r \in QueueId \ {q} : cltq'[r] = cltq[r]
    BY <1>1, <1>2, <2>1, AppendRoom
  <2>3. q = key[c]
    BY <1>5, <1>9, <2>2
  <2>4. key[c] \in Untold /\ key[c] \notin Untold'
    BY <1>1, <2>1, <2>3, UntoldStep
  <2>5. PICK d \in Client : Served(d)
    BY <1>2 DEF Backlogs
  <2>6. d \in Waking(c) /\ NoRequest(d)
    BY <1>2, <2>4, <2>5 DEF Waking, Served, Serving
  <2>7. d \notin Ahead(c)
    <3>1. \A k \in DOMAIN slvq : slvq[k] \in Requests /\ k \in Nat
      BY <1>1, Typing, ElementOfSeq
    <3>2. \A k \in DOMAIN slvq : \A l \in 1 .. k : l \in DOMAIN slvq
      BY <1>1, Typing
    <3> QED
      BY <2>6, <3>1, <3>2 DEF Ahead, NoRequest, NoneIn, From
  <2>8. Waking(c)' = {}
    BY <2>4 DEF Waking
  <2>9. Before(c)' \subseteq Before(c) \ {d} /\ d \in Before(c) /\ Before(c) \subseteq Client
    BY <1>6, <2>6, <2>7, <2>8, BeforeIsFinite DEF Before
  <2>10. /\ Cardinality(Before(c)) \in Nat /\ Cardinality(Before(c)') \in Nat
         /\ Cardinality(Before(c)') <= Cardinality(Before(c)) - 1
         /\ Cardinality(Client) \in Nat
    <3>1. IsFiniteSet(Before(c)) /\ Cardinality(Before(c)) \in Nat
      BY <2>9, BeforeIsFinite
    <3>2. /\ IsFiniteSet(Before(c) \ {d})
          /\ Cardinality(Before(c) \ {d}) = Cardinality(Before(c)) - 1
      BY <2>9, <3>1, FS_RemoveElement
    <3>3. /\ IsFiniteSet(Before(c)')
          /\ Cardinality(Before(c)') <= Cardinality(Before(c) \ {d})
      BY <2>9, <3>2, FS_Subset
    <3> QED
      BY <3>1, <3>2, <3>3, ClientAssumption, FS_CardinalityType
  <2>11. /\ Len(cltq[key[c]]) \in Nat /\ Len(cltq'[key[c]]) = Len(cltq[key[c]]) + 1
         /\ backlog[c] \in Nat
    BY <1>1, <2>2, <2>3 DEF PosixType, CountersType
  <2> HIDE DEF Before
  <2> QED
    BY <1>4, <2>10, <2>11 DEF BacklogOf
<1> QED
  BY <1>8, <1>9

LEMMA BacklogServer ==
  ASSUME PosixInv, PosixInv', Backlogs, NoneFailed, NEW c \in Client, Pending(c)', ServerStep
  PROVE  BacklogOf(c)'
<1>1. UNCHANGED <<key, pc, call, failed, backlog>>
  BY ServerFacts
<1>2. ASSUME NEW q \in Queue, TriggerDelivered(q) \/ TriggerRefused(q) \/ TriggerStale(q)
      PROVE  BacklogOf(c)'
  <2>1. TriggerStep(q)
    BY <1>2 DEF TriggerDelivered, TriggerRefused, TriggerStale, TriggerStep, queueVars
  <2> QED
    BY <1>1, <2>1, BacklogTrigger
<1>3. ASSUME slvq' = slvq, job'.at # "trig", Serving(key[c])' => Serving(key[c]),
             key[c] # NoQueue /\ Pending(c) => cltq'[key[c]] = cltq[key[c]]
      PROVE  BacklogOf(c)'
  <2>1. Pending(c) /\ BacklogOf(c)
    BY <1>1, <1>3, SameRequests DEF Pending, NotServed, Backlogs
  <2>2. key[c] # NoQueue
    BY <2>1, PendingIs DEF NoneFailed, Queued, Served
  <2>3. Ahead(c)' = Ahead(c) /\ Waking(c)' = {}
    BY <1>3 DEF Ahead, Waking
  <2> QED
    BY <1>1, <1>3, <2>1, <2>2, <2>3, BacklogKept DEF Before
<1>4. CASE EndUpdate
  <2>1. /\ slvq' = slvq /\ cltq' = cltq /\ job.at = "trig"
        /\ job'.at = "reply" /\ job'.clt = job.clt
    BY <1>4 DEF EndUpdate, UpdateDone, slv_bool_reply, Replying, queueVars
  <2> QED
    BY <1>1, <1>3, <2>1 DEF Serving, NotServed
<1>5. CASE SendReply
  <2>1. /\ job.at = "reply" /\ job' = Receiving /\ slvq' = slvq
        /\ \/ cltq' = [cltq EXCEPT ![job.clt] = Append(@, job.msg)]
           \/ cltq' = cltq
    BY <1>5, ReplyFacts DEF PosixInv
  <2>2. job'.at = "recv"
    BY <2>1 DEF Receiving
  <2>3. ~NoRequest(c) /\ NotServed(c)'
    BY <2>1, <2>2, <1>1, SameRequests DEF Pending, NotServed, Serving
  <2>4. key[c] # NoQueue /\ NotServed(c) /\ Pending(c)
    BY <2>3, PendingIs DEF Pending, NoneFailed, Queued, Served
  <2>5. cltq'[key[c]] = cltq[key[c]]
    BY <2>1, <2>4, Typing DEF NotServed, Serving, PosixInv, PosixType, AnswersType
  <2> QED
    BY <1>3, <2>1, <2>2, <2>4, <2>5 DEF Serving
<1>6. CASE Serve
  BY <1>6, BacklogServe
<1> QED
  BY <1>2, <1>4, <1>5, <1>6 DEF ServerStep

\* The server always works for a client that is in a call.
LEMMA ServedStep ==
  ASSUME PosixInv, PosixInv', Backlogs, NoneFailed, NoneFailed', [Next]_vars,
         job'.at \in {"trig", "reply"}
  PROVE  \E d \in Client : Served(d)'
<1>1. /\ PosixType /\ Keys /\ Calls /\ Inv /\ BadVarLast
  BY DEF PosixInv
<1>2. CASE Serve
  <2>1. Head(slvq).clt \in Client
    BY <1>1, <1>2, ServeFacts
  <2> QED
    BY <1>1, <1>2, <2>1, CallStepServe DEF NoneFailed
<1>3. CASE ServerStep /\ ~Serve /\ ~SendReply
  <2>1. job.at \in {"trig", "reply"}
    BY <1>3 DEF ServerStep, TriggerDelivered, TriggerRefused, TriggerStale, TrigSent, TrigFailed,
                AtTrigger, EndUpdate, UpdateDone
  <2>2. PICK d \in Client : Served(d)
    BY <2>1 DEF Backlogs
  <2>3. ASSUME NEW q \in Queue, TriggerDelivered(q) \/ TriggerRefused(q) \/ TriggerStale(q)
        PROVE  Served(d)'
    <3>1. TriggerStep(q) /\ UNCHANGED <<key, pc, call, failed>>
      BY <2>3 DEF TriggerDelivered, TriggerRefused, TriggerStale, TriggerStep, queueVars, cltVars
    <3> QED
      BY <1>1, <2>2, <3>1, CallStepTrigger
  <2>4. EndUpdate => Served(d)'
    BY <1>1, <2>2, CallStepUpdate
  <2> QED
    BY <1>3, <2>3, <2>4 DEF ServerStep
<1>4. CASE SendReply
  BY <1>1, <1>4, ReplyFacts DEF Receiving
<1>5. ASSUME job' = job, \E d \in Client : Served(d) /\ key'[d] = key[d]
      PROVE  \E d \in Client : Served(d)'
  <2>1. PICK d \in Client : Served(d) /\ key'[d] = key[d]
    BY <1>5
  <2>2. ~NotServed(d)'
    BY <1>5, <2>1 DEF Served, NotServed, Serving
  <2>3. ~failed'[d] /\ CallOf(d)' /\ pc'[d] \in {"out", "idle", "send", "wait", "dead"}
    BY DEF NoneFailed, PosixInv, Calls, PosixType, ClientsType
  <2> QED
    BY <2>2, <2>3 DEF CallOf, Quiet, InCall, Queued, Answered
<1>6. ASSUME NEW a \in Client,
             \/ ClientCall(a) \/ SendRequest(a) \/ ReceiveReply(a)
             \/ Interrupt(a) \/ clt_ipc_receive(a) \/ Crash(a)
      PROVE  \E d \in Client : Served(d)'
  <2>1. job' = job
    BY <1>1, <1>6, CallFacts, SendFacts, ReceiveFacts, InterruptFacts, IdleFacts, CrashFacts
       DEF dbVars
  <2>2. PICK d \in Client : Served(d)
    BY <2>1 DEF Backlogs
  <2>3. key[d] # NoQueue /\ ~failed[d] /\ ~failed'[a] /\ ~Quiet(d) /\ ~Answered(d)
    BY <2>2 DEF Served, NoneFailed, Quiet, Answered, NotServed
  <2>4. key'[d] = key[d]
    <3>1. CASE ClientCall(a)
      BY <1>1, <2>3, <3>1, CallFacts
    <3>2. CASE SendRequest(a) \/ Interrupt(a)
      BY <1>1, <2>3, <3>2, SendFacts, InterruptFacts
    <3>3. CASE ReceiveReply(a)
      <4>1. Answered(a)
        BY <1>1, <2>3, <3>3, CallStepReceive
      <4>2. d \in Client \ {a}
        BY <2>3, <4>1
      <4> QED
        BY <1>1, <3>3, <4>2, ReceiveFacts
    <3>4. CASE clt_ipc_receive(a) \/ Crash(a)
      BY <1>1, <3>4, IdleFacts, CrashFacts
    <3> QED
      BY <1>6, <3>1, <3>2, <3>3, <3>4
  <2> QED
    BY <1>5, <2>1, <2>2, <2>4
<1>7. CASE UNCHANGED vars
  BY <1>5, <1>7 DEF vars, dbVars, queueVars, Backlogs
<1> QED
  BY <1>2, <1>3, <1>4, <1>6, <1>7 DEF Next

LEMMA BacklogsInvariance == Spec => []Backlogs
<1>1. Init => Backlogs
  <2> SUFFICES ASSUME Init
               PROVE  job.at = "recv" /\ \A c \in Client : ~Pending(c)
    BY DEF Backlogs
  <2> QED
    BY DEF Init, DbInit, Receiving, Pending, NoRequest, NoneIn, NotServed
<1>2. PosixInv /\ PosixInv' /\ Backlogs /\ [Next]_vars => Backlogs'
  <2> SUFFICES ASSUME PosixInv, PosixInv', Backlogs, [Next]_vars, NoneFailed'
               PROVE  /\ job'.at \in {"trig", "reply"} => \E d \in Client : Served(d)'
                      /\ \A c \in Client : Pending(c)' => BacklogOf(c)'
    BY DEF Backlogs
  <2>1. NoneFailed
    BY FailedStays
  <2>2. job'.at \in {"trig", "reply"} => \E d \in Client : Served(d)'
    BY <2>1, ServedStep
  <2>3. ASSUME NEW c \in Client, Pending(c)'
        PROVE  BacklogOf(c)'
    <3>1. CASE UNCHANGED vars
      <4>1. UNCHANGED <<dbVars, slvq, cltq, key, call, backlog>>
        BY <3>1 DEF vars, queueVars, cltVars
      <4>2. NoRequest(c)' = NoRequest(c) /\ NotServed(c)' = NotServed(c)
        BY <4>1 DEF NoRequest, NoneIn, From, NotServed, Serving, dbVars
      <4>3. Ahead(c)' = Ahead(c) /\ Waking(c)' = Waking(c)
        BY <4>1 DEF Ahead, Waking, Untold, Place, dbVars
      <4> QED
        BY <2>1, <2>3, <4>1, <4>2, <4>3 DEF Pending, Backlogs, BacklogOf, Before
    <3> QED
      BY <2>1, <2>3, <3>1, BacklogClient, BacklogServer DEF Next
  <2> QED
    BY <2>2, <2>3
<1> QED
  BY <1>1, <1>2, PosixInvariance, PTL DEF Spec

(***************************************************************************)
(* As long as no call has failed, comm_sync_reply finds a client's queue   *)
(* full only if the client made its call with triggers unread, for any     *)
(* number of clients: during the call each of them triggers it at most     *)
(* once, since its own request stops the others from being served again    *)
(* before it (comm_sync_reply, comm_async_trig, clt_ipc_receive).          *)
(***************************************************************************)
THEOREM FullOnlyByBacklog == Spec => []WaitsOnlyForBacklog
<1>1. PosixInv /\ Backlogs => WaitsOnlyForBacklog
  <2> SUFFICES ASSUME PosixInv, Backlogs, ServerWaits, \A c \in Client : ~failed[c]
               PROVE  \E c \in Client : /\ key[c] = job.clt
                                        /\ backlog[c] + Cardinality(Client) >= CltRoom
    BY DEF WaitsOnlyForBacklog
  <2>1. NoneFailed /\ job.at = "reply" /\ ~HasRoom(job.clt)
    BY DEF NoneFailed, ServerWaits
  <2>2. PICK d \in Client : Served(d)
    BY <2>1 DEF Backlogs
  <2>3. key[d] = job.clt /\ Pending(d) /\ key[d] # NoQueue
    BY <2>2 DEF Served, Serving, Pending, NotServed
  <2>4. Len(cltq[key[d]]) + Cardinality(Before(d)) <= backlog[d] + Cardinality(Client)
    BY <2>1, <2>3 DEF Backlogs, BacklogOf
  <2>5. cltq[key[d]] \in Seq(Message) /\ backlog[d] \in Nat
    BY <2>3, Typing DEF PosixInv, PosixType, CountersType
  <2>6. Cardinality(Before(d)) \in Nat /\ Cardinality(Client) \in Nat
    BY BeforeIsFinite, ClientAssumption, FS_CardinalityType
  <2>7. Len(cltq[key[d]]) >= CltRoom /\ Len(cltq[key[d]]) \in Nat
    BY <2>1, <2>3, <2>5, RoomAssumption DEF HasRoom
  <2> QED
    BY <2>3, <2>4, <2>5, <2>6, <2>7, RoomAssumption
<1> QED
  BY <1>1, PosixInvariance, BacklogsInvariance, PTL
=============================================================================
