--------------------------- MODULE DbServer_proofs ---------------------------
(***************************************************************************)
(* Theorems about DbServer, for any variables, values, clients and numbers *)
(* of logins.  ListInv, what the server's list must be for dl_first to     *)
(* find the right entry, is inductive; every operation changes the list in *)
(* one of five ways, and there is a lemma for each.  The last part shows   *)
(* that the list implements VarTable.                                      *)
(***************************************************************************)
EXTENDS DbServer, SequenceTheorems, TLAPS

AnyName == Name \cup {BadVar}

ListInv == pdb \in Seq(Entry) /\ NamesUnique /\ TriggersUnique

\* Removing one element of a sequence moves the later ones up.
LEMMA RemoveAtFacts ==
  ASSUME NEW S, NEW s \in Seq(S), NEW k \in DOMAIN s
  PROVE  /\ RemoveAt(s, k) \in Seq(S)
         /\ Len(RemoveAt(s, k)) = Len(s) - 1
         /\ \A i \in 1 .. Len(s) - 1 :
              RemoveAt(s, k)[i] = IF i < k THEN s[i] ELSE s[i + 1]
<1> DEFINE front == SubSeq(s, 1, k - 1)
           back  == SubSeq(s, k + 1, Len(s))
<1>1. /\ front \in Seq(S) /\ Len(front) = k - 1
      /\ \A i \in 1 .. k - 1 : front[i] = s[i]
  OBVIOUS
<1>2. /\ back \in Seq(S) /\ Len(back) = Len(s) - k
      /\ \A i \in 1 .. Len(s) - k : back[i] = s[k + i]
  OBVIOUS
<1>3. RemoveAt(s, k) = front \o back
  BY DEF RemoveAt
<1> HIDE DEF front, back
<1>4. /\ front \o back \in Seq(S)
      /\ Len(front \o back) = Len(s) - 1
  BY <1>1, <1>2
<1>5. ASSUME NEW i \in 1 .. Len(s) - 1
      PROVE  (front \o back)[i] = IF i < k THEN s[i] ELSE s[i + 1]
  <2>1. (front \o back)[i] = IF i <= Len(front) THEN front[i] ELSE back[i - Len(front)]
    BY <1>1, <1>2, i \in 1 .. Len(front) + Len(back), ConcatProperties
  <2>2. CASE i < k
    BY <1>1, <2>1, <2>2
  <2>3. CASE i >= k
    <3>1. i - (k - 1) \in 1 .. Len(s) - k
      BY <2>3
    <3>2. (front \o back)[i] = back[i - (k - 1)]
      BY <1>1, <2>1, <2>3
    <3>3. back[i - (k - 1)] = s[k + (i - (k - 1))]
      BY <1>2, <3>1
    <3>4. k + (i - (k - 1)) = i + 1 /\ ~(i < k)
      BY <2>3
    <3> QED
      BY <3>2, <3>3, <3>4
  <2>4. i < k \/ i >= k
    OBVIOUS
  <2> QED
    BY <2>2, <2>3, <2>4
<1> QED
  BY <1>3, <1>4, <1>5

\* A sequence without repetitions keeps none when an element is removed.
LEMMA RemoveAtUnique ==
  ASSUME NEW S, NEW s \in Seq(S), NEW k \in DOMAIN s,
         \A i, j \in DOMAIN s : s[i] = s[j] => i = j
  PROVE  \A i, j \in DOMAIN RemoveAt(s, k) :
           RemoveAt(s, k)[i] = RemoveAt(s, k)[j] => i = j
<1> SUFFICES ASSUME NEW i \in DOMAIN RemoveAt(s, k), NEW j \in DOMAIN RemoveAt(s, k),
                    RemoveAt(s, k)[i] = RemoveAt(s, k)[j]
             PROVE  i = j
  OBVIOUS
<1>1. i \in 1 .. Len(s) - 1 /\ j \in 1 .. Len(s) - 1
  BY RemoveAtFacts
<1> DEFINE old(m) == IF m < k THEN m ELSE m + 1
<1>2. \A m \in 1 .. Len(s) - 1 : old(m) \in DOMAIN s /\ RemoveAt(s, k)[m] = s[old(m)]
  <2> SUFFICES ASSUME NEW m \in 1 .. Len(s) - 1
               PROVE  old(m) \in DOMAIN s /\ RemoveAt(s, k)[m] = s[old(m)]
    OBVIOUS
  <2>1. RemoveAt(s, k)[m] = IF m < k THEN s[m] ELSE s[m + 1]
    BY RemoveAtFacts
  <2> QED
    BY <2>1
<1>3. old(i) = old(j)
  BY <1>1, <1>2
<1> QED
  BY <1>1, <1>3

-----------------------------------------------------------------------------
\* db_entry_create of an unknown name.
LEMMA CreateKeepsList ==
  ASSUME ListInv, NEW n \in AnyName, Unknown(n), pdb' = <<NewEntry(n)>> \o pdb
  PROVE  ListInv'
<1>1. NewEntry(n) \in Entry
  BY ValueAssumption DEF NewEntry, Entry, AnyName
<1>2. /\ pdb' \in Seq(Entry)
      /\ Len(pdb') = Len(pdb) + 1
      /\ \A i \in DOMAIN pdb' : pdb'[i] = IF i = 1 THEN NewEntry(n) ELSE pdb[i - 1]
  BY <1>1 DEF ListInv
<1>3. \A i \in DOMAIN pdb' : i # 1 => i - 1 \in DOMAIN pdb
  BY <1>2 DEF ListInv
<1>4. NamesUnique'
  BY <1>2, <1>3 DEF NamesUnique, ListInv, Unknown, NewEntry
<1>5. TriggersUnique'
  BY <1>2, <1>3 DEF TriggersUnique, ListInv, NewEntry
<1> QED
  BY <1>2, <1>4, <1>5 DEF ListInv

\* db_entry_rm.
LEMMA RemoveKeepsList ==
  ASSUME ListInv, NEW i \in DOMAIN pdb, pdb' = RemoveAt(pdb, i)
  PROVE  ListInv'
<1>1. /\ pdb' \in Seq(Entry)
      /\ Len(pdb') = Len(pdb) - 1
      /\ \A j \in 1 .. Len(pdb) - 1 : pdb'[j] = IF j < i THEN pdb[j] ELSE pdb[j + 1]
  BY RemoveAtFacts DEF ListInv
<1>2. \A j \in DOMAIN pdb' : \E k \in DOMAIN pdb : /\ k = IF j < i THEN j ELSE j + 1
                                                   /\ pdb'[j] = pdb[k]
  BY <1>1 DEF ListInv
<1>3. NamesUnique'
  BY <1>1, <1>2 DEF NamesUnique, ListInv
<1>4. TriggersUnique'
  BY <1>2 DEF TriggersUnique, ListInv
<1> QED
  BY <1>1, <1>3, <1>4 DEF ListInv

\* A change of one entry that keeps its name and repeats no trigger.
LEMMA ChangeKeepsList ==
  ASSUME ListInv, NEW i \in DOMAIN pdb, NEW e \in Entry, pdb' = [pdb EXCEPT ![i] = e],
         e.name = pdb[i].name,
         \A k, l \in DOMAIN e.trigs : e.trigs[k] = e.trigs[l] => k = l
  PROVE  ListInv'
<1>1. /\ pdb' \in Seq(Entry)
      /\ DOMAIN pdb' = DOMAIN pdb
      /\ \A j \in DOMAIN pdb : pdb'[j] = IF j = i THEN e ELSE pdb[j]
  BY DEF ListInv
<1>2. NamesUnique'
  BY <1>1 DEF NamesUnique, ListInv
<1>3. TriggersUnique'
  BY <1>1 DEF TriggersUnique, ListInv
<1> QED
  BY <1>1, <1>2, <1>3 DEF ListInv

\* The removal of one trigger of one entry.
LEMMA RemoveTriggerKeepsList ==
  ASSUME ListInv, NEW i \in DOMAIN pdb, NEW k \in DOMAIN pdb[i].trigs,
         pdb' = [pdb EXCEPT ![i].trigs = RemoveAt(@, k)]
  PROVE  ListInv'
<1> DEFINE rest == RemoveAt(pdb[i].trigs, k)
           e == [pdb[i] EXCEPT !.trigs = rest]
<1>1. pdb[i] \in Entry
  BY DEF ListInv
<1>2. pdb[i].trigs \in Seq(Queue)
  BY <1>1 DEF Entry
<1>3. \A j, l \in DOMAIN pdb[i].trigs : pdb[i].trigs[j] = pdb[i].trigs[l] => j = l
  BY DEF ListInv, TriggersUnique
<1>4. \A j, l \in DOMAIN rest : rest[j] = rest[l] => j = l
  BY <1>2, <1>3, RemoveAtUnique
<1>5. rest \in Seq(Queue)
  BY <1>2, RemoveAtFacts
<1>6. pdb' = [pdb EXCEPT ![i] = e]
  OBVIOUS
<1> HIDE DEF rest
<1>7. e \in Entry /\ e.name = pdb[i].name /\ e.trigs = rest
  BY <1>1, <1>5 DEF Entry
<1> HIDE DEF e
<1> QED
  BY <1>4, <1>6, <1>7, ChangeKeepsList

-----------------------------------------------------------------------------
\* What slv_cmd leaves the server at is one of its places.
LEMMA BoolReplyPlace ==
  ASSUME NEW q \in Queue, NEW cmd \in Commands, NEW status \in BOOLEAN,
         slv_bool_reply(q, cmd, status)
  PROVE  job' \in Job
<1>1. BadVar \in AnyName
  BY DEF AnyName
<1>2. status \in Value \cup BOOLEAN
  OBVIOUS
<1>3. [cmd |-> cmd, name |-> BadVar, value |-> status] \in Reply
  BY <1>1, <1>2 DEF Reply, AnyName
<1> QED
  BY <1>3 DEF slv_bool_reply, Replying, Job

LEMMA VarReplyPlace ==
  ASSUME NEW q \in Queue, NEW e \in Entry, slv_var_reply(q, e)
  PROVE  job' \in Job
<1>1. e.name \in AnyName /\ e.value \in Value \cup BOOLEAN
  BY DEF Entry, AnyName
<1>2. [cmd |-> "READ", name |-> e.name, value |-> e.value] \in Reply
  BY <1>1 DEF Reply, AnyName, Commands
<1> QED
  BY <1>2 DEF slv_var_reply, Replying, Job

Inv == ListInv /\ pusr \in Seq(Queue) /\ job \in Job

\* The server's steps when clients destroy none but variables of D.  MaxUsers,
\* the bound of a run on the logins, is left out: nothing rests on it.
Steps(D) ==
  \/ \E q \in Queue, cmd \in Commands, v \in Value : \E n \in Asked(cmd) :
       (cmd = "DESTROY" => n \in D) /\ slv_cmd(q, cmd, n, v)
  \/ \E q \in Queue : TrigSent(q) \/ TrigFailed(q)
  \/ UpdateDone
  \/ ReplyDone

LEMMA NextIsStep == [DbNext]_dbVars => [Steps(Destroyable)]_dbVars
<1>1. \A n \in Asked("DESTROY") : n \in Destroyable
  BY DEF Asked
<1> QED
  BY <1>1 DEF DbNext, Steps

\* Every request keeps the list, the logins and the server's place sound.
LEMMA RequestKeepsInv ==
  ASSUME Inv, NEW q \in Queue, NEW cmd \in Commands, NEW v \in Value, NEW n \in Asked(cmd),
         slv_cmd(q, cmd, n, v)
  PROVE  Inv'
<1> USE DEF Inv
<1>0. n \in AnyName /\ comm_done \in BOOLEAN
  <2>1. CASE cmd = "CREATE"
    BY <2>1 DEF Asked, AnyName, comm_done
  <2>2. CASE cmd = "DESTROY"
    BY <2>2, NameAssumption DEF Asked, AnyName, comm_done
  <2>3. CASE cmd \notin {"CREATE", "DESTROY"}
    BY <2>3 DEF Asked, AnyName, comm_done
  <2> QED
    BY <2>1, <2>2, <2>3
<1>1. CASE cmd = "CREATE" /\ db_entry_create(q, n)
  <2>1. CASE Unknown(n)
    <3>1. ListInv'
      BY <1>0, <1>1, <2>1, CreateKeepsList DEF db_entry_create
    <3>2. job' \in Job
      BY <1>1, <2>1, BoolReplyPlace DEF db_entry_create
    <3> QED
      BY <1>1, <3>1, <3>2 DEF db_entry_create
  <2>2. CASE ~Unknown(n)
    <3>1. job' \in Job
      BY <1>1, <2>2, BoolReplyPlace DEF db_entry_create
    <3> QED
      BY <1>1, <2>2, <3>1 DEF db_entry_create, ListInv, NamesUnique, TriggersUnique
  <2> QED
    BY <2>1, <2>2
<1>2. CASE cmd = "READ" /\ Read(q, n)
  <2>1. job' \in Job
    <3>1. CASE ReadKnown(q, n)
      <4>1. PICK i \in DOMAIN pdb : slv_var_reply(q, pdb[i])
        BY <3>1 DEF ReadKnown
      <4>2. pdb[i] \in Entry
        BY DEF ListInv
      <4> QED
        BY <4>1, <4>2, VarReplyPlace
    <3>2. CASE ReadUnknown(q, n)
      <4>1. CASE pdb = <<>>
        BY <3>2, <4>1 DEF ReadUnknown, Job
      <4>2. CASE pdb # <<>>
        <5>1. pdb[Len(pdb)] \in Entry
          BY <4>2 DEF ListInv
        <5> QED
          BY <3>2, <4>2, <5>1, VarReplyPlace DEF ReadUnknown
      <4> QED
        BY <4>1, <4>2
    <3> QED
      BY <1>2, <3>1, <3>2 DEF Read
  <2> QED
    BY <1>2, <2>1 DEF Read, ListInv, NamesUnique, TriggersUnique
<1>3. CASE cmd = "UPDATE" /\ slv_update(q, n, v)
  <2>1. ASSUME NEW i \in DOMAIN pdb, db_entry_find(i, n),
               pdb' = [pdb EXCEPT ![i].value = v], job' = Walking(q, n, 1)
        PROVE  Inv'
    <3> DEFINE e == [pdb[i] EXCEPT !.value = v]
    <3>1. pdb[i] \in Entry
      BY DEF ListInv
    <3>2. e \in Entry /\ e.name = pdb[i].name /\ e.trigs = pdb[i].trigs
      BY <3>1 DEF Entry
    <3>3. pdb' = [pdb EXCEPT ![i] = e]
      BY <2>1
    <3> HIDE DEF e
    <3>5. \A k, l \in DOMAIN e.trigs : e.trigs[k] = e.trigs[l] => k = l
      BY <3>2 DEF ListInv, TriggersUnique
    <3>6. ListInv'
      BY <3>2, <3>3, <3>5, ChangeKeepsList
    <3>4. job' \in Job
      BY <1>0, <2>1 DEF Walking, Job, AnyName
    <3> QED
      BY <1>3, <3>4, <3>6 DEF slv_update
  <2>2. ASSUME slv_bool_reply(q, "UPDATE", FALSE), UNCHANGED pdb
        PROVE  Inv'
    BY <1>3, <2>2, BoolReplyPlace DEF slv_update, ListInv, NamesUnique, TriggersUnique
  <2> QED
    BY <1>3, <2>1, <2>2 DEF slv_update
<1>4. CASE cmd = "DESTROY" /\ db_entry_rm(q, n)
  <2>1. job' \in Job /\ pusr' = pusr
    BY <1>4, BoolReplyPlace DEF db_entry_rm
  <2>2. ListInv'
    BY <1>4, RemoveKeepsList DEF db_entry_rm, ListInv, NamesUnique, TriggersUnique
  <2> QED
    BY <2>1, <2>2
<1>5. CASE cmd = "LOGIN" /\ slv_clt_add(q)
  <2>1. job' \in Job /\ UNCHANGED pdb
    BY <1>5, BoolReplyPlace DEF slv_clt_add
  <2>2. pusr' \in Seq(Queue)
    BY <1>5, AppendProperties DEF slv_clt_add
  <2> QED
    BY <2>1, <2>2 DEF ListInv, NamesUnique, TriggersUnique
<1>6. CASE cmd = "LOGOUT" /\ slv_clt_rm(q)
  <2>1. job' \in Job /\ UNCHANGED pdb
    BY <1>0, <1>6, BoolReplyPlace DEF slv_clt_rm
  <2>2. pusr' \in Seq(Queue)
    BY <1>6, RemoveAtFacts DEF slv_clt_rm
  <2> QED
    BY <2>1, <2>2 DEF ListInv, NamesUnique, TriggersUnique
<1>7. CASE cmd = "TRIG_SET" /\ slv_trig_set(q, n)
  <2>1. job' \in Job /\ pusr' = pusr
    BY <1>7, BoolReplyPlace DEF slv_trig_set
  <2>2. ASSUME NEW i \in DOMAIN pdb, q \notin ToSet(pdb[i].trigs),
               pdb' = [pdb EXCEPT ![i].trigs = Append(@, q)]
        PROVE  ListInv'
    <3> DEFINE e == [pdb[i] EXCEPT !.trigs = Append(@, q)]
    <3>0. pdb[i] \in Entry
      BY DEF ListInv
    <3>1. pdb[i].trigs \in Seq(Queue)
      BY <3>0 DEF Entry
    <3>2. /\ Append(pdb[i].trigs, q) \in Seq(Queue)
          /\ Len(Append(pdb[i].trigs, q)) = Len(pdb[i].trigs) + 1
          /\ \A k \in 1 .. Len(pdb[i].trigs) + 1 :
               Append(pdb[i].trigs, q)[k] =
                 IF k <= Len(pdb[i].trigs) THEN pdb[i].trigs[k] ELSE q
      BY <3>1
    <3>3. e \in Entry /\ e.name = pdb[i].name /\ e.trigs = Append(pdb[i].trigs, q)
      BY <3>0, <3>2 DEF Entry
    <3>4. pdb' = [pdb EXCEPT ![i] = e]
      BY <2>2
    <3> HIDE DEF e
    <3>5. \A k \in DOMAIN pdb[i].trigs : pdb[i].trigs[k] # q
      BY <2>2 DEF ToSet
    <3>6. \A k, l \in DOMAIN e.trigs : e.trigs[k] = e.trigs[l] => k = l
      BY <3>1, <3>2, <3>3, <3>5 DEF ListInv, TriggersUnique
    <3> QED
      BY <3>3, <3>4, <3>6, ChangeKeepsList
  <2> QED
    BY <1>7, <2>1, <2>2 DEF slv_trig_set, ListInv, NamesUnique, TriggersUnique
<1>8. CASE cmd = "TRIG_UNSET" /\ slv_trig_unset(q, n)
  <2>1. job' \in Job /\ pusr' = pusr
    BY <1>0, <1>8, BoolReplyPlace DEF slv_trig_unset
  <2>2. ASSUME NEW i \in DOMAIN pdb, NEW k \in DOMAIN pdb[i].trigs,
               pdb' = [pdb EXCEPT ![i].trigs = RemoveAt(@, k)]
        PROVE  ListInv'
    BY <2>2, RemoveTriggerKeepsList
  <2>3. \/ pdb' = pdb
        \/ \E i \in DOMAIN pdb : \E k \in DOMAIN pdb[i].trigs :
             pdb' = [pdb EXCEPT ![i].trigs = RemoveAt(@, k)]
    BY <1>8, Zenon DEF slv_trig_unset
  <2>4. ListInv'
    BY <2>2, <2>3 DEF ListInv, NamesUnique, TriggersUnique
  <2> QED
    BY <2>1, <2>4
<1> QED
  BY <1>1, <1>2, <1>3, <1>4, <1>5, <1>6, <1>7, <1>8 DEF slv_cmd

\* The steps of an update's walk over the trigger list and the replies.
LEMMA StepKeepsInv ==
  ASSUME Inv, NEW D, [Steps(D)]_dbVars
  PROVE  Inv'
<1>1. ASSUME NEW q \in Queue, NEW cmd \in Commands, NEW v \in Value, NEW n \in Asked(cmd),
             slv_cmd(q, cmd, n, v)
      PROVE  Inv'
  BY <1>1, RequestKeepsInv
<1>2. ASSUME NEW q \in Queue, TrigSent(q)
      PROVE  Inv'
  <2>1. job' \in Job
    <3>1. job \in [at : {"trig"}, clt : Queue, name : Name \cup {BadVar}, pnode : Nat \ {0}]
      BY <1>2 DEF TrigSent, AtTrigger, Inv, Job, Receiving, Crashed
    <3> QED
      BY <1>2, <3>1 DEF TrigSent, Job
  <2>2. UNCHANGED <<pdb, pusr>>
    BY <1>2 DEF TrigSent
  <2> QED
    BY <2>1, <2>2 DEF Inv, ListInv, NamesUnique, TriggersUnique
<1>3. ASSUME NEW q \in Queue, TrigFailed(q)
      PROVE  Inv'
  <2>1. PICK i \in DOMAIN pdb : /\ AtTrigger(i, q)
                                /\ pdb' = [pdb EXCEPT ![i].trigs = RemoveAt(@, job.pnode)]
    BY <1>3 DEF TrigFailed
  <2>2. ListInv'
    BY <2>1, RemoveTriggerKeepsList DEF AtTrigger, Inv
  <2> QED
    BY <1>3, <2>2 DEF TrigFailed, Inv
<1>4. CASE UpdateDone
  <2>1. job.clt \in Queue /\ "UPDATE" \in Commands
    BY <1>4 DEF UpdateDone, Inv, Job, Receiving, Crashed, Commands
  <2>2. job' \in Job
    BY <1>4, <2>1, BoolReplyPlace DEF UpdateDone
  <2> QED
    BY <1>4, <2>2 DEF UpdateDone, Inv, ListInv, NamesUnique, TriggersUnique
<1>5. CASE ReplyDone
  BY <1>5 DEF ReplyDone, Inv, Job, ListInv, NamesUnique, TriggersUnique
<1>6. CASE UNCHANGED dbVars
  BY <1>6 DEF dbVars, Inv, ListInv, NamesUnique, TriggersUnique
<1> QED
  BY <1>1, <1>2, <1>3, <1>4, <1>5, <1>6 DEF Steps

LEMMA InitInv == DbInit => Inv
<1> SUFFICES ASSUME DbInit
             PROVE  Inv
  OBVIOUS
<1>1. NewEntry(BadVar) \in Entry /\ NewEntry(BadVar).trigs = <<>>
  BY ValueAssumption DEF NewEntry, Entry
<1> QED
  BY <1>1 DEF DbInit, Inv, ListInv, NamesUnique, TriggersUnique, Job

LEMMA Invariance == DbSpec => []Inv
<1>1. Inv /\ [DbNext]_dbVars => Inv'
  BY NextIsStep, StepKeepsInv
<1> QED
  BY <1>1, InitInv, PTL DEF DbSpec

(***************************************************************************)
(* The server is always at one of its places, and the position that the    *)
(* walk of slv_update keeps in a trigger list is never before its start.   *)
(***************************************************************************)
THEOREM TypeCorrect == DbSpec => []TypeOK
<1>1. Inv => TypeOK
  BY DEF Inv, ListInv, TypeOK
<1> QED
  BY <1>1, Invariance, PTL

(***************************************************************************)
(* However clients create and destroy variables, the list never has two    *)
(* entries for one (db_entry_create, db_entry_rm).                         *)
(***************************************************************************)
THEOREM NoNameTwice == DbSpec => []NamesUnique
<1>1. Inv => NamesUnique
  BY DEF Inv, ListInv
<1> QED
  BY <1>1, Invariance, PTL

(***************************************************************************)
(* No client is twice in a trigger list, whatever the order of sets,       *)
(* unsets and triggers that fail in the middle of a walk (slv_trig_set,    *)
(* slv_trig_unset, slv_update).                                            *)
(***************************************************************************)
THEOREM NoTriggerTwice == DbSpec => []TriggersUnique
<1>1. Inv => TriggersUnique
  BY DEF Inv, ListInv
<1> QED
  BY <1>1, Invariance, PTL

-----------------------------------------------------------------------------
\* The ways in which a step changes the list, as far as the last entry goes.
LEMMA ListChanges ==
  ASSUME Inv, NEW D, [Steps(D)]_dbVars
  PROVE  \/ pdb' = pdb
         \/ \E n \in AnyName : pdb' = <<NewEntry(n)>> \o pdb
         \/ \E i \in DOMAIN pdb : pdb[i].name \in D /\ pdb' = RemoveAt(pdb, i)
         \/ \E i \in DOMAIN pdb :
              \/ \E v \in Value : pdb' = [pdb EXCEPT ![i].value = v]
              \/ \E trigs \in Seq(Queue) : pdb' = [pdb EXCEPT ![i].trigs = trigs]
<1> DEFINE Change == \/ pdb' = pdb
                     \/ \E n \in AnyName : pdb' = <<NewEntry(n)>> \o pdb
                     \/ \E i \in DOMAIN pdb :
                          pdb[i].name \in D /\ pdb' = RemoveAt(pdb, i)
                     \/ \E i \in DOMAIN pdb :
                          \/ \E v \in Value : pdb' = [pdb EXCEPT ![i].value = v]
                          \/ \E trigs \in Seq(Queue) : pdb' = [pdb EXCEPT ![i].trigs = trigs]
<1>0. \A i \in DOMAIN pdb : pdb[i].trigs \in Seq(Queue)
  <2> SUFFICES ASSUME NEW i \in DOMAIN pdb
               PROVE  pdb[i].trigs \in Seq(Queue)
    OBVIOUS
  <2>1. pdb[i] \in Entry
    BY DEF Inv, ListInv
  <2> QED
    BY <2>1 DEF Entry
<1>1. ASSUME NEW q \in Queue, NEW cmd \in Commands, NEW v \in Value, NEW n \in Asked(cmd),
             cmd = "DESTROY" => n \in D, slv_cmd(q, cmd, n, v)
      PROVE  Change
  <2>1. CASE cmd = "CREATE" /\ db_entry_create(q, n)
    BY <2>1 DEF db_entry_create, Asked, AnyName
  <2>2. CASE cmd = "READ" /\ Read(q, n)
    BY <2>2 DEF Read
  <2>3. CASE cmd = "UPDATE" /\ slv_update(q, n, v)
    BY <2>3 DEF slv_update
  <2>4. CASE cmd = "DESTROY" /\ db_entry_rm(q, n)
    BY <1>1, <2>4 DEF db_entry_rm, db_entry_find
  <2>5. CASE cmd = "LOGIN" /\ slv_clt_add(q)
    BY <2>5 DEF slv_clt_add
  <2>6. CASE cmd = "LOGOUT" /\ slv_clt_rm(q)
    BY <2>6 DEF slv_clt_rm
  <2>7. CASE cmd = "TRIG_SET" /\ slv_trig_set(q, n)
    <3>1. \A i \in DOMAIN pdb : Append(pdb[i].trigs, q) \in Seq(Queue)
      BY <1>0, AppendProperties
    <3> QED
      BY <2>7, <3>1 DEF slv_trig_set
  <2>8. CASE cmd = "TRIG_UNSET" /\ slv_trig_unset(q, n)
    <3>1. \A i \in DOMAIN pdb : \A k \in DOMAIN pdb[i].trigs :
            RemoveAt(pdb[i].trigs, k) \in Seq(Queue)
      BY <1>0, RemoveAtFacts
    <3>2. \/ pdb' = pdb
          \/ \E i \in DOMAIN pdb : \E k \in DOMAIN pdb[i].trigs :
               pdb' = [pdb EXCEPT ![i].trigs = RemoveAt(@, k)]
      BY <2>8, Zenon DEF slv_trig_unset
    <3> QED
      BY <3>1, <3>2
  <2> QED
    BY <1>1, <2>1, <2>2, <2>3, <2>4, <2>5, <2>6, <2>7, <2>8 DEF slv_cmd
<1>2. ASSUME NEW q \in Queue, TrigFailed(q)
      PROVE  Change
  <2>1. PICK i \in DOMAIN pdb : /\ AtTrigger(i, q)
                                /\ pdb' = [pdb EXCEPT ![i].trigs = RemoveAt(@, job.pnode)]
    BY <1>2 DEF TrigFailed
  <2>2. RemoveAt(pdb[i].trigs, job.pnode) \in Seq(Queue)
    BY <1>0, <2>1, RemoveAtFacts DEF AtTrigger
  <2> QED
    BY <2>1, <2>2
<1>3. ASSUME UpdateDone \/ ReplyDone \/ UNCHANGED dbVars \/ \E q \in Queue : TrigSent(q)
      PROVE  Change
  BY <1>3 DEF UpdateDone, ReplyDone, dbVars, TrigSent
<1> HIDE DEF Change
<1>4. Change
  BY <1>1, <1>2, <1>3 DEF Steps
<1> QED
  BY <1>4 DEF Change

LEMMA BadVarStays ==
  ASSUME NEW D, BadVar \notin D, Inv, BadVarLast, [Steps(D)]_dbVars
  PROVE  BadVarLast'
<1> USE DEF BadVarLast
<1>1. /\ Len(pdb) \in DOMAIN pdb /\ pdb \in Seq(Entry)
      /\ pdb[Len(pdb)].name = BadVar
  BY DEF Inv, ListInv
<1>2. CASE pdb' = pdb
  BY <1>1, <1>2
<1>3. ASSUME NEW n \in AnyName, pdb' = <<NewEntry(n)>> \o pdb
      PROVE  BadVarLast'
  <2>1. NewEntry(n) \in Entry
    BY ValueAssumption DEF NewEntry, Entry, AnyName
  <2>2. Len(pdb') = Len(pdb) + 1 /\ pdb'[Len(pdb) + 1] = pdb[Len(pdb)]
    BY <1>1, <1>3, <2>1
  <2> QED
    BY <1>1, <2>2
<1>4. ASSUME NEW i \in DOMAIN pdb, pdb[i].name \in D, pdb' = RemoveAt(pdb, i)
      PROVE  BadVarLast'
  <2>1. i < Len(pdb)
    BY <1>1, <1>4
  <2>2. Len(pdb') = Len(pdb) - 1
    BY <1>1, <1>4, RemoveAtFacts
  <2>3. pdb'[Len(pdb) - 1] = pdb[Len(pdb)]
    <3>1. \A j \in 1 .. Len(pdb) - 1 :
            RemoveAt(pdb, i)[j] = IF j < i THEN pdb[j] ELSE pdb[j + 1]
      BY <1>1, RemoveAtFacts
    <3>2. /\ Len(pdb) - 1 \in 1 .. Len(pdb) - 1 /\ ~(Len(pdb) - 1 < i)
          /\ (Len(pdb) - 1) + 1 = Len(pdb)
      BY <1>1, <2>1
    <3> QED
      BY <1>4, <3>1, <3>2
  <2> QED
    BY <1>1, <2>1, <2>2, <2>3
<1>5. ASSUME NEW i \in DOMAIN pdb,
             \/ \E v \in Value : pdb' = [pdb EXCEPT ![i].value = v]
             \/ \E trigs \in Seq(Queue) : pdb' = [pdb EXCEPT ![i].trigs = trigs]
      PROVE  BadVarLast'
  <2>1. \A j \in DOMAIN pdb : pdb[j] \in Entry
    BY <1>1
  <2>2. CASE \E v \in Value : pdb' = [pdb EXCEPT ![i].value = v]
    BY <1>1, <2>1, <2>2 DEF Entry
  <2>3. CASE \E trigs \in Seq(Queue) : pdb' = [pdb EXCEPT ![i].trigs = trigs]
    BY <1>1, <2>1, <2>3 DEF Entry
  <2> QED
    BY <1>5, <2>2, <2>3
<1> QED
  BY <1>2, <1>3, <1>4, <1>5, ListChanges

(***************************************************************************)
(* As long as no client destroys the bad variable, it is the last entry,   *)
(* as slv_db_create promises: clients may destroy everything else.         *)
(***************************************************************************)
THEOREM BadVarIsLast ==
  ASSUME BadVar \notin Destroyable
  PROVE  DbSpec => []BadVarLast
<1>1. DbInit => BadVarLast
  BY DEF DbInit, BadVarLast, NewEntry
<1>2. Inv /\ BadVarLast /\ [DbNext]_dbVars => BadVarLast'
  BY NextIsStep, BadVarStays
<1> QED
  BY <1>1, <1>2, Invariance, PTL DEF DbSpec

(***************************************************************************)
(* Then a read is answered with the variable that was asked for or with    *)
(* the bad one, never with another (slv_cmd, db_entry_bad).                *)
(***************************************************************************)
THEOREM ReadsAnswerTheName ==
  ASSUME BadVar \notin Destroyable
  PROVE  DbSpec => ReadsNameAsked
<1>1. ASSUME BadVarLast, NEW q \in Queue, NEW n \in Name, Read(q, n), job = Receiving
      PROVE  job'.at = "reply" /\ job'.msg.name \in {n, BadVar}
  <2>1. CASE ReadKnown(q, n)
    BY <2>1 DEF ReadKnown, db_entry_find, slv_var_reply, Replying
  <2>2. CASE ReadUnknown(q, n)
    BY <1>1, <2>2 DEF ReadUnknown, BadVarLast, slv_var_reply, Replying
  <2> QED
    BY <1>1, <2>1, <2>2 DEF Read
<1>2. BadVarLast => \A q \in Queue, n \in Name :
                      Read(q, n) /\ job = Receiving => /\ job'.at = "reply"
                                                       /\ job'.msg.name \in {n, BadVar}
  BY <1>1
<1> QED
  BY <1>2, BadVarIsLast, PTL DEF ReadsNameAsked

-----------------------------------------------------------------------------
\* In the table that the list stands for, each entry is found by its name.
LEMMA View ==
  ASSUME ListInv
  PROVE  /\ \A i \in DOMAIN pdb : /\ pdb[i].name \in Known
                                  /\ Place(pdb[i].name) = i
                                  /\ Store[pdb[i].name] = pdb[i].value
                                  /\ Watchers[pdb[i].name] = ToSet(pdb[i].trigs)
         /\ \A n \in Known : \E i \in DOMAIN pdb : n = pdb[i].name
         /\ Store = [n \in Known |-> Store[n]]
         /\ Watchers = [n \in Known |-> Watchers[n]]
<1>1. \A n \in Known : \E i \in DOMAIN pdb : n = pdb[i].name
  BY DEF Known
<1>2. ASSUME NEW i \in DOMAIN pdb
      PROVE  pdb[i].name \in Known /\ Place(pdb[i].name) = i
  <2>1. \A j \in DOMAIN pdb : pdb[j].name = pdb[i].name => j = i
    BY DEF ListInv, NamesUnique
  <2> QED
    BY <2>1 DEF Known, Place
<1>3. ASSUME NEW i \in DOMAIN pdb
      PROVE  /\ Store[pdb[i].name] = pdb[i].value
             /\ Watchers[pdb[i].name] = ToSet(pdb[i].trigs)
  BY <1>2 DEF Store, Watchers
<1>4. Store = [n \in Known |-> Store[n]] /\ Watchers = [n \in Known |-> Watchers[n]]
  BY DEF Store, Watchers
<1> QED
  BY <1>1, <1>2, <1>3, <1>4

LEMMA ViewPrime ==
  ASSUME ListInv'
  PROVE  (/\ \A i \in DOMAIN pdb : /\ pdb[i].name \in Known
                                   /\ Place(pdb[i].name) = i
                                   /\ Store[pdb[i].name] = pdb[i].value
                                   /\ Watchers[pdb[i].name] = ToSet(pdb[i].trigs)
          /\ \A n \in Known : \E i \in DOMAIN pdb : n = pdb[i].name
          /\ Store = [n \in Known |-> Store[n]]
          /\ Watchers = [n \in Known |-> Watchers[n]])'
BY View, PTL

LEMMA FoundIsKnown ==
  ASSUME ListInv, NEW i \in DOMAIN pdb, NEW n, db_entry_find(i, n)
  PROVE  n \in Known /\ n = pdb[i].name /\ Place(n) = i
BY View DEF db_entry_find

LEMMA KnownIsFound ==
  ASSUME ListInv, NEW n
  PROVE  /\ Unknown(n) <=> n \notin Known
         /\ n \in Known => Place(n) \in DOMAIN pdb /\ db_entry_find(Place(n), n)
<1>1. Unknown(n) <=> n \notin Known
  BY DEF Unknown, Known
<1>2. ASSUME n \in Known
      PROVE  Place(n) \in DOMAIN pdb /\ db_entry_find(Place(n), n)
  <2>1. PICK i \in DOMAIN pdb : n = pdb[i].name
    BY <1>2, View
  <2>2. Place(n) = i
    BY <2>1, View
  <2>3. \A j \in 1 .. i - 1 : j \in DOMAIN pdb
    BY DEF ListInv
  <2>4. \A j \in 1 .. i - 1 : pdb[j].name # n
    <3> SUFFICES ASSUME NEW j \in 1 .. i - 1, pdb[j].name = n
                 PROVE  FALSE
      OBVIOUS
    <3>1. j = i
      BY <2>1, <2>3 DEF ListInv, NamesUnique
    <3> QED
      BY <3>1, <2>1 DEF ListInv
  <2> QED
    BY <2>1, <2>2, <2>4 DEF db_entry_find
<1> QED
  BY <1>1, <1>2

-----------------------------------------------------------------------------
\* What each way of changing the list does to the table.
LEMMA SameView ==
  ASSUME pdb' = pdb
  PROVE  Store' = Store /\ Watchers' = Watchers /\ Known' = Known
BY DEF Store, Watchers, Known, Place

LEMMA CreateView ==
  ASSUME ListInv, ListInv', NEW n \in AnyName, Unknown(n), pdb' = <<NewEntry(n)>> \o pdb
  PROVE  /\ Store' = [m \in Known \cup {n} |-> IF m = n THEN Zero ELSE Store[m]]
         /\ Watchers' = [m \in Known \cup {n} |-> IF m = n THEN {} ELSE Watchers[m]]
<1>1. NewEntry(n) \in Entry
  BY ValueAssumption DEF NewEntry, Entry, AnyName
<1>2. /\ 1 \in DOMAIN pdb' /\ pdb'[1] = NewEntry(n)
      /\ \A i \in DOMAIN pdb : i + 1 \in DOMAIN pdb' /\ pdb'[i + 1] = pdb[i]
      /\ \A i \in DOMAIN pdb' : i = 1 \/ \E j \in DOMAIN pdb : i = j + 1
  <2>1. /\ pdb \in Seq(Entry) /\ pdb' \in Seq(Entry) /\ Len(pdb') = Len(pdb) + 1
        /\ \A i \in DOMAIN pdb' : pdb'[i] = IF i = 1 THEN NewEntry(n) ELSE pdb[i - 1]
    BY <1>1 DEF ListInv
  <2>2. \A i \in DOMAIN pdb' : i = 1 \/ (i - 1 \in DOMAIN pdb /\ i = (i - 1) + 1)
    BY <2>1
  <2> QED
    BY <2>1, <2>2
<1>3. Store'[n] = Zero /\ Watchers'[n] = {} /\ n \in Known'
  BY <1>2, ViewPrime DEF NewEntry, ToSet
<1>4. ASSUME NEW m \in Known
      PROVE  m # n /\ m \in Known' /\ Store'[m] = Store[m] /\ Watchers'[m] = Watchers[m]
  <2>1. PICK i \in DOMAIN pdb : m = pdb[i].name
    BY View
  <2>2. i + 1 \in DOMAIN pdb' /\ pdb'[i + 1] = pdb[i]
    BY <1>2
  <2> QED
    BY <2>1, <2>2, View, ViewPrime DEF Unknown
<1>5. Known' = Known \cup {n}
  <2>1. ASSUME NEW m \in Known'
        PROVE  m \in Known \cup {n}
    <3>1. PICK i \in DOMAIN pdb' : m = pdb'[i].name
      BY ViewPrime
    <3> QED
      BY <1>2, <3>1, View DEF NewEntry
  <2> QED
    BY <1>3, <1>4, <2>1
<1> QED
  BY <1>3, <1>4, <1>5, ViewPrime

LEMMA RemoveView ==
  ASSUME ListInv, ListInv', NEW i \in DOMAIN pdb, pdb' = RemoveAt(pdb, i)
  PROVE  /\ Store' = [m \in Known \ {pdb[i].name} |-> Store[m]]
         /\ Watchers' = [m \in Known \ {pdb[i].name} |-> Watchers[m]]
<1>1. /\ pdb \in Seq(Entry) /\ pdb' \in Seq(Entry) /\ Len(pdb') = Len(pdb) - 1
      /\ \A j \in 1 .. Len(pdb) - 1 : pdb'[j] = IF j < i THEN pdb[j] ELSE pdb[j + 1]
  BY RemoveAtFacts DEF ListInv
<1>2. \A j \in DOMAIN pdb' : \E k \in DOMAIN pdb : k # i /\ pdb'[j] = pdb[k]
  <2> SUFFICES ASSUME NEW j \in DOMAIN pdb'
               PROVE  \E k \in DOMAIN pdb : k # i /\ pdb'[j] = pdb[k]
    OBVIOUS
  <2>1. CASE j < i
    BY <1>1, <2>1
  <2>2. CASE ~(j < i)
    <3>1. j + 1 \in DOMAIN pdb /\ j + 1 # i /\ pdb'[j] = pdb[j + 1]
      BY <1>1, <2>2
    <3> QED
      BY <3>1
  <2> QED
    BY <2>1, <2>2
<1>3. \A k \in DOMAIN pdb : k # i => \E j \in DOMAIN pdb' : pdb'[j] = pdb[k]
  <2> SUFFICES ASSUME NEW k \in DOMAIN pdb, k # i
               PROVE  \E j \in DOMAIN pdb' : pdb'[j] = pdb[k]
    OBVIOUS
  <2>1. CASE k < i
    <3>1. k \in DOMAIN pdb' /\ pdb'[k] = pdb[k]
      BY <1>1, <2>1
    <3> QED
      BY <3>1
  <2>2. CASE ~(k < i)
    <3>1. k - 1 \in DOMAIN pdb' /\ ~(k - 1 < i) /\ (k - 1) + 1 = k
      BY <1>1, <2>2
    <3>2. pdb'[k - 1] = pdb[(k - 1) + 1]
      BY <1>1, <3>1
    <3> QED
      BY <3>1, <3>2
  <2> QED
    BY <2>1, <2>2
<1>4. ASSUME NEW m \in Known \ {pdb[i].name}
      PROVE  m \in Known' /\ Store'[m] = Store[m] /\ Watchers'[m] = Watchers[m]
  <2>1. PICK k \in DOMAIN pdb : m = pdb[k].name /\ k # i
    BY View
  <2>2. PICK j \in DOMAIN pdb' : pdb'[j] = pdb[k]
    BY <1>3, <2>1
  <2> QED
    BY <2>1, <2>2, View, ViewPrime
<1>5. Known' = Known \ {pdb[i].name}
  <2>1. ASSUME NEW m \in Known'
        PROVE  m \in Known /\ m # pdb[i].name
    <3>1. PICK j \in DOMAIN pdb' : m = pdb'[j].name
      BY ViewPrime
    <3>2. PICK k \in DOMAIN pdb : k # i /\ pdb'[j] = pdb[k]
      BY <1>2
    <3> QED
      BY <3>1, <3>2, View
  <2> QED
    BY <1>4, <2>1
<1> QED
  BY <1>4, <1>5, ViewPrime

LEMMA ChangeView ==
  ASSUME ListInv, ListInv', NEW i \in DOMAIN pdb, NEW e \in Entry,
         pdb' = [pdb EXCEPT ![i] = e], e.name = pdb[i].name
  PROVE  /\ Store' = [Store EXCEPT ![pdb[i].name] = e.value]
         /\ Watchers' = [Watchers EXCEPT ![pdb[i].name] = ToSet(e.trigs)]
         /\ Known' = Known
<1>1. DOMAIN pdb' = DOMAIN pdb /\ \A j \in DOMAIN pdb : pdb'[j] = IF j = i THEN e ELSE pdb[j]
  BY DEF ListInv
<1>2. \A j \in DOMAIN pdb : pdb'[j].name = pdb[j].name
  BY <1>1
<1>3. Known' = Known
  BY <1>1, <1>2 DEF Known
<1>4. ASSUME NEW m \in Known
      PROVE  /\ Store'[m] = IF m = pdb[i].name THEN e.value ELSE Store[m]
             /\ Watchers'[m] = IF m = pdb[i].name THEN ToSet(e.trigs) ELSE Watchers[m]
  <2>1. PICK j \in DOMAIN pdb : m = pdb[j].name
    BY View
  <2>2. Store'[m] = pdb'[j].value /\ Watchers'[m] = ToSet(pdb'[j].trigs)
    BY <1>1, <1>2, <2>1, ViewPrime
  <2>3. CASE j = i
    BY <1>1, <2>1, <2>2, <2>3
  <2>4. CASE j # i
    <3>1. m # pdb[i].name
      BY <2>1, <2>4, View
    <3> QED
      BY <1>1, <2>1, <2>2, <2>4, <3>1, View
  <2> QED
    BY <2>3, <2>4
<1>5. Store' = [m \in Known |-> Store'[m]] /\ Watchers' = [m \in Known |-> Watchers'[m]]
  BY <1>3, ViewPrime
<1>6. Store = [m \in Known |-> Store[m]] /\ Watchers = [m \in Known |-> Watchers[m]]
  BY View
<1> QED
  BY <1>3, <1>4, <1>5, <1>6

-----------------------------------------------------------------------------
\* An answer of the server is one of the table.
LEMMA BoolAnswer ==
  ASSUME NEW q, NEW cmd, NEW status, slv_bool_reply(q, cmd, status)
  PROVE  Table!Answer(q, cmd, BadVar, status)
<1>1. job' = [at |-> "reply", clt |-> q, msg |-> [cmd |-> cmd, name |-> BadVar, value |-> status]]
  BY DEF slv_bool_reply, Replying
<1>2. Turn' = job'
  BY <1>1 DEF Turn
<1> QED
  BY <1>1, <1>2 DEF Table!Answer

LEMMA VarAnswer ==
  ASSUME NEW q, NEW e, slv_var_reply(q, e)
  PROVE  Table!Answer(q, "READ", e.name, e.value)
<1>1. job' = [at |-> "reply", clt |-> q,
              msg |-> [cmd |-> "READ", name |-> e.name, value |-> e.value]]
  BY DEF slv_var_reply, Replying
<1>2. Turn' = job'
  BY <1>1 DEF Turn
<1> QED
  BY <1>1, <1>2 DEF Table!Answer

\* The names of the table are those of the list.
LEMMA ExistsIsKnown ==
  ASSUME NEW n
  PROVE  (Table!Exists(n) <=> n \in Known) /\ DOMAIN Store = Known
BY DEF Table!Exists, Store

LEMMA CreateRefines ==
  ASSUME ListInv, ListInv', NEW q \in Queue, NEW n \in Name, db_entry_create(q, n)
  PROVE  Table!Create(q, n) \/ Table!Refuse(q, "CREATE", n)
<1>1. CASE Unknown(n) /\ pdb' = <<NewEntry(n)>> \o pdb /\ slv_bool_reply(q, "CREATE", TRUE)
  <2>1. n \in AnyName
    BY DEF AnyName
  <2>2. /\ Store' = [m \in Known \cup {n} |-> IF m = n THEN Zero ELSE Store[m]]
        /\ Watchers' = [m \in Known \cup {n} |-> IF m = n THEN {} ELSE Watchers[m]]
    BY <1>1, <2>1, CreateView
  <2>3. n \notin Known
    BY <1>1, KnownIsFound
  <2> QED
    BY <1>1, <2>2, <2>3, BoolAnswer, ExistsIsKnown DEF Table!Create
<1>2. CASE ~Unknown(n) /\ slv_bool_reply(q, "CREATE", FALSE) /\ UNCHANGED pdb
  BY <1>2, KnownIsFound, BoolAnswer, ExistsIsKnown, SameView DEF Table!Refuse
<1> QED
  BY <1>1, <1>2 DEF db_entry_create

LEMMA ReadRefines ==
  ASSUME ListInv, ListInv', BadVarLast, NEW q \in Queue, NEW n \in AnyName, Read(q, n)
  PROVE  Table!Read(q, n)
<1>1. UNCHANGED <<Store, Watchers>>
  BY SameView DEF Read
<1>2. CASE ReadKnown(q, n)
  <2>1. PICK i \in DOMAIN pdb : db_entry_find(i, n) /\ slv_var_reply(q, pdb[i])
    BY <1>2 DEF ReadKnown
  <2>2. n \in Known /\ n = pdb[i].name /\ Store[n] = pdb[i].value
    BY <2>1, FoundIsKnown, View
  <2>3. Table!Answer(q, "READ", n, Store[n])
    BY <2>1, <2>2, VarAnswer
  <2> QED
    BY <1>1, <2>2, <2>3, ExistsIsKnown DEF Table!Read
<1>3. CASE ReadUnknown(q, n)
  <2>1. Len(pdb) \in DOMAIN pdb /\ pdb[Len(pdb)].name = BadVar /\ pdb # <<>>
    BY DEF ListInv, BadVarLast
  <2>2. n \notin Known /\ Store[BadVar] = pdb[Len(pdb)].value
    BY <1>3, <2>1, View, KnownIsFound DEF ReadUnknown
  <2>3. Table!Answer(q, "READ", BadVar, Store[BadVar])
    BY <1>3, <2>1, <2>2, VarAnswer DEF ReadUnknown
  <2> QED
    BY <1>1, <2>2, <2>3, ExistsIsKnown DEF Table!Read
<1> QED
  BY <1>2, <1>3 DEF Read

LEMMA UpdateRefines ==
  ASSUME ListInv, ListInv', NEW q \in Queue, NEW n \in AnyName, NEW v \in Value,
         slv_update(q, n, v)
  PROVE  Table!Update(q, n, v) \/ Table!Refuse(q, "UPDATE", n)
<1>1. ASSUME NEW i \in DOMAIN pdb, db_entry_find(i, n), pdb' = [pdb EXCEPT ![i].value = v],
             job' = Walking(q, n, 1)
      PROVE  Table!Update(q, n, v)
  <2> DEFINE e == [pdb[i] EXCEPT !.value = v]
  <2>1. pdb[i] \in Entry
    BY DEF ListInv
  <2>2. e \in Entry /\ e.name = pdb[i].name /\ e.trigs = pdb[i].trigs /\ e.value = v
    BY <2>1 DEF Entry
  <2>3. pdb' = [pdb EXCEPT ![i] = e]
    BY <1>1
  <2>4. n \in Known /\ n = pdb[i].name
    BY <1>1, FoundIsKnown
  <2> HIDE DEF e
  <2>5. /\ Store' = [Store EXCEPT ![n] = v]
        /\ Watchers' = [Watchers EXCEPT ![n] = ToSet(pdb[i].trigs)]
        /\ Known' = Known
    <3>1. /\ Store' = [Store EXCEPT ![pdb[i].name] = e.value]
          /\ Watchers' = [Watchers EXCEPT ![pdb[i].name] = ToSet(e.trigs)]
          /\ Known' = Known
      BY <2>2, <2>3, ChangeView
    <3> QED
      BY <2>2, <2>4, <3>1
  <2>6. Watchers[n] = ToSet(pdb[i].trigs) /\ Watchers = [m \in Known |-> Watchers[m]]
    BY <2>4, View
  <2>7. Watchers' = Watchers
    BY <2>4, <2>5, <2>6
  <2>8. i \in DOMAIN pdb' /\ pdb'[i] = e
    BY <2>3 DEF ListInv
  <2>9. Untold' = Watchers[n]
    <3>1. job'.name = n /\ job'.pnode = 1
      BY <1>1 DEF Walking
    <3>2. Place(n)' = i
      BY <2>2, <2>4, <2>8, ViewPrime
    <3>3. Untold' = {e.trigs[k] : k \in {l \in DOMAIN e.trigs : l >= 1}}
      BY <2>8, <3>1, <3>2 DEF Untold
    <3>4. {l \in DOMAIN e.trigs : l >= 1} = DOMAIN e.trigs
      BY <2>2 DEF Entry
    <3> QED
      BY <2>2, <2>6, <3>3, <3>4 DEF ToSet
  <2>10. Turn' = [at |-> "trig", clt |-> q, name |-> n, untold |-> Watchers[n]]
    BY <1>1, <2>9 DEF Turn, Walking
  <2> QED
    BY <2>4, <2>5, <2>7, <2>10, ExistsIsKnown DEF Table!Update
<1>2. ASSUME Unknown(n), slv_bool_reply(q, "UPDATE", FALSE), UNCHANGED pdb
      PROVE  Table!Refuse(q, "UPDATE", n)
  BY <1>2, KnownIsFound, BoolAnswer, ExistsIsKnown, SameView DEF Table!Refuse
<1> QED
  BY <1>1, <1>2 DEF slv_update

LEMMA DestroyRefines ==
  ASSUME ListInv, ListInv', NEW q \in Queue, NEW n \in AnyName, db_entry_rm(q, n)
  PROVE  Table!Destroy(q, n) \/ Table!Refuse(q, "DESTROY", n)
<1>1. ASSUME NEW i \in DOMAIN pdb, db_entry_find(i, n), pdb' = RemoveAt(pdb, i),
             slv_bool_reply(q, "DESTROY", TRUE)
      PROVE  Table!Destroy(q, n)
  <2>1. n \in Known /\ n = pdb[i].name
    BY <1>1, FoundIsKnown
  <2>2. /\ Store' = [m \in Known \ {n} |-> Store[m]]
        /\ Watchers' = [m \in Known \ {n} |-> Watchers[m]]
    BY <1>1, <2>1, RemoveView
  <2> QED
    BY <1>1, <2>1, <2>2, BoolAnswer, ExistsIsKnown DEF Table!Destroy
<1>2. ASSUME Unknown(n), slv_bool_reply(q, "DESTROY", FALSE), UNCHANGED pdb
      PROVE  Table!Refuse(q, "DESTROY", n)
  BY <1>2, KnownIsFound, BoolAnswer, ExistsIsKnown, SameView DEF Table!Refuse
<1> QED
  BY <1>1, <1>2 DEF db_entry_rm

LEMMA SessionRefines ==
  ASSUME NEW q \in Queue, slv_clt_add(q) \/ slv_clt_rm(q)
  PROVE  \E cmd \in {"LOGIN", "LOGOUT"} : Table!Session(q, cmd)
<1>1. UNCHANGED <<Store, Watchers>>
  BY SameView DEF slv_clt_add, slv_clt_rm
<1>2. \/ slv_bool_reply(q, "LOGIN", TRUE)
      \/ slv_bool_reply(q, "LOGOUT", FALSE)
  BY DEF slv_clt_add, slv_clt_rm, comm_done
<1> QED
  BY <1>1, <1>2, BoolAnswer DEF Table!Session

LEMMA WatchRefines ==
  ASSUME ListInv, ListInv', NEW q \in Queue, NEW n \in AnyName, slv_trig_set(q, n)
  PROVE  Table!Watch(q, n) \/ Table!Refuse(q, "TRIG_SET", n)
<1>1. ASSUME NEW i \in DOMAIN pdb, db_entry_find(i, n), q \notin ToSet(pdb[i].trigs),
             pdb' = [pdb EXCEPT ![i].trigs = Append(@, q)],
             slv_bool_reply(q, "TRIG_SET", TRUE)
      PROVE  Table!Watch(q, n)
  <2> DEFINE e == [pdb[i] EXCEPT !.trigs = Append(@, q)]
  <2>1. pdb[i] \in Entry
    BY DEF ListInv
  <2>2. pdb[i].trigs \in Seq(Queue)
    BY <2>1 DEF Entry
  <2>3. /\ Append(pdb[i].trigs, q) \in Seq(Queue)
        /\ ToSet(Append(pdb[i].trigs, q)) = ToSet(pdb[i].trigs) \cup {q}
    <3>1. /\ Append(pdb[i].trigs, q) \in Seq(Queue)
          /\ Len(Append(pdb[i].trigs, q)) = Len(pdb[i].trigs) + 1
          /\ \A k \in 1 .. Len(pdb[i].trigs) + 1 :
               Append(pdb[i].trigs, q)[k] = IF k <= Len(pdb[i].trigs) THEN pdb[i].trigs[k] ELSE q
      BY <2>2
    <3> QED
      BY <2>2, <3>1 DEF ToSet
  <2>4. e \in Entry /\ e.name = pdb[i].name /\ e.trigs = Append(pdb[i].trigs, q)
        /\ e.value = pdb[i].value
    BY <2>1, <2>3 DEF Entry
  <2>5. pdb' = [pdb EXCEPT ![i] = e]
    BY <1>1
  <2>6. n \in Known /\ n = pdb[i].name
    BY <1>1, FoundIsKnown
  <2> HIDE DEF e
  <2>7. /\ Store' = [Store EXCEPT ![n] = pdb[i].value]
        /\ Watchers' = [Watchers EXCEPT ![n] = ToSet(pdb[i].trigs) \cup {q}]
    <3>1. /\ Store' = [Store EXCEPT ![pdb[i].name] = e.value]
          /\ Watchers' = [Watchers EXCEPT ![pdb[i].name] = ToSet(e.trigs)]
      BY <2>4, <2>5, ChangeView
    <3> QED
      BY <2>3, <2>4, <2>6, <3>1
  <2>8. Store[n] = pdb[i].value /\ Watchers[n] = ToSet(pdb[i].trigs)
        /\ Store = [m \in Known |-> Store[m]]
    BY <2>6, View
  <2>9. Store' = Store
    BY <2>6, <2>7, <2>8
  <2> QED
    BY <1>1, <2>6, <2>7, <2>8, <2>9, BoolAnswer, ExistsIsKnown DEF Table!Watch
<1>2. ASSUME \A i \in DOMAIN pdb : db_entry_find(i, n) => q \in ToSet(pdb[i].trigs),
             slv_bool_reply(q, "TRIG_SET", FALSE), UNCHANGED pdb
      PROVE  Table!Refuse(q, "TRIG_SET", n)
  <2>1. n \in Known => q \in Watchers[n]
    BY <1>2, KnownIsFound, FoundIsKnown, View
  <2> QED
    BY <1>2, <2>1, BoolAnswer, ExistsIsKnown, SameView DEF Table!Refuse
<1> QED
  BY <1>1, <1>2 DEF slv_trig_set

\* A trigger list without one of its nodes has all its clients but one.
LEMMA TriggerRemoved ==
  ASSUME ListInv, ListInv', NEW i \in DOMAIN pdb, NEW k \in DOMAIN pdb[i].trigs,
         pdb' = [pdb EXCEPT ![i].trigs = RemoveAt(@, k)]
  PROVE  /\ Store' = Store
         /\ Watchers' = [Watchers EXCEPT ![pdb[i].name] = @ \ {pdb[i].trigs[k]}]
         /\ i \in DOMAIN pdb' /\ pdb'[i].name = pdb[i].name
         /\ pdb'[i].trigs = RemoveAt(pdb[i].trigs, k)
<1> DEFINE trigs == pdb[i].trigs
           rest == RemoveAt(trigs, k)
           e == [pdb[i] EXCEPT !.trigs = rest]
<1>1. pdb[i] \in Entry
  BY DEF ListInv
<1>2. trigs \in Seq(Queue)
  BY <1>1 DEF Entry
<1>3. /\ rest \in Seq(Queue) /\ Len(rest) = Len(trigs) - 1
      /\ \A j \in 1 .. Len(trigs) - 1 : rest[j] = IF j < k THEN trigs[j] ELSE trigs[j + 1]
  BY <1>2, RemoveAtFacts
<1>4. pdb' = [pdb EXCEPT ![i] = e]
  OBVIOUS
<1>5. \A j, l \in DOMAIN trigs : trigs[j] = trigs[l] => j = l
  BY DEF ListInv, TriggersUnique
<1> HIDE DEF rest
<1>6. e \in Entry /\ e.name = pdb[i].name /\ e.trigs = rest /\ e.value = pdb[i].value
  BY <1>1, <1>3 DEF Entry
<1> HIDE DEF e, trigs
<1>7. ToSet(rest) = ToSet(trigs) \ {trigs[k]}
  <2>1. ASSUME NEW j \in DOMAIN rest
        PROVE  rest[j] \in ToSet(trigs) /\ rest[j] # trigs[k]
    <3>0. k \in DOMAIN trigs /\ j \in Nat /\ k \in Nat
      BY <1>2, <1>3 DEF trigs
    <3>1. CASE j < k
      <4>1. j \in DOMAIN trigs /\ j # k /\ rest[j] = trigs[j]
        BY <1>2, <1>3, <3>1
      <4> QED
        BY <1>5, <3>0, <4>1 DEF ToSet
    <3>2. CASE ~(j < k)
      <4>1. j + 1 \in DOMAIN trigs /\ j + 1 # k /\ rest[j] = trigs[j + 1]
        BY <1>2, <1>3, <3>2 DEF trigs
      <4> QED
        BY <1>5, <3>0, <4>1 DEF ToSet
    <3> QED
      BY <3>1, <3>2
  <2>2. ASSUME NEW l \in DOMAIN trigs, l # k
        PROVE  trigs[l] \in ToSet(rest)
    <3>1. CASE l < k
      <4>1. l \in DOMAIN rest /\ rest[l] = trigs[l]
        BY <1>2, <1>3, <2>2, <3>1 DEF trigs
      <4> QED
        BY <4>1 DEF ToSet
    <3>2. CASE ~(l < k)
      <4>1. l - 1 \in DOMAIN rest /\ ~(l - 1 < k) /\ (l - 1) + 1 = l
        BY <1>2, <1>3, <2>2, <3>2 DEF trigs
      <4>2. rest[l - 1] = trigs[l]
        BY <1>2, <1>3, <4>1, SMTT(20)
      <4> QED
        BY <4>1, <4>2 DEF ToSet
    <3> QED
      BY <3>1, <3>2
  <2> QED
    BY <2>1, <2>2 DEF ToSet
<1>8. /\ Store' = [Store EXCEPT ![pdb[i].name] = pdb[i].value]
      /\ Watchers' = [Watchers EXCEPT ![pdb[i].name] = ToSet(rest)]
  <2>1. /\ Store' = [Store EXCEPT ![pdb[i].name] = e.value]
        /\ Watchers' = [Watchers EXCEPT ![pdb[i].name] = ToSet(e.trigs)]
    BY <1>4, <1>6, ChangeView
  <2> QED
    BY <1>6, <2>1
<1>9. /\ pdb[i].name \in Known /\ Store[pdb[i].name] = pdb[i].value
      /\ Watchers[pdb[i].name] = ToSet(trigs)
      /\ Store = [m \in Known |-> Store[m]]
  BY View DEF trigs
<1>10. i \in DOMAIN pdb' /\ pdb'[i] = e
  BY <1>4 DEF ListInv
<1> QED
  BY <1>6, <1>7, <1>8, <1>9, <1>10 DEF trigs, rest

LEMMA UnwatchRefines ==
  ASSUME ListInv, ListInv', NEW q \in Queue, NEW n \in AnyName, slv_trig_unset(q, n)
  PROVE  Table!Unwatch(q, n) \/ Table!Refuse(q, "TRIG_UNSET", n)
<1>1. ASSUME NEW i \in DOMAIN pdb, NEW k \in DOMAIN pdb[i].trigs, db_entry_find(i, n),
             pdb[i].trigs[k] = q, pdb' = [pdb EXCEPT ![i].trigs = RemoveAt(@, k)],
             slv_bool_reply(q, "TRIG_UNSET", comm_done)
      PROVE  Table!Unwatch(q, n)
  <2>1. n \in Known /\ n = pdb[i].name
    BY <1>1, FoundIsKnown
  <2>2. q \in Watchers[n]
    BY <1>1, <2>1, View DEF ToSet
  <2>3. Store' = Store /\ Watchers' = [Watchers EXCEPT ![n] = @ \ {q}]
    BY <1>1, <2>1, TriggerRemoved
  <2>4. Table!Answer(q, "TRIG_UNSET", BadVar, FALSE)
    BY <1>1, BoolAnswer DEF comm_done
  <2> QED
    BY <2>1, <2>2, <2>3, <2>4, ExistsIsKnown DEF Table!Unwatch
<1>2. ASSUME \A i \in DOMAIN pdb : db_entry_find(i, n) => q \notin ToSet(pdb[i].trigs),
             slv_bool_reply(q, "TRIG_UNSET", FALSE), UNCHANGED pdb
      PROVE  Table!Refuse(q, "TRIG_UNSET", n)
  <2>1. n \in Known => q \notin Watchers[n]
    BY <1>2, KnownIsFound, FoundIsKnown, View
  <2> QED
    BY <1>2, <2>1, BoolAnswer, ExistsIsKnown, SameView DEF Table!Refuse
<1> QED
  BY <1>1, <1>2, Zenon DEF slv_trig_unset

\* A request that the server serves is one that the table serves.
LEMMA RequestRefines ==
  ASSUME Inv, Inv', BadVarLast, NEW q \in Queue, NEW cmd \in Commands, NEW v \in Value,
         NEW n \in Asked(cmd), slv_cmd(q, cmd, n, v)
  PROVE  Table!Next
<1>1. ListInv /\ ListInv'
  BY DEF Inv
<1>2. n \in AnyName /\ BadVar \in AnyName
  BY NameAssumption DEF Asked, AnyName
<1>3. Turn = Table!Idle
  BY DEF slv_cmd, Turn, Table!Idle, Receiving
<1>4. ASSUME NEW m \in AnyName, Table!Serve(q, m, v)
      PROVE  Table!Next
  BY <1>4 DEF Table!Next, AnyName
<1>5. CASE cmd = "CREATE" /\ db_entry_create(q, n)
  BY <1>1, <1>2, <1>3, <1>4, <1>5, CreateRefines DEF Asked, Table!Serve
<1>6. CASE cmd = "READ" /\ Read(q, n)
  BY <1>1, <1>2, <1>3, <1>4, <1>6, ReadRefines DEF Table!Serve
<1>7. CASE cmd = "UPDATE" /\ slv_update(q, n, v)
  BY <1>1, <1>2, <1>3, <1>4, <1>7, UpdateRefines DEF Table!Serve
<1>8. CASE cmd = "DESTROY" /\ db_entry_rm(q, n)
  BY <1>1, <1>2, <1>3, <1>4, <1>8, DestroyRefines DEF Table!Serve
<1>9. CASE slv_clt_add(q) \/ slv_clt_rm(q)
  BY <1>2, <1>3, <1>4, <1>9, SessionRefines DEF Table!Serve
<1>10. CASE cmd = "TRIG_SET" /\ slv_trig_set(q, n)
  BY <1>1, <1>2, <1>3, <1>4, <1>10, WatchRefines DEF Table!Serve
<1>11. CASE cmd = "TRIG_UNSET" /\ slv_trig_unset(q, n)
  BY <1>1, <1>2, <1>3, <1>4, <1>11, UnwatchRefines DEF Table!Serve
<1> QED
  BY <1>5, <1>6, <1>7, <1>8, <1>9, <1>10, <1>11 DEF slv_cmd

-----------------------------------------------------------------------------
\* The variable that is being updated exists until the update is answered.
WalkKnown == job.at = "trig" => job.name \in Known

LEMMA WalkStaysKnown ==
  ASSUME Inv, Inv', WalkKnown, NEW D, [Steps(D)]_dbVars
  PROVE  WalkKnown'
<1>1. ListInv /\ ListInv'
  BY DEF Inv
<1>2. ASSUME NEW q \in Queue, NEW cmd \in Commands, NEW v \in Value, NEW n \in Asked(cmd),
             slv_cmd(q, cmd, n, v)
      PROVE  WalkKnown'
  <2>1. CASE slv_update(q, n, v)
    <3>1. ASSUME NEW i \in DOMAIN pdb, db_entry_find(i, n),
                 pdb' = [pdb EXCEPT ![i].value = v], job' = Walking(q, n, 1)
          PROVE  WalkKnown'
      <4>1. pdb[i] \in Entry
        BY <1>1 DEF ListInv
      <4>2. i \in DOMAIN pdb' /\ pdb'[i].name = n
        BY <1>1, <3>1, <4>1 DEF ListInv, Entry, db_entry_find
      <4> QED
        BY <3>1, <4>2 DEF WalkKnown, Walking, Known
    <3> QED
      BY <2>1, <3>1 DEF slv_update, slv_bool_reply, Replying, WalkKnown
  <2>2. CASE Read(q, n)
    BY <2>2 DEF Read, ReadKnown, ReadUnknown, slv_var_reply, Replying, Crashed, WalkKnown
  <2>3. CASE ~slv_update(q, n, v) /\ ~Read(q, n)
    <3>1. \E status : slv_bool_reply(q, cmd, status)
      BY <1>2, <2>3 DEF slv_cmd, db_entry_create, db_entry_rm, slv_clt_add, slv_clt_rm,
                        slv_trig_set, slv_trig_unset
    <3> QED
      BY <3>1 DEF slv_bool_reply, Replying, WalkKnown
  <2> QED
    BY <2>1, <2>2, <2>3
<1>3. ASSUME NEW q \in Queue, TrigSent(q)
      PROVE  WalkKnown'
  <2>1. job'.at = job.at /\ job'.name = job.name /\ pdb' = pdb
    BY <1>3 DEF TrigSent, AtTrigger, Inv, Job, Receiving, Crashed
  <2> QED
    BY <2>1, SameView DEF WalkKnown
<1>4. ASSUME NEW q \in Queue, TrigFailed(q)
      PROVE  WalkKnown'
  <2>1. PICK i \in DOMAIN pdb : /\ AtTrigger(i, q)
                                /\ pdb' = [pdb EXCEPT ![i].trigs = RemoveAt(@, job.pnode)]
    BY <1>4 DEF TrigFailed
  <2>2. i \in DOMAIN pdb' /\ pdb'[i].name = pdb[i].name /\ job' = job
    BY <1>1, <1>4, <2>1, TriggerRemoved DEF AtTrigger, TrigFailed
  <2>3. job.name = pdb[i].name
    BY <2>1 DEF AtTrigger, db_entry_find
  <2> QED
    BY <2>2, <2>3 DEF WalkKnown, Known
<1>5. CASE UpdateDone \/ ReplyDone
  BY <1>5 DEF UpdateDone, ReplyDone, slv_bool_reply, Replying, Receiving, WalkKnown
<1>6. CASE UNCHANGED dbVars
  BY <1>6, SameView DEF dbVars, WalkKnown
<1> QED
  BY <1>2, <1>3, <1>4, <1>5, <1>6 DEF Steps

\* Where the walk is, and whom it has still to trigger.
LEMMA WalkView ==
  ASSUME Inv, NEW q, NEW i \in DOMAIN pdb, AtTrigger(i, q)
  PROVE  /\ job.name \in Known /\ job.name = pdb[i].name /\ Place(job.name) = i
         /\ pdb[i].trigs \in Seq(Queue) /\ job.pnode \in DOMAIN pdb[i].trigs
         /\ \A k, l \in DOMAIN pdb[i].trigs : pdb[i].trigs[k] = pdb[i].trigs[l] => k = l
         /\ Turn = [at |-> "trig", clt |-> job.clt, name |-> job.name, untold |-> Untold]
         /\ Untold = {pdb[i].trigs[k] : k \in {l \in DOMAIN pdb[i].trigs : l >= job.pnode}}
         /\ q \in Untold
         /\ job = [at |-> "trig", clt |-> job.clt, name |-> job.name, pnode |-> job.pnode]
<1>1. ListInv
  BY DEF Inv
<1>2. job.name \in Known /\ job.name = pdb[i].name /\ Place(job.name) = i
  BY <1>1, FoundIsKnown DEF AtTrigger
<1>3. pdb[i] \in Entry
  BY <1>1 DEF ListInv
<1>4. pdb[i].trigs \in Seq(Queue)
  BY <1>3 DEF Entry
<1>5. job.pnode \in DOMAIN pdb[i].trigs /\ pdb[i].trigs[job.pnode] = q /\ job.at = "trig"
  BY DEF AtTrigger
<1>6. \A k, l \in DOMAIN pdb[i].trigs : pdb[i].trigs[k] = pdb[i].trigs[l] => k = l
  BY <1>1 DEF ListInv, TriggersUnique
<1>7. Untold = {pdb[i].trigs[k] : k \in {l \in DOMAIN pdb[i].trigs : l >= job.pnode}}
  BY <1>2 DEF Untold
<1>8. job.pnode \in {l \in DOMAIN pdb[i].trigs : l >= job.pnode}
  BY <1>4, <1>5
<1>9. q \in Untold
  BY <1>5, <1>7, <1>8
<1>10. Turn = [at |-> "trig", clt |-> job.clt, name |-> job.name, untold |-> Untold]
  BY <1>5 DEF Turn
<1>11. job = [at |-> "trig", clt |-> job.clt, name |-> job.name, pnode |-> job.pnode]
  BY <1>5 DEF Inv, Job, Receiving, Crashed
<1> QED
  BY <1>2, <1>4, <1>5, <1>6, <1>7, <1>9, <1>10, <1>11

\* What makes a step of the walk one of the table's: the turn loses one client.
LEMMA TellStep ==
  ASSUME NEW q \in Queue, q \in Untold,
         Turn = [at |-> "trig", clt |-> job.clt, name |-> job.name, untold |-> Untold],
         Turn' = [at |-> "trig", clt |-> job.clt, name |-> job.name, untold |-> Untold \ {q}],
         Store' = Store,
         \/ Watchers' = Watchers
         \/ Watchers' = [Watchers EXCEPT ![job.name] = @ \ {q}]
  PROVE  Table!Tell(q)
<1>1. Turn.at = "trig" /\ Turn.name = job.name /\ Turn.untold = Untold
  OBVIOUS
<1>2. Turn' = [Turn EXCEPT !.untold = Turn.untold \ {q}]
  BY <1>1
<1>3. Watchers' \in {Watchers, [Watchers EXCEPT ![Turn.name] = Watchers[Turn.name] \ {q}]}
  BY <1>1
<1> QED
  BY <1>1, <1>2, <1>3 DEF Table!Tell

LEMMA TrigSentRefines ==
  ASSUME Inv, Inv', NEW q \in Queue, TrigSent(q)
  PROVE  Table!Tell(q)
<1>1. PICK i \in DOMAIN pdb : AtTrigger(i, q)
  BY DEF TrigSent
<1> DEFINE trigs == pdb[i].trigs
           k == job.pnode
<1>2. /\ job.name = pdb[i].name /\ Place(job.name) = i
      /\ trigs \in Seq(Queue) /\ k \in DOMAIN trigs
      /\ \A a, b \in DOMAIN trigs : trigs[a] = trigs[b] => a = b
      /\ Turn = [at |-> "trig", clt |-> job.clt, name |-> job.name, untold |-> Untold]
      /\ Untold = {trigs[a] : a \in {l \in DOMAIN trigs : l >= k}}
      /\ q \in Untold
      /\ job = [at |-> "trig", clt |-> job.clt, name |-> job.name, pnode |-> k]
  BY <1>1, WalkView
<1>3. pdb' = pdb /\ job' = [at |-> "trig", clt |-> job.clt, name |-> job.name, pnode |-> k + 1]
  BY <1>2 DEF TrigSent
<1>4. Untold' = {trigs[a] : a \in {l \in DOMAIN trigs : l >= k + 1}}
  <2>1. Place(job.name)' = i
    BY <1>2, <1>3 DEF Place
  <2> QED
    BY <1>3, <2>1 DEF Untold
<1>5. trigs[k] = q
  BY <1>1 DEF AtTrigger
<1> HIDE DEF trigs, k
<1>6. Untold' = Untold \ {q}
  <2>1. \A a \in DOMAIN trigs : a >= k + 1 <=> a >= k /\ a # k
    BY <1>2
  <2>2. \A a \in DOMAIN trigs : a # k <=> trigs[a] # q
    BY <1>2, <1>5
  <2> QED
    BY <1>2, <1>4, <2>1, <2>2
<1>7. Turn' = [at |-> "trig", clt |-> job.clt, name |-> job.name, untold |-> Untold \ {q}]
  BY <1>3, <1>6 DEF Turn
<1>8. Store' = Store /\ Watchers' = Watchers
  BY <1>3, SameView
<1> QED
  BY <1>2, <1>7, <1>8, TellStep

LEMMA TrigFailedRefines ==
  ASSUME Inv, Inv', NEW q \in Queue, TrigFailed(q)
  PROVE  Table!Tell(q)
<1>1. PICK i \in DOMAIN pdb : /\ AtTrigger(i, q)
                              /\ pdb' = [pdb EXCEPT ![i].trigs = RemoveAt(@, job.pnode)]
  BY DEF TrigFailed
<1> DEFINE trigs == pdb[i].trigs
           k == job.pnode
           rest == RemoveAt(trigs, k)
<1>2. /\ job.name = pdb[i].name /\ Place(job.name) = i
      /\ trigs \in Seq(Queue) /\ k \in DOMAIN trigs
      /\ \A a, b \in DOMAIN trigs : trigs[a] = trigs[b] => a = b
      /\ Turn = [at |-> "trig", clt |-> job.clt, name |-> job.name, untold |-> Untold]
      /\ Untold = {trigs[a] : a \in {l \in DOMAIN trigs : l >= k}}
      /\ q \in Untold
      /\ job = [at |-> "trig", clt |-> job.clt, name |-> job.name, pnode |-> k]
  BY <1>1, WalkView
<1>3. ListInv /\ ListInv' /\ job' = job
  BY DEF Inv, TrigFailed
<1>4. trigs[k] = q
  BY <1>1 DEF AtTrigger
<1>5. /\ Store' = Store
      /\ Watchers' = [Watchers EXCEPT ![job.name] = @ \ {q}]
      /\ i \in DOMAIN pdb' /\ pdb'[i].name = job.name /\ pdb'[i].trigs = rest
  <2>1. job.pnode \in DOMAIN pdb[i].trigs
    BY <1>2
  <2>2. /\ Store' = Store
        /\ Watchers' = [Watchers EXCEPT ![pdb[i].name] = @ \ {pdb[i].trigs[job.pnode]}]
        /\ i \in DOMAIN pdb' /\ pdb'[i].name = pdb[i].name
        /\ pdb'[i].trigs = RemoveAt(pdb[i].trigs, job.pnode)
    BY <1>1, <1>3, <2>1, TriggerRemoved
  <2> QED
    BY <1>2, <1>4, <2>2
<1>6. /\ rest \in Seq(Queue) /\ Len(rest) = Len(trigs) - 1
      /\ \A a \in 1 .. Len(trigs) - 1 : rest[a] = IF a < k THEN trigs[a] ELSE trigs[a + 1]
  <2> HIDE DEF trigs, k
  <2> QED
    BY <1>2, RemoveAtFacts
<1> HIDE DEF trigs, k, rest
<1>7. Untold' = {rest[a] : a \in {l \in DOMAIN rest : l >= k}}
  <2>1. Place(job.name)' = i
    BY <1>3, <1>5, ViewPrime
  <2> QED
    BY <1>3, <1>5, <2>1 DEF Untold, k
<1>8. Untold' = Untold \ {q}
  <2>1. ASSUME NEW a \in DOMAIN rest, a >= k
        PROVE  rest[a] \in Untold \ {q}
    <3>1. a + 1 \in DOMAIN trigs /\ a + 1 >= k /\ a + 1 # k /\ rest[a] = trigs[a + 1]
      BY <1>2, <1>6, <2>1
    <3> QED
      BY <1>2, <1>4, <3>1
  <2>2. ASSUME NEW a \in DOMAIN trigs, a >= k, trigs[a] # q
        PROVE  trigs[a] \in Untold'
    <3>1. a - 1 \in DOMAIN rest /\ a - 1 >= k /\ ~(a - 1 < k) /\ (a - 1) + 1 = a
      BY <1>2, <1>4, <1>6, <2>2
    <3>2. rest[a - 1] = trigs[a]
      BY <1>2, <1>6, <3>1
    <3> QED
      BY <1>7, <3>1, <3>2
  <2> QED
    BY <1>2, <1>7, <2>1, <2>2
<1>9. Turn' = [at |-> "trig", clt |-> job.clt, name |-> job.name, untold |-> Untold \ {q}]
  <2>1. job.at = "trig" /\ job'.at = "trig" /\ job'.clt = job.clt /\ job'.name = job.name
    BY <1>2, <1>3
  <2> QED
    BY <1>8, <2>1 DEF Turn
<1> QED
  BY <1>2, <1>5, <1>9, TellStep

LEMMA UpdateDoneRefines ==
  ASSUME Inv, WalkKnown, UpdateDone
  PROVE  Table!AllTold
<1>1. ListInv /\ job.at = "trig"
  BY DEF Inv, UpdateDone
<1>2. job.pnode \in Nat \ {0}
  BY <1>1 DEF Inv, Job, Receiving, Crashed
<1> DEFINE i == Place(job.name)
<1>3. i \in DOMAIN pdb /\ db_entry_find(i, job.name)
  BY <1>1, KnownIsFound DEF WalkKnown
<1>4. pdb[i] \in Entry
  BY <1>1, <1>3 DEF ListInv
<1>5. pdb[i].trigs \in Seq(Queue) /\ job.pnode \notin DOMAIN pdb[i].trigs
  BY <1>3, <1>4 DEF Entry, UpdateDone
<1>6. \A l \in DOMAIN pdb[i].trigs : ~(l >= job.pnode)
  BY <1>2, <1>5
<1>7. Untold = {}
  BY <1>6 DEF Untold
<1>8. Turn = [at |-> "trig", clt |-> job.clt, name |-> job.name, untold |-> {}]
  BY <1>1, <1>7 DEF Turn
<1>9. Table!Answer(job.clt, "UPDATE", BadVar, TRUE) /\ UNCHANGED <<Store, Watchers>>
  BY BoolAnswer, SameView DEF UpdateDone
<1> QED
  BY <1>8, <1>9 DEF Table!AllTold

LEMMA InitRefines == DbInit => Table!Init /\ WalkKnown
<1> SUFFICES ASSUME DbInit
             PROVE  Table!Init /\ WalkKnown
  OBVIOUS
<1>1. pdb = <<NewEntry(BadVar)>> /\ ListInv
  BY InitInv DEF DbInit, Inv
<1>2. /\ 1 \in DOMAIN pdb /\ pdb[1].name = BadVar /\ pdb[1].value = Zero
      /\ pdb[1].trigs = <<>> /\ \A i \in DOMAIN pdb : i = 1
  BY <1>1 DEF NewEntry
<1>3. Known = {BadVar}
  BY <1>2 DEF Known
<1>4. ToSet(pdb[1].trigs) = {}
  BY <1>2 DEF ToSet
<1>5. Store[BadVar] = Zero /\ Watchers[BadVar] = {}
  BY <1>1, <1>2, <1>4, View
<1>6. /\ Store = [n \in {BadVar} |-> Store[n]]
      /\ Watchers = [n \in {BadVar} |-> Watchers[n]]
  BY <1>1, <1>3, View
<1>7. Turn = Table!Idle /\ WalkKnown
  BY DEF DbInit, Turn, Table!Idle, Receiving, WalkKnown
<1> QED
  BY <1>5, <1>6, <1>7 DEF Table!Init

\* Every step of the server is one of the table or changes nothing there.
LEMMA StepRefines ==
  ASSUME Inv, Inv', BadVarLast, WalkKnown, NEW D, [Steps(D)]_dbVars
  PROVE  [Table!Next]_(Table!vars)
<1>1. ASSUME NEW q \in Queue, NEW cmd \in Commands, NEW v \in Value, NEW n \in Asked(cmd),
             slv_cmd(q, cmd, n, v)
      PROVE  Table!Next
  BY <1>1, RequestRefines
<1>2. ASSUME NEW q \in Queue, TrigSent(q) \/ TrigFailed(q)
      PROVE  Table!Next
  BY <1>2, TrigSentRefines, TrigFailedRefines DEF Table!Next
<1>3. CASE UpdateDone
  BY <1>3, UpdateDoneRefines DEF Table!Next
<1>4. CASE ReplyDone
  <2>1. Turn.at = "reply" /\ Turn' = Table!Idle
    BY <1>4 DEF ReplyDone, Turn, Table!Idle, Receiving
  <2>2. UNCHANGED <<Store, Watchers>>
    BY <1>4, SameView DEF ReplyDone
  <2> QED
    BY <2>1, <2>2 DEF Table!Next, Table!Answered
<1>5. CASE UNCHANGED dbVars
  <2>1. Turn' = Turn
    BY <1>5 DEF dbVars, Turn, Untold, Place
  <2> QED
    BY <1>5, <2>1, SameView DEF dbVars, Table!vars
<1> QED
  BY <1>1, <1>2, <1>3, <1>4, <1>5 DEF Steps

(***************************************************************************)
(* As long as no client destroys the bad variable, the server's lists      *)
(* implement the table of variables that the client library documents, for *)
(* any clients, variables and values: every request of slv_cmd and every   *)
(* step of slv_update's walk is one of the table, so that an update is     *)
(* answered once each watcher has been tried, whichever triggers fail.     *)
(***************************************************************************)
THEOREM Refinement ==
  ASSUME BadVar \notin Destroyable
  PROVE  DbSpec => ImplementsVarTable
<1>1. Inv /\ Inv' /\ BadVarLast /\ WalkKnown /\ [DbNext]_dbVars => [Table!Next]_(Table!vars)
  BY NextIsStep, StepRefines
<1>2. Inv /\ Inv' /\ WalkKnown /\ [DbNext]_dbVars => WalkKnown'
  BY NextIsStep, WalkStaysKnown
<1> QED
  BY <1>1, <1>2, InitRefines, Invariance, BadVarIsLast, PTL
     DEF DbSpec, ImplementsVarTable, Table!Spec
=============================================================================
