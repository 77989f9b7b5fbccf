------------------------- MODULE CertManager_proofs -------------------------
(***************************************************************************)
(* Theorems about CertManager, for every set of agents and domains, every  *)
(* length of the queue and every number of crashes.                        *)
(***************************************************************************)
EXTENDS CertManager, TLAPS

-----------------------------------------------------------------------------
(* Keys, messages and the task's record.                                   *)

\* The key of an agent's domain is its user with the domain.
LEMMA KeyFacts ==
    ASSUME NEW a \in Agent, NEW d \in Domain
    PROVE  key(a, d) \in Key /\ key(a, d)[1] = uid(a) /\ key(a, d)[2] = d
BY DEF Key, key

\* Every key is one of an agent and a domain.
LEMMA KeyForm ==
    ASSUME NEW k \in Key
    PROVE  \E a \in Agent, d \in Domain : k = key(a, d)
BY DEF Key, key

\* A task that is idle holds nothing.
LEMMA NoTaskFacts ==
    /\ NoTask.pc = "idle" /\ NoTask.agent = <<>> /\ NoTask.todo = {}
    /\ NoTask.domain = <<>> /\ NoTask.resend = {}
    /\ NoTask \in Task
BY DEF NoTask, Task

\* A task that begins to load is at its first domain, or done if there is none.
LEMMA LoadingFacts ==
    ASSUME NEW a \in Agent, NEW todo \in SUBSET Domain
    PROVE  /\ Loading(a, todo) \in Task
           /\ Loading(a, todo).pc \in {"idle", "load"}
           /\ Loading(a, todo).pc # "idle" => Loading(a, todo).agent = a
BY DEF Loading, NoTask, Task

\* A task that begins to send again is at its first use, or done if there is none.
LEMMA ResendingFacts ==
    ASSUME NEW S \in SUBSET (Domain \X Agent)
    PROVE  /\ Resending(S) \in Task
           /\ Resending(S).pc \in {"idle", "resend"}
BY DEF Resending, NoTask, Task

\* A Load is a message.
LEMMA LoadMessageType ==
    ASSUME NEW a \in Agent, NEW D \in SUBSET Domain
    PROVE  LoadMessage(a, D) \in Message
BY DEF LoadMessage, Message

\* An Unload is a message.
LEMMA UnloadMessageType ==
    ASSUME NEW a \in Agent
    PROVE  UnloadMessage(a) \in Message
BY DEF UnloadMessage, Message

\* What is taken from a queue, and what is left.
LEMMA QueueFacts ==
    ASSUME NEW S, NEW q \in Seq(S), q # <<>>
    PROVE  Head(q) \in S /\ Tail(q) \in Seq(S)
OBVIOUS

\* What is put at the end of a queue.
LEMMA AppendFacts ==
    ASSUME NEW S, NEW q \in Seq(S), NEW m \in S
    PROVE  Append(q, m) \in Seq(S)
OBVIOUS

-----------------------------------------------------------------------------
(* The store.                                                              *)

Stored == [Key -> CertificateState]
Used == SUBSET (Domain \X Agent)

Matches(cert, map) ==
    /\ \A d \in Domain, a \in Agent : <<d, a>> \in map => cert[key(a, d)] # "none"
    /\ \A k \in Key :
          cert[k] # "none" => \E a \in Agent : uid(a) = k[1] /\ <<k[2], a>> \in map

\* StoreConsistent says of every use of a domain that its certificate is held.
LEMMA ConsistentForm ==
    StoreConsistent <=> Matches(certificates, domain_map)
BY DEF StoreConsistent, Matches, get_config

\* The same of the next state.
LEMMA ConsistentFormPrimed ==
    StoreConsistent' <=> Matches(certificates', domain_map')
BY DEF StoreConsistent, Matches, get_config

\* A use that is entered together with its certificate keeps the tables matched.
LEMMA InsertKeepsMatches ==
    ASSUME NEW a \in Agent, NEW d \in Domain,
           certificates \in Stored, domain_map \in Used,
           disk \in Stored, disk[key(a, d)] # "none",
           StoreConsistent, insert(a, d)
    PROVE  /\ certificates' \in Stored
           /\ domain_map' \in Used
           /\ StoreConsistent'
<1>1. certificates' \in Stored /\ domain_map' \in Used
  BY KeyFacts DEF insert, Stored, Used
<1>2. Matches(certificates, domain_map)
  BY ConsistentForm
<1>3. ASSUME NEW e \in Domain, NEW b \in Agent, <<e, b>> \in domain_map'
      PROVE  certificates'[key(b, e)] # "none"
  <2>1. <<e, b>> \in domain_map \/ (e = d /\ b = a)
    BY <1>3 DEF insert
  <2>2. certificates'[key(b, e)] =
            IF key(b, e) = key(a, d) THEN disk[key(a, d)] ELSE certificates[key(b, e)]
    BY KeyFacts DEF insert, Stored
  <2> QED
    BY <2>1, <2>2, <1>2 DEF Matches
<1>4. ASSUME NEW k \in Key, certificates'[k] # "none"
      PROVE  \E b \in Agent : uid(b) = k[1] /\ <<k[2], b>> \in domain_map'
  <2>1. CASE k = key(a, d)
    BY <2>1, KeyFacts DEF insert
  <2>2. CASE k # key(a, d)
    <3>1. certificates[k] # "none"
      BY <1>4, <2>2 DEF insert, Stored
    <3> QED
      BY <3>1, <1>2 DEF Matches, insert
  <2> QED
    BY <2>1, <2>2
<1>5. StoreConsistent'
  BY <1>3, <1>4, ConsistentFormPrimed DEF Matches
<1> QED
  BY <1>1, <1>5

\* An agent that is removed takes a certificate away only if no other of its user uses it.
LEMMA RemoveKeepsMatches ==
    ASSUME NEW a \in Agent,
           certificates \in Stored, domain_map \in Used,
           StoreConsistent, remove(a)
    PROVE  /\ certificates' \in Stored
           /\ domain_map' \in Used
           /\ StoreConsistent'
<1> DEFINE Goes(k) ==
              k[1] = uid(a) /\ <<k[2], a>> \in domain_map /\ users_left(a, k[2]) = {}
<1>1. certificates' = [k \in Key |-> IF Goes(k) THEN "none" ELSE certificates[k]]
  BY DEF remove
<1>2. domain_map' = {e \in domain_map : e[2] # a}
  BY DEF remove
<1>3. certificates' \in Stored /\ domain_map' \in Used
  BY <1>1, <1>2 DEF Stored, Used, CertificateState
<1>4. Matches(certificates, domain_map)
  BY ConsistentForm
<1>5. ASSUME NEW e \in Domain, NEW b \in Agent, <<e, b>> \in domain_map'
      PROVE  certificates'[key(b, e)] # "none"
  <2>1. <<e, b>> \in domain_map /\ b # a
    BY <1>2, <1>5
  <2>2. certificates[key(b, e)] # "none"
    BY <2>1, <1>4 DEF Matches
  <2>3. uid(b) = uid(a) => b \in users_left(a, e)
    BY <2>1 DEF users_left
  <2>4. ~Goes(key(b, e))
    BY <2>3, KeyFacts
  <2> QED
    BY <2>2, <2>4, <1>1, KeyFacts
<1>6. ASSUME NEW k \in Key, certificates'[k] # "none"
      PROVE  \E b \in Agent : uid(b) = k[1] /\ <<k[2], b>> \in domain_map'
  <2>1. ~Goes(k) /\ certificates[k] # "none"
    BY <1>1, <1>6
  <2>2. PICK b \in Agent : uid(b) = k[1] /\ <<k[2], b>> \in domain_map
    BY <2>1, <1>4 DEF Matches
  <2>3. CASE b # a
    BY <2>2, <2>3, <1>2
  <2>4. CASE b = a
    <3>1. users_left(a, k[2]) # {}
      BY <2>1, <2>2, <2>4
    <3>2. PICK c \in users_left(a, k[2]) : TRUE
      BY <3>1
    <3>3. c \in Agent /\ c # a /\ <<k[2], c>> \in domain_map /\ uid(c) = uid(a)
      BY <3>2 DEF users_left
    <3> QED
      BY <3>3, <2>2, <2>4, <1>2
  <2> QED
    BY <2>3, <2>4
<1>7. StoreConsistent'
  BY <1>5, <1>6, ConsistentFormPrimed DEF Matches
<1> QED
  BY <1>3, <1>7

-----------------------------------------------------------------------------
(* The inductive invariant.                                                *)

\* A gateway that starts has no task, no certificates and no orders on file.
LEMMA InvInit ==
    CertInit => CertInv
<1> SUFFICES ASSUME CertInit PROVE CertInv
  OBVIOUS
<1> USE DEF CertInit
<1>1. TaskOK /\ ~Issuing /\ ~Ordering
  BY NoTaskFacts DEF TaskOK, Issuing, Ordering
<1>2. CertTypeOK
  BY <1>1, QueueAssumption DEF CertTypeOK, CertificateState, Age
<1>3. StoreConsistent
  BY ConsistentForm DEF Matches
<1>4. OrdersOnFile
  BY <1>1 DEF OrdersOnFile, Ordering
<1> QED
  BY <1>2, <1>3, <1>4 DEF CertInv

\* The facts of the invariant that the steps below use.
LEMMA InvFacts ==
    ASSUME CertInv
    PROVE  /\ certificates \in Stored /\ domain_map \in Used /\ disk \in Stored
           /\ task \in Task
           /\ task.pc \notin {"idle", "resend"} => task.agent \in Agent
           /\ task.todo \in SUBSET Domain
           /\ task.resend \in SUBSET (Domain \X Agent)
           /\ Issuing => task.domain \in task.todo /\ TaskKey \in Key
           /\ Ordering => Issuing /\ pending[TaskKey] = ordered[TaskKey]
           /\ \A d \in task.todo :
                 task.pc \notin {"idle", "resend"} => key(task.agent, d) \in Key
<1> USE DEF CertInv, CertTypeOK, TaskOK, OrdersOnFile
<1>1. /\ task \in Task
      /\ task.pc \notin {"idle", "resend"} => task.agent \in Agent
      /\ task.todo \in SUBSET Domain
      /\ task.resend \in SUBSET (Domain \X Agent)
  BY DEF Task
<1>2. ASSUME task.pc \notin {"idle", "resend"}, NEW d \in task.todo
      PROVE  key(task.agent, d) \in Key
  BY <1>1, <1>2, KeyFacts
<1>3. Issuing => TaskKey \in Key
  BY <1>2 DEF Issuing, Ordering, TaskKey
<1> QED
  BY <1>1, <1>2, <1>3 DEF Stored, Used, Issuing

\* A step that leaves the store alone keeps its two tables in agreement.
LEMMA StoreUnchanged ==
    ASSUME StoreConsistent, UNCHANGED store
    PROVE  StoreConsistent'
BY ConsistentForm, ConsistentFormPrimed DEF store

\* A message for the manager changes the queue only.
LEMMA QueueStep ==
    ASSUME CertInv, NEW a \in Agent, NEW D \in SUBSET Domain,
           SendLoad(a, D) \/ SendUnload(a)
    PROVE  CertInv'
<1>1. queue' \in Seq(Message)
  <2>1. PICK m \in Message : queue' = Append(queue, m)
    BY LoadMessageType, UnloadMessageType DEF SendLoad, SendUnload
  <2> QED
    BY <2>1, AppendFacts DEF CertInv, CertTypeOK
<1>2. published' \in [Agent -> SUBSET Domain]
  BY DEF SendLoad, SendUnload, CertInv, CertTypeOK
<1>0. missed' \subseteq Domain \X Agent
  BY DEF SendLoad, SendUnload, CertInv, CertTypeOK
<1>3. UNCHANGED <<store, files, writes, challenges, pendings, task, ordered, crashes>>
  BY DEF SendLoad, SendUnload
<1>4. CertTypeOK'
  BY <1>0, <1>1, <1>2, <1>3 DEF CertInv, CertTypeOK, TaskOK, Issuing, Ordering, store, files,
    writes
<1>5. StoreConsistent'
  BY <1>3, StoreUnchanged DEF CertInv
<1>6. OrdersOnFile'
  BY <1>3 DEF CertInv, OrdersOnFile, Ordering, TaskKey, files, writes
<1> QED
  BY <1>4, <1>5, <1>6 DEF CertInv

\* The manager takes a Load from its queue.
LEMMA ReceiveLoadStep ==
    ASSUME CertInv, ReceiveLoad
    PROVE  CertInv'
<1>1. Head(queue) \in Message /\ queue' \in Seq(Message)
  BY QueueFacts DEF ReceiveLoad, CertInv, CertTypeOK
<1>2. Head(queue).agent \in Agent /\ Head(queue).domains \in SUBSET Domain
  BY <1>1 DEF Message
<1>3. /\ task' \in Task
      /\ task'.pc \in {"idle", "load"}
      /\ task'.pc # "idle" => task'.agent \in Agent
  BY <1>2, LoadingFacts DEF ReceiveLoad
<1>4. TaskOK' /\ ~Issuing' /\ ~Ordering'
  BY <1>3 DEF TaskOK, Issuing, Ordering
<1>5. UNCHANGED <<store, files, writes, challenges, pendings, ordered, missed, published, crashes>>
  BY DEF ReceiveLoad
<1>6. challenges = {}
  BY DEF ReceiveLoad, CertInv, CertTypeOK, Ordering
<1>7. CertTypeOK'
  BY <1>1, <1>4, <1>5, <1>6 DEF CertInv, CertTypeOK, store, files, writes
<1>8. StoreConsistent'
  BY <1>5, StoreUnchanged DEF CertInv
<1>9. OrdersOnFile'
  BY <1>4, <1>5 DEF CertInv, OrdersOnFile, Ordering, files, writes
<1> QED
  BY <1>7, <1>8, <1>9 DEF CertInv

\* The manager takes an Unload: the agent leaves the tables.
LEMMA ReceiveUnloadStep ==
    ASSUME CertInv, ReceiveUnload
    PROVE  CertInv'
<1>1. Head(queue) \in Message /\ queue' \in Seq(Message)
  BY QueueFacts DEF ReceiveUnload, CertInv, CertTypeOK
<1>2. Head(queue).agent \in Agent
  BY <1>1 DEF Message
<1>3. certificates' \in Stored /\ domain_map' \in Used /\ StoreConsistent'
  BY <1>2, InvFacts, RemoveKeepsMatches DEF ReceiveUnload, CertInv
<1>4. UNCHANGED <<files, writes, challenges, pendings, task, ordered, missed, published, crashes>>
  BY DEF ReceiveUnload
<1>5. CertTypeOK'
  BY <1>1, <1>3, <1>4 DEF CertInv, CertTypeOK, TaskOK, Issuing, Ordering, files, writes, Stored, Used
<1>6. OrdersOnFile'
  BY <1>4 DEF CertInv, OrdersOnFile, Ordering, TaskKey, files, writes
<1> QED
  BY <1>3, <1>5, <1>6 DEF CertInv

\* The Load goes on with another domain, or is done.
LEMMA LoadGoesOn ==
    ASSUME CertInv, NEW d, task.pc \notin {"idle", "resend"},
           task' = Loading(task.agent, task.todo \ {d})
    PROVE  TaskOK' /\ ~Issuing' /\ ~Ordering'
<1>1. task.agent \in Agent /\ task.todo \ {d} \in SUBSET Domain
  BY InvFacts
<1>2. /\ task' \in Task
      /\ task'.pc \in {"idle", "load"}
      /\ task'.pc # "idle" => task'.agent \in Agent
  BY <1>1, LoadingFacts
<1> QED
  BY <1>2 DEF TaskOK, Issuing, Ordering

\* A certificate on file is loaded.
LEMMA LoadToMemoryStep ==
    ASSUME CertInv, NEW d \in Domain, LoadToMemory(d)
    PROVE  CertInv'
<1>0. task.pc \in {"load", "stored"}
  BY DEF LoadToMemory
<1>1. TaskOK' /\ ~Issuing' /\ ~Ordering'
  BY <1>0, LoadGoesOn DEF LoadToMemory
<1>2. task.agent \in Agent
  BY <1>0, InvFacts
<1>3. certificates' \in Stored /\ domain_map' \in Used /\ StoreConsistent'
  BY <1>2, InvFacts, InsertKeepsMatches DEF LoadToMemory, CertInv
<1>4. UNCHANGED <<files, writes, challenges, queue, pendings, ordered, published, crashes>>
  BY DEF LoadToMemory
<1>5. challenges = {} /\ missed' \subseteq Domain \X Agent
  BY <1>0 DEF LoadToMemory, CertInv, CertTypeOK, Ordering
<1>6. CertTypeOK'
  BY <1>1, <1>3, <1>4, <1>5 DEF CertInv, CertTypeOK, files, writes, Stored, Used
<1>7. OrdersOnFile'
  BY <1>1, <1>4 DEF CertInv, OrdersOnFile, Ordering, files, writes
<1> QED
  BY <1>3, <1>6, <1>7 DEF CertInv

\* A certificate that is not yet on file is not loaded.
LEMMA LoadMissedStep ==
    ASSUME CertInv, LoadMissed
    PROVE  CertInv'
<1>1. task.pc = "stored" /\ task' = Loading(task.agent, task.todo \ {task.domain})
  BY DEF LoadMissed
<1>2. TaskOK' /\ ~Issuing' /\ ~Ordering'
  BY <1>1, LoadGoesOn
<1>3. task.agent \in Agent /\ task.domain \in Domain
  BY <1>1, InvFacts DEF Issuing
<1>4. missed' \subseteq Domain \X Agent
  BY <1>3 DEF LoadMissed, CertInv, CertTypeOK
<1>5. UNCHANGED <<store, files, writes, challenges, queue, pendings, ordered, published,
                  crashes>>
  BY DEF LoadMissed
<1>6. challenges = {}
  BY <1>1 DEF CertInv, CertTypeOK, Ordering
<1>7. CertTypeOK'
  BY <1>2, <1>4, <1>5, <1>6 DEF CertInv, CertTypeOK, store, files, writes
<1>8. StoreConsistent'
  BY <1>5, StoreUnchanged DEF CertInv
<1>9. OrdersOnFile'
  BY <1>2, <1>5 DEF CertInv, OrdersOnFile, Ordering, files, writes
<1> QED
  BY <1>7, <1>8, <1>9 DEF CertInv

\* A Load refused because an order failed or is pending.
LEMMA RefusedStep ==
    ASSUME CertInv, NEW d \in Domain, IssueFailed(d) \/ IssuePending(d)
    PROVE  CertInv'
<1>1. task.pc = "load" /\ task' = Loading(task.agent, task.todo \ {d})
  BY DEF IssueFailed, IssuePending, Needed
<1>2. TaskOK' /\ ~Issuing' /\ ~Ordering'
  BY <1>1, LoadGoesOn
<1>3. task.agent \in Agent
  BY <1>1, InvFacts
<1>4. pendings' \subseteq Domain \X Agent
  BY <1>3 DEF IssueFailed, IssuePending, PutOff, CertInv, CertTypeOK
<1>5. UNCHANGED <<store, files, writes, challenges, queue, ordered, missed, published, crashes>>
  BY DEF IssueFailed, IssuePending
<1>6. challenges = {}
  BY <1>1 DEF CertInv, CertTypeOK, Ordering
<1>7. CertTypeOK'
  BY <1>2, <1>4, <1>5, <1>6 DEF CertInv, CertTypeOK, store, files, writes
<1>8. StoreConsistent'
  BY <1>5, StoreUnchanged DEF CertInv
<1>9. OrdersOnFile'
  BY <1>2, <1>5 DEF CertInv, OrdersOnFile, Ordering, files, writes
<1> QED
  BY <1>7, <1>8, <1>9 DEF CertInv

\* An order is placed when no mark forbids it; its age is that of its pending file.
LEMMA IssueOrderStep ==
    ASSUME CertInv, NEW d \in Domain, IssueOrder(d)
    PROVE  CertInv'
<1> DEFINE k == key(task.agent, d)
<1>1. /\ task.pc = "load" /\ d \in task.todo
      /\ task' = [task EXCEPT !.pc = "order", !.domain = d]
  BY DEF IssueOrder, Needed
<1>2. task \in Task /\ task.agent \in Agent /\ k \in Key
  BY <1>1, InvFacts
<1>3. /\ TaskOK' /\ Ordering' /\ task'.pc = "order"
      /\ task'.agent = task.agent /\ task'.domain = d
  BY <1>1, <1>2 DEF TaskOK, Task, Issuing, Ordering
<1>4. /\ pending' = [pending EXCEPT ![k] = "new"]
      /\ ordered' = [ordered EXCEPT ![k] = "new"]
      /\ UNCHANGED <<store, disk, failed, unflushed, challenges, queue, pendings, missed,
                     published, crashes>>
      /\ unwritten' = unwritten \ {k}
  BY DEF IssueOrder
<1>5. challenges = {}
  BY <1>1 DEF CertInv, CertTypeOK, Ordering
<1>6. CertTypeOK'
  BY <1>3, <1>4, <1>5 DEF CertInv, CertTypeOK, store, Age
<1>7. StoreConsistent'
  BY <1>4, StoreUnchanged DEF CertInv
<1>8. pending'[k] = "new" /\ ordered'[k] = "new"
  BY <1>2, <1>4 DEF CertInv, CertTypeOK
<1>9. TaskKey' = k
  BY <1>3 DEF TaskKey, key
<1>10. ASSUME NEW j \in Key, ordered'[j] = "new"
       PROVE  pending'[j] = "new" \/ failed'[j] = "new" \/ disk'[j] = "fresh" \/ j \in unwritten'
  BY <1>4, <1>8, <1>10 DEF CertInv, CertTypeOK, OrdersOnFile
<1>11. OrdersOnFile'
  BY <1>3, <1>8, <1>9, <1>10 DEF OrdersOnFile
<1> QED
  BY <1>6, <1>7, <1>11 DEF CertInv

\* The authority asks for a challenge.
LEMMA ChallengedStep ==
    ASSUME CertInv, Challenged
    PROVE  CertInv'
<1>1. task.pc = "order" /\ task' = [task EXCEPT !.pc = "verify"]
  BY DEF Challenged
<1>2. Ordering /\ Ordering'
  BY <1>1, InvFacts DEF Ordering, Task
<1>3. /\ task'.pc = "verify" /\ TaskOK'
      /\ task'.agent = task.agent /\ task'.domain = task.domain
  BY <1>1, <1>2, InvFacts DEF CertInv, CertTypeOK, TaskOK, Task
<1>4. UNCHANGED <<store, files, writes, queue, pendings, ordered, missed, published, crashes>>
  BY DEF Challenged
<1>5. challenges' \subseteq {task'.domain}
  BY <1>2, <1>3 DEF Challenged, CertInv, CertTypeOK
<1>6. CertTypeOK'
  BY <1>2, <1>3, <1>4, <1>5 DEF CertInv, CertTypeOK, store, files, writes
<1>7. StoreConsistent'
  BY <1>4, StoreUnchanged DEF CertInv
<1>8. TaskKey' = TaskKey
  BY <1>3 DEF TaskKey, key
<1>9. OrdersOnFile'
  BY <1>2, <1>3, <1>4, <1>8 DEF CertInv, OrdersOnFile, files, writes
<1> QED
  BY <1>6, <1>7, <1>9 DEF CertInv

\* The certificate's file is emptied, and its write is with the threads.
LEMMA GrantedStep ==
    ASSUME CertInv, Granted
    PROVE  CertInv'
<1> DEFINE k == TaskKey
<1>1. /\ task.pc \in {"order", "verify"} /\ Ordering /\ Issuing
      /\ task' = [task EXCEPT !.pc = "written"]
      /\ disk' = [disk EXCEPT ![k] = "none"]
      /\ unflushed' = unflushed \cup {k}
      /\ UNCHANGED <<store, pending, failed, unwritten, challenges, queue, pendings, ordered,
                     missed, published, crashes>>
  BY DEF Granted, Ordering, Issuing
<1>2. /\ task'.pc = "written" /\ Ordering' /\ TaskOK'
      /\ task'.agent = task.agent /\ task'.domain = task.domain
  BY <1>1, InvFacts DEF CertInv, CertTypeOK, TaskOK, Task, Ordering, Issuing
<1>3. k \in Key /\ pending[k] = ordered[k] /\ TaskKey' = k
  BY <1>1, <1>2, InvFacts DEF TaskKey, key
<1>4. CertTypeOK'
  BY <1>1, <1>2, <1>3 DEF CertInv, CertTypeOK, store, CertificateState
<1>5. StoreConsistent'
  BY <1>1, StoreUnchanged DEF CertInv
<1>6. ASSUME NEW j \in Key, ordered'[j] = "new"
      PROVE  pending'[j] = "new" \/ failed'[j] = "new" \/ disk'[j] = "fresh" \/ j \in unwritten'
  BY <1>1, <1>3, <1>6 DEF CertInv, CertTypeOK, OrdersOnFile
<1>7. OrdersOnFile'
  BY <1>1, <1>3, <1>6 DEF OrdersOnFile
<1> QED
  BY <1>4, <1>5, <1>7 DEF CertInv

\* A write reaches its file, whenever that is.
LEMMA FlushedStep ==
    ASSUME CertInv, NEW k \in Key, Flushed(k)
    PROVE  CertInv'
<1>1. /\ disk' = [disk EXCEPT ![k] = "fresh"]
      /\ unflushed' = unflushed \ {k} /\ unwritten' = unwritten \ {k}
      /\ UNCHANGED <<store, pending, failed, manager, ordered, missed, published, crashes>>
  BY DEF Flushed
<1>2. CertTypeOK'
  BY <1>1 DEF CertInv, CertTypeOK, TaskOK, Issuing, Ordering, store, manager, CertificateState
<1>3. StoreConsistent'
  BY <1>1, StoreUnchanged DEF CertInv
<1>4. /\ \A j \in Key : disk'[j] = IF j = k THEN "fresh" ELSE disk[j]
      /\ task.pc = "written" => TaskKey \in Key
  BY <1>1, InvFacts DEF CertInv, CertTypeOK, Issuing, Ordering
<1>5. OrdersOnFile'
  BY <1>1, <1>4 DEF CertInv, OrdersOnFile, Ordering, TaskKey, manager
<1> QED
  BY <1>2, <1>3, <1>5 DEF CertInv

\* The marks are removed: what is not on file is noted as unwritten.
LEMMA PutDoneStep ==
    ASSUME CertInv, PutDone
    PROVE  CertInv'
<1> DEFINE k == TaskKey
<1>1. /\ task.pc = "written" /\ Ordering /\ Issuing
      /\ task' = [task EXCEPT !.pc = "stored"]
      /\ failed' = [failed EXCEPT ![k] = "none"]
      /\ pending' = [pending EXCEPT ![k] = "none"]
      /\ challenges' = challenges \ {task.domain}
      /\ unwritten' = unwritten \cup {j \in unflushed : j = k /\ ordered[j] = "new"}
      /\ UNCHANGED <<store, disk, unflushed, queue, pendings, ordered, missed, published,
                     crashes>>
  BY DEF PutDone, Ordering, Issuing, answered
<1>2. /\ task'.pc = "stored" /\ ~Ordering' /\ TaskOK'
  BY <1>1, InvFacts DEF CertInv, CertTypeOK, TaskOK, Task, Ordering, Issuing
<1>3. k \in Key /\ challenges' = {}
  BY <1>1, InvFacts DEF CertInv, CertTypeOK
<1>4. CertTypeOK'
  BY <1>1, <1>2, <1>3 DEF CertInv, CertTypeOK, store, Age
<1>5. StoreConsistent'
  BY <1>1, StoreUnchanged DEF CertInv
<1>6. ASSUME NEW j \in Key, ordered'[j] = "new"
      PROVE  pending'[j] = "new" \/ failed'[j] = "new" \/ disk'[j] = "fresh" \/ j \in unwritten'
  <2>1. CASE j = k
    BY <1>1, <1>6, <2>1 DEF CertInv, OrdersOnFile
  <2>2. CASE j # k
    BY <1>1, <1>3, <1>6, <2>2 DEF CertInv, CertTypeOK, OrdersOnFile
  <2> QED
    BY <2>1, <2>2
<1>7. OrdersOnFile'
  BY <1>2, <1>6 DEF OrdersOnFile
<1> QED
  BY <1>4, <1>5, <1>7 DEF CertInv

\* The authority rejects: the pending file becomes the failed one with its age.
LEMMA RejectedStep ==
    ASSUME CertInv, Rejected
    PROVE  CertInv'
<1> DEFINE k == TaskKey
<1>1. /\ task.pc \in {"order", "verify"} /\ Ordering
      /\ task' = Loading(task.agent, task.todo \ {task.domain})
      /\ failed' = [failed EXCEPT ![k] = pending[k]]
      /\ pending' = [pending EXCEPT ![k] = "none"]
      /\ challenges' = challenges \ {task.domain}
      /\ UNCHANGED <<store, disk, writes, queue, pendings, ordered, missed, published, crashes>>
  BY DEF Rejected, set_failed, Ordering, TaskKey, answered
<1>2. TaskOK' /\ ~Issuing' /\ ~Ordering'
  BY <1>1, LoadGoesOn
<1>3. k \in Key /\ pending[k] = ordered[k]
  BY <1>1, InvFacts
<1>4. challenges' = {}
  BY <1>1 DEF CertInv, CertTypeOK
<1>5. pending[k] \in Age
  BY <1>3 DEF CertInv, CertTypeOK
<1>6. CertTypeOK'
  BY <1>1, <1>2, <1>4, <1>5 DEF CertInv, CertTypeOK, store, writes, Age
<1>7. StoreConsistent'
  BY <1>1, StoreUnchanged DEF CertInv
<1>8. ASSUME NEW j \in Key, ordered'[j] = "new"
      PROVE  pending'[j] = "new" \/ failed'[j] = "new" \/ disk'[j] = "fresh" \/ j \in unwritten'
  BY <1>1, <1>3, <1>8 DEF CertInv, CertTypeOK, OrdersOnFile, writes
<1>9. OrdersOnFile'
  BY <1>2, <1>8 DEF OrdersOnFile, Ordering
<1> QED
  BY <1>6, <1>7, <1>9 DEF CertInv

\* A tick collects what is to be sent again.
LEMMA TickStep ==
    ASSUME CertInv, PendingTick \/ RenewTick
    PROVE  CertInv'
<1>1. PICK S \in SUBSET (Domain \X Agent) : task' = Resending(S)
  BY DEF PendingTick, RenewTick, renew_needed, CertInv, CertTypeOK
<1>2. /\ task' \in Task
      /\ task'.pc \in {"idle", "resend"}
  BY <1>1, ResendingFacts
<1>3. TaskOK' /\ ~Issuing' /\ ~Ordering'
  BY <1>2 DEF TaskOK, Issuing, Ordering
<1>4. pendings' \subseteq pendings /\ challenges = {}
  BY DEF PendingTick, RenewTick, CertInv, CertTypeOK, Ordering
<1>5. UNCHANGED <<store, files, writes, challenges, queue, ordered, missed, published, crashes>>
  BY DEF PendingTick, RenewTick
<1>6. CertTypeOK'
  BY <1>3, <1>4, <1>5 DEF CertInv, CertTypeOK, store, files, writes
<1>7. StoreConsistent'
  BY <1>5, StoreUnchanged DEF CertInv
<1>8. OrdersOnFile'
  BY <1>3, <1>5 DEF CertInv, OrdersOnFile, Ordering, files, writes
<1> QED
  BY <1>6, <1>7, <1>8 DEF CertInv

\* A Load is put in the manager's own queue.
LEMMA ResendStep ==
    ASSUME CertInv, NEW e \in Domain \X Agent, Resend(e)
    PROVE  CertInv'
<1>1. task.resend \ {e} \in SUBSET (Domain \X Agent)
  BY InvFacts
<1>2. /\ task' \in Task
      /\ task'.pc \in {"idle", "resend"}
  BY <1>1, ResendingFacts DEF Resend
<1>3. TaskOK' /\ ~Issuing' /\ ~Ordering'
  BY <1>2 DEF TaskOK, Issuing, Ordering
<1>4. challenges = {}
  BY DEF Resend, CertInv, CertTypeOK, Ordering
<1>5. UNCHANGED <<store, files, writes, challenges, pendings, ordered, missed, published, crashes>>
  BY DEF Resend
<1>6. LoadMessage(e[2], {e[1]}) \in Message
  BY LoadMessageType
<1>7. queue' \in Seq(Message)
  BY <1>6, AppendFacts DEF Resend, CertInv, CertTypeOK
<1>8. CertTypeOK'
  BY <1>3, <1>4, <1>5, <1>7 DEF CertInv, CertTypeOK, store, files, writes
<1>9. StoreConsistent'
  BY <1>5, StoreUnchanged DEF CertInv
<1>10. OrdersOnFile'
  BY <1>3, <1>5 DEF CertInv, OrdersOnFile, Ordering, files, writes
<1> QED
  BY <1>8, <1>9, <1>10 DEF CertInv

\* Two minutes or an hour pass for the files of a domain: the order and its
\* pending file age together.
LEMMA TimeStep ==
    ASSUME CertInv, NEW k \in Key, PassTwoMinutes(k) \/ PassHour(k)
    PROVE  CertInv'
<1>1. /\ UNCHANGED <<store, disk, unflushed, manager, missed, published, crashes>>
      /\ unwritten' \subseteq unwritten
      /\ \A j \in Key \ {k} : j \in unwritten => j \in unwritten'
  BY DEF PassTwoMinutes, PassHour, writes
<1>2. /\ pending' \in [Key -> Age]
      /\ failed' \in [Key -> Age]
      /\ ordered' \in [Key -> Age]
  BY DEF PassTwoMinutes, PassHour, Aged, CertInv, CertTypeOK, Age
<1>3. CertTypeOK'
  BY <1>1, <1>2 DEF CertInv, CertTypeOK, TaskOK, Issuing, Ordering, store, manager
<1>4. StoreConsistent'
  BY <1>1, StoreUnchanged DEF CertInv
<1>5. ASSUME NEW j \in Key, ordered'[j] = "new"
      PROVE  pending'[j] = "new" \/ failed'[j] = "new" \/ disk'[j] = "fresh" \/ j \in unwritten'
  <2>1. /\ j # k
        /\ ordered'[j] = ordered[j]
        /\ pending'[j] = pending[j]
        /\ failed'[j] = failed[j]
    BY <1>5 DEF PassTwoMinutes, PassHour, Aged, CertInv, CertTypeOK
  <2> QED
    BY <2>1, <1>1, <1>5 DEF CertInv, OrdersOnFile
<1>6. ASSUME Ordering'
      PROVE  pending'[TaskKey] = ordered'[TaskKey]
  <2>1. /\ Ordering
        /\ TaskKey \in Key
        /\ pending[TaskKey] = ordered[TaskKey]
    BY <1>1, <1>6, InvFacts DEF Issuing, Ordering, manager
  <2> QED
    BY <2>1 DEF PassTwoMinutes, PassHour, Aged, CertInv, CertTypeOK
<1>7. OrdersOnFile'
  <2>1. ASSUME task'.pc = "written", ordered'[TaskKey] = "new"
        PROVE  disk[TaskKey] = "fresh" \/ TaskKey \in unflushed
    <3>1. task.pc = "written" /\ TaskKey \in Key
      BY <1>1, <2>1, InvFacts DEF Issuing, Ordering, manager
    <3>2. ordered[TaskKey] = "new"
      BY <2>1, <3>1 DEF PassTwoMinutes, PassHour, Aged, CertInv, CertTypeOK
    <3> QED
      BY <3>1, <3>2 DEF CertInv, OrdersOnFile
  <2> QED
    BY <1>1, <1>5, <1>6, <2>1 DEF OrdersOnFile, TaskKey, manager
<1> QED
  BY <1>3, <1>4, <1>7 DEF CertInv

\* A certificate gets old, which is long after its order.
LEMMA CertificateAgesStep ==
    ASSUME CertInv, NEW k \in Key, CertificateAges(k)
    PROVE  CertInv'
<1>1. /\ ordered[k] = "old"
      /\ disk' = [disk EXCEPT ![k] = "aging"]
      /\ certificates' = [certificates EXCEPT ![k] = IF @ = "fresh" THEN "aging" ELSE @]
      /\ UNCHANGED <<domain_map, pending, failed, writes, manager, ordered, missed, published,
                     crashes>>
  BY DEF CertificateAges
<1>2. CertTypeOK'
  BY <1>1 DEF CertInv, CertTypeOK, TaskOK, Issuing, Ordering, manager, writes, CertificateState
<1>3. \A j \in Key : certificates'[j] # "none" <=> certificates[j] # "none"
  BY <1>1 DEF CertInv, CertTypeOK
<1>4. Matches(certificates', domain_map')
  BY <1>1, <1>3, ConsistentForm, KeyFacts DEF CertInv, Matches
<1>5. StoreConsistent'
  BY <1>4, ConsistentFormPrimed
<1>6. /\ Ordering => pending[TaskKey] = ordered[TaskKey]
      /\ task.pc = "written" /\ ordered[TaskKey] = "new" =>
            disk'[TaskKey] = "fresh" \/ TaskKey \in unflushed
  <2>1. task.pc = "written" => TaskKey \in Key
    BY InvFacts DEF Issuing, Ordering
  <2> QED
    BY <1>1, <2>1 DEF CertInv, CertTypeOK, OrdersOnFile
<1>7. ASSUME NEW j \in Key, ordered'[j] = "new"
      PROVE  pending'[j] = "new" \/ failed'[j] = "new" \/ disk'[j] = "fresh" \/ j \in unwritten'
  BY <1>1, <1>7 DEF CertInv, CertTypeOK, OrdersOnFile, writes
<1>8. OrdersOnFile'
  BY <1>1, <1>6, <1>7 DEF OrdersOnFile, Ordering, TaskKey, manager, writes
<1> QED
  BY <1>2, <1>5, <1>8 DEF CertInv

\* The gateway crashes: the memory is lost and the files stay.
LEMMA CrashStep ==
    ASSUME CertInv, Crash
    PROVE  CertInv'
<1> USE DEF Crash
<1>1. TaskOK' /\ ~Issuing' /\ ~Ordering'
  BY NoTaskFacts DEF TaskOK, Issuing, Ordering
<1>2. crashes' \in 0..MaxCrashes
  BY QueueAssumption DEF CertInv, CertTypeOK
<1>3. queue' \in Seq(Message)
  OBVIOUS
<1>4. CertTypeOK'
  BY <1>1, <1>2, <1>3 DEF CertInv, CertTypeOK, files, writes, CertificateState
<1>5. StoreConsistent'
  BY ConsistentFormPrimed DEF Matches
<1>6. OrdersOnFile'
  BY <1>1 DEF CertInv, OrdersOnFile, Ordering, files, writes
<1> QED
  BY <1>4, <1>5, <1>6 DEF CertInv

\* Every step of the manager keeps its invariant.
LEMMA InvStep ==
    CertInv /\ [CertNext]_cvars => CertInv'
<1> SUFFICES ASSUME CertInv, [CertNext]_cvars PROVE CertInv'
  OBVIOUS
<1>1. ASSUME NEW a \in Agent, NEW D \in SUBSET Domain \ {{}}, SendLoad(a, D)
      PROVE  CertInv'
  BY <1>1, QueueStep
<1>2. ASSUME NEW a \in Agent, SendUnload(a) PROVE CertInv'
  BY <1>2, QueueStep
<1>3. ASSUME ManagerStep PROVE CertInv'
  BY <1>3, ReceiveLoadStep, ReceiveUnloadStep, LoadToMemoryStep, LoadMissedStep, RefusedStep,
     IssueOrderStep, ChallengedStep, GrantedStep, PutDoneStep, RejectedStep, ResendStep
  DEF ManagerStep
<1>4. CASE PendingTick \/ RenewTick
  BY <1>4, TickStep
<1>5. ASSUME NEW k \in Key, PassTwoMinutes(k) \/ PassHour(k) PROVE CertInv'
  BY <1>5, TimeStep
<1>6. ASSUME NEW k \in Key, CertificateAges(k) PROVE CertInv'
  BY <1>6, CertificateAgesStep
<1>9. ASSUME NEW k \in Key, Flushed(k) PROVE CertInv'
  BY <1>9, FlushedStep
<1>7. CASE Crash
  BY <1>7, CrashStep
<1>8. CASE UNCHANGED cvars
  <2>1. UNCHANGED <<store, files, writes, manager, ordered, missed, published, crashes>>
    BY <1>8 DEF cvars
  <2>2. CertTypeOK'
    BY <2>1 DEF CertInv, CertTypeOK, TaskOK, Issuing, Ordering, store, files, writes, manager
  <2>3. StoreConsistent'
    BY <2>1, StoreUnchanged DEF CertInv
  <2>4. OrdersOnFile'
    BY <2>1 DEF CertInv, OrdersOnFile, Ordering, TaskKey, files, writes, manager
  <2> QED
    BY <2>2, <2>3, <2>4 DEF CertInv
<1> QED
  BY <1>1, <1>2, <1>3, <1>4, <1>5, <1>6, <1>7, <1>8, <1>9 DEF CertNext

-----------------------------------------------------------------------------
(* The theorems.                                                           *)

\* The invariant of the certificate manager holds in every state, whatever the
\* authority answers and whenever the gateway crashes.
THEOREM CertInductive == CertSpec => []CertInv
<1>1. CertInit => CertInv
  BY InvInit
<1>2. CertInv /\ [CertNext]_cvars => CertInv'
  BY InvStep
<1> QED
  BY <1>1, <1>2, PTL DEF CertSpec

\* Every variable of the manager keeps its type, and a challenge is held only
\* for the domain whose order is under way.
THEOREM CertTypeCorrect == CertSpec => []CertTypeOK
<1>1. CertInv => CertTypeOK
  BY DEF CertInv
<1> QED
  BY <1>1, CertInductive, PTL

\* CertificateStore never holds an agent without a certificate, nor a
\* certificate without an agent, for any mix of users that share a domain.
THEOREM StoreAgrees == CertSpec => []StoreConsistent
<1>1. CertInv => StoreConsistent
  BY DEF CertInv
<1> QED
  BY <1>1, CertInductive, PTL

\* No order is placed for a domain of a user within two minutes of the last,
\* in any run: the files the manager consults before it orders remember the
\* last order through rejections and crashes.  Only a certificate whose write
\* has not reached its file when the marks are gone leaves no trace.
THEOREM OrdersKeepTheirDistance == CertSpec => OrdersPaced
<1>1. ASSUME CertInv, [CertNext]_cvars, task.pc = "load", task'.pc = "order"
      PROVE  ordered[TaskKey'] # "new" \/ TaskKey' \in unwritten
  <2>1. CertNext /\ task' # task
    BY <1>1 DEF cvars, manager
  <2>2. PICK d \in Domain : IssueOrder(d)
    <3>1. ASSUME NEW d \in Domain, LoadToMemory(d) \/ IssueFailed(d) \/ IssuePending(d)
          PROVE  FALSE
      <4>1. task' = Loading(task.agent, task.todo \ {d})
        BY <3>1 DEF LoadToMemory, IssueFailed, IssuePending
      <4>2. task'.pc \in {"idle", "load"}
        BY <1>1, <4>1, InvFacts, LoadingFacts
      <4> QED
        BY <1>1, <4>2
    <3>2. ManagerStep
      BY <1>1, <2>1, NoTaskFacts
      DEF CertNext, SendLoad, SendUnload, PendingTick, RenewTick, Flushed, PassTwoMinutes, PassHour,
          CertificateAges, Crash, manager
    <3> QED
      BY <1>1, <3>1, <3>2
      DEF ManagerStep, ReceiveLoad, ReceiveUnload, Challenged, Granted, PutDone, LoadMissed,
          Rejected, Resend
  <2>3. /\ TaskKey' = key(task.agent, d)
        /\ key(task.agent, d) \in Key
        /\ disk[key(task.agent, d)] # "fresh"
        /\ failed[key(task.agent, d)] # "new"
        /\ pending[key(task.agent, d)] # "new"
    BY <1>1, <2>2, InvFacts DEF IssueOrder, Needed, is_failed, is_pending, Task, TaskKey, key
  <2> QED
    BY <1>1, <2>3 DEF CertInv, OrdersOnFile
<1>2. CertInv /\ [CertNext]_cvars
      => [task.pc = "load" /\ task'.pc = "order"
             => ordered[TaskKey'] # "new" \/ TaskKey' \in unwritten]_cvars
  BY <1>1
<1> QED
  BY <1>2, CertInductive, PTL DEF CertSpec, OrdersPaced

=============================================================================
