----------------------------- MODULE CertManager -----------------------------
(***************************************************************************)
(* The gateway's certificate manager (sra-gateway/src/service/certificate):*)
(* the store of certificates in memory, the files of the storage, and the  *)
(* manager's task, which takes Load and Unload messages one at a time,     *)
(* orders certificates that are missing or due for renewal from an ACME    *)
(* authority, and queues Load messages for itself at its two intervals.    *)
(*                                                                         *)
(* The task awaits an order in the middle of a Load: nothing else is taken *)
(* from its queue meanwhile.  The gateway may crash at any time; the files *)
(* stay.  The storage's own failures (a full disk) are left out.           *)
(*                                                                         *)
(* A certificate is written with tokio's File::write_all and not flushed:  *)
(* the write is handed to the runtime's thread pool and the File is let go *)
(* of, so the manager may read the file, remove the marks of the order, or *)
(* crash, while the file is still empty.                                   *)
(*                                                                         *)
(* The time stamps in the files are represented by their age: "new" for    *)
(* the two minutes of is_pending, "mid" for the hour of is_failed.         *)
(***************************************************************************)
EXTENDS Naturals, Sequences

CONSTANTS
    Agent,      \* the agents that publish: pairs <<uid, agent name>>
    Domain,
    MaxQueue,   \* bound: messages waiting for the manager
    MaxCrashes  \* bound: crashes of the gateway

ASSUME QueueAssumption == MaxQueue \in Nat /\ MaxCrashes \in Nat

VARIABLES
    certificates,  \* CertificateStore: the certificate of a user's domain
    domain_map,    \* CertificateStore: the agents <<domain, agent>> that use it
    disk,          \* what the storage's pem file of a user's domain holds; an
                   \* empty file, which Certificate::from_pem_vec refuses, is "none"
    unflushed,     \* pem files whose write is with the runtime's threads
    pending,       \* age of its pending file
    failed,        \* age of its failed file
    ordered,       \* age of the last order placed for it (no variable of the code)
    unwritten,     \* keys whose order of the last two minutes has no mark any more
                   \* and no certificate yet (no variable of the code)
    missed,        \* uses <<domain, agent>> whose Load read such a file (no
                   \* variable of the code)
    challenges,    \* acme_configurations: domains with a challenge to answer
    queue,         \* messages for the manager
    pendings,      \* Loads put off until the next minute
    task,          \* what the manager's task is doing
    published,     \* what the state task last said of each agent
    crashes

store == <<certificates, domain_map>>
files == <<disk, pending, failed>>
manager == <<challenges, queue, pendings, task>>
writes == <<unflushed, unwritten>>
cvars == <<store, files, writes, manager, ordered, missed, published, crashes>>

uid(a) == a[1]
Key == {<<uid(a), d>> : a \in Agent, d \in Domain}
key(a, d) == <<uid(a), d>>

NoTask == [pc |-> "idle", agent |-> <<>>, todo |-> {}, domain |-> <<>>, resend |-> {}]
LoadMessage(a, D) == [type |-> "Load", agent |-> a, domains |-> D]
UnloadMessage(a) == [type |-> "Unload", agent |-> a, domains |-> {}]

\* An order is under way, for the certificate of TaskKey: its pending mark is
\* on file.
Ordering == task.pc \in {"order", "verify", "written"}
Issuing == Ordering \/ task.pc = "stored"
TaskKey == key(task.agent, task.domain)
Overtaking(k) == task.pc \in {"written", "stored"} /\ k = TaskKey

CertInit ==
    /\ certificates = [k \in Key |-> "none"]
    /\ domain_map = {}
    /\ disk = [k \in Key |-> "none"]
    /\ pending = [k \in Key |-> "none"]
    /\ failed = [k \in Key |-> "none"]
    /\ ordered = [k \in Key |-> "none"]
    /\ unflushed = {} /\ unwritten = {} /\ missed = {}
    /\ challenges = {}
    /\ queue = <<>>
    /\ pendings = {}
    /\ task = NoTask
    /\ published = [a \in Agent |-> {}]
    /\ crashes = 0

-----------------------------------------------------------------------------
(* The state task of the gateway (module GatewayState) sends messages.     *)

\* An agent that registered publishes the domains D by HTTP; a Load of no domain
\* at all, which changes nothing, is left out.
SendLoad(a, D) ==
    /\ Len(queue) < MaxQueue
    /\ queue' = Append(queue, LoadMessage(a, D))
    /\ published' = [published EXCEPT ![a] = D]
    /\ missed' = missed \ (D \X {a})
    /\ UNCHANGED <<store, files, writes, challenges, pendings, task, ordered, crashes>>

\* An agent left, whatever it published.
SendUnload(a) ==
    /\ Len(queue) < MaxQueue
    /\ queue' = Append(queue, UnloadMessage(a))
    /\ published' = [published EXCEPT ![a] = {}]
    /\ missed' = missed \ (Domain \X {a})
    /\ UNCHANGED <<store, files, writes, challenges, pendings, task, ordered, crashes>>

-----------------------------------------------------------------------------
(* CertificateStore.                                                       *)

\* Mutant of insert: the agent is noted for the domain without a certificate.
insert_agent_only(a, d) ==
    /\ domain_map' = domain_map \cup {<<d, a>>}
    /\ UNCHANGED certificates

insert(a, d) ==
    /\ certificates' = [certificates EXCEPT ![key(a, d)] = disk[key(a, d)]]
    /\ domain_map' = domain_map \cup {<<d, a>>}

\* Mutant of users_left: an agent's certificates go although another agent of
\* its user still uses them.
users_left_none(a, d) == {}

\* The other agents of a's user that use domain d.
users_left(a, d) == {b \in Agent \ {a} : <<d, b>> \in domain_map /\ uid(b) = uid(a)}

remove(a) ==
    /\ certificates' =
          [k \in Key |->
              IF k[1] = uid(a) /\ <<k[2], a>> \in domain_map /\ users_left(a, k[2]) = {}
              THEN "none" ELSE certificates[k]]
    /\ domain_map' = {e \in domain_map : e[2] # a}

\* What get_config may answer for a domain: it takes any user of the domain.
get_config(d) == {certificates[key(a, d)] : a \in {b \in Agent : <<d, b>> \in domain_map}}

-----------------------------------------------------------------------------
(* The manager's task: the messages.                                       *)

Loading(a, todo) ==
    IF todo = {} THEN NoTask ELSE [NoTask EXCEPT !.pc = "load", !.agent = a, !.todo = todo]

ReceiveLoad ==
    /\ task.pc = "idle" /\ queue # <<>> /\ Head(queue).type = "Load"
    /\ task' = Loading(Head(queue).agent, Head(queue).domains)
    /\ queue' = Tail(queue)
    /\ UNCHANGED <<store, files, writes, challenges, pendings, ordered, missed, published,
                   crashes>>

ReceiveUnload ==
    /\ task.pc = "idle" /\ queue # <<>> /\ Head(queue).type = "Unload"
    /\ remove(Head(queue).agent)
    /\ queue' = Tail(queue)
    /\ UNCHANGED <<files, writes, challenges, pendings, task, ordered, missed, published,
                   crashes>>

\* load_to_memory, first of all and again after an order was granted: the file
\* can be read and is not due for renewal.
LoadToMemory(d) ==
    /\ d \in task.todo
    /\ \/ task.pc = "load"
       \/ task.pc = "stored" /\ d = task.domain
    /\ disk[key(task.agent, d)] = "fresh"
    /\ insert(task.agent, d)
    /\ missed' = missed \ {<<d, task.agent>>}
    /\ task' = Loading(task.agent, task.todo \ {d})
    /\ UNCHANGED <<files, writes, challenges, queue, pendings, ordered, published, crashes>>

-----------------------------------------------------------------------------
(* The manager's task: issue.                                              *)

\* Mutant of is_pending: the file is not looked at.
is_pending_never(k) == FALSE

is_pending(k) == pending[k] = "new"
is_failed(k) == failed[k] \in {"new", "mid"}

Needed(d) ==
    task.pc = "load" /\ d \in task.todo /\ disk[key(task.agent, d)] # "fresh"

IssueFailed(d) ==
    /\ Needed(d)
    /\ is_failed(key(task.agent, d))
    /\ task' = Loading(task.agent, task.todo \ {d})
    /\ UNCHANGED <<store, files, writes, challenges, queue, pendings, ordered, missed,
                   published, crashes>>

\* Mutant of PutOff: the Load is given up.
PutOff_not(a, d) == pendings

PutOff(a, d) == pendings \cup {<<d, a>>}

IssuePending(d) ==
    /\ Needed(d)
    /\ ~is_failed(key(task.agent, d)) /\ is_pending(key(task.agent, d))
    /\ pendings' = PutOff(task.agent, d)
    /\ task' = Loading(task.agent, task.todo \ {d})
    /\ UNCHANGED <<store, files, writes, challenges, queue, ordered, missed, published,
                   crashes>>

\* set_pending, and an order is placed.
IssueOrder(d) ==
    LET k == key(task.agent, d)
    IN  /\ Needed(d)
        /\ ~is_failed(k) /\ ~is_pending(k)
        /\ pending' = [pending EXCEPT ![k] = "new"]
        /\ ordered' = [ordered EXCEPT ![k] = "new"]
        /\ unwritten' = unwritten \ {k}
        /\ task' = [task EXCEPT !.pc = "order", !.domain = d]
        /\ UNCHANGED <<store, disk, failed, unflushed, challenges, queue, pendings, missed,
                       published, crashes>>

\* The authority wants a challenge answered before it decides.
Challenged ==
    /\ task.pc = "order"
    /\ challenges' = challenges \cup {task.domain}
    /\ task' = [task EXCEPT !.pc = "verify"]
    /\ UNCHANGED <<store, files, writes, queue, pendings, ordered, missed, published, crashes>>

\* The certificate is granted: File::create empties the file, and write_all
\* returns when the runtime has taken the data.
Granted ==
    /\ task.pc \in {"order", "verify"}
    /\ disk' = [disk EXCEPT ![TaskKey] = "none"]
    /\ unflushed' = unflushed \cup {TaskKey}
    /\ task' = [task EXCEPT !.pc = "written"]
    /\ UNCHANGED <<store, pending, failed, unwritten, challenges, queue, pendings, ordered,
                   missed, published, crashes>>

\* A thread of the runtime writes the file.
Flushed(k) ==
    /\ k \in unflushed
    /\ disk' = [disk EXCEPT ![k] = "fresh"]
    /\ unflushed' = unflushed \ {k}
    /\ unwritten' = unwritten \ {k}
    /\ UNCHANGED <<store, pending, failed, manager, ordered, missed, published, crashes>>

\* Mutant of answered: the challenge is removed on success only.
answered_not == challenges

\* The challenge of the order is removed, before its outcome is looked at.
answered == challenges \ {task.domain}

\* put removes the two marks, whether the data is in the file by now or not.
PutDone ==
    /\ task.pc = "written"
    /\ failed' = [failed EXCEPT ![TaskKey] = "none"]
    /\ pending' = [pending EXCEPT ![TaskKey] = "none"]
    /\ challenges' = answered
    /\ unwritten' = unwritten \cup {k \in unflushed : k = TaskKey /\ ordered[k] = "new"}
    /\ task' = [task EXCEPT !.pc = "stored"]
    /\ UNCHANGED <<store, disk, unflushed, queue, pendings, ordered, missed, published, crashes>>

\* The load_to_memory after the order (LoadToMemory) finds an empty file; its
\* error is ignored.
LoadMissed ==
    /\ task.pc = "stored"
    /\ disk[TaskKey] # "fresh"
    /\ missed' = missed \cup {<<task.domain, task.agent>>}
    /\ task' = Loading(task.agent, task.todo \ {task.domain})
    /\ UNCHANGED <<store, files, writes, challenges, queue, pendings, ordered, published,
                   crashes>>

\* Mutant of set_failed: the pending file is removed and no failed file left.
set_failed_not(k) ==
    /\ pending' = [pending EXCEPT ![k] = "none"]
    /\ UNCHANGED failed

\* The pending file is renamed: the failed file has the time of the order.
set_failed(k) ==
    /\ failed' = [failed EXCEPT ![k] = pending[k]]
    /\ pending' = [pending EXCEPT ![k] = "none"]

Rejected ==
    /\ task.pc \in {"order", "verify"}
    /\ set_failed(TaskKey)
    /\ challenges' = answered
    /\ task' = Loading(task.agent, task.todo \ {task.domain})
    /\ UNCHANGED <<store, disk, writes, queue, pendings, ordered, missed, published, crashes>>

-----------------------------------------------------------------------------
(* The manager's task: the intervals.                                      *)

Resending(S) ==
    IF S = {} THEN NoTask ELSE [NoTask EXCEPT !.pc = "resend", !.resend = S]

PendingTick ==
    /\ task.pc = "idle" /\ pendings # {}
    /\ task' = Resending(pendings)
    /\ pendings' = {}
    /\ UNCHANGED <<store, files, writes, challenges, queue, ordered, missed, published,
                   crashes>>

\* Mutant of renew_needed: nothing is ever due.
renew_needed_never == {}

renew_needed == {e \in domain_map : certificates[key(e[2], e[1])] = "aging"}

\* Six hours are enough for the manager to get through most of its messages.
RenewTick ==
    /\ task.pc = "idle" /\ renew_needed # {}
    /\ Len(queue) <= MaxQueue
    /\ task' = Resending(renew_needed)
    /\ UNCHANGED <<store, files, writes, challenges, queue, pendings, ordered, missed,
                   published, crashes>>

\* The manager sends itself a Load; other messages may come in between.
Resend(e) ==
    /\ task.pc = "resend" /\ e \in task.resend
    /\ queue' = Append(queue, LoadMessage(e[2], {e[1]}))
    /\ task' = Resending(task.resend \ {e})
    /\ UNCHANGED <<store, files, writes, challenges, pendings, ordered, missed, published,
                   crashes>>

-----------------------------------------------------------------------------
(* Time, and crashes.                                                      *)

Aged(f, k, from, to) == [f EXCEPT ![k] = IF @ \in from THEN to ELSE @]

PassTwoMinutes(k) ==
    /\ ordered[k] = "new"
    /\ pending' = Aged(pending, k, {"new"}, "mid")
    /\ failed' = Aged(failed, k, {"new"}, "mid")
    /\ ordered' = Aged(ordered, k, {"new"}, "mid")
    /\ unwritten' = unwritten \ {k}
    /\ UNCHANGED <<store, disk, unflushed, manager, missed, published, crashes>>

\* Bound: an order takes less than an hour (check_challenge gives up after five
\* attempts ten seconds apart; the requests to the authority have no time-out).
PassHour(k) ==
    /\ ordered[k] = "mid" /\ ~(Issuing /\ k = TaskKey)
    /\ pending' = Aged(pending, k, {"mid"}, "old")
    /\ failed' = Aged(failed, k, {"mid"}, "old")
    /\ ordered' = Aged(ordered, k, {"mid"}, "old")
    /\ UNCHANGED <<store, disk, writes, manager, missed, published, crashes>>

\* A certificate is due for renewal weeks after it was ordered.  Bound: by then
\* the interval of six hours has come for the one it replaced.
CertificateAges(k) ==
    /\ ordered[k] = "old" /\ disk[k] = "fresh"
    /\ certificates[k] # "aging"
    /\ disk' = [disk EXCEPT ![k] = "aging"]
    /\ certificates' = [certificates EXCEPT ![k] = IF @ = "fresh" THEN "aging" ELSE @]
    /\ UNCHANGED <<domain_map, pending, failed, writes, manager, ordered, missed, published,
                   crashes>>

\* The gateway ends and starts again; its agents will connect again.  A write
\* that its threads had not done is lost.
Crash ==
    /\ crashes < MaxCrashes
    /\ crashes' = crashes + 1
    /\ certificates' = [k \in Key |-> "none"]
    /\ domain_map' = {}
    /\ challenges' = {}
    /\ queue' = <<>>
    /\ pendings' = {}
    /\ task' = NoTask
    /\ published' = [a \in Agent |-> {}]
    /\ unflushed' = {}
    /\ missed' = {}
    /\ UNCHANGED <<files, ordered, unwritten>>

-----------------------------------------------------------------------------
ManagerStep ==
    \/ ReceiveLoad
    \/ ReceiveUnload
    \/ \E d \in Domain : LoadToMemory(d)
    \/ \E d \in Domain : IssueFailed(d)
    \/ \E d \in Domain : IssuePending(d)
    \/ \E d \in Domain : IssueOrder(d)
    \/ Challenged
    \/ Granted
    \/ PutDone
    \/ LoadMissed
    \/ Rejected
    \/ \E e \in Domain \X Agent : Resend(e)

CertNext ==
    \/ \E a \in Agent, D \in SUBSET Domain \ {{}} : SendLoad(a, D)
    \/ \E a \in Agent : SendUnload(a)
    \/ ManagerStep
    \/ PendingTick
    \/ RenewTick
    \/ \E k \in Key : Flushed(k)
    \/ \E k \in Key : PassTwoMinutes(k)
    \/ \E k \in Key : PassHour(k)
    \/ \E k \in Key : CertificateAges(k)
    \/ Crash

CertSpec == CertInit /\ [][CertNext]_cvars

\* The manager's task and the runtime's threads are scheduled, the authority
\* answers, time passes, and select! takes a due interval in the end although
\* messages keep coming.  A write, which is with the threads before put removes
\* the marks, is not overtaken by the load that follows every time.
\* Nothing is assumed of what the authority answers.
CertFairness ==
    /\ WF_cvars(ManagerStep)
    /\ SF_cvars(PendingTick)
    /\ SF_cvars(RenewTick)
    /\ \A k \in Key : WF_cvars(PassTwoMinutes(k))
    /\ \A k \in Key :
          WF_cvars(Flushed(k)) /\ SF_cvars(Overtaking(k) /\ Flushed(k))

FairCertSpec == CertSpec /\ CertFairness

-----------------------------------------------------------------------------
(* Properties.                                                             *)

Age == {"none", "new", "mid", "old"}
CertificateState == {"none", "fresh", "aging"}

Message == [type : {"Load", "Unload"}, agent : Agent, domains : SUBSET Domain]

Task ==
    [pc     : {"idle", "load", "order", "verify", "written", "stored", "resend"},
     agent  : Agent \cup {<<>>},
     todo   : SUBSET Domain,
     domain : Domain \cup {<<>>},
     resend : SUBSET (Domain \X Agent)]

\* A Load works for an agent, on one of its domains once it orders.
TaskOK ==
    /\ task \in Task
    /\ task.pc \notin {"idle", "resend"} => task.agent \in Agent
    /\ Issuing => task.domain \in task.todo

\* Every variable has its type; a challenge is answered exactly for the domain
\* whose order is being verified (acme_configurations in issue).
CertTypeOK ==
    /\ certificates \in [Key -> CertificateState]
    /\ domain_map \subseteq Domain \X Agent
    /\ disk \in [Key -> CertificateState]
    /\ pending \in [Key -> Age]
    /\ failed \in [Key -> Age]
    /\ ordered \in [Key -> Age]
    /\ unflushed \subseteq Key /\ unwritten \subseteq Key
    /\ missed \subseteq Domain \X Agent
    /\ challenges \subseteq (IF Ordering THEN {task.domain} ELSE {})
    /\ queue \in Seq(Message)
    /\ pendings \subseteq Domain \X Agent
    /\ TaskOK
    /\ published \in [Agent -> SUBSET Domain]
    /\ crashes \in 0..MaxCrashes

\* The two tables of the store agree: a certificate is held exactly while some
\* agent of its user uses the domain, so that get_config, which takes any user
\* of a domain, never finds an agent without a certificate, and no certificate
\* stays behind its last agent (CertificateStore::insert and remove).
StoreConsistent ==
    /\ \A d \in Domain : "none" \notin get_config(d)
    /\ \A k \in Key :
          certificates[k] # "none" => \E a \in Agent : uid(a) = k[1] /\ <<k[2], a>> \in domain_map

\* Two orders for a domain of a user are two minutes apart at least, whatever
\* the authority answers, and although the gateway crashes in the middle of an
\* order and its agents ask again at once (set_pending, set_failed and put).
\* The one exception: the first was granted, and its certificate, which put did
\* not flush before it removed the marks, is not in its file yet, or was lost
\* with the gateway.
OrdersPaced ==
    [][task.pc = "load" /\ task'.pc = "order"
          => ordered[TaskKey'] # "new" \/ TaskKey' \in unwritten]_cvars

\* A Load of domain d for agent a is in the manager's hands.
Requested(a, d) ==
    \/ \E i \in 1..Len(queue) :
          queue[i].type = "Load" /\ queue[i].agent = a /\ d \in queue[i].domains
    \/ <<d, a>> \in pendings \cup task.resend
    \/ task.agent = a /\ d \in task.todo

\* A domain that the manager was told to load for an agent is served in the
\* end, unless the agent leaves or an order for the domain failed within the
\* hour: also when a crash left a pending file behind, when another agent's
\* order for the domain is under way, and when the Load was put off.  The one
\* exception: the certificate was granted and is not yet in its file when it is
\* loaded (put does not flush it); the Load is over then, and the agent's next
\* one serves the domain.
DomainsServed ==
    \A a \in Agent, d \in Domain :
        Requested(a, d)
        ~> \/ d \notin published[a]
           \/ <<d, a>> \in domain_map
           \/ is_failed(key(a, d))
           \/ <<d, a>> \in missed

\* A certificate in memory that is due for renewal is renewed or leaves the
\* memory, unless an order for it failed within the hour.
RenewedInTime ==
    \A k \in Key : certificates[k] = "aging" ~> certificates[k] # "aging" \/ is_failed(k)

-----------------------------------------------------------------------------
(* The inductive invariant of the proofs.                                  *)

\* An order in the last two minutes can be seen in the files, unless its
\* certificate is still to be written or lost; the pending file of the order
\* under way has its time.
OrdersOnFile ==
    /\ \A k \in Key :
          ordered[k] = "new" =>
             pending[k] = "new" \/ failed[k] = "new" \/ disk[k] = "fresh" \/ k \in unwritten
    /\ Ordering => pending[TaskKey] = ordered[TaskKey]
    /\ task.pc = "written" /\ ordered[TaskKey] = "new" =>
          disk[TaskKey] = "fresh" \/ TaskKey \in unflushed

CertInv == CertTypeOK /\ StoreConsistent /\ OrdersOnFile

=============================================================================
