---------------------------- MODULE Client_proofs ----------------------------
(***************************************************************************)
(* Proofs about Client.  ClientTypeOK is inductive: its conjunct about     *)
(* readers says who holds a read guard of direct, and that is all that is  *)
(* needed to see that a task which waits to write with such a guard in     *)
(* hand keeps everybody, itself included, from writing.                    *)
(***************************************************************************)
EXTENDS Client, SequenceTheorems, TLAPS

\* A client that starts has no connections, no attempts and no channel.
LEMMA TypeInit == ClientInit => ClientTypeOK
BY CommandAssumption, FaultAssumption DEF ClientInit, ClientTypeOK, Place, Stage, Status, Result

(* The queue stays a sequence of requests.                                 *)
LEMMA QueuesTypes ==
    ASSUME ClientTypeOK, NEW who \in Task \cup Attempt \cup {Main}, NEW write \in BOOLEAN,
           Queues(who, write)
    PROVE  queue' \in Seq(Request)
<1>1. [who |-> who, write |-> write] \in Request
  BY DEF Request
<1>2. queue \in Seq(Request)
  BY DEF ClientTypeOK
<1>. QED BY <1>1, <1>2, AppendProperties DEF Queues

\* Who gets a read guard leaves the queue of the lock.
LEMMA ReadsTypes ==
    ASSUME ClientTypeOK, NEW who, Reads(who)
    PROVE  queue' \in Seq(Request)
<1>1. queue \in Seq(Request) /\ queue # <<>>
  BY DEF ClientTypeOK, Reads
<1>. QED BY <1>1, HeadTailProperties DEF Reads

(* What the loop does to its own variables and to the queue.               *)
LEMMA ReconnectsTypes ==
    ASSUME Reconnects
    PROVE  main' = "connect" /\ event' \in {"none", "up", "ended"} /\ msgs' \in Seq(Message)
BY EmptySeq DEF Reconnects

\* The loop leaves the event connection to check or to connect again.
LEMMA LeavesTypes ==
    ASSUME ClientTypeOK, LeavesControl
    PROVE  /\ main' \in {"check", "connect"} /\ event' \in {"none", "up", "ended"}
           /\ msgs' \in Seq(Message) /\ queue' \in Seq(Request)
<1>1. CASE cmd.mode = "direct"
  <2>1. Queues(Main, FALSE) /\ main' = "check" /\ UNCHANGED <<event, msgs>>
    BY <1>1 DEF LeavesControl
  <2>. QED BY <2>1, QueuesTypes DEF ClientTypeOK
<1>2. CASE cmd.mode # "direct"
  BY <1>2, ReconnectsTypes DEF ClientTypeOK, LeavesControl
<1>. QED BY <1>1, <1>2

(* The loop leaves the tasks and who holds a guard alone.                  *)
LEMMA LoopTypes ==
    ASSUME ClientTypeOK, LoopNext
    PROVE  ClientTypeOK'
<1>. USE DEF client, control, carriers, creators, shared
<1>. DEFINE LoopOK == /\ main' \in {"select", "check", "connect", "manage", "asking", "exited"}
                      /\ event' \in {"none", "up", "ended"}
                      /\ msgs' \in Seq(Message)
                      /\ tunnel' \in {"none", "open", "used"}
                      /\ active' \in Seq(Task) /\ reports' \in Seq(Status)
                      /\ queue' \in Seq(Request)
            Rest == /\ UNCHANGED <<cmd, carriers, outcome, status, direct, notify, readers, faults>>
                    /\ att' \in [Attempt -> Stage]
<1>. SUFFICES LoopOK /\ Rest
  BY DEF ClientTypeOK
<1>1. ASSUME Exits PROVE LoopOK /\ Rest
  BY <1>1 DEF Exits, ClientTypeOK
<1>2. CASE NotConnected
  BY <1>2, LeavesTypes DEF NotConnected, ClientTypeOK
<1>3. CASE ChecksDirect
  <2>1. queue' \in Seq(Request)
    BY <1>3, ReadsTypes DEF ChecksDirect
  <2>. QED BY <1>3, <2>1, ReconnectsTypes DEF ChecksDirect, ClientTypeOK
<1>4. CASE Connects
  BY <1>4 DEF Connects, ClientTypeOK
<1>5. CASE GivesUp \/ AgentMissing \/ Shutdown \/ InputEnds
  BY <1>5, <1>1 DEF GivesUp, AgentMissing, Shutdown, InputEnds
<1>6. CASE Manages
  BY <1>6 DEF Manages, ClientTypeOK
<1>7. CASE Answered
  <2>1. msgs' = msgs \/ msgs' = Append(msgs, "p2p")
    BY <1>7 DEF Answered
  <2>2. msgs \in Seq(Message) /\ "p2p" \in Message
    BY DEF ClientTypeOK, Message
  <2>3. msgs' \in Seq(Message)
    BY <2>1, <2>2, AppendProperties
  <2>. QED BY <1>7, <2>3 DEF Answered, ClientTypeOK
<1>8. CASE StatusReceived
  <2>1. reports' \in Seq(Status)
    BY <1>8, HeadTailProperties DEF StatusReceived, ClientTypeOK
  <2>2. msgs' = msgs \/ msgs' = Append(msgs, "shutdown")
    BY <1>8 DEF StatusReceived
  <2>3. msgs \in Seq(Message) /\ "shutdown" \in Message
    BY DEF ClientTypeOK, Message
  <2>4. msgs' \in Seq(Message)
    BY <2>2, <2>3, AppendProperties
  <2>. QED BY <1>8, <2>1, <2>4 DEF StatusReceived, ClientTypeOK
<1>9. CASE NextConnection
  <2>1. active' \in Seq(Task)
    BY <1>9 DEF NextConnection, ClientTypeOK
  <2>2. CASE result[Head(active)] = "unreachable"
    BY <1>9, <2>1, <2>2, LeavesTypes DEF NextConnection, ClientTypeOK
  <2>3. CASE result[Head(active)] # "unreachable"
    BY <1>9, <2>1, <2>3 DEF NextConnection, ClientTypeOK
  <2>. QED BY <2>2, <2>3
<1>10. CASE ControlClosed
  BY <1>10, LeavesTypes DEF ControlClosed, ClientTypeOK
<1>11. CASE \E a \in Attempt : Peer2Peer(a)
  BY <1>11 DEF Peer2Peer, ClientTypeOK, Stage
<1>. HIDE DEF LoopOK, Rest
<1>. QED BY <1>2, <1>3, <1>4, <1>5, <1>6, <1>7, <1>8, <1>9, <1>10, <1>11 DEF LoopNext

(* A task holds a guard exactly while it is in "open", "talk", "upgrade".  *)
LEMMA TaskTypes ==
    ASSUME ClientTypeOK, NEW t \in Task, TaskNext(t) \/ Accepts(t) \/ ConnectionEnds(t)
    PROVE  ClientTypeOK'
<1>. USE DEF client, control, carriers, creators, shared, Goes, In
<1>. DEFINE Holding == readers = {u \in Task : pc[u] \in {"open", "talk", "upgrade"}}
            TaskOK == /\ pc' \in [Task -> Place] /\ result' \in [Task -> Result]
                      /\ Holding' /\ queue' \in Seq(Request)
            Rest == UNCHANGED <<cmd, main, event, msgs, reports, creators, direct, notify, faults>>
            LoopOK == tunnel' \in {"none", "open", "used"} /\ active' \in Seq(Task)
<1>. SUFFICES TaskOK /\ Rest /\ LoopOK
  BY DEF ClientTypeOK
<1>1. fails \in {"relay", "done"}
  BY DEF fails
<1>2. CASE Starts(t) \/ Holds(t)
  BY <1>2 DEF Starts, Holds, ClientTypeOK, Place
<1>3. CASE Locks(t)
  BY <1>3, QueuesTypes DEF Locks, ClientTypeOK, Place
<1>4. CASE ReadsDirect(t)
  <2>1. queue' \in Seq(Request)
    BY <1>4, ReadsTypes DEF ReadsDirect
  <2>. QED BY <1>1, <1>4, <2>1 DEF ReadsDirect, DirectFails, ClientTypeOK, Place, Result
<1>5. CASE Opens(t)
  <2>1. queue' \in Seq(Request)
    BY <1>5, QueuesTypes DEF Opens, ClientTypeOK
  <2>. QED BY <1>5, <2>1 DEF Opens, ClientTypeOK, Place
<1>6. CASE Talks(t)
  BY <1>1, <1>6 DEF Talks, Releases, DirectFails, ClientTypeOK, Place, Result
<1>7. CASE Relays(t)
  <2>1. CASE Goes(t, "relayed") /\ UNCHANGED <<control, result, creators, shared, faults>>
    BY <1>7, <2>1 DEF Relays, ClientTypeOK, Place
  <2>2. ASSUME NEW r \in Result, Ends(t, r), pc[t] = "relay" PROVE TaskOK /\ Rest /\ LoopOK
    BY <2>2 DEF Ends, ClientTypeOK, Place
  <2>. QED BY <1>7, <2>1, <2>2 DEF Relays, Result
<1>8. CASE ConnectionEnds(t)
  BY <1>8 DEF ConnectionEnds, Ends, ClientTypeOK, Place, Result
<1>9. CASE Accepts(t)
  BY <1>9 DEF Accepts, ClientTypeOK, Place
<1>. HIDE DEF TaskOK, Rest, LoopOK
<1>. QED BY <1>2, <1>3, <1>4, <1>5, <1>6, <1>7, <1>8, <1>9 DEF TaskNext

\* The steps of an attempt keep the types.
LEMMA AttemptTypes ==
    ASSUME ClientTypeOK, NEW a \in Attempt, AttemptNext(a)
    PROVE  ClientTypeOK'
<1>. USE DEF client, control, carriers, creators, shared, Moves, At, Status, Stage
<1>1. CASE StartsAttempt(a)
  BY <1>1 DEF StartsAttempt, ClientTypeOK
<1>2. CASE Punches(a)
  <2>1. queue' \in Seq(Request)
    BY <1>2, QueuesTypes DEF Punches, ClientTypeOK
  <2>2. outcome' \in [Attempt -> Status] /\ att' \in [Attempt -> Stage]
    BY <1>2 DEF Punches, ClientTypeOK
  <2>. QED BY <1>2, <2>1, <2>2 DEF Punches, ClientTypeOK
<1>3. CASE Wakes(a)
  BY <1>3 DEF Wakes, released, ClientTypeOK, Place
<1>4. CASE Reports(a)
  BY <1>4 DEF Reports, ClientTypeOK
<1>. QED BY <1>1, <1>2, <1>3, <1>4 DEF AttemptNext

(* Who writes does so when no task holds a guard.                          *)
LEMMA WriteTypes ==
    ASSUME ClientTypeOK, Writes
    PROVE  ClientTypeOK'
<1>. USE DEF control, creators
<1>1. readers = {} /\ readers' = {} /\ queue # <<>> /\ queue' = Tail(queue)
  BY DEF Writes, writable
<1>2. queue' \in Seq(Request)
  BY <1>1 DEF ClientTypeOK
<1>3. fails \in {"relay", "done"}
  BY DEF fails
<1>4. pc' \in [Task -> Place] /\ \A t \in Task : pc'[t] = pc[t] \/ pc'[t] \in {"relay", "done"}
  BY <1>3 DEF Writes, ClientTypeOK, Place
<1>5. result' \in [Task -> Result] /\ att' \in [Attempt -> Stage]
  BY DEF Writes, ClientTypeOK, Result, Stage
<1>6. readers' = {t \in Task : pc'[t] \in {"open", "talk", "upgrade"}}
  BY <1>1, <1>4 DEF ClientTypeOK
<1>7. direct' \in {"none", "up", "dead"} /\ notify' \in BOOLEAN
  BY DEF Writes, ClientTypeOK
<1>8. UNCHANGED <<cmd, main, event, msgs, tunnel, active, reports, outcome, status, faults>>
  BY DEF Writes
<1>. QED BY <1>2, <1>4, <1>5, <1>6, <1>7, <1>8 DEF ClientTypeOK

\* Every step of the client keeps the types.
LEMMA TypeStep == ClientTypeOK /\ [ClientNext]_client => ClientTypeOK'
<1>. SUFFICES ASSUME ClientTypeOK, [ClientNext]_client PROVE ClientTypeOK'
  OBVIOUS
<1>1. CASE EventBreaks \/ DirectBreaks
  BY <1>1, FaultAssumption DEF EventBreaks, DirectBreaks, Fault, control, carriers, creators,
                               shared, ClientTypeOK
<1>2. CASE UNCHANGED client
  BY <1>2 DEF client, control, carriers, creators, shared, ClientTypeOK
<1>. QED BY <1>1, <1>2, LoopTypes, TaskTypes, AttemptTypes, WriteTypes DEF ClientNext

(* The variables keep their types, and a task holds a read guard of direct *)
(* exactly from the time it has read the channel until it has an answer    *)
(* over it or returns (transport.rs:138-204).                              *)
THEOREM ClientTypeCorrect == ClientSpec => []ClientTypeOK
BY TypeInit, TypeStep, PTL DEF ClientSpec

(* A task that waits to write direct with its own read guard in hand waits *)
(* for ever, whatever the others do (transport.rs:142-148).                *)
THEOREM StuckForever == ClientSpec => StuckForGood
<1>. DEFINE Stuck(t) == pc[t] = "upgrade" => pc'[t] = "upgrade"
<1>1. ASSUME ClientTypeOK, [ClientNext]_client, NEW t \in Task, pc[t] = "upgrade"
      PROVE  pc'[t] = "upgrade"
  <2>. USE <1>1
  <2>1. ~Writes
    BY DEF Writes, writable, ClientTypeOK
  <2>2. CASE UNCHANGED pc
    BY <2>2
  <2>3. CASE LoopNext
    BY <2>3 DEF LoopNext, NotConnected, ChecksDirect, Connects, GivesUp, AgentMissing, Manages,
                Answered, Shutdown, StatusReceived, NextConnection, ControlClosed, InputEnds,
                Peer2Peer, Exits, carriers
  <2>4. ASSUME NEW u \in Task, TaskNext(u) \/ Accepts(u) \/ ConnectionEnds(u)
        PROVE  pc'[t] = "upgrade"
    BY <2>4 DEF TaskNext, Accepts, ConnectionEnds, Starts, Holds, Locks, ReadsDirect, Opens, Talks,
                Relays, Ends, DirectFails, Goes, In, ClientTypeOK
  <2>5. ASSUME NEW a \in Attempt, AttemptNext(a) PROVE pc'[t] = "upgrade"
    BY <2>5 DEF AttemptNext, StartsAttempt, Punches, Wakes, Reports, released, carriers
  <2>6. CASE EventBreaks \/ DirectBreaks
    BY <2>6 DEF EventBreaks, DirectBreaks, carriers
  <2>. QED BY <2>1, <2>2, <2>3, <2>4, <2>5, <2>6 DEF ClientNext, client, carriers
<1>2. ClientTypeOK /\ [ClientNext]_client => [\A t \in Task : Stuck(t)]_client
  BY <1>1
<1>. QED BY <1>2, ClientTypeCorrect, PTL DEF ClientSpec, StuckForGood

=============================================================================
