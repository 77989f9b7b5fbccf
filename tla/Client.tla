------------------------------- MODULE Client -------------------------------
(***************************************************************************)
(* The client: the loop of start() in sra-client/src/main.rs with its      *)
(* event connection (manage.rs), the tasks that carry its connections      *)
(* (TransportFactory::connect in transport.rs), and the tasks that create  *)
(* a direct channel to the agent (create_direct).  They share              *)
(*                                                                         *)
(*   direct          the channel, behind an RwLock                         *)
(*   notify_direct   the Notify on which connections wait for it           *)
(*   status          direct_tunnel_status, an atomic                       *)
(*                                                                         *)
(* The RwLock is tokio's: first come, first served, and readers share it.  *)
(* A write guard is only held for one assignment, so taking the lock to    *)
(* write, writing and releasing it are one step.  The gateway and the      *)
(* agent are represented by what they answer.                              *)
(***************************************************************************)
EXTENDS Integers, Sequences

CONSTANTS
    Task,       \* connections the tunnel accepts
    Attempt,    \* bound: tasks that create a direct channel
    Main,       \* the loop, as one who takes the lock
    Commands,   \* the command lines that are considered
    MaxFaults   \* bound: event connections and direct channels that break

ASSUME NamesAssumption ==
    /\ Main \notin Task \cup Attempt /\ Task \cap Attempt = {}

(* What becomes of a command line: TransportInstruction, with the flag to  *)
(* wait for the direct channel (which "direct" always does); whether the   *)
(* client asks for that channel (ManageInstruction::Peer2Peer) or only     *)
(* checks the agent; and whether the tunnel is the standard input, which   *)
(* gives one connection.                                                   *)
Command == [mode : {"direct", "relay", "mixed"}, wait : BOOLEAN, asks : BOOLEAN,
            once : BOOLEAN]

ASSUME CommandAssumption ==
    /\ Commands \subseteq Command
    /\ \A c \in Commands : c.mode = "direct" => c.wait /\ c.asks
ASSUME FaultAssumption == MaxFaults \in Nat

VARIABLES
    cmd,        \* the command line
    main,       \* where the loop is
    event,      \* the event connection: "none", "up", or "ended" with its task
    msgs,       \* msg_receiver of the event connection
    tunnel,     \* its listener: "none", "open", or "used" by its one connection
    active,     \* active_connections, a FuturesOrdered
    reports,    \* system_status_receiver: how attempts ended
    pc,         \* pc[t]: where the task of a connection is
    result,     \* result[t]: what it returned
    att,        \* att[a]: where an attempt is
    outcome,    \* outcome[a]: the status an attempt ends with
    direct,     \* "none", "up", or "dead" when its QUIC connection is
    notify,     \* notify_direct holds the Notify
    status,     \* direct_tunnel_status
    readers,    \* who holds a read guard of direct
    queue,      \* who waits for a guard: [who, write]
    faults

control == <<cmd, main, event, msgs, tunnel, active, reports>>
carriers == <<pc, result>>
creators == <<att, outcome, status>>
shared == <<direct, notify, readers, queue>>
client == <<control, carriers, creators, shared, faults>>

Status == {"uninitialized", "success", "pending", "closed", "failed"}
Message == {"p2p", "shutdown"}
Result == {"none", "ok", "error", "unreachable", "refused"}

ClientInit ==
    /\ cmd \in Commands
    /\ main = "select" /\ event = "none" /\ msgs = <<>> /\ tunnel = "none"
    /\ active = <<>> /\ reports = <<>>
    /\ pc = [t \in Task |-> "idle"] /\ result = [t \in Task |-> "none"]
    /\ att = [a \in Attempt |-> "idle"] /\ outcome = [a \in Attempt |-> "pending"]
    /\ status = "uninitialized"
    /\ direct = "none" /\ notify = TRUE /\ readers = {} /\ queue = <<>>
    /\ faults = 0

running == main # "exited"
Fault == running /\ faults < MaxFaults /\ faults' = faults + 1

-----------------------------------------------------------------------------
(* The RwLock of direct.                                                   *)

Request == [who : Task \cup Attempt \cup {Main}, write : BOOLEAN]

Queues(who, write) == queue' = Append(queue, [who |-> who, write |-> write])

\* A reader at the head of the queue always gets in: no writer holds the lock
\* between two steps.
Reads(who) ==
    /\ queue # <<>> /\ Head(queue) = [who |-> who, write |-> FALSE]
    /\ queue' = Tail(queue)

\* Mutant of writable: a writer may be the one reader.
writable_upgrade == queue # <<>> /\ Head(queue).write /\ readers \subseteq {Head(queue).who}

\* A writer at the head of the queue waits until there is no reader.
writable == queue # <<>> /\ Head(queue).write /\ readers = {}

-----------------------------------------------------------------------------
(* The loop.  accept_msg is a select! of its own; it returns to the loop   *)
(* with a message or an error.                                             *)

\* control.connect() begins by dropping the event connection and its messages.
Reconnects == main' = "connect" /\ event' = "none" /\ msgs' = <<>>

\* Mutant of LeavesControl: every mode looks at the channel first.
LeavesControl_checked ==
    main' = "check" /\ Queues(Main, FALSE) /\ UNCHANGED <<event, msgs>>

\* Err(NotConnected) or Err(ConnectionClosed): when only a direct channel will
\* do, is_direct_required_and_unavailable reads it first.
LeavesControl ==
    \/ cmd.mode = "direct" /\ main' = "check" /\ Queues(Main, FALSE)
       /\ UNCHANGED <<event, msgs>>
    \/ cmd.mode # "direct" /\ Reconnects /\ UNCHANGED queue

NotConnected ==
    /\ main = "select" /\ event = "none"
    /\ LeavesControl
    /\ UNCHANGED <<cmd, tunnel, active, reports, carriers, creators, direct, notify,
                   readers, faults>>

\* When there is none, tunnel.stop() drops the listener; with the standard input
\* in it, that ends the process (InputStream::drop).
ChecksDirect ==
    /\ main = "check" /\ Reads(Main)
    /\ \/ direct # "none" /\ Reconnects /\ UNCHANGED tunnel
       \/ direct = "none" /\ ~(cmd.once /\ tunnel = "open")
          /\ Reconnects /\ tunnel' = "none"
       \/ direct = "none" /\ cmd.once /\ tunnel = "open"
          /\ main' = "exited" /\ tunnel' = "none" /\ UNCHANGED <<event, msgs>>
    /\ UNCHANGED <<cmd, active, reports, carriers, creators, direct, notify, readers,
                   faults>>

\* Connected to the gateway; set_relay and tunnel.start().
Connects ==
    /\ main = "connect"
    /\ main' = "manage" /\ event' = "up"
    /\ tunnel' = IF tunnel = "none" THEN "open" ELSE tunnel
    /\ UNCHANGED <<cmd, msgs, active, reports, carriers, creators, shared, faults>>

Exits ==
    /\ main' = "exited"
    /\ UNCHANGED <<cmd, event, msgs, tunnel, active, reports, carriers, creators, shared,
                   faults>>

\* 401, 403, the last retry, an error of the first requests, or of the tunnel.
GivesUp == main = "connect" /\ Exits

\* manage(): the agent is not connected.
AgentMissing == main = "manage" /\ Exits

\* `!status == Uninitialized' is a bitwise not: it holds for Failed, 0xff.
asksAgain == status # "failed"

Manages ==
    /\ main = "manage"
    /\ main' = IF cmd.asks /\ asksAgain THEN "asking" ELSE "select"
    /\ UNCHANGED <<cmd, event, msgs, tunnel, active, reports, carriers, creators, shared,
                   faults>>

\* The gateway answers Failed, which manage() does not look at, or sends the
\* instruction after it answered Ok; or the request is cancelled.
Answered ==
    /\ main = "asking" /\ main' = "select"
    /\ \/ event = "up" /\ UNCHANGED msgs
       \/ /\ event = "up" /\ \E a \in Attempt : att[a] = "idle"
          /\ msgs' = Append(msgs, "p2p")
       \/ event = "ended" /\ UNCHANGED msgs
    /\ UNCHANGED <<cmd, event, tunnel, active, reports, carriers, creators, shared, faults>>

\* ControlMsg::Peer2Peer: a task is spawned for create_direct.
Peer2Peer(a) ==
    /\ main = "select" /\ event # "none" /\ msgs # <<>> /\ Head(msgs) = "p2p"
    /\ att[a] = "idle" /\ att' = [att EXCEPT ![a] = "start"]
    /\ msgs' = Tail(msgs)
    /\ UNCHANGED <<cmd, main, event, tunnel, active, reports, carriers, outcome, status,
                   shared, faults>>

\* ControlMsg::Shutdown
Shutdown ==
    /\ main = "select" /\ event # "none" /\ msgs # <<>> /\ Head(msgs) = "shutdown"
    /\ Exits

\* Mutant of StatusReceived: the report is only logged.
StatusReceived_logged ==
    /\ main = "select" /\ event # "none" /\ reports # <<>>
    /\ reports' = Tail(reports)
    /\ UNCHANGED <<cmd, main, event, msgs, tunnel, active, carriers, creators, shared, faults>>

\* A report of an attempt; without a relay its failure is the end.
StatusReceived ==
    /\ main = "select" /\ event # "none" /\ reports # <<>>
    /\ reports' = Tail(reports)
    /\ msgs' = IF cmd.mode = "direct" /\ Head(reports) # "success"
                 THEN Append(msgs, "shutdown") ELSE msgs
    /\ UNCHANGED <<cmd, main, event, tunnel, active, carriers, creators, shared, faults>>

\* Mutant of NextConnection: an unreachable gateway is an error like others.
NextConnection_asOthers ==
    /\ main = "select" /\ event # "none"
    /\ active # <<>> /\ pc[Head(active)] = "done"
    /\ active' = Tail(active)
    /\ main' = IF result[Head(active)] = "refused" THEN "exited" ELSE main
    /\ UNCHANGED <<cmd, event, msgs, tunnel, reports, carriers, creators, shared, faults>>

\* The oldest connection has ended.
NextConnection ==
    /\ main = "select" /\ event # "none"
    /\ active # <<>> /\ pc[Head(active)] = "done"
    /\ active' = Tail(active)
    /\ CASE result[Head(active)] = "unreachable" -> LeavesControl
         [] result[Head(active)] = "refused" ->
                main' = "exited" /\ UNCHANGED <<event, msgs, queue>>
         [] OTHER -> UNCHANGED <<main, event, msgs, queue>>
    /\ UNCHANGED <<cmd, tunnel, reports, carriers, creators, direct, notify, readers, faults>>

\* "Control connection closed"
ControlClosed ==
    /\ main = "select" /\ event = "ended"
    /\ LeavesControl
    /\ UNCHANGED <<cmd, tunnel, active, reports, carriers, creators, direct, notify,
                   readers, faults>>

\* tunnel.accept(): a task is spawned for the connection.
Accepts(t) ==
    /\ main = "select" /\ tunnel = "open" /\ pc[t] = "idle"
    /\ pc' = [pc EXCEPT ![t] = IF cmd.mode = "relay" THEN "relay" ELSE "start"]
    /\ active' = Append(active, t)
    /\ tunnel' = IF cmd.once THEN "used" ELSE tunnel
    /\ UNCHANGED <<cmd, main, event, msgs, reports, result, creators, shared, faults>>

\* The task of the standard input has ended, and with it the process.
InputEnds == running /\ cmd.once /\ (\E t \in Task : pc[t] = "done") /\ Exits

-----------------------------------------------------------------------------
(* A connection: connect_direct, and connect_relay if that fails.          *)

\* A task runs as long as the process does.
In(t, place) == running /\ pc[t] = place
Goes(t, to) == pc' = [pc EXCEPT ![t] = to]

\* connect_direct returns an error.
fails == IF cmd.mode = "mixed" THEN "relay" ELSE "done"
DirectFails(t) ==
    /\ Goes(t, fails)
    /\ result' = IF cmd.mode = "mixed" THEN result ELSE [result EXCEPT ![t] = "error"]

\* Mutant of Releases: the guard is forgotten.
Releases_not(t) == UNCHANGED readers

Releases(t) == readers' = readers \ {t}

\* It clones the Notify, or does not wait.
Starts(t) ==
    /\ In(t, "start")
    /\ Goes(t, IF cmd.wait /\ notify THEN "cloned" ELSE "ready")
    /\ UNCHANGED <<control, result, creators, shared, faults>>

\* notified() begins to wait, even if the waiters were notified since: then it
\* has missed that.
Holds(t) ==
    /\ In(t, "cloned") /\ Goes(t, IF notify THEN "held" ELSE "missed")
    /\ UNCHANGED <<control, result, creators, shared, faults>>

\* direct.read()
Locks(t) ==
    /\ In(t, "ready") /\ Goes(t, "lock") /\ Queues(t, FALSE)
    /\ UNCHANGED <<control, result, creators, direct, notify, readers, faults>>

\* The channel is read under a guard that is held to the end of connect_direct.
ReadsDirect(t) ==
    /\ In(t, "lock") /\ Reads(t)
    /\ \/ direct = "none" /\ DirectFails(t) /\ UNCHANGED readers
       \/ direct # "none" /\ Goes(t, "open") /\ readers' = readers \cup {t}
          /\ UNCHANGED result
    /\ UNCHANGED <<control, creators, direct, notify, faults>>

\* open_bi: if it fails, the task waits to write with its guard in hand.
Opens(t) ==
    /\ In(t, "open")
    /\ \/ direct = "up" /\ Goes(t, "talk") /\ UNCHANGED queue
       \/ direct = "dead" /\ Goes(t, "upgrade") /\ Queues(t, TRUE)
    /\ UNCHANGED <<control, result, creators, direct, notify, readers, faults>>

\* The request is sent and the agent's response read, or one of both fails.
Talks(t) ==
    /\ In(t, "talk")
    /\ \/ direct # "dead" /\ Goes(t, "direct") /\ UNCHANGED result
       \/ DirectFails(t)
    /\ Releases(t)
    /\ UNCHANGED <<control, creators, direct, notify, queue, faults>>

\* Returns from connect() with an error or with the end of the connection.
Ends(t, r) ==
    /\ Goes(t, "done") /\ result' = [result EXCEPT ![t] = r]
    /\ UNCHANGED <<control, creators, shared, faults>>

\* connect_relay: the gateway upgrades, or answers 403 and others, 401 or 404,
\* or cannot be reached.
Relays(t) ==
    /\ In(t, "relay")
    /\ \/ Goes(t, "relayed") /\ UNCHANGED <<control, result, creators, shared, faults>>
       \/ \E r \in {"error", "refused", "unreachable"} : Ends(t, r)

ConnectionEnds(t) == running /\ pc[t] \in {"direct", "relayed"} /\ Ends(t, "ok")

-----------------------------------------------------------------------------
(* create_direct                                                           *)

At(a, stage) == running /\ att[a] = stage
Moves(a, to) == att' = [att EXCEPT ![a] = to]

StartsAttempt(a) ==
    /\ At(a, "start") /\ Moves(a, "punch") /\ status' = "pending"
    /\ UNCHANGED <<control, carriers, outcome, shared, faults>>

\* The hole is punched and the QUIC connection made, or one of both fails.
Punches(a) ==
    /\ At(a, "punch")
    /\ \/ Moves(a, "lock") /\ Queues(a, TRUE) /\ outcome' = [outcome EXCEPT ![a] = "success"]
       \/ \E s \in {"failed", "closed"} :
             Moves(a, "wake") /\ outcome' = [outcome EXCEPT ![a] = s] /\ UNCHANGED queue
    /\ UNCHANGED <<control, carriers, status, direct, notify, readers, faults>>

\* The writer at the head gets in: an attempt puts its channel into direct.  A
\* task whose open_bi failed would take the dead one away, renew the Notify and
\* return its error, but see StuckForGood.
Writes ==
    LET w == Head(queue).who
    IN  /\ running /\ writable /\ queue' = Tail(queue)
        /\ direct' = IF w \in Attempt THEN "up" ELSE "none"
        /\ att' = [a \in Attempt |-> IF a = w THEN "wake" ELSE att[a]]
        /\ pc' = [t \in Task |-> IF t = w THEN fails ELSE pc[t]]
        /\ result' = [t \in Task |-> IF t = w /\ fails = "done" THEN "error" ELSE result[t]]
        /\ notify' = (notify \/ w \in Task)
        /\ readers' = readers \ {w}
        /\ UNCHANGED <<control, outcome, status, faults>>

\* Mutant of released: only one waiter is notified.
released_one ==
    IF \E t \in Task : pc[t] = "held" THEN {CHOOSE t \in Task : pc[t] = "held"} ELSE {}

\* notify_waiters()
released == {t \in Task : pc[t] = "held"}

Wakes(a) ==
    /\ At(a, "wake") /\ Moves(a, "report")
    /\ notify' = FALSE
    /\ pc' = [t \in Task |-> IF notify /\ t \in released THEN "ready" ELSE pc[t]]
    /\ UNCHANGED <<control, result, outcome, status, direct, readers, queue, faults>>

Reports(a) ==
    /\ At(a, "report") /\ Moves(a, "done")
    /\ status' = outcome[a]
    /\ reports' = Append(reports, outcome[a])
    /\ UNCHANGED <<cmd, main, event, msgs, tunnel, active, carriers, outcome, shared, faults>>

-----------------------------------------------------------------------------
(* The network.                                                            *)

EventBreaks ==
    /\ event = "up" /\ event' = "ended" /\ Fault
    /\ UNCHANGED <<cmd, main, msgs, tunnel, active, reports, carriers, creators, shared>>

DirectBreaks ==
    /\ direct = "up" /\ direct' = "dead" /\ Fault
    /\ UNCHANGED <<control, carriers, creators, notify, readers, queue>>

-----------------------------------------------------------------------------
LoopNext ==
    \/ NotConnected \/ ChecksDirect \/ Connects \/ GivesUp \/ AgentMissing \/ Manages
    \/ Answered \/ Shutdown \/ StatusReceived \/ NextConnection \/ ControlClosed
    \/ InputEnds
    \/ \E a \in Attempt : Peer2Peer(a)

TaskNext(t) ==
    \/ Starts(t) \/ Holds(t) \/ Locks(t) \/ ReadsDirect(t) \/ Opens(t) \/ Talks(t)
    \/ Relays(t)

AttemptNext(a) == StartsAttempt(a) \/ Punches(a) \/ Wakes(a) \/ Reports(a)

ClientNext ==
    \/ LoopNext
    \/ \E t \in Task : TaskNext(t) \/ Accepts(t) \/ ConnectionEnds(t)
    \/ \E a \in Attempt : AttemptNext(a)
    \/ Writes
    \/ EventBreaks \/ DirectBreaks

ClientSpec == ClientInit /\ [][ClientNext]_client

\* Tasks that are woken run, the gateway and the agent answer something, and the
\* select! of the loop polls its branches in random order.  With a bound on the
\* faults and the connections everything comes to rest, so these need no finer
\* fairness.  Connections may last.
FairClientSpec ==
    /\ ClientSpec
    /\ WF_client(LoopNext)
    /\ WF_client(\E t \in Task : TaskNext(t))
    /\ WF_client(\E a \in Attempt : AttemptNext(a))
    /\ WF_client(Writes)

-----------------------------------------------------------------------------
Place == {"idle", "start", "cloned", "held", "missed", "ready", "lock", "open", "upgrade", "talk",
          "direct", "relay", "relayed", "done"}
Stage == {"idle", "start", "punch", "lock", "wake", "report", "done"}

ClientTypeOK ==
    /\ cmd \in Commands
    /\ main \in {"select", "check", "connect", "manage", "asking", "exited"}
    /\ event \in {"none", "up", "ended"} /\ msgs \in Seq(Message)
    /\ tunnel \in {"none", "open", "used"}
    /\ active \in Seq(Task) /\ reports \in Seq(Status)
    /\ pc \in [Task -> Place] /\ result \in [Task -> Result]
    /\ att \in [Attempt -> Stage] /\ outcome \in [Attempt -> Status]
    /\ status \in Status
    /\ direct \in {"none", "up", "dead"} /\ notify \in BOOLEAN
    /\ faults \in 0 .. MaxFaults
    /\ readers = {t \in Task : pc[t] \in {"open", "talk", "upgrade"}}
    /\ queue \in Seq(Request)

settled(t) == pc[t] \in {"direct", "relayed", "done"}

\* No attempt will end any more: whoever is held stays so.
nobodyWakes ==
    /\ \A a \in Attempt : att[a] \in {"idle", "report", "done"}
    /\ \A k \in 1 .. Len(msgs) : msgs[k] # "p2p"

\* Tasks whose result the loop has not taken.
waiting == {active[k] : k \in DOMAIN active}

(* The loop notices the loss of the event connection, whatever the tasks   *)
(* do with the direct channel and its lock: it connects again or exits     *)
(* (accept_msg, manage.rs:254-304).  A client that insists on the direct   *)
(* channel is excepted, since its loop takes the lock (main.rs:123).       *)
EventLossNoticed ==
    cmd.mode # "direct" /\ event = "ended" ~> event = "up" \/ ~running

(* There are three ways, and no others, in which an accepted connection    *)
(* may hang before it is connected or fails: some task waits to write      *)
(* direct with a read guard of its own in hand (transport.rs:142-148); it  *)
(* is held (transport.rs:140) and no attempt to create a channel is made;  *)
(* or it began to wait after the waiters had been notified.  Whoever waits *)
(* when an attempt ends goes on.                                           *)
ConnectionsSettle ==
    \A t \in Task :
        pc[t] = "start" ~> \/ settled(t) \/ ~running
                           \/ [](\E s \in Task : pc[s] = "upgrade")
                           \/ [](pc[t] = "held" /\ notify /\ nobodyWakes)
                           \/ [](pc[t] = "missed")

(* Connections that find the gateway unreachable make the client connect   *)
(* to it again, as soon as those accepted before them have ended           *)
(* (manage.rs:268-272; the results are taken in order).                    *)
RefusalNoticed ==
    \A t \in Task :
        t \in waiting /\ pc[t] = "done" /\ result[t] = "unreachable"
            ~> \/ main = "connect" \/ ~running
               \/ [](active # <<>> /\ pc[Head(active)] # "done")

(* A task that waits to write direct with its own read guard in hand waits *)
(* for ever (transport.rs:142-148).                                        *)
StuckForGood ==
    [][\A t \in Task : pc[t] = "upgrade" => pc'[t] = "upgrade"]_client

(* A client that insists on the direct channel ends when it cannot be      *)
(* made (manage.rs:285-287), as long as its event connection stands.       *)
DirectOnlyEnds ==
    \A a \in Attempt :
        cmd.mode = "direct" /\ att[a] = "done" /\ outcome[a] # "success"
            ~> ~running \/ faults > 0

=============================================================================
