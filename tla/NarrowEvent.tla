---------------------------- MODULE NarrowEvent ----------------------------
(***************************************************************************)
(* NarrowEvent (sra-network/src/event.rs) multiplexes requests with their  *)
(* responses, and events, over one web socket.  Tasks that hold a clone of *)
(* NarrowEventRequest call request(); the owner's loop polls the stream:   *)
(* a poll reads what there is, hands responses to the tasks that wait for  *)
(* them and everything else to the loop, and when nothing can be read takes *)
(* one message from the queues and sends it.                               *)
(*                                                                         *)
(* The owner is the loop of an agent; the other end is the gateway's state *)
(* task, which reads one message after the other (state/mod.rs).  The      *)
(* channels are unbounded; the bounds below are the model's.               *)
(***************************************************************************)
EXTENDS Integers, Sequences, Functions

CONSTANTS
    Tasks,      \* tasks that share one NarrowEventRequest
    MaxCalls,   \* bound: requests of each task
    MaxErrors,  \* bound: Error events of connections
    MaxFormer,  \* bound: requests of the agent's former socket
    FormerIds   \* the ids they may have, which count from 0 like those here

ASSUME CallsAssumption ==
    /\ MaxCalls \in [Tasks -> Nat] /\ MaxErrors \in Nat
    /\ MaxFormer \in Nat /\ FormerIds \subseteq Nat

VARIABLES
    lastReqId,  \* last_req_id, shared by the clones
    at,         \* at[t]: where a task is in request()
    id,         \* id[c]: the id a call has read
    made,       \* made[t]: the number of requests it has begun
    result,     \* result[t]: what its last request returned
    asked,      \* req_receiver: [id, call], the oneshot sender of the call included
    events,     \* receiver: an error's number, or 0 for a Pong
    reported,   \* the number of errors that were queued
    table,      \* requests: the calls that wait, by id
    poll,       \* where the poll is; "ended" when the stream was dropped
    outbox, inbox,  \* the socket, each way
    broken,     \* the socket fails
    former,     \* the number of requests answered for the former socket
    superseded, \* the gateway has replaced this agent's socket by another
    delivered,  \* errors the gateway has read
    dropped,    \* history: errors taken while the socket was not ready
    stray       \* history: calls whose response was handed to the loop

callers == <<lastReqId, at, id, made>>
queues == <<asked, events, reported>>
gateway == <<former, superseded, delivered>>
socket == <<outbox, inbox, broken>>
narrow == <<callers, result, queues, table, poll, socket, gateway, dropped, stray>>

Call == UNION {{<<t, n>> : n \in 1..MaxCalls[t]} : t \in Tasks}
Former(i) == <<i>>          \* the request with id i of the agent's former socket
Foreign == [1..1 -> Nat]
None == <<>>                \* results other than the call that is answered
Canceled == <<"canceled", 0, 0>>
NoId == -1
Pong == 0
Request(i, c) == [kind |-> "request", id |-> i, call |-> c]
Event(n) == [kind |-> "event", n |-> n]
Response(i, c) == [kind |-> "response", id |-> i, call |-> c]
Ping == [kind |-> "ping"]
Shutdown == [kind |-> "shutdown"]

NarrowInit ==
    /\ lastReqId = 0
    /\ at = [t \in Tasks |-> "idle"] /\ id = [c \in Call |-> NoId] /\ made = [t \in Tasks |-> 0]
    /\ result = [t \in Tasks |-> None]
    /\ asked = <<>> /\ events = <<>> /\ reported = 0 /\ table = <<>>
    /\ poll = "read" /\ outbox = <<>> /\ inbox = <<>> /\ broken = FALSE
    /\ former = 0 /\ superseded = FALSE /\ delivered = {} /\ dropped = {} /\ stray = {}

----------------------------------------------------------------------------
(* Dropping the oneshot senders of calls resolves their receivers with an  *)
(* error, which request() returns as RequestCanceled.                      *)

current(t) == <<t, made[t]>>
waiting(c) == at[c[1]] = "waiting" /\ c = current(c[1])

cancels(calls) ==
    /\ result' = [t \in Tasks |-> IF current(t) \in calls THEN Canceled ELSE result[t]]
    /\ at' = [t \in Tasks |-> IF current(t) \in calls THEN "idle" ELSE at[t]]

answers(c, r) ==
    /\ result' = [result EXCEPT ![c[1]] = r]
    /\ at' = [at EXCEPT ![c[1]] = "idle"]

held == {table[i] : i \in DOMAIN table} \cup {asked[k].call : k \in DOMAIN asked}
without(i) == [j \in DOMAIN table \ {i} |-> table[j]]

(* request(): the counter is loaded and incremented by two operations, and *)
(* the message is queued by a third.                                       *)

Loads(t) ==
    /\ at[t] = "idle" /\ made[t] < MaxCalls[t]
    /\ at' = [at EXCEPT ![t] = "loaded"]
    /\ made' = [made EXCEPT ![t] = @ + 1]
    /\ id' = [id EXCEPT ![<<t, made[t] + 1>>] = lastReqId]
    /\ result' = [result EXCEPT ![t] = None]
    /\ UNCHANGED <<lastReqId, queues, table, poll, socket, gateway, dropped, stray>>

\* Mutant of Increments: the counter stays.
Increments_not(t) ==
    /\ at[t] = "loaded"
    /\ at' = [at EXCEPT ![t] = "numbered"]
    /\ UNCHANGED <<lastReqId, id, made, result, queues, table, poll, socket, gateway, dropped, stray>>

Increments(t) ==
    /\ at[t] = "loaded"
    /\ at' = [at EXCEPT ![t] = "numbered"]
    /\ lastReqId' = lastReqId + 1
    /\ UNCHANGED <<id, made, result, queues, table, poll, socket, gateway, dropped, stray>>

Queues(t) ==
    /\ at[t] = "numbered"
    /\ IF poll = "ended"    \* the channel is closed: send fails and drops the oneshot
       THEN cancels({current(t)}) /\ UNCHANGED asked
       ELSE /\ at' = [at EXCEPT ![t] = "waiting"]
            /\ asked' = Append(asked, [id |-> id[current(t)], call |-> current(t)])
            /\ UNCHANGED result
    /\ UNCHANGED <<lastReqId, id, made, events, reported, table, poll, socket, gateway, dropped, stray>>

(* A connection's task failed and reports it. *)
QueuesError ==
    /\ poll # "ended" /\ reported < MaxErrors
    /\ reported' = reported + 1
    /\ events' = Append(events, reported + 1)
    /\ UNCHANGED <<callers, result, asked, table, poll, socket, gateway, dropped, stray>>

----------------------------------------------------------------------------
(* The poll.  What it returns to the loop is handled at once: a Ping makes  *)
(* the loop queue a Pong, other responses are ignored.                     *)

TakesResponse ==
    /\ poll = "read" /\ inbox # <<>> /\ Head(inbox).kind = "response"
    /\ Head(inbox).id \in DOMAIN table
    /\ answers(table[Head(inbox).id], Head(inbox).call)
    /\ table' = without(Head(inbox).id)
    /\ inbox' = Tail(inbox)
    /\ UNCHANGED <<lastReqId, id, made, queues, poll, outbox, broken, gateway, dropped, stray>>

ReturnsResponse ==
    /\ poll = "read" /\ inbox # <<>> /\ Head(inbox).kind = "response"
    /\ Head(inbox).id \notin DOMAIN table
    /\ stray' = stray \cup {Head(inbox).call}
    /\ inbox' = Tail(inbox)
    /\ UNCHANGED <<callers, result, queues, table, poll, outbox, broken, gateway, dropped>>

ReturnsPing ==
    /\ poll = "read" /\ inbox # <<>> /\ Head(inbox) = Ping
    /\ events' = Append(events, Pong)
    /\ inbox' = Tail(inbox)
    /\ UNCHANGED <<callers, result, asked, reported, table, poll, outbox, broken, gateway, dropped, stray>>

\* Mutant of FindsNothing: only a request wakes the sending half.
FindsNothing_requests ==
    /\ poll = "read" /\ inbox = <<>> /\ ~broken /\ asked # <<>>
    /\ poll' = "send"
    /\ UNCHANGED <<callers, result, queues, table, socket, gateway, dropped, stray>>

FindsNothing ==
    /\ poll = "read" /\ inbox = <<>> /\ ~broken
    /\ asked # <<>> \/ events # <<>>
    /\ poll' = "send"
    /\ UNCHANGED <<callers, result, queues, table, socket, gateway, dropped, stray>>

(* send() is polled once.  Ready: the message is on its way and the call    *)
(* enters the table, where it drops an entry of the same id.  Pending: the *)
(* future is dropped, before or after the socket took the message, and the *)
(* oneshot with it.                                                        *)

\* Mutant of SendsRequest: the entry is made under the id read last.
SendsRequest_latest ==
    /\ poll = "send" /\ asked # <<>> /\ ~broken
    /\ LET r == Head(asked) IN
       /\ outbox' = Append(outbox, Request(r.id, r.call))
       /\ cancels({table[i] : i \in DOMAIN table \cap {lastReqId}})
       /\ table' = [i \in DOMAIN table \cup {lastReqId} |-> IF i = lastReqId THEN r.call ELSE table[i]]
    /\ asked' = Tail(asked) /\ poll' = "read"
    /\ UNCHANGED <<lastReqId, id, made, events, reported, inbox, broken, gateway, dropped, stray>>

SendsRequest ==
    /\ poll = "send" /\ asked # <<>> /\ ~broken
    /\ LET r == Head(asked) IN
       /\ outbox' = Append(outbox, Request(r.id, r.call))
       /\ cancels({table[i] : i \in DOMAIN table \cap {r.id}})
       /\ table' = [i \in DOMAIN table \cup {r.id} |-> IF i = r.id THEN r.call ELSE table[i]]
    /\ asked' = Tail(asked) /\ poll' = "read"
    /\ UNCHANGED <<lastReqId, id, made, events, reported, inbox, broken, gateway, dropped, stray>>

\* Mutant of RequestNotReady: the entry was made before the send and stays.
RequestNotReady_registered ==
    /\ poll = "send" /\ asked # <<>> /\ ~broken
    /\ LET r == Head(asked) IN
       /\ cancels({table[i] : i \in DOMAIN table \cap {r.id}})
       /\ table' = [i \in DOMAIN table \cup {r.id} |-> IF i = r.id THEN r.call ELSE table[i]]
    /\ asked' = Tail(asked) /\ poll' = "read"
    /\ UNCHANGED <<lastReqId, id, made, events, reported, socket, gateway, dropped, stray>>

RequestNotReady ==
    /\ poll = "send" /\ asked # <<>> /\ ~broken
    /\ cancels({Head(asked).call})
    /\ outbox' \in {outbox, Append(outbox, Request(Head(asked).id, Head(asked).call))}
    /\ asked' = Tail(asked) /\ poll' = "read"
    /\ UNCHANGED <<lastReqId, id, made, events, reported, table, inbox, broken, gateway, dropped, stray>>

SendsEvent ==
    /\ poll = "send" /\ asked = <<>> /\ events # <<>> /\ ~broken
    /\ outbox' = Append(outbox, Event(Head(events)))
    /\ events' = Tail(events) /\ poll' = "read"
    /\ UNCHANGED <<callers, result, asked, reported, table, inbox, broken, gateway, dropped, stray>>

EventNotReady ==
    /\ poll = "send" /\ asked = <<>> /\ events # <<>> /\ ~broken
    /\ \/ /\ dropped' = dropped \cup ({Head(events)} \ {Pong})
          /\ UNCHANGED outbox
       \/ /\ outbox' = Append(outbox, Event(Head(events)))
          /\ UNCHANGED dropped
    /\ events' = Tail(events) /\ poll' = "read"
    /\ UNCHANGED <<callers, result, asked, reported, table, inbox, broken, gateway, stray>>

(* The stream ends: an error of the socket, or the gateway's Shutdown.  The *)
(* loop drops NarrowEvent with its queues and its table.                   *)
Drops ==
    /\ poll' = "ended"
    /\ asked' = <<>> /\ events' = <<>> /\ table' = <<>>
    /\ cancels(held)
    /\ UNCHANGED <<lastReqId, id, made, reported, socket, gateway, dropped, stray>>

StreamFails == poll \in {"read", "send"} /\ broken /\ Drops
ReturnsShutdown == poll = "read" /\ inbox # <<>> /\ Head(inbox) = Shutdown /\ Drops

----------------------------------------------------------------------------
(* The gateway: it answers an update of system information, the first one  *)
(* (constant) with a response, later ones (dynamic) with a Ping as well.   *)
(* It finds the agent by its name: once another socket has that name, the  *)
(* answer goes there, or to nobody when that one has come off the registry *)
(* since; the messages of this socket all come before its own end.         *)

GatewayAnswers ==
    /\ outbox # <<>> /\ Head(outbox).kind = "request"
    /\ outbox' = Tail(outbox)
    /\ IF superseded \/ poll = "ended"
       THEN UNCHANGED inbox
       ELSE inbox' = inbox \o (IF Head(outbox).call[2] > 1 THEN <<Ping>> ELSE <<>>)
                           \o <<Response(Head(outbox).id, Head(outbox).call)>>
    /\ UNCHANGED <<callers, result, queues, table, poll, broken, gateway, dropped, stray>>

GatewayReads ==
    /\ outbox # <<>> /\ Head(outbox).kind = "event"
    /\ delivered' = delivered \cup ({Head(outbox).n} \ {Pong})
    /\ outbox' = Tail(outbox)
    /\ UNCHANGED <<callers, result, queues, table, poll, inbox, broken, former, superseded, dropped, stray>>

(* A request of the agent's former socket is answered on this one. *)
AnswersFormer ==
    /\ ~superseded /\ poll # "ended" /\ ~broken /\ former < MaxFormer
    /\ former' = former + 1
    /\ \E i \in FormerIds : inbox' = Append(inbox, Response(i, Former(i)))
    /\ UNCHANGED <<callers, result, queues, table, poll, outbox, broken, superseded, delivered, dropped, stray>>

Supersedes ==
    /\ ~superseded /\ poll # "ended" /\ ~broken
    /\ superseded' = TRUE
    /\ inbox' = Append(inbox, Shutdown)
    /\ UNCHANGED <<callers, result, queues, table, poll, outbox, broken, former, delivered, dropped, stray>>

(* The network fails; what was under way is lost. *)
Breaks ==
    /\ ~broken /\ poll # "ended"
    /\ broken' = TRUE /\ outbox' = <<>> /\ inbox' = <<>>
    /\ UNCHANGED <<callers, result, queues, table, poll, gateway, dropped, stray>>

----------------------------------------------------------------------------
Poll ==
    \/ TakesResponse \/ ReturnsResponse \/ ReturnsPing \/ FindsNothing
    \/ SendsRequest \/ RequestNotReady \/ SendsEvent \/ EventNotReady
    \/ StreamFails \/ ReturnsShutdown

NarrowNext ==
    \/ \E t \in Tasks : Loads(t) \/ Increments(t) \/ Queues(t)
    \/ QueuesError
    \/ TakesResponse \/ ReturnsResponse \/ ReturnsPing \/ FindsNothing
    \/ SendsRequest \/ RequestNotReady \/ SendsEvent \/ EventNotReady
    \/ StreamFails \/ ReturnsShutdown
    \/ GatewayAnswers \/ GatewayReads \/ AnswersFormer \/ Supersedes \/ Breaks

NarrowSpec == NarrowInit /\ [][NarrowNext]_narrow

(* The loop polls, tasks inside request() go on, the gateway reads.  Nobody *)
(* has to make a request, and neither failures nor Shutdown have to come.  *)
FairNarrowSpec ==
    /\ NarrowSpec
    /\ WF_narrow(Poll)
    /\ \A t \in Tasks : WF_narrow(Increments(t)) /\ WF_narrow(Queues(t))
    /\ WF_narrow(GatewayAnswers) /\ WF_narrow(GatewayReads)

----------------------------------------------------------------------------
(* Types; and a call waits exactly while its oneshot sender is in the      *)
(* queue or in the table, which hold it once.                              *)
NarrowTypeOK ==
    /\ lastReqId \in Nat
    /\ at \in [Tasks -> {"idle", "loaded", "numbered", "waiting"}]
    /\ id \in [Call -> Nat \cup {NoId}] /\ made \in [Tasks -> Nat]
    /\ result \in [Tasks -> {None, Canceled} \cup Call \cup Foreign]
    /\ asked \in Seq([id : Nat, call : Call]) /\ events \in Seq(0..MaxErrors)
    /\ reported \in 0..MaxErrors
    /\ poll \in {"read", "send", "ended"} /\ broken \in BOOLEAN
    /\ superseded \in BOOLEAN /\ former \in 0..MaxFormer
    /\ dropped \cup delivered \subseteq 1..MaxErrors /\ stray \subseteq Call \cup Foreign
    /\ held = {c \in Call : waiting(c)}

(* Of the answers to this socket's requests, a task gets the one to what   *)
(* it asked, or that of another task which read the same id in the window  *)
(* between load and fetch_add (event.rs:37) -- never a late answer to a    *)
(* former request of its own, which was cancelled after the socket had     *)
(* taken it (event.rs:116).                                                *)
NoLateAnswer ==
    \A t \in Tasks : result[t] \in Call \ {current(t)} =>
        result[t][1] # t /\ id[result[t]] = id[current(t)]

(* The code may take the answer to a request of the agent's former socket  *)
(* for that of a call (mod.rs:223 looks the agent up by its name): only    *)
(* for one whose id is the same, which the response alone names.           *)
FormerAnswersById ==
    \A t \in Tasks : result[t] \in Foreign => result[t] = Former(id[current(t)])

(* A response that the table does not know is handed to the loop, which    *)
(* ignores it (agent main.rs:466, client manage.rs:191): nobody waits for  *)
(* it at that moment.                                                      *)
StraysAwaitedByNobody == \A c \in stray \cap Call : ~waiting(c)

(* What the multiplexer owes its callers at every moment: the four above.  *)
NarrowInv == NarrowTypeOK /\ NoLateAnswer /\ FormerAnswersById /\ StraysAwaitedByNobody

(* Every request() returns: with a response, or RequestCanceled when its    *)
(* send was not ready, its id was taken or the stream ended.               *)
RequestsReturn == \A t \in Tasks : at[t] = "waiting" ~> at[t] = "idle"

(* An error that was queued reaches the gateway, unless the connection ends *)
(* or the socket was not ready when it was taken from the queue            *)
(* (event.rs:129): the client it is meant for is then never told.          *)
ErrorsArrive ==
    \A n \in 1..MaxErrors :
        reported >= n ~> \/ n \in delivered \cup dropped
                         \/ poll = "ended" \/ broken
----------------------------------------------------------------------------
(* The inductive invariant behind NarrowInv.                               *)

Ask == [kind : {"request"}, id : Nat, call : Call]
Answer == [kind : {"response"}, id : Nat, call : Call \cup Foreign]
Report == [kind : {"event"}, n : 0..MaxErrors]

MessagesOK == outbox \in Seq(Ask \cup Report) /\ inbox \in Seq(Answer \cup {Ping, Shutdown})

(* The ids a task reads grow from one of its calls to the next, for it has *)
(* incremented the counter in between.                                     *)
IdsGrow ==
    /\ \A t \in Tasks : made[t] <= MaxCalls[t] /\ (at[t] # "idle" => made[t] > 0)
    /\ \A t \in Tasks : \A n \in 1..made[t] :
          /\ id[<<t, n>>] \in 0..lastReqId
          /\ n < made[t] \/ at[t] # "loaded" => id[<<t, n>>] < lastReqId
          /\ \A m \in 1..(n - 1) : id[<<t, m>>] < id[<<t, n>>]

(* The queue and the table hold a call under its own id, and only once. *)
HeldOnce ==
    /\ \A r \in Range(asked) : r.id = id[r.call] /\ r.call \notin Range(table)
    /\ \A j, k \in DOMAIN asked : asked[j].call = asked[k].call => j = k
    /\ \A i \in DOMAIN table : i = id[table[i]]

(* The call has been through the queue. *)
Left(c) ==
    /\ c[2] <= made[c[1]]
    /\ c = current(c[1]) => at[c[1]] \notin {"loaded", "numbered"}
    /\ \A r \in Range(asked) : r.call # c

(* What is under way, was handed to the loop or was returned to a task     *)
(* belongs to calls that have left the queue.                              *)
UnderWay ==
    /\ \A m \in Range(outbox) : m.kind = "request" => m.id = id[m.call] /\ Left(m.call)
    /\ \A m \in Range(inbox) : m.kind = "response" /\ m.call \in Call =>
                                  m.id = id[m.call] /\ Left(m.call)
    /\ \A c \in stray \cap Call : Left(c)
    /\ \A t \in Tasks : result[t] \in Call => Left(result[t])

(* What the former socket is answered carries that request's id. *)
FormersNamed ==
    \A m \in Range(inbox) : m.kind = "response" /\ m.call \in Foreign => m.call = Former(m.id)

NarrowIInv == NarrowInv /\ MessagesOK /\ IdsGrow /\ HeldOnce /\ UnderWay /\ FormersNamed
=============================================================================
