------------------------ MODULE NarrowEvent_proofs ------------------------
(***************************************************************************)
(* Theorems about NarrowEvent: whoever waits is held once, under its own   *)
(* id, and no task gets a late answer, for any number of tasks and calls.  *)
(***************************************************************************)
EXTENDS NarrowEvent, SequenceTheorems, TLAPS

----------------------------------------------------------------------------
(* Calls and sequences of messages.                                        *)

(* A call is a task and the number of its request.                         *)
LEMMA CallFacts ==
    /\ \A t \in Tasks : \A n \in 1..MaxCalls[t] : <<t, n>> \in Call
    /\ \A c \in Call : c[1] \in Tasks /\ c[2] \in 1..MaxCalls[c[1]] /\ c = <<c[1], c[2]>>
BY DEF Call

(* The other results are no calls.                                         *)
LEMMA NoCalls ==
    /\ None \notin Call \cup Foreign /\ Canceled \notin Call \cup Foreign
    /\ \A c \in Call : c \notin Foreign
<1>1. \A c \in Call : DOMAIN c = 1..2
  BY DEF Call
<1>2. DOMAIN None = {} /\ DOMAIN Canceled = 1..3
  BY DEF None, Canceled
<1>3. \A c \in Foreign : DOMAIN c = 1..1
  BY DEF Foreign
<1>4. {} # 1..1 /\ {} # 1..2 /\ 1..1 # 1..2 /\ 1..3 # 1..1 /\ 1..3 # 1..2
  <2>1. 1 \in 1..1 /\ 2 \in 1..2 /\ 2 \notin 1..1 /\ 3 \in 1..3 /\ 3 \notin 1..1 /\ 3 \notin 1..2
    OBVIOUS
  <2> QED
    BY <2>1
<1> QED
  BY <1>1, <1>2, <1>3, <1>4

\* A request of the former socket is named by its id.
LEMMA FormerFacts == \A i \in Nat : Former(i) \in Foreign
BY DEF Former, Foreign

(* Queueing a message adds it to those in the queue.                       *)
LEMMA AppendRange ==
    ASSUME NEW S, NEW s \in Seq(S), NEW e \in S
    PROVE  /\ Append(s, e) \in Seq(S)
           /\ Range(Append(s, e)) = Range(s) \cup {e}
<1>1. /\ Append(s, e) \in Seq(S) /\ Len(Append(s, e)) = Len(s) + 1
      /\ \A i \in 1..Len(s) : Append(s, e)[i] = s[i]
      /\ Append(s, e)[Len(s) + 1] = e
  OBVIOUS
<1>2. Range(s) = {s[i] : i \in 1..Len(s)}
  BY DEF Range
<1>3. Range(Append(s, e)) = {Append(s, e)[i] : i \in 1..(Len(s) + 1)}
  BY <1>1 DEF Range
<1> QED
  BY <1>1, <1>2, <1>3

(* Taking the first message leaves the others.                             *)
LEMMA TailRange ==
    ASSUME NEW S, NEW s \in Seq(S), s # <<>>
    PROVE  /\ Tail(s) \in Seq(S) /\ Head(s) \in S
           /\ Head(s) \in Range(s) /\ Range(s) = {Head(s)} \cup Range(Tail(s))
           /\ DOMAIN s = 1..Len(s) /\ 1 \in DOMAIN s /\ Head(s) = s[1]
           /\ DOMAIN Tail(s) = 1..(Len(s) - 1)
           /\ \A i \in 1..(Len(s) - 1) : Tail(s)[i] = s[i + 1]
<1>1. /\ Tail(s) \in Seq(S) /\ Head(s) \in S /\ Head(s) = s[1] /\ Len(s) \in Nat /\ Len(s) >= 1
      /\ Len(Tail(s)) = Len(s) - 1 /\ DOMAIN s = 1..Len(s) /\ DOMAIN Tail(s) = 1..(Len(s) - 1)
      /\ \A i \in 1..(Len(s) - 1) : Tail(s)[i] = s[i + 1]
  BY HeadTailProperties, EmptySeq
<1>2. Range(s) = {s[i] : i \in 1..Len(s)}
  BY <1>1 DEF Range
<1>3. Range(Tail(s)) = {s[i + 1] : i \in 1..(Len(s) - 1)}
  BY <1>1 DEF Range
<1>4. ASSUME NEW i \in 1..Len(s) PROVE s[i] = s[1] \/ \E j \in 1..(Len(s) - 1) : s[i] = s[j + 1]
  <2>1. CASE i = 1
    BY <2>1
  <2>2. CASE i # 1
    <3>1. i - 1 \in 1..(Len(s) - 1) /\ s[i] = s[(i - 1) + 1]
      BY <1>1, <2>2
    <3> QED
      BY <3>1
  <2> QED
    BY <2>1, <2>2
<1>5. Range(s) \subseteq {Head(s)} \cup Range(Tail(s))
  BY <1>1, <1>2, <1>3, <1>4
<1>6. {Head(s)} \cup Range(Tail(s)) \subseteq Range(s)
  BY <1>1, <1>2, <1>3
<1> QED
  BY <1>1, <1>2, <1>5, <1>6

----------------------------------------------------------------------------
(* Types.                                                                  *)

(* NarrowTypeOK without its last conjunct. *)
Plain ==
    /\ lastReqId \in Nat
    /\ at \in [Tasks -> {"idle", "loaded", "numbered", "waiting"}]
    /\ id \in [Call -> Nat \cup {NoId}] /\ made \in [Tasks -> Nat]
    /\ result \in [Tasks -> {None, Canceled} \cup Call \cup Foreign]
    /\ asked \in Seq([id : Nat, call : Call]) /\ events \in Seq(0..MaxErrors)
    /\ reported \in 0..MaxErrors
    /\ poll \in {"read", "send", "ended"} /\ broken \in BOOLEAN
    /\ superseded \in BOOLEAN /\ former \in 0..MaxFormer
    /\ dropped \cup delivered \subseteq 1..MaxErrors /\ stray \subseteq Call \cup Foreign

Awaited == held = {c \in Call : waiting(c)}

(* The call a task makes is one of the calls, and has an id. *)
LEMMA CurrentFacts ==
    ASSUME Plain, IdsGrow, NEW t \in Tasks, at[t] # "idle"
    PROVE  /\ current(t) \in Call /\ id[current(t)] \in Nat
           /\ current(t)[1] = t /\ current(t)[2] = made[t]
<1>1. made[t] \in 1..MaxCalls[t]
  BY CallsAssumption DEF Plain, IdsGrow
<1>2. <<t, made[t]>> \in Call
  BY <1>1, CallFacts
<1>3. lastReqId \in Nat /\ id[<<t, made[t]>>] \in 0..lastReqId
  BY <1>1 DEF IdsGrow, Plain
<1> QED
  BY <1>2, <1>3 DEF current

(* A call that is held is one that waits, and its task's current one. *)
LEMMA HeldFacts ==
    ASSUME Awaited
    PROVE  /\ \A r \in Range(asked) : r.call \in held
           /\ \A i \in DOMAIN table : table[i] \in held
           /\ \A c \in held : /\ c \in Call /\ c[1] \in Tasks
                              /\ at[c[1]] = "waiting" /\ c = current(c[1])
<1>1. (\A r \in Range(asked) : r.call \in held) /\ (\A i \in DOMAIN table : table[i] \in held)
  BY DEF held, Range
<1> QED
  BY <1>1, CallFacts DEF Awaited, waiting

(* Tasks whose oneshot sender is dropped are told and go on. *)
LEMMA CancelsTypes ==
    ASSUME Plain, NEW calls, cancels(calls)
    PROVE  /\ at' \in [Tasks -> {"idle", "loaded", "numbered", "waiting"}]
           /\ result' \in [Tasks -> {None, Canceled} \cup Call \cup Foreign]
BY DEF Plain, cancels

(* Steps of the tasks keep the types. *)
LEMMA TaskTypes ==
    ASSUME Plain, Awaited, IdsGrow, NEW t \in Tasks, Loads(t) \/ Increments(t) \/ Queues(t)
    PROVE  Plain'
<1> USE DEF queues, socket, gateway
<1>1. CASE Loads(t)
  <2>1. /\ at' \in [Tasks -> {"idle", "loaded", "numbered", "waiting"}]
        /\ made' \in [Tasks -> Nat] /\ id' \in [Call -> Nat \cup {NoId}]
        /\ result' \in [Tasks -> {None, Canceled} \cup Call \cup Foreign]
    <3>1. /\ at' = [at EXCEPT ![t] = "loaded"] /\ made' = [made EXCEPT ![t] = @ + 1]
          /\ id' = [id EXCEPT ![<<t, made[t] + 1>>] = lastReqId]
          /\ result' = [result EXCEPT ![t] = None]
      BY <1>1 DEF Loads
    <3>2. made' \in [Tasks -> Nat]
      BY <3>1 DEF Plain
    <3>3. id' \in [Call -> Nat \cup {NoId}]
      BY <3>1 DEF Plain
    <3>4. /\ at' \in [Tasks -> {"idle", "loaded", "numbered", "waiting"}]
          /\ result' \in [Tasks -> {None, Canceled} \cup Call \cup Foreign]
      BY <3>1 DEF Plain
    <3> QED
      BY <3>2, <3>3, <3>4
  <2> QED
    BY <1>1, <2>1 DEF Loads, Plain
<1>2. CASE Increments(t)
  BY <1>2 DEF Increments, Plain
<1>3. CASE Queues(t)
  <2>1. [id |-> id[current(t)], call |-> current(t)] \in [id : Nat, call : Call]
    BY <1>3, CurrentFacts DEF Queues
  <2> DEFINE r == [id |-> id[current(t)], call |-> current(t)]
             S == [id : Nat, call : Call]
  <2> HIDE DEF r, S
  <2>2. asked' \in Seq(S)
    <3>1. asked \in Seq(S)
      BY DEF Plain, S
    <3>2. asked' = asked \/ asked' = Append(asked, r)
      BY <1>3 DEF Queues, r
    <3>3. r \in S
      BY <2>1 DEF r, S
    <3> QED
      BY <3>1, <3>2, <3>3
  <2>3. /\ at' \in [Tasks -> {"idle", "loaded", "numbered", "waiting"}]
        /\ result' \in [Tasks -> {None, Canceled} \cup Call \cup Foreign]
    BY <1>3, CancelsTypes DEF Queues, Plain
  <2> QED
    BY <1>3, <2>2, <2>3 DEF Queues, Plain, S
<1> QED
  BY <1>1, <1>2, <1>3

(* What is queued as an error, a Pong or a message of the gateway has its type. *)
LEMMA MessageTypes ==
    /\ \A r \in [id : Nat, call : Call] : Request(r.id, r.call) \in Ask \cup Report
    /\ \A n \in 0..MaxErrors : Event(n) \in Ask \cup Report
    /\ \A i \in Nat, c \in Call \cup Foreign : Response(i, c) \in Answer \cup {Ping, Shutdown}
    /\ Ping \in Answer \cup {Ping, Shutdown} /\ Shutdown \in Answer \cup {Ping, Shutdown}
    /\ \A m \in Ask \cup Report : m.kind = "request" => m.id \in Nat /\ m.call \in Call
    /\ \A m \in Ask \cup Report : m.kind = "event" => m.n \in 0..MaxErrors
    /\ \A m \in Answer \cup {Ping, Shutdown} :
          m.kind = "response" => m.id \in Nat /\ m.call \in Call \cup Foreign
BY DEF Ask, Answer, Report, Request, Event, Response, Ping, Shutdown

(* Steps of the poll keep the types. *)
LEMMA PollTypes ==
    ASSUME Plain, MessagesOK, Awaited, Poll
    PROVE  Plain' /\ MessagesOK'
<1> USE DEF callers, queues, gateway, socket
<1>e. <<>> \in Seq([id : Nat, call : Call]) /\ <<>> \in Seq(0..MaxErrors) /\ Pong \in 0..MaxErrors
  BY EmptySeq, CallsAssumption DEF Pong
<1>i. inbox # <<>> => /\ Head(inbox) \in Answer \cup {Ping, Shutdown}
                      /\ Tail(inbox) \in Seq(Answer \cup {Ping, Shutdown})
  BY HeadTailProperties DEF MessagesOK
<1>q. asked # <<>> => Head(asked) \in [id : Nat, call : Call] /\ Tail(asked) \in Seq([id : Nat, call : Call])
  BY HeadTailProperties DEF Plain
<1>v. events # <<>> => Head(events) \in 0..MaxErrors /\ Tail(events) \in Seq(0..MaxErrors)
  BY HeadTailProperties DEF Plain
<1>1. CASE TakesResponse
  <2>1. table[Head(inbox).id] \in Call /\ table[Head(inbox).id][1] \in Tasks
    BY <1>1, HeldFacts DEF TakesResponse
  <2>2. Head(inbox).call \in Call \cup Foreign
    BY <1>1, <1>i, MessageTypes DEF TakesResponse
  <2>3. /\ at' \in [Tasks -> {"idle", "loaded", "numbered", "waiting"}]
        /\ result' \in [Tasks -> {None, Canceled} \cup Call \cup Foreign]
    BY <1>1, <2>1, <2>2 DEF TakesResponse, answers, Plain
  <2> QED
    BY <1>1, <1>i, <2>3 DEF TakesResponse, Plain, MessagesOK
<1>2. CASE ReturnsResponse
  <2>1. Head(inbox).call \in Call \cup Foreign
    BY <1>2, <1>i, MessageTypes DEF ReturnsResponse
  <2> QED
    BY <1>2, <1>i, <2>1 DEF ReturnsResponse, Plain, MessagesOK
<1>3. CASE ReturnsPing
  BY <1>3, <1>i, <1>e DEF ReturnsPing, Plain, MessagesOK
<1>4. CASE FindsNothing
  BY <1>4 DEF FindsNothing, Plain, MessagesOK
<1>5. CASE SendsRequest
  <2>1. /\ at' \in [Tasks -> {"idle", "loaded", "numbered", "waiting"}]
        /\ result' \in [Tasks -> {None, Canceled} \cup Call \cup Foreign]
    BY <1>5, CancelsTypes DEF SendsRequest
  <2>2. outbox' \in Seq(Ask \cup Report)
    <3> DEFINE m == Request(Head(asked).id, Head(asked).call)
               S == Ask \cup Report
    <3>1. m \in S
      BY <1>5, <1>q, MessageTypes DEF SendsRequest
    <3>2. outbox' = Append(outbox, m) /\ outbox \in Seq(S)
      BY <1>5 DEF SendsRequest, MessagesOK
    <3> HIDE DEF m, S
    <3>3. outbox' \in Seq(S)
      BY <3>1, <3>2
    <3> QED
      BY <3>3 DEF S
  <2> QED
    BY <1>5, <1>q, <2>1, <2>2 DEF SendsRequest, Plain, MessagesOK
<1>6. CASE RequestNotReady
  <2>1. /\ at' \in [Tasks -> {"idle", "loaded", "numbered", "waiting"}]
        /\ result' \in [Tasks -> {None, Canceled} \cup Call \cup Foreign]
    BY <1>6, CancelsTypes DEF RequestNotReady
  <2>2. outbox' \in Seq(Ask \cup Report)
    <3> DEFINE m == Request(Head(asked).id, Head(asked).call)
               S == Ask \cup Report
    <3>1. m \in S
      BY <1>6, <1>q, MessageTypes DEF RequestNotReady
    <3>2. outbox' \in {outbox, Append(outbox, m)} /\ outbox \in Seq(S)
      BY <1>6 DEF RequestNotReady, MessagesOK
    <3> HIDE DEF m, S
    <3>3. outbox' \in Seq(S)
      BY <3>1, <3>2
    <3> QED
      BY <3>3 DEF S
  <2> QED
    BY <1>6, <1>q, <2>1, <2>2 DEF RequestNotReady, Plain, MessagesOK
<1>7. CASE SendsEvent
  <2>1. outbox' \in Seq(Ask \cup Report)
    BY <1>7, <1>v, MessageTypes DEF SendsEvent, MessagesOK
  <2> QED
    BY <1>7, <1>v, <2>1 DEF SendsEvent, Plain, MessagesOK
<1>8. CASE EventNotReady
  <2>1. outbox' \in Seq(Ask \cup Report)
    <3> DEFINE m == Event(Head(events))
               S == Ask \cup Report
    <3>1. m \in S
      BY <1>8, <1>v, MessageTypes DEF EventNotReady
    <3>2. outbox' \in {outbox, Append(outbox, m)} /\ outbox \in Seq(S)
      BY <1>8 DEF EventNotReady, MessagesOK
    <3> HIDE DEF m, S
    <3>3. outbox' \in Seq(S)
      BY <3>1, <3>2
    <3> QED
      BY <3>3 DEF S
  <2>2. dropped' \subseteq 1..MaxErrors
    BY <1>8, <1>v, CallsAssumption DEF EventNotReady, Plain, Pong
  <2> QED
    BY <1>8, <1>v, <2>1, <2>2 DEF EventNotReady, Plain, MessagesOK
<1>9. CASE Drops
  <2>1. /\ at' \in [Tasks -> {"idle", "loaded", "numbered", "waiting"}]
        /\ result' \in [Tasks -> {None, Canceled} \cup Call \cup Foreign]
    BY <1>9, CancelsTypes DEF Drops
  <2> QED
    BY <1>9, <1>e, <2>1 DEF Drops, Plain, MessagesOK
<1> QED
  BY <1>1, <1>2, <1>3, <1>4, <1>5, <1>6, <1>7, <1>8, <1>9 DEF Poll, StreamFails, ReturnsShutdown

(* Steps of the gateway, of the network and of failing connections keep the types. *)
LEMMA OutsideTypes ==
    ASSUME Plain, MessagesOK,
           QueuesError \/ GatewayAnswers \/ GatewayReads \/ AnswersFormer \/ Supersedes \/ Breaks
    PROVE  Plain' /\ MessagesOK'
<1> USE DEF callers, queues, gateway, socket
<1>o. outbox # <<>> => Head(outbox) \in Ask \cup Report /\ Tail(outbox) \in Seq(Ask \cup Report)
  BY HeadTailProperties DEF MessagesOK
<1>1. CASE QueuesError
  BY <1>1, CallsAssumption DEF QueuesError, Plain, MessagesOK
<1>2. CASE GatewayAnswers
  <2> DEFINE m == Response(Head(outbox).id, Head(outbox).call)
             S == Answer \cup {Ping, Shutdown}
  <2>1. m \in S /\ Ping \in S
    BY <1>2, <1>o, MessageTypes DEF GatewayAnswers
  <2> HIDE DEF m, S
  <2>2. <<Ping>> \in Seq(S) /\ <<>> \in Seq(S) /\ <<m>> \in Seq(S)
    BY <2>1
  <2>3. \A x \in Seq(S), y \in Seq(S), z \in Seq(S) : x \o y \o z \in Seq(S)
    OBVIOUS
  <2>4. inbox' \in Seq(S)
    <3>1. inbox' = inbox \/ inbox' = inbox \o <<Ping>> \o <<m>> \/ inbox' = inbox \o <<>> \o <<m>>
      BY <1>2 DEF GatewayAnswers, m
    <3>2. inbox \in Seq(S)
      BY DEF MessagesOK, S
    <3> QED
      BY <2>2, <2>3, <3>1, <3>2
  <2> QED
    BY <1>2, <1>o, <2>4 DEF GatewayAnswers, Plain, MessagesOK, S
<1>3. CASE GatewayReads
  <2>1. delivered' \subseteq 1..MaxErrors
    BY <1>3, <1>o, MessageTypes, CallsAssumption DEF GatewayReads, Plain, Pong
  <2> QED
    BY <1>3, <1>o, <2>1 DEF GatewayReads, Plain, MessagesOK
<1>4. CASE AnswersFormer
  <2>1. PICK i \in FormerIds : inbox' = Append(inbox, Response(i, Former(i)))
    BY <1>4 DEF AnswersFormer
  <2>2. Response(i, Former(i)) \in Answer \cup {Ping, Shutdown}
    <3>1. i \in Nat /\ Former(i) \in Foreign
      BY CallsAssumption, FormerFacts
    <3> QED
      BY <3>1, MessageTypes
  <2> QED
    BY <1>4, <2>1, <2>2, CallsAssumption DEF AnswersFormer, Plain, MessagesOK
<1>5. CASE Supersedes
  BY <1>5, MessageTypes DEF Supersedes, Plain, MessagesOK
<1>6. CASE Breaks
  BY <1>6, EmptySeq DEF Breaks, Plain, MessagesOK
<1> QED
  BY <1>1, <1>2, <1>3, <1>4, <1>5, <1>6

----------------------------------------------------------------------------
(* Calls, their ids, and who holds them.                                   *)

Calls == IdsGrow /\ HeldOnce /\ Awaited /\ NoLateAnswer /\ StraysAwaitedByNobody /\ UnderWay

(* No two calls of a task have one id. *)
LEMMA SameTask ==
    ASSUME Plain, IdsGrow, NEW c \in Call, NEW d \in Call, c[1] = d[1],
           c[2] <= made[c[1]], d[2] <= made[d[1]], id[c] = id[d]
    PROVE  c = d
<1> DEFINE t == c[1]
<1>1. /\ t \in Tasks /\ made[t] \in Nat /\ c[2] \in 1..made[t] /\ d[2] \in 1..made[t]
      /\ c = <<t, c[2]>> /\ d = <<t, d[2]>>
  <2>1. /\ c[1] \in Tasks /\ c[2] \in 1..MaxCalls[c[1]] /\ c = <<c[1], c[2]>>
        /\ d[2] \in 1..MaxCalls[d[1]] /\ d = <<d[1], d[2]>>
    BY CallFacts
  <2>2. made[c[1]] \in Nat /\ MaxCalls[c[1]] \in Nat
    BY <2>1, CallsAssumption DEF Plain
  <2> QED
    BY <2>1, <2>2
<1>2. \A n \in 1..made[t] : /\ id[<<t, n>>] \in Int
                            /\ \A m \in 1..(n - 1) : id[<<t, m>>] < id[<<t, n>>]
  BY <1>1 DEF IdsGrow, Plain
<1>3. c[2] = d[2]
  <2> DEFINE n == c[2]
             k == d[2]
  <2>1. n \in 1..made[t] /\ k \in 1..made[t] /\ id[<<t, n>>] = id[<<t, k>>]
    BY <1>1
  <2> HIDE DEF n, k, t
  <2>2. ~(n < k) /\ ~(k < n)
    BY <1>2, <2>1
  <2>3. n = k
    BY <2>1, <2>2
  <2> QED
    BY <2>3 DEF n, k
<1> QED
  BY <1>1, <1>3

(* What is under way stays so when calls that have left the queue keep    *)
(* their ids and do not come back.                                         *)
LEMMA UnderWayKeeps ==
    ASSUME Plain, MessagesOK, UnderWay,
           \A c \in Call : Left(c) => Left(c)' /\ id'[c] = id[c],
           \A m \in Range(outbox') : \/ m \in Range(outbox) \/ m.kind = "event"
                                     \/ m.id = id'[m.call] /\ Left(m.call)',
           \A m \in Range(inbox') : \/ m \in Range(inbox) \/ m.kind # "response"
                                    \/ m.call \in Foreign
                                    \/ \E o \in Range(outbox) : /\ o.kind = "request"
                                                                /\ m.id = o.id /\ m.call = o.call,
           \A c \in stray' : \/ c \in stray \/ c \in Foreign
                             \/ c \in Call /\ Left(c),
           \A t \in Tasks : result'[t] \in Call => result'[t] = result[t] \/ Left(result'[t])
    PROVE  UnderWay'
<1>1. /\ \A m \in Range(outbox) : m.kind = "request" => m.call \in Call
      /\ \A m \in Range(inbox) : m.kind = "response" => m.call \in Call \cup Foreign
  <2>1. Range(outbox) \subseteq Ask \cup Report /\ Range(inbox) \subseteq Answer \cup {Ping, Shutdown}
    BY RangeOfSeq DEF MessagesOK
  <2> QED
    BY <2>1, MessageTypes
<1>2. \A m \in Range(outbox') : m.kind = "request" => m.id = id'[m.call] /\ Left(m.call)'
  BY <1>1 DEF UnderWay
<1>3. \A m \in Range(inbox') : m.kind = "response" /\ m.call \in Call =>
                                    m.id = id'[m.call] /\ Left(m.call)'
  <2> SUFFICES ASSUME NEW m \in Range(inbox'), m.kind = "response", m.call \in Call
               PROVE  m.id = id'[m.call] /\ Left(m.call)'
    OBVIOUS
  <2>1. CASE m \in Range(inbox)
    BY <1>1, <2>1 DEF UnderWay
  <2>2. ASSUME NEW o \in Range(outbox), o.kind = "request", m.id = o.id, m.call = o.call
        PROVE  m.id = id'[m.call] /\ Left(m.call)'
    BY <1>1, <2>2 DEF UnderWay
  <2> QED
    BY NoCalls, <2>1, <2>2
<1>4. \A c \in stray' \cap Call : Left(c)'
  BY NoCalls DEF UnderWay, Plain
<1>5. \A t \in Tasks, c \in Call : result'[t] = c => Left(c)'
  BY DEF UnderWay
<1> QED
  BY <1>2, <1>3, <1>4, <1>5 DEF UnderWay, Left, current

(* A step that leaves the tasks, the queue and the table alone. *)
LEMMA QuietCalls ==
    ASSUME Plain, MessagesOK, Calls,
           UNCHANGED <<callers, result, asked, table, stray>>,
           \A m \in Range(outbox') : m \in Range(outbox) \/ m.kind = "event",
           \A m \in Range(inbox') : \/ m \in Range(inbox) \/ m.kind # "response"
                                    \/ m.call \in Foreign
                                    \/ \E o \in Range(outbox) : /\ o.kind = "request"
                                                                /\ m.id = o.id /\ m.call = o.call
    PROVE  Calls'
<1>1. /\ lastReqId' = lastReqId /\ at' = at /\ id' = id /\ made' = made /\ result' = result
      /\ asked' = asked /\ table' = table /\ stray' = stray
  BY DEF callers
<1>2. \A c : Left(c)' <=> Left(c)
  BY <1>1 DEF Left, current
<1>3. IdsGrow'
  BY <1>1 DEF Calls, IdsGrow
<1>4. HeldOnce'
  BY <1>1 DEF Calls, HeldOnce
<1>5. Awaited'
  BY <1>1 DEF Calls, Awaited, held, waiting, current
<1>6. NoLateAnswer' /\ StraysAwaitedByNobody'
  BY <1>1 DEF Calls, NoLateAnswer, StraysAwaitedByNobody, waiting, current
<1>7. UnderWay'
  BY <1>1, <1>2, UnderWayKeeps DEF Calls, UnderWay
<1> QED
  BY <1>3, <1>4, <1>5, <1>6, <1>7 DEF Calls

(* A call is held when the queue or the table has it. *)
LEMMA HeldForm ==
    ASSUME NEW q, NEW tb, NEW c
    PROVE  c \in {tb[i] : i \in DOMAIN tb} \cup {q[k].call : k \in DOMAIN q} <=>
               c \in Range(tb) \/ \E r \in Range(q) : r.call = c
BY DEF Range

(* The part of Left that is not about the queue. *)
Past(c) ==
    /\ c[2] <= made[c[1]]
    /\ c = current(c[1]) => at[c[1]] \notin {"loaded", "numbered"}

\* A call has left the queue if it was made and no message of it waits there.
LEMMA LeftIsPast ==
    \A c : Left(c) <=> Past(c) /\ \A r \in Range(asked) : r.call # c
BY DEF Left, Past

(* A task that begins a request takes a new id, and none of the other calls *)
(* notices.                                                                *)
LEMMA LoadsCalls ==
    ASSUME Plain, MessagesOK, Calls, NEW t \in Tasks, Loads(t)
    PROVE  Calls'
<1> DEFINE c0 == <<t, made[t] + 1>>
<1>0. /\ at[t] = "idle" /\ made[t] < MaxCalls[t] /\ made[t] \in Nat /\ MaxCalls[t] \in Nat
      /\ at' = [at EXCEPT ![t] = "loaded"] /\ made' = [made EXCEPT ![t] = @ + 1]
      /\ id' = [id EXCEPT ![c0] = lastReqId]
      /\ result' = [result EXCEPT ![t] = None]
      /\ lastReqId' = lastReqId /\ asked' = asked /\ table' = table
      /\ outbox' = outbox /\ inbox' = inbox /\ stray' = stray
  BY CallsAssumption DEF Loads, Plain, queues, socket
<1>t. /\ at \in [Tasks -> {"idle", "loaded", "numbered", "waiting"}] /\ made \in [Tasks -> Nat]
      /\ id \in [Call -> Nat \cup {NoId}] /\ DOMAIN result = Tasks /\ lastReqId \in Nat
  BY DEF Plain
<1>1. c0 \in Call /\ c0[1] = t /\ c0[2] = made[t] + 1
  <2>1. made[t] + 1 \in 1..MaxCalls[t]
    BY <1>0
  <2> QED
    BY <2>1, CallFacts
<1>2. \A c \in Call : c[1] \in Tasks /\ c[2] \in Nat /\ c = <<c[1], c[2]>>
  BY CallFacts, CallsAssumption
<1>3. \A c \in Call : c[2] <= made[c[1]] => c # c0 /\ id'[c] = id[c] /\ c[2] <= made'[c[1]]
  BY <1>0, <1>1, <1>2, <1>t
<1>4. \A c \in Call : waiting(c)' <=> waiting(c)
  <2> SUFFICES ASSUME NEW c \in Call PROVE waiting(c)' <=> waiting(c)
    OBVIOUS
  <2>1. CASE c[1] = t
    BY <1>0, <1>t, <2>1 DEF waiting
  <2>2. CASE c[1] # t
    BY <1>0, <1>t, <1>2, <2>2 DEF waiting, current
  <2> QED
    BY <2>1, <2>2
<1>5. \A c \in Call : waiting(c) => c[2] <= made[c[1]]
  BY <1>2, <1>t DEF waiting, current
<1>6. \A c \in Call : Left(c) => Left(c)' /\ id'[c] = id[c]
  <2> SUFFICES ASSUME NEW c \in Call, Left(c) PROVE Left(c)' /\ id'[c] = id[c]
    OBVIOUS
  <2>1. c[2] <= made[c[1]] /\ \A r \in Range(asked) : r.call # c
    BY DEF Left
  <2>2. id'[c] = id[c] /\ c[2] <= made'[c[1]]
    BY <1>3, <2>1
  <2>3. ASSUME c = <<c[1], made'[c[1]]>> PROVE at'[c[1]] \notin {"loaded", "numbered"}
    <3>1. c[1] # t
      BY <1>0, <1>1, <1>2, <1>t, <2>1, <2>3
    <3>2. made'[c[1]] = made[c[1]] /\ at'[c[1]] = at[c[1]]
      BY <1>0, <1>2, <1>t, <3>1
    <3> QED
      BY <2>3, <3>2 DEF Left, current
  <2> QED
    BY <1>0, <2>1, <2>2, <2>3 DEF Left, current
<1>7. IdsGrow'
  <2> SUFFICES ASSUME NEW u \in Tasks
               PROVE  /\ made'[u] <= MaxCalls[u] /\ (at'[u] # "idle" => made'[u] > 0)
                      /\ \A n \in 1..made'[u] :
                            /\ id'[<<u, n>>] \in 0..lastReqId'
                            /\ n < made'[u] \/ at'[u] # "loaded" => id'[<<u, n>>] < lastReqId'
                            /\ \A m \in 1..(n - 1) : id'[<<u, m>>] < id'[<<u, n>>]
    BY DEF IdsGrow
  <2>1. /\ made[u] <= MaxCalls[u] /\ (at[u] # "idle" => made[u] > 0) /\ made[u] \in Nat
        /\ \A n \in 1..made[u] :
              /\ id[<<u, n>>] \in 0..lastReqId
              /\ n < made[u] \/ at[u] # "loaded" => id[<<u, n>>] < lastReqId
              /\ \A m \in 1..(n - 1) : id[<<u, m>>] < id[<<u, n>>]
    BY <1>t DEF Calls, IdsGrow
  <2>2. \A n \in 1..made[u] : <<u, n>> \in Call /\ id'[<<u, n>>] = id[<<u, n>>]
    <3> SUFFICES ASSUME NEW n \in 1..made[u] PROVE <<u, n>> \in Call /\ id'[<<u, n>>] = id[<<u, n>>]
      OBVIOUS
    <3>1. n \in 1..MaxCalls[u]
      BY <2>1, CallsAssumption
    <3>2. <<u, n>> \in Call
      BY <3>1, CallFacts
    <3> QED
      BY <1>3, <2>1, <3>2
  <2>3. CASE u # t
    <3>1. made'[u] = made[u] /\ at'[u] = at[u]
      BY <1>0, <1>t, <2>3
    <3>2. \A n \in 1..made[u], m \in 1..made[u] : m \in 1..(n - 1) => id'[<<u, m>>] < id'[<<u, n>>]
      BY <2>1, <2>2
    <3>3. \A n \in 1..made[u] : \A m \in 1..(n - 1) : m \in 1..made[u]
      BY <2>1
    <3> QED
      BY <1>0, <2>1, <2>2, <3>1, <3>2, <3>3
  <2>4. CASE u = t
    <3>1. made'[u] = made[u] + 1 /\ at'[u] = "loaded" /\ id'[<<u, made[u] + 1>>] = lastReqId
      BY <1>0, <1>1, <1>t, <2>4
    <3>2. \A n \in 1..made[u] : id'[<<u, n>>] \in 0..lastReqId /\ id'[<<u, n>>] < lastReqId
      BY <1>0, <2>1, <2>2, <2>4
    <3>3. \A n \in 1..made[u], m \in 1..made[u] : m \in 1..(n - 1) => id'[<<u, m>>] < id'[<<u, n>>]
      BY <2>1, <2>2
    <3>4. \A n \in 1..(made[u] + 1) : n = made[u] + 1 \/ n \in 1..made[u]
      BY <2>1
    <3>5. \A n \in 1..(made[u] + 1) : \A m \in 1..(n - 1) : m \in 1..made[u]
      BY <2>1
    <3>6. made'[u] <= MaxCalls[u] /\ made'[u] > 0
      BY <1>0, <2>1, <2>4, <3>1
    <3>7. ASSUME NEW n \in 1..made'[u]
          PROVE  /\ id'[<<u, n>>] \in 0..lastReqId'
                 /\ n < made'[u] \/ at'[u] # "loaded" => id'[<<u, n>>] < lastReqId'
                 /\ \A m \in 1..(n - 1) : id'[<<u, m>>] < id'[<<u, n>>]
      <4>1. CASE n = made[u] + 1
        BY <1>0, <1>t, <3>1, <3>2, <3>5, <4>1
      <4>2. CASE n \in 1..made[u]
        BY <1>0, <3>1, <3>2, <3>3, <3>5, <4>2
      <4> QED
        BY <3>1, <3>4, <4>1, <4>2
    <3> QED
      BY <3>6, <3>7
  <2> QED
    BY <2>3, <2>4
<1>8. HeldOnce'
  <2>1. \A r \in Range(asked) : r.call \in Call /\ id'[r.call] = id[r.call]
    BY <1>3, <1>5, HeldFacts DEF Calls, Awaited
  <2>2. \A i \in DOMAIN table : table[i] \in Call /\ id'[table[i]] = id[table[i]]
    BY <1>3, <1>5, HeldFacts DEF Calls, Awaited
  <2> QED
    BY <1>0, <2>1, <2>2 DEF Calls, HeldOnce
<1>9. Awaited'
  <2>1. held' = held
    BY <1>0 DEF held
  <2> QED
    BY <1>4, <2>1 DEF Calls, Awaited
<1>10. StraysAwaitedByNobody'
  BY <1>0, <1>4 DEF Calls, StraysAwaitedByNobody
<1>11. UnderWay'
  <2>1. \A u \in Tasks : result'[u] \in Call => result'[u] = result[u]
    BY <1>0, <1>t, NoCalls
  <2> QED
    BY <1>0, <1>6, <2>1, UnderWayKeeps DEF Calls
<1>12. NoLateAnswer'
  <2> SUFFICES ASSUME NEW u \in Tasks, result'[u] \in Call, result'[u] # <<u, made'[u]>>
               PROVE  result'[u][1] # u /\ id'[result'[u]] = id'[<<u, made'[u]>>]
    BY DEF NoLateAnswer, current
  <2>1. u # t /\ result'[u] = result[u] /\ made'[u] = made[u]
    BY <1>0, <1>t, NoCalls
  <2>2. Left(result[u]) /\ result[u][1] # u /\ id[result[u]] = id[<<u, made[u]>>]
    BY <2>1 DEF Calls, NoLateAnswer, UnderWay, current
  <2>3. id'[result[u]] = id[result[u]]
    BY <1>6, <2>1, <2>2
  <2>4. id'[<<u, made[u]>>] = id[<<u, made[u]>>]
    BY <1>0, <1>t, <2>1
  <2> QED
    BY <2>1, <2>2, <2>3, <2>4
<1> QED
  BY <1>7, <1>8, <1>9, <1>10, <1>11, <1>12 DEF Calls

(* The counter moves on, beyond every id that was read. *)
LEMMA IncrementsCalls ==
    ASSUME Plain, MessagesOK, Calls, NEW t \in Tasks, Increments(t)
    PROVE  Calls'
<1>0. /\ at[t] = "loaded" /\ at' = [at EXCEPT ![t] = "numbered"]
      /\ lastReqId' = lastReqId + 1 /\ made' = made /\ id' = id /\ result' = result
      /\ asked' = asked /\ table' = table
      /\ outbox' = outbox /\ inbox' = inbox /\ stray' = stray
  BY DEF Increments, queues, socket
<1>t. /\ at \in [Tasks -> {"idle", "loaded", "numbered", "waiting"}] /\ lastReqId \in Nat
      /\ made \in [Tasks -> Nat]
  BY DEF Plain
<1>1. \A u \in Tasks : at'[u] = IF u = t THEN "numbered" ELSE at[u]
  BY <1>0, <1>t
<1>2. \A c \in Call : waiting(c)' <=> waiting(c)
  BY <1>0, <1>1, CallFacts DEF waiting, current
<1>3. \A c \in Call : Left(c) => Left(c)'
  BY <1>0, <1>1, CallFacts DEF Left, current
<1>4. IdsGrow'
  <2> SUFFICES ASSUME NEW u \in Tasks
               PROVE  /\ made[u] <= MaxCalls[u] /\ (at'[u] # "idle" => made[u] > 0)
                      /\ \A n \in 1..made[u] :
                            /\ id[<<u, n>>] \in 0..lastReqId'
                            /\ n < made[u] \/ at'[u] # "loaded" => id[<<u, n>>] < lastReqId'
                            /\ \A m \in 1..(n - 1) : id[<<u, m>>] < id[<<u, n>>]
    BY <1>0 DEF IdsGrow
  <2>1. /\ made[u] <= MaxCalls[u] /\ (at[u] # "idle" => made[u] > 0)
        /\ \A n \in 1..made[u] :
              /\ id[<<u, n>>] \in 0..lastReqId
              /\ \A m \in 1..(n - 1) : id[<<u, m>>] < id[<<u, n>>]
    BY DEF Calls, IdsGrow
  <2> QED
    BY <1>0, <1>1, <1>t, <2>1
<1>5. HeldOnce'
  BY <1>0 DEF Calls, HeldOnce
<1>6. Awaited'
  BY <1>0, <1>2 DEF Calls, Awaited, held
<1>7. StraysAwaitedByNobody' /\ NoLateAnswer'
  BY <1>0, <1>2 DEF Calls, StraysAwaitedByNobody, NoLateAnswer, current
<1>8. UnderWay'
  BY <1>0, <1>3, UnderWayKeeps DEF Calls, UnderWay
<1> QED
  BY <1>4, <1>5, <1>6, <1>7, <1>8 DEF Calls

(* Tasks whose oneshot sender is dropped stop waiting; the others do not   *)
(* notice.                                                                 *)
LEMMA CancelsFacts ==
    ASSUME Plain, IdsGrow, NoLateAnswer, NEW calls, cancels(calls),
           made' = made, id' = id, lastReqId' = lastReqId,
           \A u \in Tasks : current(u) \in calls => at[u] \in {"waiting", "numbered"}
    PROVE  /\ IdsGrow' /\ NoLateAnswer'
           /\ \A c \in Call : waiting(c)' <=> waiting(c) /\ c \notin calls
           /\ \A c \in Call : Past(c) => Past(c)'
           /\ \A c \in Call : c \in calls /\ c[2] <= made[c[1]] => Past(c)' \/ c # current(c[1])
           /\ \A u \in Tasks : result'[u] \in Call => result'[u] = result[u]
<1>t. /\ at \in [Tasks -> {"idle", "loaded", "numbered", "waiting"}] /\ DOMAIN result = Tasks
      /\ made \in [Tasks -> Nat]
  BY DEF Plain
<1>1. \A u \in Tasks : /\ at'[u] = IF current(u) \in calls THEN "idle" ELSE at[u]
                       /\ result'[u] = IF current(u) \in calls THEN Canceled ELSE result[u]
                       /\ current(u)' = current(u)
  BY DEF cancels, current
<1>2. IdsGrow'
  <2> SUFFICES ASSUME NEW u \in Tasks
               PROVE  /\ made[u] <= MaxCalls[u] /\ (at'[u] # "idle" => made[u] > 0)
                      /\ \A n \in 1..made[u] :
                            /\ id[<<u, n>>] \in 0..lastReqId
                            /\ n < made[u] \/ at'[u] # "loaded" => id[<<u, n>>] < lastReqId
                            /\ \A m \in 1..(n - 1) : id[<<u, m>>] < id[<<u, n>>]
    BY DEF IdsGrow
  <2>1. (at'[u] # "idle" => at[u] # "idle") /\ (at'[u] # "loaded" => at[u] # "loaded")
    BY <1>1
  <2> QED
    BY <2>1 DEF IdsGrow
<1>3. \A c \in Call : waiting(c)' <=> waiting(c) /\ c \notin calls
  BY <1>1, CallFacts DEF waiting, current
<1>4. \A c \in Call : Past(c) => Past(c)'
  BY <1>1, CallFacts DEF Past, current
<1>5. \A u \in Tasks : result'[u] \in Call => result'[u] = result[u]
  BY <1>1, NoCalls
<1>6. NoLateAnswer'
  BY <1>1, <1>5 DEF NoLateAnswer
<1>7. \A c \in Call : c \in calls /\ c[2] <= made[c[1]] => Past(c)' \/ c # current(c[1])
  BY <1>1, CallFacts DEF Past
<1> QED
  BY <1>2, <1>3, <1>4, <1>5, <1>6, <1>7

(* A request is queued once and under its id; when the stream is over its  *)
(* task is told at once.                                                   *)
LEMMA QueuesCalls ==
    ASSUME Plain, MessagesOK, Calls, NEW t \in Tasks, Queues(t)
    PROVE  Calls'
<1> DEFINE c0 == current(t)
           r0 == [id |-> id[c0], call |-> c0]
<1>0. /\ at[t] = "numbered" /\ lastReqId' = lastReqId /\ made' = made /\ id' = id
      /\ table' = table /\ outbox' = outbox /\ inbox' = inbox /\ stray' = stray
  BY DEF Queues, socket
<1>t. /\ at \in [Tasks -> {"idle", "loaded", "numbered", "waiting"}] /\ made \in [Tasks -> Nat]
  BY DEF Plain
<1>c. c0 \in Call /\ id[c0] \in Nat /\ c0[1] = t /\ c0[2] = made[t]
  BY <1>0, CurrentFacts DEF Calls
<1>u. \A u \in Tasks : current(u) = c0 => u = t
  BY DEF current
<1>n. c0 \notin held
  BY <1>0, <1>c, HeldFacts DEF Calls
<1>1. ASSUME poll = "ended" PROVE Calls'
  <2>1. cancels({c0}) /\ asked' = asked
    BY <1>1 DEF Queues
  <2>2. /\ IdsGrow' /\ NoLateAnswer'
        /\ \A c \in Call : waiting(c)' <=> waiting(c) /\ c # c0
        /\ \A c \in Call : Past(c) => Past(c)'
        /\ \A u \in Tasks : result'[u] \in Call => result'[u] = result[u]
    <3>1. \A u \in Tasks : current(u) \in {c0} => at[u] \in {"waiting", "numbered"}
      BY <1>0, <1>u
    <3> QED
      BY <1>0, <2>1, <3>1, CancelsFacts DEF Calls
  <2>3. ~waiting(c0)
    BY <1>0, <1>c DEF waiting
  <2>4. HeldOnce'
    BY <1>0, <2>1 DEF Calls, HeldOnce
  <2>5. Awaited'
    <3>1. held' = held
      BY <1>0, <2>1 DEF held
    <3> QED
      BY <2>2, <2>3, <3>1 DEF Calls, Awaited
  <2>6. StraysAwaitedByNobody'
    BY <1>0, <2>2 DEF Calls, StraysAwaitedByNobody
  <2>7. UnderWay'
    <3>1. \A c \in Call : Left(c) => Left(c)'
      BY <2>1, <2>2, LeftIsPast DEF Left, Past
    <3> QED
      BY <1>0, <2>2, <3>1, UnderWayKeeps DEF Calls
  <2> QED
    BY <2>2, <2>4, <2>5, <2>6, <2>7 DEF Calls
<1>2. ASSUME poll # "ended" PROVE Calls'
  <2>1. /\ at' = [at EXCEPT ![t] = "waiting"] /\ asked' = Append(asked, r0) /\ result' = result
    BY <1>2 DEF Queues
  <2>2. \A u \in Tasks : at'[u] = IF u = t THEN "waiting" ELSE at[u]
    BY <1>t, <2>1
  <2>3. Range(asked') = Range(asked) \cup {r0}
    <3>1. r0 \in [id : Nat, call : Call] /\ asked \in Seq([id : Nat, call : Call])
      BY <1>c DEF Plain
    <3>2. \A S : r0 \in S /\ asked \in Seq(S) => Range(Append(asked, r0)) = Range(asked) \cup {r0}
      BY AppendRange
    <3> QED
      BY <2>1, <3>1, <3>2
  <2>4. \A c \in Call : waiting(c)' <=> waiting(c) \/ c = c0
    BY <1>0, <1>c, <2>2, CallFacts DEF waiting, current
  <2>5. \A c \in Call : Left(c) => Left(c)'
    <3> SUFFICES ASSUME NEW c \in Call, Left(c) PROVE Left(c)'
      OBVIOUS
    <3>1. c # c0
      BY <1>0, <1>c DEF Left
    <3>2. Past(c)'
      BY <1>0, <2>2, CallFacts DEF Left, Past, current
    <3>3. \A r \in Range(asked') : r.call # c
      BY <2>3, <3>1 DEF Left
    <3> QED
      BY <3>2, <3>3 DEF Left, Past
  <2>6. IdsGrow'
    BY <1>0, <2>2 DEF Calls, IdsGrow
  <2>7. HeldOnce'
    <3>1. \A r \in Range(asked') : r.id = id'[r.call] /\ r.call \notin Range(table')
      <4>1. c0 \notin Range(table)
        BY <1>n DEF held, Range
      <4> QED
        BY <1>0, <2>3, <4>1 DEF Calls, HeldOnce
    <3>2. \A j, k \in DOMAIN asked' : asked'[j].call = asked'[k].call => j = k
      <4>1. asked \in Seq([id : Nat, call : Call])
        BY DEF Plain
      <4>2. /\ Len(asked) \in Nat /\ DOMAIN asked = 1..Len(asked)
            /\ DOMAIN asked' = 1..(Len(asked) + 1)
            /\ \A j \in 1..Len(asked) : asked'[j] = asked[j]
            /\ asked'[Len(asked) + 1] = r0
        <5> HIDE DEF r0
        <5> QED
          BY <2>1, <4>1
      <4>3. \A j \in 1..Len(asked) : asked[j].call # c0
        BY <1>n, <4>2 DEF held
      <4>4. \A j \in 1..(Len(asked) + 1) : j = Len(asked) + 1 \/ j \in 1..Len(asked)
        BY <4>2
      <4>5. \A j, k \in 1..Len(asked) : asked[j].call = asked[k].call => j = k
        BY <4>2 DEF Calls, HeldOnce
      <4> QED
        BY <4>2, <4>3, <4>4, <4>5
    <3> QED
      BY <1>0, <3>1, <3>2 DEF Calls, HeldOnce
  <2>8. Awaited'
    <3>1. \A c : c \in held <=> c \in Range(table) \/ \E r \in Range(asked) : r.call = c
      BY HeldForm DEF held
    <3>2. \A c : c \in held' <=> c \in Range(table') \/ \E r \in Range(asked') : r.call = c
      BY HeldForm DEF held
    <3>3. \A c : c \in held' <=> c \in held \/ c = c0
      <4>1. \A c : (\E r \in Range(asked') : r.call = c) <=> (\E r \in Range(asked) : r.call = c) \/ c = c0
        <5>1. r0.call = c0
          OBVIOUS
        <5> HIDE DEF r0, c0
        <5> QED
          BY <2>3, <5>1
      <4> QED
        BY <1>0, <3>1, <3>2, <4>1
    <3>4. \A c : c \in held <=> c \in Call /\ waiting(c)
      BY DEF Calls, Awaited
    <3>5. \A c : c \in held' <=> c \in Call /\ waiting(c)'
      BY <1>c, <2>4, <3>3, <3>4
    <3> QED
      BY <3>5 DEF Awaited
  <2>9. StraysAwaitedByNobody'
    <3>1. c0 \notin stray
      BY <1>0, <1>c, NoCalls DEF Calls, UnderWay, Left
    <3> QED
      BY <1>0, <2>4, <3>1 DEF Calls, StraysAwaitedByNobody
  <2>10. NoLateAnswer'
    BY <1>0, <2>1 DEF Calls, NoLateAnswer, current
  <2>11. UnderWay'
    BY <1>0, <2>1, <2>5, UnderWayKeeps DEF Calls, UnderWay
  <2> QED
    BY <2>6, <2>7, <2>8, <2>9, <2>10, <2>11 DEF Calls
<1> QED
  BY <1>1, <1>2

(* The first call of the queue waits, and nobody else holds it. *)
LEMMA QueueHead ==
    ASSUME Plain, Calls, asked # <<>>
    PROVE  LET r == Head(asked)
           IN  /\ r.call \in Call /\ waiting(r.call) /\ r.id = id[r.call]
               /\ r.call \notin Range(table)
               /\ Range(asked) = {r} \cup Range(Tail(asked))
               /\ \A q \in Range(Tail(asked)) : q.call # r.call
               /\ \A j, k \in DOMAIN Tail(asked) :
                     Tail(asked)[j].call = Tail(asked)[k].call => j = k
<1> DEFINE r == Head(asked)
<1>1. /\ r \in Range(asked) /\ Range(asked) = {r} \cup Range(Tail(asked))
      /\ DOMAIN asked = 1..Len(asked) /\ Len(asked) \in Nat /\ 1 \in DOMAIN asked /\ r = asked[1]
      /\ DOMAIN Tail(asked) = 1..(Len(asked) - 1)
      /\ \A i \in 1..(Len(asked) - 1) : Tail(asked)[i] = asked[i + 1]
  <2>1. asked \in Seq([id : Nat, call : Call])
    BY DEF Plain
  <2> QED
    BY <2>1, TailRange
<1>2. /\ r.call \in Call /\ waiting(r.call) /\ r.id = id[r.call] /\ r.call \notin Range(table)
  BY <1>1, HeldFacts DEF Calls, HeldOnce, Awaited
<1>3. \A j, k \in 1..Len(asked) : asked[j].call = asked[k].call => j = k
  BY <1>1 DEF Calls, HeldOnce
<1>4. \A i \in 1..(Len(asked) - 1) : i + 1 \in 1..Len(asked) /\ i + 1 # 1 /\ i \in Nat
  BY <1>1
<1>5. \A q \in Range(Tail(asked)) : q.call # r.call
  BY <1>1, <1>3, <1>4 DEF Range
<1>6. \A j, k \in 1..(Len(asked) - 1) : Tail(asked)[j].call = Tail(asked)[k].call => j = k
  <2> SUFFICES ASSUME NEW j \in 1..(Len(asked) - 1), NEW k \in 1..(Len(asked) - 1),
                      Tail(asked)[j].call = Tail(asked)[k].call
               PROVE  j = k
    OBVIOUS
  <2>1. asked[j + 1].call = asked[k + 1].call /\ j \in Nat /\ k \in Nat
    BY <1>1, <1>4
  <2>2. j + 1 = k + 1
    BY <1>3, <1>4, <2>1
  <2> QED
    BY <2>1, <2>2
<1> QED
  BY <1>1, <1>2, <1>5, <1>6

(* A response goes to the call that waits under its id: the one it answers, *)
(* or another task's.                                                      *)
LEMMA TakesResponseCalls ==
    ASSUME Plain, MessagesOK, Calls, TakesResponse
    PROVE  Calls'
<1> DEFINE m == Head(inbox)
           c0 == table[m.id]
           t == c0[1]
<1>0. /\ inbox # <<>> /\ m.kind = "response" /\ m.id \in DOMAIN table
      /\ result' = [result EXCEPT ![t] = m.call] /\ at' = [at EXCEPT ![t] = "idle"]
      /\ table' = without(m.id) /\ inbox' = Tail(inbox)
      /\ lastReqId' = lastReqId /\ made' = made /\ id' = id /\ asked' = asked
      /\ outbox' = outbox /\ stray' = stray
  BY DEF TakesResponse, answers, queues
<1>t. /\ at \in [Tasks -> {"idle", "loaded", "numbered", "waiting"}] /\ DOMAIN result = Tasks
      /\ made \in [Tasks -> Nat]
  BY DEF Plain
<1>m. /\ m \in Range(inbox) /\ Range(inbox') \subseteq Range(inbox)
      /\ m.call \in Call \cup Foreign
  <2>1. inbox \in Seq(Answer \cup {Ping, Shutdown})
    BY DEF MessagesOK
  <2>2. /\ m \in Range(inbox) /\ Range(inbox) = {m} \cup Range(Tail(inbox))
        /\ m \in Answer \cup {Ping, Shutdown}
    BY <1>0, <2>1, TailRange
  <2> QED
    BY <1>0, <2>2, MessageTypes
<1>c. /\ c0 \in Call /\ t \in Tasks /\ at[t] = "waiting" /\ c0 = current(t) /\ id[c0] = m.id
  <2>1. c0 \in held
    BY <1>0, HeldFacts DEF Calls
  <2>2. id[c0] = m.id
    BY <1>0 DEF Calls, HeldOnce
  <2> QED
    BY <2>1, <2>2, HeldFacts DEF Calls
<1> HIDE DEF m, c0, t
<1>1. \A u \in Tasks : /\ at'[u] = IF u = t THEN "idle" ELSE at[u]
                       /\ result'[u] = IF u = t THEN m.call ELSE result[u]
                       /\ current(u)' = current(u)
  BY <1>0, <1>t DEF current
<1>2. \A c \in Call : waiting(c)' <=> waiting(c) /\ c # c0
  <2> SUFFICES ASSUME NEW c \in Call PROVE waiting(c)' <=> waiting(c) /\ c # c0
    OBVIOUS
  <2>1. c[1] \in Tasks
    BY CallFacts
  <2>2. c[1] = t => (c = c0 <=> c = current(c[1]))
    BY <1>c
  <2>3. c[1] # t => c # c0
    BY DEF t
  <2> QED
    BY <1>1, <1>c, <2>1, <2>2, <2>3 DEF waiting
<1>3. \A c \in Call : Left(c) => Left(c)'
  BY <1>0, <1>1, CallFacts DEF Left
<1>4. IdsGrow'
  <2> SUFFICES ASSUME NEW u \in Tasks
               PROVE  /\ made[u] <= MaxCalls[u] /\ (at'[u] # "idle" => made[u] > 0)
                      /\ \A n \in 1..made[u] :
                            /\ id[<<u, n>>] \in 0..lastReqId
                            /\ n < made[u] \/ at'[u] # "loaded" => id[<<u, n>>] < lastReqId
                            /\ \A k \in 1..(n - 1) : id[<<u, k>>] < id[<<u, n>>]
    BY <1>0 DEF IdsGrow
  <2>1. (at'[u] # "idle" => at[u] # "idle") /\ (at'[u] # "loaded" => at[u] # "loaded")
    BY <1>1, <1>c
  <2> QED
    BY <2>1 DEF Calls, IdsGrow
<1>5. /\ \A i \in DOMAIN table' : i \in DOMAIN table /\ i # m.id /\ table'[i] = table[i]
      /\ \A i \in DOMAIN table \ {m.id} : i \in DOMAIN table' /\ table'[i] = table[i]
  BY <1>0 DEF without
<1>6. HeldOnce'
  BY <1>0, <1>5 DEF Calls, HeldOnce, Range
<1>7. Awaited'
  <2>1. \A c : c \in held <=> c \in Range(table) \/ \E r \in Range(asked) : r.call = c
    BY HeldForm DEF held
  <2>2. \A c : c \in held' <=> c \in Range(table') \/ \E r \in Range(asked') : r.call = c
    BY HeldForm DEF held
  <2>3. \A c : c \in Range(table') <=> c \in Range(table) /\ c # c0
    <3>1. \A i \in DOMAIN table : i = id[table[i]]
      BY DEF Calls, HeldOnce
    <3>2. \A i \in DOMAIN table : i # m.id => table[i] # c0
      BY <1>c, <3>1
    <3>3. table[m.id] = c0
      BY DEF c0
    <3> QED
      BY <1>5, <3>2, <3>3 DEF Range
  <2>4. \A r \in Range(asked) : r.call # c0
    BY <1>0 DEF Calls, HeldOnce, Range, c0
  <2>5. \A c : c \in held' <=> c \in held /\ c # c0
    BY <1>0, <2>1, <2>2, <2>3, <2>4
  <2>6. \A c : c \in held <=> c \in Call /\ waiting(c)
    BY DEF Calls, Awaited
  <2>7. \A c : c \in held' <=> c \in Call /\ waiting(c)'
    BY <1>2, <2>5, <2>6
  <2> QED
    BY <2>7 DEF Awaited
<1>8. StraysAwaitedByNobody'
  BY <1>0, <1>2 DEF Calls, StraysAwaitedByNobody
<1>9. m.call \in Call => Left(m.call) /\ id[m.call] = id[c0]
  BY <1>0, <1>m, <1>c, NoCalls DEF Calls, UnderWay
<1>10. NoLateAnswer'
  <2> SUFFICES ASSUME NEW u \in Tasks, result'[u] \in Call, result'[u] # current(u)
               PROVE  result'[u][1] # u /\ id[result'[u]] = id[current(u)]
    BY <1>0, <1>1 DEF NoLateAnswer
  <2>1. CASE u # t
    BY <1>1, <2>1 DEF Calls, NoLateAnswer
  <2>2. CASE u = t
    <3>1. result'[u] = m.call /\ current(u) = c0 /\ m.call \in Call /\ m.call # c0
      BY <1>1, <1>c, <2>2
    <3>2. id[m.call] = id[c0] /\ m.call[2] <= made[m.call[1]]
      BY <1>9, <3>1 DEF Left
    <3>3. c0[1] = t /\ c0[2] <= made[c0[1]]
      BY <1>c, <1>t DEF current
    <3>4. m.call[1] # c0[1]
      BY <1>c, <3>1, <3>2, <3>3, SameTask DEF Calls
    <3> QED
      BY <2>2, <3>1, <3>2, <3>3, <3>4
  <2> QED
    BY <2>1, <2>2
<1>11. UnderWay'
  <2>1. \A u \in Tasks : result'[u] \in Call => result'[u] = result[u] \/ Left(result'[u])
    BY <1>1, <1>9
  <2> QED
    BY <1>0, <1>3, <1>m, <2>1, UnderWayKeeps DEF Calls
<1> QED
  BY <1>4, <1>6, <1>7, <1>8, <1>10, <1>11 DEF Calls

(* A response whose id the table does not know is nobody's. *)
LEMMA ReturnsResponseCalls ==
    ASSUME Plain, MessagesOK, Calls, ReturnsResponse
    PROVE  Calls'
<1> DEFINE m == Head(inbox)
<1>0. /\ inbox # <<>> /\ m.kind = "response" /\ m.id \notin DOMAIN table
      /\ inbox' = Tail(inbox) /\ stray' = stray \cup {m.call}
      /\ lastReqId' = lastReqId /\ at' = at /\ made' = made /\ id' = id /\ asked' = asked
      /\ outbox' = outbox /\ result' = result /\ table' = table
  BY DEF ReturnsResponse, callers, queues
<1>m. /\ m \in Range(inbox) /\ Range(inbox') \subseteq Range(inbox)
      /\ m.call \in Call \cup Foreign
  <2>1. inbox \in Seq(Answer \cup {Ping, Shutdown})
    BY DEF MessagesOK
  <2>2. /\ m \in Range(inbox) /\ Range(inbox) = {m} \cup Range(Tail(inbox))
        /\ m \in Answer \cup {Ping, Shutdown}
    BY <1>0, <2>1, TailRange
  <2> QED
    BY <1>0, <2>2, MessageTypes
<1> HIDE DEF m
<1>1. m.call \in Call => Left(m.call) /\ id[m.call] = m.id
  BY <1>0, <1>m, NoCalls DEF Calls, UnderWay
<1>2. m.call \in Call => ~waiting(m.call)
  <2> SUFFICES ASSUME m.call \in Call, waiting(m.call) PROVE FALSE
    OBVIOUS
  <2>1. m.call \in held
    BY DEF Calls, Awaited
  <2>2. m.call \in Range(table) \/ \E r \in Range(asked) : r.call = m.call
    BY <2>1, HeldForm DEF held
  <2>3. m.call \notin Range(table)
    BY <1>0, <1>1 DEF Calls, HeldOnce, Range
  <2> QED
    BY <1>1, <2>2, <2>3 DEF Left
<1>3. \A c : (waiting(c)' <=> waiting(c)) /\ (Left(c)' <=> Left(c))
  BY <1>0 DEF waiting, Left, current
<1>4. IdsGrow' /\ HeldOnce' /\ NoLateAnswer'
  BY <1>0 DEF Calls, IdsGrow, HeldOnce, NoLateAnswer, current
<1>5. Awaited'
  BY <1>0, <1>3 DEF Calls, Awaited, held
<1>6. StraysAwaitedByNobody'
  BY <1>0, <1>2, <1>3 DEF Calls, StraysAwaitedByNobody
<1>7. UnderWay'
  BY <1>0, <1>1, <1>3, <1>m, UnderWayKeeps DEF Calls
<1> QED
  BY <1>4, <1>5, <1>6, <1>7 DEF Calls

(* A call that is sent leaves the queue for the table, and one that has its *)
(* id there is cancelled.                                                  *)
LEMMA SendsRequestCalls ==
    ASSUME Plain, MessagesOK, Calls, SendsRequest
    PROVE  Calls'
<1> DEFINE r == Head(asked)
           gone == {table[i] : i \in DOMAIN table \cap {r.id}}
           m == Request(r.id, r.call)
<1>0. /\ asked # <<>> /\ outbox' = Append(outbox, m) /\ cancels(gone)
      /\ table' = [i \in DOMAIN table \cup {r.id} |-> IF i = r.id THEN r.call ELSE table[i]]
      /\ asked' = Tail(asked)
      /\ lastReqId' = lastReqId /\ made' = made /\ id' = id /\ inbox' = inbox /\ stray' = stray
  BY DEF SendsRequest
<1>r. /\ r.call \in Call /\ waiting(r.call) /\ r.id = id[r.call] /\ r.call \notin Range(table)
      /\ Range(asked) = {r} \cup Range(asked')
      /\ \A q \in Range(asked') : q.call # r.call
      /\ \A j, k \in DOMAIN asked' : asked'[j].call = asked'[k].call => j = k
  BY <1>0, QueueHead
<1>m. /\ Range(outbox') = Range(outbox) \cup {m} /\ m.id = r.id /\ m.call = r.call
  <2>1. m \in Ask \cup Report
    <3>1. r \in [id : Nat, call : Call]
      BY <1>0, HeadTailProperties DEF Plain
    <3> QED
      BY <3>1, MessageTypes
  <2>2. m.id = r.id /\ m.call = r.call
    BY DEF Request
  <2> HIDE DEF m
  <2>3. \A S : m \in S /\ outbox \in Seq(S) => Range(Append(outbox, m)) = Range(outbox) \cup {m}
    BY AppendRange
  <2> QED
    BY <1>0, <2>1, <2>2, <2>3 DEF MessagesOK
<1>h. \A i \in DOMAIN table : i = id[table[i]] /\ table[i] \in held
  BY HeldFacts DEF Calls, HeldOnce
<1>g. \A c \in gone : c \in held /\ c \in Range(table) /\ id[c] = r.id
  BY <1>h DEF Range
<1>i. \A c \in Range(table) : id[c] = r.id => c \in gone
  BY <1>h DEF Range
<1>tb. /\ \A i \in DOMAIN table' : \/ i = r.id /\ table'[i] = r.call
                                   \/ i # r.id /\ i \in DOMAIN table /\ table'[i] = table[i]
       /\ r.id \in DOMAIN table' /\ table'[r.id] = r.call
       /\ \A i \in DOMAIN table : i # r.id => i \in DOMAIN table' /\ table'[i] = table[i]
  BY <1>0
<1> HIDE DEF gone, r, m
<1>1. /\ IdsGrow' /\ NoLateAnswer'
      /\ \A c \in Call : waiting(c)' <=> waiting(c) /\ c \notin gone
      /\ \A c \in Call : Past(c) => Past(c)'
      /\ \A u \in Tasks : result'[u] \in Call => result'[u] = result[u]
  <2>1. \A u \in Tasks : current(u) \in gone => at[u] \in {"waiting", "numbered"}
    <3> SUFFICES ASSUME NEW u \in Tasks, current(u) \in gone PROVE at[u] = "waiting"
      OBVIOUS
    <3>1. at[current(u)[1]] = "waiting"
      BY <1>g, HeldFacts DEF Calls
    <3> QED
      BY <3>1 DEF current
  <2> QED
    BY <1>0, <2>1, CancelsFacts DEF Calls
<1>2. \A c : c \in Range(table') <=> (c \in Range(table) /\ c \notin gone) \/ c = r.call
  <2>1. ASSUME NEW i \in DOMAIN table'
        PROVE  (table'[i] \in Range(table) /\ table'[i] \notin gone) \/ table'[i] = r.call
    BY <1>tb, <1>h, <1>g DEF Range
  <2>2. ASSUME NEW c \in Range(table), c \notin gone PROVE c \in Range(table')
    <3>1. PICK i \in DOMAIN table : table[i] = c
      BY DEF Range
    <3>2. i # r.id
      BY <1>h, <1>i, <2>2, <3>1
    <3> QED
      BY <1>tb, <3>1, <3>2 DEF Range
  <2>3. r.call \in Range(table')
    BY <1>tb DEF Range
  <2>4. \A c \in Range(table') : \E i \in DOMAIN table' : c = table'[i]
    BY DEF Range
  <2> QED
    BY <2>1, <2>2, <2>3, <2>4
<1>3. HeldOnce'
  <2>1. \A i \in DOMAIN table' : i = id'[table'[i]]
    BY <1>0, <1>tb, <1>h, <1>r
  <2>2. \A q \in Range(asked') : q.id = id'[q.call] /\ q.call \notin Range(table')
    BY <1>0, <1>2, <1>r DEF Calls, HeldOnce
  <2> QED
    BY <1>r, <2>1, <2>2 DEF HeldOnce
<1>4. Awaited'
  <2>1. \A c : c \in held <=> c \in Range(table) \/ \E q \in Range(asked) : q.call = c
    BY HeldForm DEF held
  <2>2. \A c : c \in held' <=> c \in Range(table') \/ \E q \in Range(asked') : q.call = c
    BY HeldForm DEF held
  <2>3. \A c : (\E q \in Range(asked) : q.call = c) <=> c = r.call \/ \E q \in Range(asked') : q.call = c
    BY <1>r
  <2>4. \A q \in Range(asked) : q.call \notin gone
    BY <1>g DEF Calls, HeldOnce
  <2>5. \A c : c \in held' <=> c \in held /\ c \notin gone
    BY <1>2, <1>r, <2>1, <2>2, <2>3, <2>4
  <2>6. \A c : c \in held <=> c \in Call /\ waiting(c)
    BY DEF Calls, Awaited
  <2>7. \A c : c \in held' <=> c \in Call /\ waiting(c)'
    BY <1>1, <2>5, <2>6
  <2> QED
    BY <2>7 DEF Awaited
<1>5. StraysAwaitedByNobody'
  BY <1>0, <1>1 DEF Calls, StraysAwaitedByNobody
<1>6. UnderWay'
  <2>1. \A c \in Call : Left(c) => Left(c)' /\ id'[c] = id[c]
    BY <1>0, <1>1, <1>r DEF Left, Past
  <2>2. \A c \in Call : c = r.call => Left(c)'
    <3>1. Past(r.call)
      <4>1. r.call[1] \in Tasks
        BY <1>r, CallFacts
      <4> QED
        BY <1>r, <4>1 DEF waiting, Past, current, Plain
    <3> QED
      BY <1>1, <1>r, <3>1 DEF Left, Past
  <2>3. \A n \in Range(outbox') : \/ n \in Range(outbox) \/ n.kind = "event"
                                  \/ n.id = id'[n.call] /\ Left(n.call)'
    <3>1. \A n \in Range(outbox') : n \in Range(outbox) \/ (n.id = r.id /\ n.call = r.call)
      BY <1>0, <1>m
    <3> QED
      BY <1>0, <1>r, <2>2, <3>1
  <2> QED
    BY <1>0, <1>1, <2>1, <2>3, UnderWayKeeps DEF Calls
<1> QED
  BY <1>1, <1>3, <1>4, <1>5, <1>6 DEF Calls

(* A call whose send was not ready is cancelled, also when it is on its way. *)
LEMMA RequestNotReadyCalls ==
    ASSUME Plain, MessagesOK, Calls, RequestNotReady
    PROVE  Calls'
<1> DEFINE r == Head(asked)
           m == Request(r.id, r.call)
<1>0. /\ asked # <<>> /\ outbox' \in {outbox, Append(outbox, m)} /\ cancels({r.call})
      /\ table' = table /\ asked' = Tail(asked)
      /\ lastReqId' = lastReqId /\ made' = made /\ id' = id /\ inbox' = inbox /\ stray' = stray
  BY DEF RequestNotReady
<1>r. /\ r.call \in Call /\ waiting(r.call) /\ r.id = id[r.call] /\ r.call \notin Range(table)
      /\ Range(asked) = {r} \cup Range(asked')
      /\ \A q \in Range(asked') : q.call # r.call
      /\ \A j, k \in DOMAIN asked' : asked'[j].call = asked'[k].call => j = k
  BY <1>0, QueueHead
<1>m. /\ Range(outbox') \subseteq Range(outbox) \cup {m} /\ m.id = r.id /\ m.call = r.call
  <2>1. m \in Ask \cup Report
    <3>1. r \in [id : Nat, call : Call]
      BY <1>0, HeadTailProperties DEF Plain
    <3> QED
      BY <3>1, MessageTypes
  <2>2. m.id = r.id /\ m.call = r.call
    BY DEF Request
  <2> HIDE DEF m
  <2>3. \A S : m \in S /\ outbox \in Seq(S) => Range(Append(outbox, m)) = Range(outbox) \cup {m}
    BY AppendRange
  <2> QED
    BY <1>0, <2>1, <2>2, <2>3 DEF MessagesOK
<1> HIDE DEF r, m
<1>1. /\ IdsGrow' /\ NoLateAnswer'
      /\ \A c \in Call : waiting(c)' <=> waiting(c) /\ c # r.call
      /\ \A c \in Call : Past(c) => Past(c)'
      /\ \A u \in Tasks : result'[u] \in Call => result'[u] = result[u]
  <2>1. \A u \in Tasks : current(u) \in {r.call} => at[u] \in {"waiting", "numbered"}
    BY <1>r DEF waiting, current
  <2> QED
    BY <1>0, <2>1, CancelsFacts DEF Calls
<1>2. HeldOnce'
  BY <1>0, <1>r DEF Calls, HeldOnce
<1>3. Awaited'
  <2>1. \A c : c \in held <=> c \in Range(table) \/ \E q \in Range(asked) : q.call = c
    BY HeldForm DEF held
  <2>2. \A c : c \in held' <=> c \in Range(table') \/ \E q \in Range(asked') : q.call = c
    BY HeldForm DEF held
  <2>3. \A c : (\E q \in Range(asked) : q.call = c) <=> c = r.call \/ \E q \in Range(asked') : q.call = c
    BY <1>r
  <2>4. \A c : c \in held' <=> c \in held /\ c # r.call
    BY <1>0, <1>r, <2>1, <2>2, <2>3
  <2>5. \A c : c \in held <=> c \in Call /\ waiting(c)
    BY DEF Calls, Awaited
  <2>6. \A c : c \in held' <=> c \in Call /\ waiting(c)'
    BY <1>1, <2>4, <2>5
  <2> QED
    BY <2>6 DEF Awaited
<1>4. StraysAwaitedByNobody'
  BY <1>0, <1>1 DEF Calls, StraysAwaitedByNobody
<1>5. UnderWay'
  <2>1. \A c \in Call : Left(c) => Left(c)' /\ id'[c] = id[c]
    BY <1>0, <1>1, <1>r DEF Left, Past
  <2>2. \A c \in Call : c = r.call => Left(c)'
    <3>1. Past(r.call)
      <4>1. r.call[1] \in Tasks
        BY <1>r, CallFacts
      <4> QED
        BY <1>r, <4>1 DEF waiting, Past, current, Plain
    <3> QED
      BY <1>1, <1>r, <3>1 DEF Left, Past
  <2>3. \A n \in Range(outbox') : \/ n \in Range(outbox) \/ n.kind = "event"
                                  \/ n.id = id'[n.call] /\ Left(n.call)'
    <3>1. \A n \in Range(outbox') : n \in Range(outbox) \/ (n.id = r.id /\ n.call = r.call)
      BY <1>0, <1>m
    <3> QED
      BY <1>0, <1>r, <2>2, <3>1
  <2> QED
    BY <1>0, <1>1, <2>1, <2>3, UnderWayKeeps DEF Calls
<1> QED
  BY <1>1, <1>2, <1>3, <1>4, <1>5 DEF Calls

(* When the stream ends everybody who waits is told. *)
LEMMA DropsCalls ==
    ASSUME Plain, MessagesOK, Calls, Drops
    PROVE  Calls'
<1>0. /\ asked' = <<>> /\ table' = <<>> /\ cancels(held)
      /\ outbox' = outbox /\ inbox' = inbox /\ stray' = stray
      /\ lastReqId' = lastReqId /\ made' = made /\ id' = id
  BY DEF Drops, socket
<1>1. /\ IdsGrow' /\ NoLateAnswer'
      /\ \A c \in Call : waiting(c)' <=> waiting(c) /\ c \notin held
      /\ \A c \in Call : Past(c) => Past(c)'
      /\ \A u \in Tasks : result'[u] \in Call => result'[u] = result[u]
  <2>1. \A u \in Tasks : current(u) \in held => at[u] \in {"waiting", "numbered"}
    <3> SUFFICES ASSUME NEW u \in Tasks, current(u) \in held PROVE at[u] = "waiting"
      OBVIOUS
    <3>1. at[current(u)[1]] = "waiting"
      BY HeldFacts DEF Calls
    <3> QED
      BY <3>1 DEF current
  <2> QED
    BY <1>0, <2>1, CancelsFacts DEF Calls
<1>2. Range(asked') = {} /\ Range(table') = {} /\ DOMAIN asked' = {} /\ DOMAIN table' = {}
  BY <1>0 DEF Range
<1>3. HeldOnce'
  BY <1>2 DEF HeldOnce
<1>4. Awaited'
  <2>1. \A c : c \notin held'
    BY <1>2 DEF held
  <2>2. \A c \in Call : ~waiting(c)'
    BY <1>1 DEF Calls, Awaited
  <2> QED
    BY <2>1, <2>2 DEF Awaited
<1>5. StraysAwaitedByNobody'
  BY <1>0, <1>1 DEF Calls, StraysAwaitedByNobody
<1>6. UnderWay'
  <2>1. \A c \in Call : Left(c) => Left(c)' /\ id'[c] = id[c]
    BY <1>0, <1>1, <1>2 DEF Left, Past
  <2> QED
    BY <1>0, <1>1, <2>1, UnderWayKeeps DEF Calls
<1> QED
  BY <1>1, <1>3, <1>4, <1>5, <1>6 DEF Calls

(* The other steps: queues of events, the socket, the gateway. *)
LEMMA OtherCalls ==
    ASSUME Plain, MessagesOK, Calls,
           \/ QueuesError \/ ReturnsPing \/ FindsNothing \/ SendsEvent \/ EventNotReady
           \/ GatewayAnswers \/ GatewayReads \/ AnswersFormer \/ Supersedes \/ Breaks
           \/ UNCHANGED narrow
    PROVE  Calls'
<1> DEFINE S == Ask \cup Report
           T == Answer \cup {Ping, Shutdown}
<1>s. outbox \in Seq(S) /\ inbox \in Seq(T)
  BY DEF MessagesOK
<1>0. UNCHANGED <<callers, result, asked, table, stray>>
  BY DEF QueuesError, ReturnsPing, FindsNothing, SendsEvent, EventNotReady, GatewayAnswers,
         GatewayReads, AnswersFormer, Supersedes, Breaks, narrow, queues
<1>o. outbox # <<>> => Head(outbox) \in Range(outbox) /\ Range(Tail(outbox)) \subseteq Range(outbox)
  BY <1>s, TailRange
<1>i. inbox # <<>> => Range(Tail(inbox)) \subseteq Range(inbox)
  BY <1>s, TailRange
<1>e. Range(<<>>) = {}
  BY DEF Range
<1>k. /\ \A n : Event(n).kind = "event"
      /\ Ping.kind = "ping" /\ Shutdown.kind = "shutdown"
      /\ \A n, c : Response(n, c).call = c /\ Response(n, c).id = n
  BY DEF Event, Ping, Shutdown, Response
<1>1. \A m \in Range(outbox') : m \in Range(outbox) \/ m.kind = "event"
  <2>1. ASSUME NEW n \in 0..MaxErrors, outbox' = Append(outbox, Event(n))
        PROVE  \A m \in Range(outbox') : m \in Range(outbox) \/ m.kind = "event"
    <3>1. Event(n) \in S
      BY MessageTypes
    <3>2. Range(outbox') = Range(outbox) \cup {Event(n)}
      BY <1>s, <2>1, <3>1, AppendRange
    <3> QED
      BY <1>k, <3>2
  <2>2. events # <<>> => Head(events) \in 0..MaxErrors
    BY HeadTailProperties DEF Plain
  <2>3. CASE SendsEvent \/ EventNotReady
    BY <2>1, <2>2, <2>3 DEF SendsEvent, EventNotReady
  <2>4. CASE GatewayAnswers \/ GatewayReads
    BY <1>o, <2>4 DEF GatewayAnswers, GatewayReads
  <2>5. CASE Breaks
    BY <1>e, <2>5 DEF Breaks
  <2>6. CASE outbox' = outbox
    BY <2>6
  <2> QED
    BY <2>3, <2>4, <2>5, <2>6
    DEF QueuesError, ReturnsPing, FindsNothing, AnswersFormer, Supersedes, narrow, socket
<1>2. \A m \in Range(inbox') : \/ m \in Range(inbox) \/ m.kind # "response"
                               \/ m.call \in Foreign
                               \/ \E o \in Range(outbox) : /\ o.kind = "request"
                                                           /\ m.id = o.id /\ m.call = o.call
  <2> DEFINE Known(m) == \/ m \in Range(inbox) \/ m.kind # "response"
                         \/ m.call \in Foreign
                         \/ \E o \in Range(outbox) : /\ o.kind = "request"
                                                     /\ m.id = o.id /\ m.call = o.call
  <2>1. ASSUME NEW x \in T, Known(x), inbox' = Append(inbox, x)
        PROVE  \A m \in Range(inbox') : Known(m)
    <3>1. Range(inbox') = Range(inbox) \cup {x}
      BY <1>s, <2>1, AppendRange
    <3> QED
      BY <2>1, <3>1
  <2>2. CASE GatewayAnswers
    <3> DEFINE o == Head(outbox)
               x == Response(o.id, o.call)
    <3>1. o \in Range(outbox) /\ o.kind = "request" /\ x \in T /\ Ping \in T
      <4>1. o \in S
        BY <1>s, <2>2, HeadTailProperties DEF GatewayAnswers
      <4> QED
        BY <1>o, <2>2, <4>1, MessageTypes DEF GatewayAnswers
    <3>2. x.id = o.id /\ x.call = o.call
      BY <1>k
    <3>3. inbox' = inbox \/ inbox' = inbox \o <<Ping>> \o <<x>> \/ inbox' = inbox \o <<>> \o <<x>>
      BY <2>2 DEF GatewayAnswers
    <3> HIDE DEF o, x, T
    <3>4. <<Ping>> \in Seq(T) /\ <<>> \in Seq(T) /\ <<x>> \in Seq(T)
      BY <3>1
    <3>5. /\ Range(inbox \o <<Ping>> \o <<x>>) = Range(inbox) \cup Range(<<Ping>>) \cup Range(<<x>>)
          /\ Range(inbox \o <<>> \o <<x>>) = Range(inbox) \cup Range(<<>>) \cup Range(<<x>>)
      <4>1. inbox \o <<Ping>> \in Seq(T) /\ inbox \o <<>> \in Seq(T)
        BY <1>s, <3>4, ConcatProperties
      <4>2. \A a \in Seq(T), b \in Seq(T) : Range(a \o b) = Range(a) \cup Range(b)
        BY RangeConcatenation
      <4>3. inbox \in Seq(T)
        BY <1>s DEF T
      <4>4. /\ Range((inbox \o <<Ping>>) \o <<x>>) = Range(inbox \o <<Ping>>) \cup Range(<<x>>)
            /\ Range((inbox \o <<>>) \o <<x>>) = Range(inbox \o <<>>) \cup Range(<<x>>)
        BY <3>4, <4>1, <4>2
      <4>5. /\ Range(inbox \o <<Ping>>) = Range(inbox) \cup Range(<<Ping>>)
            /\ Range(inbox \o <<>>) = Range(inbox) \cup Range(<<>>)
        BY <3>4, <4>2, <4>3
      <4> QED
        BY <4>4, <4>5
    <3>6. Range(<<Ping>>) = {Ping} /\ Range(<<x>>) = {x}
      BY DEF Range
    <3>7. \A m \in Range(inbox') : m \in Range(inbox) \/ m = Ping \/ m = x
      <4>1. CASE inbox' = inbox
        BY <4>1
      <4>2. CASE inbox' = inbox \o <<Ping>> \o <<x>>
        BY <3>5, <3>6, <4>2
      <4>3. CASE inbox' = inbox \o <<>> \o <<x>>
        BY <1>e, <3>5, <3>6, <4>3
      <4> QED
        BY <3>3, <4>1, <4>2, <4>3
    <3> QED
      BY <1>k, <3>1, <3>2, <3>7
  <2>3. CASE AnswersFormer
    <3>1. PICK j \in FormerIds : inbox' = Append(inbox, Response(j, Former(j)))
      BY <2>3 DEF AnswersFormer
    <3>2. j \in Nat /\ Former(j) \in Foreign
      BY CallsAssumption, FormerFacts
    <3>3. Response(j, Former(j)) \in T /\ Response(j, Former(j)).call \in Foreign
      BY <1>k, <3>2, MessageTypes
    <3> QED
      BY <2>1, <3>1, <3>3
  <2>4. CASE Supersedes
    BY <1>k, <2>1, <2>4 DEF Supersedes
  <2>5. CASE ReturnsPing
    BY <1>i, <2>5 DEF ReturnsPing
  <2>6. CASE Breaks
    BY <1>e, <2>6 DEF Breaks
  <2>7. CASE inbox' = inbox
    BY <2>7
  <2> QED
    BY <2>2, <2>3, <2>4, <2>5, <2>6, <2>7
    DEF QueuesError, FindsNothing, SendsEvent, EventNotReady, GatewayReads, narrow, socket
<1> QED
  BY <1>0, <1>1, <1>2, QuietCalls

----------------------------------------------------------------------------
(* What is answered for the former socket.                                 *)

Formers == FormerAnswersById /\ FormersNamed

\* A task's result that is a former request's answer is kept, with the task's call.
LEMMA FormerResults ==
    ASSUME FormerAnswersById, UNCHANGED <<id, made>>,
           \A t \in Tasks : result'[t] \in Foreign => result'[t] = result[t]
    PROVE  FormerAnswersById'
BY DEF FormerAnswersById, current

\* Dropping oneshot senders gives nobody such an answer.
LEMMA CancelsFormer ==
    ASSUME Plain, NEW calls, cancels(calls)
    PROVE  \A t \in Tasks : result'[t] \in Foreign => result'[t] = result[t]
BY NoCalls DEF cancels, Plain

(* A task that begins a request forgets what the last one returned. *)
LEMMA LoadsFormer ==
    ASSUME Plain, Formers, NEW t \in Tasks, Loads(t)
    PROVE  FormerAnswersById'
<1>1. /\ id' = [id EXCEPT ![<<t, made[t] + 1>>] = lastReqId]
      /\ made' = [made EXCEPT ![t] = @ + 1] /\ result' = [result EXCEPT ![t] = None]
      /\ made \in [Tasks -> Nat] /\ DOMAIN result = Tasks /\ id \in [Call -> Nat \cup {NoId}]
  BY DEF Loads, Plain
<1> SUFFICES ASSUME NEW u \in Tasks, result'[u] \in Foreign
             PROVE  result'[u] = Former(id'[<<u, made'[u]>>])
  BY DEF FormerAnswersById, current
<1>2. u # t
  BY <1>1, NoCalls
<1>3. result'[u] = result[u] /\ made'[u] = made[u]
  BY <1>1, <1>2
<1>4. result[u] = Former(id[<<u, made[u]>>])
  BY <1>3 DEF Formers, FormerAnswersById, current
<1>5. id'[<<u, made[u]>>] = id[<<u, made[u]>>]
  BY <1>1, <1>2
<1> QED
  BY <1>3, <1>4, <1>5

(* The table holds a call under its own id, which is the one of the answer. *)
LEMMA TakesFormer ==
    ASSUME Plain, MessagesOK, Calls, Formers, TakesResponse
    PROVE  FormerAnswersById'
<1> DEFINE m == Head(inbox)
           c0 == table[m.id]
<1>1. /\ m \in Range(inbox) /\ m.kind = "response" /\ m.id \in DOMAIN table
      /\ result' = [result EXCEPT ![c0[1]] = m.call] /\ made' = made /\ id' = id
      /\ DOMAIN result = Tasks
  <2>1. inbox \in Seq(Answer \cup {Ping, Shutdown}) /\ inbox # <<>>
    BY DEF MessagesOK, TakesResponse
  <2>2. m \in Range(inbox)
    BY <2>1, TailRange
  <2> QED
    BY <2>2 DEF TakesResponse, answers, Plain
<1>2. c0[1] \in Tasks /\ c0 = current(c0[1]) /\ id[c0] = m.id
  BY <1>1, HeldFacts DEF Calls, HeldOnce
<1>3. m.call \in Foreign => m.call = Former(m.id)
  BY <1>1 DEF Formers, FormersNamed
<1> HIDE DEF m, c0
<1>4. \A u \in Tasks : /\ current(u)' = current(u)
                       /\ result'[u] = IF u = c0[1] THEN m.call ELSE result[u]
  BY <1>1, <1>2 DEF current
<1> QED
  BY <1>1, <1>2, <1>3, <1>4 DEF Formers, FormerAnswersById

\* The other steps leave such answers where they are.
LEMMA OtherFormers ==
    ASSUME Plain, Formers, [NarrowNext]_narrow, ~TakesResponse, \A t \in Tasks : ~Loads(t)
    PROVE  FormerAnswersById'
<1>1. UNCHANGED <<id, made>>
  BY DEF NarrowNext, narrow, callers, Increments, Queues, QueuesError, ReturnsResponse, ReturnsPing,
         FindsNothing, SendsRequest, RequestNotReady, SendsEvent, EventNotReady, StreamFails,
         ReturnsShutdown, Drops, GatewayAnswers, GatewayReads, AnswersFormer, Supersedes, Breaks
<1>2. result' = result \/ \E calls : cancels(calls)
  <2>1. CASE \E t \in Tasks : Queues(t)
    BY <2>1 DEF Queues
  <2>2. CASE SendsRequest
    BY <2>2 DEF SendsRequest
  <2>3. CASE RequestNotReady
    BY <2>3 DEF RequestNotReady
  <2>4. CASE Drops
    BY <2>4 DEF Drops
  <2> QED
    BY <2>1, <2>2, <2>3, <2>4
    DEF NarrowNext, narrow, callers, Increments, QueuesError, ReturnsResponse, ReturnsPing,
        FindsNothing, SendsEvent, EventNotReady, StreamFails, ReturnsShutdown,
        GatewayAnswers, GatewayReads, AnswersFormer, Supersedes, Breaks
<1>3. \A t \in Tasks : result'[t] \in Foreign => result'[t] = result[t]
  BY <1>2, CancelsFormer
<1> QED
  BY <1>1, <1>3, FormerResults DEF Formers

(* What comes in is named after its request: an answer to this socket's    *)
(* own requests is a call's, and one to the former's has that one's id.    *)
LEMMA NamedFormers ==
    ASSUME Plain, MessagesOK, Formers, [NarrowNext]_narrow
    PROVE  FormersNamed'
<1> DEFINE T == Answer \cup {Ping, Shutdown}
           Named(m) == m.kind = "response" /\ m.call \in Foreign => m.call = Former(m.id)
<1>1. inbox \in Seq(T) /\ \A m \in Range(inbox) : Named(m)
  BY DEF Formers, FormersNamed, MessagesOK
<1>2. /\ Named(Ping) /\ Named(Shutdown) /\ Ping \in T /\ Shutdown \in T
      /\ \A i, c : Response(i, c).id = i /\ Response(i, c).call = c
  BY MessageTypes DEF Ping, Shutdown, Response
<1>3. ASSUME NEW x \in T, NEW s \in Seq(T), Named(x), \A m \in Range(s) : Named(m)
      PROVE  Append(s, x) \in Seq(T) /\ \A m \in Range(Append(s, x)) : Named(m)
  <2> HIDE DEF T, Named
  <2>1. Append(s, x) \in Seq(T) /\ Range(Append(s, x)) = Range(s) \cup {x}
    BY AppendRange
  <2> QED
    BY <1>3, <2>1
<1>4. inbox # <<>> => Range(Tail(inbox)) \subseteq Range(inbox)
  BY <1>1, TailRange
<1>5. CASE GatewayAnswers
  <2> DEFINE o == Head(outbox)
             x == Response(o.id, o.call)
  <2>1. x \in T /\ Named(x)
    <3>1. o \in Ask \cup Report /\ o.kind = "request"
      BY <1>5, HeadTailProperties DEF GatewayAnswers, MessagesOK
    <3>2. o.id \in Nat /\ o.call \in Call
      BY <3>1, MessageTypes
    <3> QED
      BY <1>2, <3>2, MessageTypes, NoCalls
  <2>2. inbox' = inbox \/ inbox' = inbox \o <<Ping>> \o <<x>> \/ inbox' = inbox \o <<>> \o <<x>>
    BY <1>5 DEF GatewayAnswers
  <2> HIDE DEF x, T, Named
  <2>3. \A s \in Seq(T) : /\ s \o <<x>> = Append(s, x) /\ s \o <<Ping>> = Append(s, Ping)
                          /\ s \o <<>> = s
    BY <1>2, <2>1
  <2>4. Append(inbox, Ping) \in Seq(T) /\ \A m \in Range(Append(inbox, Ping)) : Named(m)
    BY <1>1, <1>2, <1>3
  <2>5. inbox' = inbox \/ inbox' = Append(Append(inbox, Ping), x) \/ inbox' = Append(inbox, x)
    BY <1>1, <2>2, <2>3, <2>4
  <2>6. /\ \A m \in Range(Append(Append(inbox, Ping), x)) : Named(m)
        /\ \A m \in Range(Append(inbox, x)) : Named(m)
    BY <1>1, <1>3, <2>1, <2>4
  <2> QED
    BY <1>1, <2>5, <2>6 DEF FormersNamed, Named
<1>6. CASE AnswersFormer
  <2>1. PICK j \in FormerIds : inbox' = Append(inbox, Response(j, Former(j)))
    BY <1>6 DEF AnswersFormer
  <2>2. Response(j, Former(j)) \in T /\ Named(Response(j, Former(j)))
    BY <1>2, MessageTypes, FormerFacts, CallsAssumption
  <2> QED
    BY <1>1, <1>3, <2>1, <2>2 DEF FormersNamed
<1>7. CASE Supersedes
  BY <1>1, <1>2, <1>3, <1>7 DEF Supersedes, FormersNamed
<1>8. CASE Breaks
  BY <1>8 DEF Breaks, FormersNamed, Range
<1>9. CASE inbox' = inbox \/ (inbox # <<>> /\ inbox' = Tail(inbox))
  BY <1>1, <1>4, <1>9 DEF FormersNamed
<1> QED
  BY <1>5, <1>6, <1>7, <1>8, <1>9
  DEF NarrowNext, narrow, socket, Loads, Increments, Queues, QueuesError, TakesResponse,
      ReturnsResponse, ReturnsPing, FindsNothing, SendsRequest, RequestNotReady, SendsEvent,
      EventNotReady, StreamFails, ReturnsShutdown, Drops, GatewayReads

\* All steps together.
LEMMA FormersKept ==
    ASSUME Plain, MessagesOK, Calls, Formers, [NarrowNext]_narrow
    PROVE  Formers'
BY LoadsFormer, TakesFormer, OtherFormers, NamedFormers DEF Formers

----------------------------------------------------------------------------
(* The theorems.                                                           *)

\* The invariant in four parts: types, messages, calls and former answers.
LEMMA InvariantForm == NarrowIInv <=> Plain /\ MessagesOK /\ Calls /\ Formers
BY DEF NarrowIInv, NarrowInv, NarrowTypeOK, Plain, Calls, Formers, Awaited

(* The inductive invariant holds in every behaviour. *)
THEOREM NarrowInductive == NarrowSpec => []NarrowIInv
<1>1. NarrowInit => Plain /\ MessagesOK /\ Calls /\ Formers
  <2> SUFFICES ASSUME NarrowInit PROVE Plain /\ MessagesOK /\ Calls /\ Formers
    OBVIOUS
  <2>1. Plain /\ MessagesOK
    <3>1. \A S : <<>> \in Seq(S)
      BY EmptySeq
    <3>2. /\ [t \in Tasks |-> "idle"] \in [Tasks -> {"idle", "loaded", "numbered", "waiting"}]
          /\ [c \in Call |-> NoId] \in [Call -> Nat \cup {NoId}]
          /\ [t \in Tasks |-> 0] \in [Tasks -> Nat]
          /\ [t \in Tasks |-> None] \in [Tasks -> {None, Canceled} \cup Call \cup Foreign]
      OBVIOUS
    <3>3. 0 \in 0..MaxErrors /\ 0 \in 0..MaxFormer
      BY CallsAssumption
    <3> QED
      BY <3>1, <3>2, <3>3 DEF NarrowInit, Plain, MessagesOK
  <2>2. /\ Range(asked) = {} /\ Range(table) = {} /\ DOMAIN asked = {} /\ DOMAIN table = {}
        /\ Range(outbox) = {} /\ Range(inbox) = {}
    BY DEF NarrowInit, Range
  <2>3. \A t \in Tasks : at[t] = "idle" /\ made[t] = 0 /\ result[t] = None
    BY DEF NarrowInit
  <2>4. IdsGrow
    BY <2>3, CallsAssumption DEF IdsGrow
  <2>5. HeldOnce
    BY <2>2 DEF HeldOnce
  <2>6. Awaited
    BY <2>2, <2>3, CallFacts DEF Awaited, held, waiting
  <2>7. NoLateAnswer /\ StraysAwaitedByNobody
    BY <2>3, NoCalls, CallFacts DEF NarrowInit, NoLateAnswer, StraysAwaitedByNobody
  <2>8. UnderWay
    BY <2>2, <2>3, NoCalls DEF NarrowInit, UnderWay
  <2>9. Formers
    BY <2>2, <2>3, NoCalls DEF Formers, FormerAnswersById, FormersNamed
  <2> QED
    BY <2>1, <2>4, <2>5, <2>6, <2>7, <2>8, <2>9 DEF Calls
<1>2. Plain /\ MessagesOK /\ Calls /\ Formers /\ [NarrowNext]_narrow
        => (Plain /\ MessagesOK /\ Calls /\ Formers)'
  <2> SUFFICES ASSUME Plain, MessagesOK, Calls, Formers, [NarrowNext]_narrow
               PROVE  (Plain /\ MessagesOK)' /\ Calls' /\ Formers'
    OBVIOUS
  <2>a. Awaited /\ IdsGrow
    BY DEF Calls
  <2>1. (Plain /\ MessagesOK)'
    <3>1. ASSUME NEW t \in Tasks, Loads(t) \/ Increments(t) \/ Queues(t)
          PROVE  (Plain /\ MessagesOK)'
      <4>1. Plain'
        BY <2>a, <3>1, TaskTypes
      <4>2. MessagesOK'
        BY <3>1 DEF Loads, Increments, Queues, socket, MessagesOK
      <4> QED
        BY <4>1, <4>2
    <3>2. CASE Poll
      BY <2>a, <3>2, PollTypes
    <3>3. CASE QueuesError \/ GatewayAnswers \/ GatewayReads \/ AnswersFormer \/ Supersedes \/ Breaks
      BY <3>3, OutsideTypes
    <3>4. CASE UNCHANGED narrow
      BY <3>4 DEF narrow, callers, queues, gateway, socket, Plain, MessagesOK
    <3> QED
      BY <3>1, <3>2, <3>3, <3>4 DEF NarrowNext, Poll
  <2>2. Calls'
    BY LoadsCalls, IncrementsCalls, QueuesCalls, TakesResponseCalls, ReturnsResponseCalls,
       SendsRequestCalls, RequestNotReadyCalls, DropsCalls, OtherCalls
    DEF NarrowNext, StreamFails, ReturnsShutdown
  <2>3. Formers'
    BY FormersKept
  <2> QED
    BY <2>1, <2>2, <2>3
<1> QED
  BY <1>1, <1>2, InvariantForm, PTL DEF NarrowSpec

(* A call waits exactly while it is held; a task gets the answer to its own *)
(* call, to another task's call with its id, or to a request of the former *)
(* socket with its id -- never a late one to a request it made before; and *)
(* a response handed to the loop is nobody's: for any number of tasks,     *)
(* calls, errors and former requests.                                      *)
THEOREM AnswersAreRight == NarrowSpec => []NarrowInv
<1>1. NarrowIInv => NarrowInv
  BY DEF NarrowIInv
<1> QED
  BY <1>1, NarrowInductive, PTL

============================================================================
