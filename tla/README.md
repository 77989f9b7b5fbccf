# A verification development of SRA

SRA gives a client remote access to machines behind NAT: an *agent* runs next to
the machines and keeps an event connection open to a *gateway*; a *client*
connects to the gateway, and every connection of the client is carried to the
agent by a second connection that the agent dials on request. The gateway also
publishes hosts of an agent to the web, with certificates it orders by ACME.

The modules here are written from the Rust sources under `src/` and name, in
comments and in `PROJECT.json` ("map"), the lines they translate. Line numbers
below are those of `src/`.

Contents: 1 the system, 2 modules and code, 3 the runs, 4 the proofs,
5 disagreements found, 6 what is not modelled, 7 the plan.

## 1. The system: an inventory

### Gateway state and registry (`sra-gateway/src/state`)

*State.* `Users`: per user id the connected agents by name, the client sessions
by uuid, the connections waiting for an agent by uuid; and the table of
published domains (domain, port) -> user. All of it belongs to one task.

*Operations.* `State::run` is one `select!` loop over: the event streams of
agents (responses, requests, `Error(connection)`, pongs, the stream's error), the
event streams of clients (ListOfAgents, Peer2Peer, the stream's error), and a
channel of requests from the web service: `EventRequest` (a client or an agent
opens its event socket), `DataRequest` with a command (a client opens a
connection: the gateway sends `Connect` to the agent), `DataRequest` without a
command (the agent has dialled: the two ends are bridged), `HttpTransparent` and
`TlsTransparent` (a connection from the web for a published host).

*What is hard.* An agent is identified by its name in the registry and by its
peer address in its errors; a reconnecting agent overlaps with its former
socket, whose error arrives late. Clean-up is spread over three functions
(`del_agent`, `del_client`, `del_connection`), each of which may reclaim the
user. The loop awaits the upgrade of one socket while everybody else waits.

*Correct means.* What is registered is alive or was closed without a word (section 5);
what broke leaves; published hosts lead to their owner; a connection is bridged with the agent it was opened to.

### Connection bridge (`sra-gateway/src/state/connection.rs`)

A `Connection` owns the client's half until the agent's half arrives, then
`serve` copies both ways. It answers the client with an error when it is dropped
unserved. Hard: who holds it when an agent or user goes.

### Agent event loop (`sra-agent/src/main.rs`)

*State.* The event connection, the retry delay, tasks per connection.
*Operations.* Dial, serve (`Connect`, `Peer2Peer`, `Ping`, `Shutdown`), report
system information from a task of its own, dial
again after errors with a growing delay, leave on 401, on `Shutdown`, and when
the event stream ends. `data_connect` checks the policies and keys of a
connection and dials the gateway back.
*What is hard.* Two processes of one name; half open sockets; errors that are
seen by only one of the two ends.

### Event multiplexing (`sra-network/src/event.rs`)

`NarrowEvent` carries events, requests and responses over one socket. *State*:
a request id counter, a table of requests waiting for their response, a queue of messages to send. One poll reads, then sends. Hard: ids shared by tasks,
messages taken from the queue while the socket is not ready, responses to
requests nobody remembers, and errors of the sending half, which end the stream
instead of being reported. *Correct means:* every request returns, and not with
the answer to another one; an error is lost only together with its socket.

### Web service front end (`sra-gateway/src/service/ws.rs`, `wss.rs`)

Turns HTTP requests into messages to the state task, and upgrades sockets in a
task of their own. Hard: the upgrade and the state task wait for one another.

### Certificate manager (`sra-gateway/src/service/certificate`)

*State.* `CertificateStore` (certificates by user and domain; which agents use a
domain), the challenges under way, files with certificates and with two time
stamps: an order is *pending* (two minutes) or *failed* (an hour).
*Operations.* `Load`, `Unload`, a tick each minute for what was put off, a tick
every six hours for renewals; `issue` orders a certificate.
*What is hard.* An order takes as long as the authority likes; messages queue
behind it; the gateway may crash in the middle and its agents all come back and
ask again; several agents of a user share a domain.
*Correct means.* The authority is not asked too often, a domain is served in the
end, the two tables of the store agree, certificates go with their agents.

### Client control, transports and tunnels (`sra-client/src`)

`manage.rs` handles the event connection, `transport.rs` chooses between relayed
and direct (peer to peer, QUIC) connections and shares the direct connection
among tasks behind locks and a `Notify`, `tunnel/` accepts the local
connections. Hard: lock order, lost notifications, results taken in order.

### Peer to peer (`sra-network/src/p2p.rs`, `state/mod.rs:127`)

The gateway guesses the NAT of both ends from two observations and tells each of
them what to do; one end punches, the other waits a second and calls, from and to
rows of ports; two ends of equal NATs change sides and try once more; then the
client dials by QUIC. Hard: what is late, lost or repeated discards a socket,
each end decides alone, 16 bit port arithmetic. *Correct means:* ends that both
settled settled for the same channel; they meet when nothing is late; no client
waits for ever.

### Sockets and streams (`sra-network/src/ws.rs`, `lib.rs`, `async_tools.rs`)

Web sockets with pings and idle time, forwarding in both directions, framing of
encrypted chunks. Hard: partial writes, one direction ending before the other.

### Policies, keys and the admission of a connection

A client registers with the policies its token lists (`state/mod.rs:283`); each of
its connections is checked by the gateway and the agent against the policies
for the agent's name (`policy.rs`, `state/client.rs`), and by the agent against its
pass phrase (`data_connect`); the direct channel and the gateway have a protocol
and a series of checks each. *Correct means:* both ends encrypt with one phrase or
neither, both paths admit the same, a refusal reaches the client.

### Command line (`sra-client/src/args.rs`)

Six commands, each with a copy of a parser of its own. Hard: options that take the
next argument, clusters, and copies that differ. *Correct means:* a command has
the values it was given and asks for what it waits for.

### Remote shell (`sra-agent/src/shell.rs`, `sra-client/src/shell.rs`)

Client: a loop for keys and sizes, a thread for the screen. Agent: a task, a
channel, two threads and a PTY. Hard: the tear-down, in which each waits for the
others. *Correct means:* nothing typed is lost, both sides end when the shell or
the client does.

### The rest

Configuration files, the command lines of the gateway and the agent, and the token
generator read their input and have no state of their own.

### How they interact

    client --events--> web service --channel--> state task --Connect--> agent
       \--data--------> web service --channel--> state task <--data------ agent
    state task --Load, Unload--> certificate manager --orders--> authority
        state task --Shutdown--> former agent process of a name
    state task --Peer2Peer--> client and agent --UDP--> each other, then QUIC
    sra shell --child process--> sra connect --connection--> shell server of the agent

## 2. Modules and code

| module | models | extends |
| --- | --- | --- |
| `GatewayState` | `state/mod.rs`, `users.rs`, `agent.rs`, `client.rs`, `connection.rs` | |
| `AgentFleet` | `sra-agent/src/main.rs` (the loop), `event.rs` (the poll), composed with the gateway | `GatewayState` |
| `CertManager` | `service/certificate/manager.rs`, `file_storage.rs` | |
| `Client` | the client: `main.rs`, `manage.rs`, `transport.rs`, `tunnel/mod.rs` | |
| `NarrowEvent` | `sra-network/src/event.rs`, with the agent's loop and the gateway's at its two ends | |
| `TwoWayStream` | what a forwarded connection promises: the abstract specification | |
| `Forwarding` | `async_forward`, `stream_forward` (`sra-network/src/lib.rs`), `serve` (`connection.rs`) and `AsyncToStream`, joined to the way of a connection | (`INSTANCE TwoWayStream`) |
| `PeerToPeer` | what the gateway and both ends of a direct channel compute: kinds of NAT, answers, roles, ports | |
| `HolePunch` | `udp_punched_socket` on both ends, two NATs and UDP between them, and the QUIC dial | `PeerToPeer` |
| `CommandLine` | `sra-client/src/args.rs`, `Instruction::from` (`manage.rs`) | |
| `Admission` | `policy.rs`, `state/client.rs`, the requests of `transport.rs` and `p2p.rs`, `data_connect` | |
| `Connecting` | the two above, joined by `TunnelFactory` (`tunnel/mod.rs`) | `CommandLine`, `Admission` |
| `ShellSession` | `shell.rs` of the client and of the agent, and the relay between them | |
| `Gateway_proofs` | theorems about `GatewayState` and `AgentFleet` | `AgentFleet` |
| `CertManager_proofs`, `Client_proofs`, `Connecting_proofs`, `Forwarding_proofs`, `HolePunch_proofs`, `NarrowEvent_proofs`, `ShellSession_proofs` | theorems | the module of the name |
| `MC...` | values of constants for TLC | the module of the name |

Actions of a module that composes others are those of its parts, each with the
other parts unchanged.

### GatewayState

`reg` is the registry as one record, and every operation of `users.rs` a
function from registries to registries (or, for `del_agent`, to the set of
outcomes: the order in which a `HashMap` yields the domains is open). The
sockets are environment state: `sock` (agents, by peer address), `csock`
(clients, by session), `asked` (Connect events an agent has received and not
answered yet), `shutdown`. `conn` records what became of each connection;
`certs` is history: the last message to the certificate manager. No action reads it.

A handler is one action, since the loop is one task and its other awaits only
write to sockets. The exception is `stream_receiver.await` (mod.rs:310, 342):
`ClientEvent` and `AgentEvent` answer the request and set `admitting`;
`ClientStream`, `AgentStream` or `StreamFails` go on when the upgrade ended; no
other handler runs in between. Requests waiting in the unbounded channel are not
represented, since they come from independent HTTP connections in any order.

| action | code |
| --- | --- |
| `ClientEvent`, `ClientStream` | mod.rs:266-319 |
| `AgentEvent`, `AgentStream` | mod.rs:321-388: Load, `add_agent`, `Shutdown` for the previous agent |
| `ClientData` | mod.rs:406-463: the session is looked up, `Connect` sent, the connection added |
| `AgentData` | mod.rs:464-509: bridging |
| `HttpTransparent`, `TlsTransparent` | mod.rs:511-537 |
| `AgentError` | mod.rs:217-221 |
| `AgentDisconnected`, `ClientDisconnected` | mod.rs:249-262, 202-207 |
| `AgentBreaks`, `ClientBreaks`, `AgentExits` | a socket fails, an agent obeys `Shutdown` |
| `AgentCloses`, `ClientCloses` | ws.rs:277, event.rs:103, mod.rs:106, 209: a socket is closed, its stream yields `None` and `SelectAll` drops it; no handler runs |
| `AgentSilent` | event.rs:130: an Error is dropped though the socket stays; or a dial does not end |

So a socket is "open", "broken" (its error is still to be read), "closed" (nothing will ever
be read of it) or "ended" (its clean-up has run), and an agent or a client whose socket is
"closed" is a ghost until somebody takes its place or its user goes.

### AgentFleet

Processes with one name each run `start()` against the gateway of
`GatewayState`: every action is a step of a process, of the network, or one of
the gateway's actions with the processes unchanged. The two ends of a socket
fail or are closed independently (`wire`, `sock`), so a process may be back before the gateway
notices; a process that reads the end of a closed one leaves (`ReadEnd`). A poll of the event stream is two steps, `ReadPending` and then `Sent`
or `SendFails`, because the socket may fail in between (event.rs:87-138).

### CertManager

The manager's task takes one message at a time and awaits the order inside a
`Load`; `task` says where it is. Time stamps in files are represented by their
age: `PassTwoMinutes` and `PassHour` age the stamps of one domain. An order, its
pending file and a failed file made from it by renaming age together. The
authority may grant with or without a challenge or reject (`Granted`,
`Challenged`, `Rejected`). `Crash` loses all of the memory and keeps the files;
`FileStorage::put` empties the file and hands the data to the runtime (`Granted`), and removes
the marks (`PutDone`); it does not flush, so the data is in the file whenever the runtime has
written it (`Flushed`), before or after `PutDone`, before or after the task loads the
certificate (`LoadToMemory`, `LoadMissed`), and never if the gateway crashes first.
`ordered`, `unwritten` and `missed` are history: the age of the last order placed, the
certificates whose marks were removed before they were written, and the loads that found
an empty file. `PassHour` does not strike an order under way: it is taken to last less
than an hour.

### Client

Three kinds of actors and what they share. The *loop* is `start()`: `main` says
where it is, `event` and `msgs` are the event connection with its channel,
`active` the `FuturesOrdered` of connections, `reports` the channel on which
attempts tell how they ended. `accept_msg` is a `select!` inside a branch of the
loop's `select!`; since its other arms only loop, the two are one choice among
actions that need `main = "select"`. A *connection* (`pc`, `result`) is a task
that runs `TransportFactory::connect`; an *attempt* (`att`, `outcome`) one that runs
`create_direct`. `direct` is the channel, `readers` and `queue` are its RwLock: tokio
serves it first come, first served, so a reader waits behind a writer that waits.

| action | code |
| --- | --- |
| `NotConnected`, `ControlClosed`, `LeavesControl`, `ChecksDirect` | main.rs:122-130, manage.rs:296-303 |
| `Connects`, `GivesUp` | manage.rs:109-242, then `tunnel.start()` |
| `Manages`, `AgentMissing`, `Answered` | manage.rs:353-396 |
| `Peer2Peer`, `Shutdown`, `Accepts` | main.rs:108-121, 148-155 |
| `NextConnection`, `StatusReceived` | manage.rs:268-295 |
| `Starts`, `Holds`, `Locks`, `ReadsDirect`, `Opens`, `Talks` | transport.rs:120-238 |
| `Relays`, `ConnectionEnds` | transport.rs:242-357 |
| `StartsAttempt`, `Punches`, `Wakes`, `Reports` | transport.rs:81-119 |
| `Writes` | transport.rs:110 and 148-152: the writer at the head of the queue gets in |
| `InputEnds` | input_stream.rs:55 |

`Starts` and `Holds` are two steps because `notified()` registers its waiter only
after the Notify was cloned. A write guard is held for one assignment, so
`Writes` takes and releases it; a read guard is held from `ReadsDirect` to the end
of `connect_direct`. The commands of `args.rs` are records of what they become:
the transport, whether it waits for the channel, whether one is asked for, and
whether the tunnel is the standard input.

### NarrowEvent

Tasks inside `request()` (`Loads`, `Increments`, `Queues`: event.rs:36-48 is three
steps on shared state), the poll of the stream (event.rs:87-139) and the gateway.
A poll first reads: `TakesResponse`, `ReturnsResponse` and `ReturnsPing` are what it
finds, and what it returns is handled by the agent's loop in the same step
(main.rs:466-473); `FindsNothing` goes on to send. `send()` is polled once:
`SendsRequest`, `SendsEvent` when it is ready, `RequestNotReady`, `EventNotReady` when
it is not, in which case the message is dropped, before or after the socket took
it. `held` is the set of calls whose oneshot sender still exists; dropping one
cancels its call. The gateway answers on the socket registered under the agent's
name, or not at all when there is none (`AnswersFormer`: a request that came in on the former
one, with any of `FormerIds`) and may supersede this one. The agent today makes its calls from one task per connection;
two tasks are what the `Clone` of `NarrowEventRequest` permits, and what the
id's atomic counter is for.

### Forwarding and TwoWayStream

A connection is a row of links joined by hops; a hop is `async_forward` ("copy",
in the client and the agent) or `serve` with `stream_forward` ("bridge", in the
gateway; "web" for a TLS connection to a published host). A byte is its number, so
that loss, repetition and disorder show. A copy has a buffer and may be dropped with it by `select!` (`CopiedSome`); a bridge
holds one message, and reads neither direction before it is sent. Dropping a
socket (`Drops`) ends the stream the hop wrote and makes the one it read deaf,
which the neighbour notices when it reads or writes (`ReadFails`, `WriteFails`).

Towards a browser, messages go through `AsyncToStream` (`PushesAll`, `PushesSome`,
`Forgets`: async_tools.rs:50-82), which never waits for the socket: after a part
it writes all of the message again, and a message that meets a full socket is gone.

`TwoWayStream` says what the user and the host may rely on, and `Forwarding`
implements it (`TwoWay`) under the mapping that a connection is `over` when an end
has closed its half, or when the gateway lost one of its sockets before the
bridge stood: until then everything arrives, once and in order; after that
nothing arrives twice or out of order. What a browser gets counts up to the first
message that its socket did not take whole (`torn`); nothing is promised of the rest.

### PeerToPeer and HolePunch

`peer2peer` is the gateway's decision (state/mod.rs:127-196), `puncher`, `dyn_my_port`,
`my_port` and so on are p2p.rs:451-487, with arithmetic in `Word` bits as a release
build does it (`overflow-checks = false`). An end is where it is in
`udp_punched_socket` (`st`), with the sockets it waits on; only the first datagram of a
socket is read, and one that does not fit discards the socket. The network keeps
datagrams in a set, loses and repeats; a NAT remembers which port outside stands for
which port inside and peer, and is in truth "hard" for the ends of `setting.hard`,
whatever the gateway took it for.

| action | code |
| --- | --- |
| `Begins`, `Wakes` | p2p.rs:463: the end that does not punch sleeps for a second |
| `SendsRow` | p2p.rs:467-524; a port that is taken is skipped |
| `Reads` | p2p.rs:549-592 |
| `SocketFails` | p2p.rs:549-566, 578-582: an error when waiting, receiving or confirming discards the socket |
| `TimesOut` | p2p.rs:525-548, with the change of sides |
| `Dials`, `Connects`, `DialFails` | `new_client`, `new_server` |
| `Arrives`, `Loses` | the network |

### CommandLine, Admission and Connecting

`CommandLine` takes one argument after the other, as `Args::parse` does. Arguments
are what the parser tells apart: their kind, their flags and the kind of their
value. The source repeats its parser for each command; the module has it once, with
`takes`, `toggles`, `valued` and `keepsFirst` for the differences; `map` names the copy of
`connect` for what is common, and all of `Args::parse` for `CommandNext`. `Admission` follows one
connection: `Registers` at the gateway, then `AsksDirectly` and `AnswersDirectly`, or
`AsksGateway` and `AgentDials`, with the fall-back from one to the other
(transport.rs:339-349). A signature is the record of what was signed, and verifies when
it is the record of what was received. `Connecting` starts with a command line: `Connects`
opens the tunnel of a parsed command and picks one of the connections it may ask for.

### ShellSession

A frame is the number of the key press or resize it carries; the program's output is
numbered too. Client: `Acts`, `WritesFrame`, `Escapes`, `NoticesEnd` (main loop) and
`OutputEnds`, `Shows` (thread). Agent: `Pump...` is the task tcp_to_pty, `Main...`
handle_session after it, `Writer...` and `Reader...` the two threads. Every blocking
call is a step of its own with the guard that makes it block: a full channel, PTY or
socket, an empty one, a join. The relay takes a message of either direction when it
has none, or, on the direct channel, one of each (the difference of `stream_forward`
and `async_forward`). It ends when a side does (`RelayEnds`) or when the network or the gateway
fails (`Breaks`); what is past it in either direction then arrives or is lost (`Ends`), and
the threads read what is still there before they see the end. The program reads, answers
what it reads, speaks and exits.

## 3. The runs

| run | properties | bounds |
| --- | --- | --- |
| `registry` | `TypeOK`, `GhostsWereClosed`, `ReclaimedUsers`, `RoutableHosts`, `CertsFollowRegistration`, `BridgedToTarget`, `RegistrationStable`, `ForgottenOnlyWithLastAgent` | 1 user, 2 names, 2 addresses, 1 session, 2 connections, 1 domain on 2 ports, 3 publish maps |
| `connections` | `OnlyUnansweredLeak`, `DisconnectNoticed` | 1 user, 1 name, 2 addresses, 1 session, 2 connections |
| `fleet` | `FleetTypeOK`, `NeverAllShutDown`, `FleetSettles` | 2 processes of one name, 3 addresses, 1 fault |
| `fleet_network_errors` | `RetriesOnNetworkErrors` (violated) | 1 process, 1 fault |
| `narrow_event` | `NarrowInv`, `RequestsReturn`, `ErrorsArrive` | 2 tasks with 1 and 2 requests, 1 error, 1 request of the former socket with an id of 0 to 2 |
| `certificates` | `CertTypeOK`, `StoreConsistent`, `OrdersPaced`, `DomainsServed`, `RenewedInTime` | 2 agents of a user, 1 domain, 1 queued message, 1 crash |
| `forwarding` | `TwoWay`, `EndsTogether` | copy, bridge, copy; and web, copy; 1 byte one way, 3 the other; links hold 2 bytes, buffers 1, messages 2 |
| `client` | `ClientTypeOK`, `EventLossNoticed`, `ConnectionsSettle`, `RefusalNoticed`, `StuckForGood`, `DirectOnlyEnds` | 6 command lines, 2 connections, 1 attempt, 2 faults |
| `hole_punch` | `PunchInv`, `EndsSettle`, `PunchesThrough` | 8 meetings, rows of 2 of 16 ports, 1 fault |
| `connecting` | `CommandInv`, `AdmissionInv`, `SameOnBothPaths` | all commands with up to 3 of 22 arguments, and longer lines; 6 sets of policies, 3 keys |
| `policies` | `PoliciesSatisfied` (violated) | the same |
| `shell` | `SessionInv`, `ShellEndsSession`, `BytesArrive`, `LeftBehind` | 6 events, 3 writes of the program's own, every buffer holds 1, relayed sessions may break |

Why these bounds show something:

- Two addresses are enough for a socket and its successor, and are used again
  when a socket has ended, so any number of reconnections is covered. Two names
  let publish maps overlap; the three maps are nothing, one port, and that port
  with the default port, which are the cases `del_agent` and
  `get_mut_agent_by_domain` tell apart. Sessions and connections that ended do
  not come back (they are uuids), which bounds a run of the system by the number
  of ids; the theorems hold for any number.
- Two users that publish one domain are the case in which `del_agent` leaves its
  loop early (users.rs:228: its `?` returns `None` for an agent that it did remove).
  The theorem `GhostsOnlyByClose` covers it for any number of users; `RoutableHosts` is
  stated for the setting that `OwnDomains` describes, and the run `registry` is in it.
- Two processes are the least that shut one another down, and with three
  addresses each may have a former socket besides its present one. One fault breaks or
  closes a socket at one end only, so a process can be back while the gateway still holds
  its former socket, or the gateway can forget a process that believes itself connected;
  everything else that breaks follows from that. `OneIsLeft` holds for any number of
  faults. Processes may end (that is the point of `Shutdown`), so these
  runs do not check deadlock.
- A ghost keeps its address: the registry tells agents apart by it, and an address that it
  still holds is not dialled from again. With two addresses and closed sockets all of them
  may be used up, and the run `registry` stops there; it does not check deadlock, and
  `connections`, where a name's next agent takes the ghost's place, does.
- One task with one call and one with two show all ways in which a response can meet the
  wrong call: two calls with the same id, a late response to a cancelled call, and a
  response to a request of the former socket, whose id is that of any call or of none.
- Two agents share their user's domain, so that one `Load` finds the other's
  order pending. The queue holds one message from outside besides the ones the
  manager sends to itself, so an `Unload` can still be followed by an old `Load`; any number
  come one after the other. One crash can come at every point of an order and of its file. Different users with one domain are covered by the
  theorem `StoreAgrees`.
- Two connections are the least for which one waits behind another, be it in
  the lock's queue, in `active` or at the Notify. One attempt is made, fails or
  succeeds before, while or after a connection begins to wait. Two faults are
  a channel and an event connection that break, in any order. `DirectOnlyEnds`
  excludes faults because connecting again drops the queued `Shutdown`
  (manage.rs:122; main.rs:28 has a todo about it). The theorems
  `ClientTypeCorrect` and `StuckForever` hold for any number of each.
- Three bytes through links of two with a buffer of one fill every link while
  bytes wait at both ends, so writes wait for room and messages of one and of two
  bytes pass; the byte in the other direction is the one a copy may lose. Both
  kinds of hop and both orders of neighbours occur in the row of three.
  `MaxWritten` bounds how often a message to a browser is begun again.
- The meetings are the pairs of NATs the gateway lets through, equal ones (which
  change sides) and different ones, with the truth agreeing or not; one has a row
  that wraps around, and three are refused. Rows of two are the least in which
  one port may fail and the other do. One fault in either kind of run: losing one
  datagram, repeating one, or a port that is taken; in runs that are not `timely`
  any number of datagrams is late as well.
- Three arguments after a command cover each pair of options and what a value may
  swallow; `Asked` has what the paths need with each way to choose a path, and the
  environments each combination of policy, phrase, name, host and channel.
- With room for one in each place, six events and three writes of the program's own reach the
  jam of the relay with the program running, and the clogged PTY, the states in which
  everybody waits; with fewer the jam comes only after its exit. A resize among the keys
  passes them in the writer. `Breakable`: only a session through the gateway breaks in the
  run, since what follows a break is the same on either path.

Fairness. `GatewayState`: `select!` polls its branches in random order and
`SelectAll` goes round its streams, so a disconnection or an answer that stays
ready is handled (strong fairness, because upgrades interrupt it); an upgrade
ends (weak fairness). A Connect that reached an agent is dialled or reported in the end, or
goes unanswered (`AgentSilent`, part of the same strong fairness): `data_connect` has no
time-out, and an Error may be dropped. Requests, breaks, closes and exits are not fair. `AgentFleet`: a
process that is scheduled goes on (weak); what can be read is read though sends
come in between, and a dial gets through (strong); each end learns of a broken
connection, because the gateway pings its sockets (weak). Faults are not fair.
`CertManager`: the task goes on and the authority answers *something* (weak), two minutes
pass (weak), the intervals win `select!` in the end though messages keep
coming (strong), the runtime's threads write (weak), and not every time only after the load
that follows (strong): a renewal whose certificate is read too early is tried again. `Client`: each of the loop, the connections, the attempts and the
writer at the head of the lock's queue goes on (weak); every answer of gateway
and agent is some answer (`Talks` ends: an assumption, since neither `Response::read` nor the
dials have a time-out). Connections are not assumed to end and none is assumed
to come. `Forwarding`: a task that can go on does and the ends read (weak): each
step uses up a byte, a stream or a task, so no choice of `select!` can starve
another for ever. The ends need not send, close or go. `NarrowEvent`: the loop polls,
tasks inside `request()` go on and the gateway reads (weak); a poll is one process,
so a step that is possible is taken, and nobody has to make requests.
`HolePunch`: both tasks and their timers run, what is under way arrives or is lost, a
handshake ends (weak). In a `timely` run a time-out strikes only when nothing is
under way: the second the code waits is enough. `ShellSession`: as long as a thread,
a task or the program can go on, one does (weak): events and output are bounded, so
none of them can put off another for ever; nobody has to type, to leave or to exit.
That an agent reconnects, that an hour passes or that an order succeeds is not
assumed.

Each property has a mutant in `PROJECT.json`: a definition with a longer name
(`waits_not` of `waits`) before the one it changes, which the same run refutes. They show that the property depends on
the line of code that was changed.

## 4. The proofs

All theorems hold for every value of the constants that satisfies the named
assumptions of the module (`NoneAssumption`, `NamesAssumption`: the values that stand for
nothing or for the loop are no ids; `PortAssumption`: there is a default port;
`PublishAssumption`, `ConfigAssumption`: publish maps are maps, and a process has a
token of its user; `EnvsAssumption`, `MeetingsAssumption`, `CommandAssumption`,
`EventsAssumption`: inputs have the fields of one; `LinesAssumption`: so have
arguments; `WordAssumption`: there are ports; `RowsAssumption`: a browser is at the
head of its row; `QueueAssumption`, `CallsAssumption`, `BoundsAssumption`,
`FaultsAssumption`, `FaultAssumption`: bounds are natural numbers, and what holds
something can hold one). No finiteness is assumed, of ids, of ports, of arguments or of
bytes. `OwnDomains` is no assumption of a module but the hypothesis of the four theorems
that name it: without it `del_agent` may stop early (section 3) and they are false.

| theorem | states |
| --- | --- |
| `Inductive` | `Spec => []IInv` |
| `TypeCorrect` | `Spec => []TypeOK` |
| `GhostsOnlyByClose` | `Spec => []GhostsWereClosed` |
| `BridgesAreRight` | `Spec => []BridgedToTarget` |
| `CertificatesFollow` | `Spec => []CertsFollowRegistration` |
| `NoneForgottenEarly` | `Spec => ForgottenOnlyWithLastAgent` |
| `DomainsInOrder` | `OwnDomains => (Spec => []DomainInv)` |
| `HostsAreRouted` | `OwnDomains => (Spec => []RoutableHosts)` |
| `UsersAreReclaimed` | `OwnDomains => (Spec => []ReclaimedUsers)` |
| `RegistrationIsStable` | `OwnDomains => (Spec => RegistrationStable)` |
| `FleetInductive` | `FleetSpec => []FleetInv` |
| `FleetRunsTheGateway` | `FleetSpec => Spec` |
| `FleetTypeCorrect` | `FleetSpec => []FleetTypeOK` |
| `OneIsLeft` | `FleetSpec => []NeverAllShutDown` |
| `NarrowInductive` | `NarrowSpec => []NarrowIInv` |
| `AnswersAreRight` | `NarrowSpec => []NarrowInv` |
| `CertInductive` | `CertSpec => []CertInv` |
| `CertTypeCorrect` | `CertSpec => []CertTypeOK` |
| `StoreAgrees` | `CertSpec => []StoreConsistent` |
| `OrdersKeepTheirDistance` | `CertSpec => OrdersPaced` |
| `ClientTypeCorrect` | `ClientSpec => []ClientTypeOK` |
| `StuckForever` | `ClientSpec => StuckForGood` |
| `EndsAgree` | `ConnectingSpec => [](ConnectingInv /\ AdmissionInv)` |
| `RefusalIgnoresTheConnection` | `ConnectingSpec => []PoliciesIgnoreTheConnection` |
| `PathsAdmitTheSame` | `ConnectingSpec => []SameOnBothPaths` |
| `ClientDoesAsTold` | `ConnectingSpec => []CommandInv` |
| `PunchInductive` | `PunchSpec => []PunchIInv` |
| `OneChannel` | `PunchSpec => []PunchInv` |
| `PathInductive` | `PathSpec => []PathIInv` |
| `PathKeepsPromise` | `PathSpec => TwoWaySafe` |
| `SessionInductive` | `SessionSpec => []SessionIInv` |
| `NothingIsLost` | `SessionSpec => []SessionInv` |

**The gateway.** `GhostsWereClosed` is not inductive. An agent enters the
registry when its upgrade ends, so the socket that is awaited must be known,
open to be used and of the user and name that are added (`UpgradePending`); a user
that was reclaimed and comes back must come back empty, or it would bring old
sessions with it (`NoResidue`); and del_agent may drop, put back or replace. The
lemmas `...Facts` say what each operation of `users.rs` may change
(`DelAgentFacts`: whatever it returns, the agent of that name is out and no other
is touched), `TypeStep` and `LinkedStep` then go through the actions.
`BridgedToTarget` needs `AskedOfTarget`: the data request of an agent names only
the connection, so the proof follows every `Connect` from the moment it was sent:
it is held by a socket of the very user and name it was opened to, and only that
socket's agent can know the id. A socket that is closed changes no registry, which is why the
ghost is there, and why nothing else goes wrong: an address the registry holds
is not given to another socket.

**The domain table.** `add_agent` and `del_agent` keep it in step with the agents only
if no two users publish a domain. `DomainInv` has the three facts that need one
another: what an agent publishes is its user's (`PublishesOwn`), each of
its hosts has an entry of that user (`HostsEntered`), and a user is kept just as long as
it has an agent (`ReclaimedUsers`). With them `del_agent` finds the entry it looks
up in every round and never leaves its loop early, whatever the order of the
`HashMap`. `RoutableHosts` and `RegistrationStable` follow; `CertsFollowRegistration`
and `ForgottenOnlyWithLastAgent` need no such hypothesis.

**The fleet.** Every step of the fleet is a step of the gateway or leaves it alone,
so `FleetSpec => Spec` and all of the above holds of a gateway whose agents
are these processes. For `NeverAllShutDown` an agent that is being registered counts:
whoever dialled has not been told to go (`DiallerLeft`), so at the moment the gateway
shuts the previous one down there is another (`SomeoneLeft`); `HeldByName` says
that the socket a process holds bears that process's user and name.

**Requests of an agent.** `NarrowInv` says whose answer a call may get. It needs to know that the ids of one
task grow (`IdsGrow`: the counter is read and incremented in two steps, but a task
does both before it calls again), so that only calls of *different* tasks can share an
id; that a call is in the queue once or in the table once (`HeldOnce`); and
that whatever bears its id on the network has been through the queue (`UnderWay`).
A response to a request of the former socket is known by its id only (`FormersNamed`), so
that a call can take it for its own only if it bears the call's id.

**The certificate manager.** `StoreConsistent` needs only itself and the types:
`InsertKeepsMatches` and `RemoveKeepsMatches` are the argument that the last
agent of a user, and no other, takes the certificate away. `OrdersPaced` needs
`OrdersOnFile`: an order of the last two minutes can be seen in the pending file,
in the failed file or in a fresh certificate, unless put removed the marks before the
certificate was written (`unwritten`); and the pending file of the order
under way has the age of that order, since `set_failed` *renames* it, so that the
failed mark keeps the time at which the order was placed. Crashes keep this
because only the memory is lost.

**The client.** `ClientTypeOK` is inductive as it stands. Its last conjuncts say
who holds a read guard of `direct`: exactly the connections between `ReadsDirect`
and their answer, those that wait in "upgrade" among them. `StuckForever` follows:
a writer gets in when there is no reader, a connection in "upgrade" is one
itself, and no action but `Writes` takes it out of there.

**The admission of a connection.** What a client signs travels as `msg`, which
`Sent` ties to the stage: on the direct channel it is `overDirect(signed(ask))`, through the
gateway `signed(ask)`, and a client that wants the direct channel never has the
latter. `Protocol` (tunnels ask for TCP and UDP only) makes `overDirect` change
nothing but the spelling of an address, which is the exception `SignedIsVerified` makes.
`AdmissionInv` follows. `RefusalIgnoresTheConnection` says what the code makes of policies
that name destinations, which is not what the token generator's sample promises (section 5):
by the lemma `WhatIsPermitted`, of the policies only those without an item for the agent are kept,
and such a policy permits everything or nothing. `SameOnBothPaths` combines both: the checks
of the two paths come in another order and ask about another host, and neither matters.

**The command line.** `CommandInv` compares what the client does with all arguments at once, the
code with one at a time. `CommandIInv` says what has been read up to `at`: an option
holds the last argument that names it (`ToldLast`), a name that is kept the last of the short ones or
else the first that is not empty (`ToldFirst`), and an address is in the form the
parser gave it (`RemoteTold`). `begun` is history: where the command stood.

**The hole punch.** Two ends must never both believe in a channel the other does not
have. They may change sides once (`Sides`), so who punches in one round calls
in the other; what is in the network or in a socket's buffer says what its sender had done
when it sent it (`Messages`, `sentBy` and `receivedFrom`); therefore the first end to
be done was punching when the other called (`Partners`), and at a NAT that is not
hard ports stay what they are (`Numbers`). No bound on ports, datagrams or faults is used.

**A forwarded connection.** `TwoWay` without its fairness is the refinement
`TwoWaySafe`: every step of the row of hops is a step of the abstract connection (`Send`,
`Deliver`, `DeliverLater`, `Finish`) or none. `carried(d)` has the bytes of a direction
by the place they are in, and `stage(d)` how far along a place is. `PathIInv`: further
along is smaller (`InLine`), so nothing overtakes; nothing was made up (`Within`); and
until a stream has ended every byte is somewhere (`AllThere`). The lemmas reduce each
action to a move between neighbouring places, a loss or both, and a loss takes
an end of the connection. Of a stream to a browser that was torn
only the part that was intact is counted, since the rest may be in any order.

**The shell.** The same idea in another form: what is in the seven places of the way from the keyboard
to the PTY is ordered by place (`InOrder`), later than what has arrived (`Ahead`), and
together complete while the session lasts (`Covered`). `InPhase` ties each thread's
place to what it holds, and says in which order `handle_session` lets them end.

TLC finds each of these inductive invariants true on the instance of its module's run.

Only model-checked: all liveness (`OnlyUnansweredLeak`, `DisconnectNoticed`,
`FleetSettles`, `RequestsReturn`, `ErrorsArrive`, `DomainsServed`, `RenewedInTime`,
`EventLossNoticed`, `ConnectionsSettle`, `RefusalNoticed`, `DirectOnlyEnds`, `EndsTogether`,
`EndsSettle`, `PunchesThrough`, `ShellEndsSession`, `BytesArrive`, `LeftBehind`), which is out of
the prover's reach with fairness, and with it the fairness of `TwoWayStream` in
the run's property `TwoWay`; and the two properties that the code violates. Every
invariant of a run, and every action property without fairness, is a theorem's. Modules use no
RECURSIVE operator, so that theorems can be stated about all of them; induction over data is not used.

## 5. Disagreements between the code and what it says

Shown by a run that is violated:

- `fleet_network_errors`: an agent's loop ends for good on a network error,
  where `docs/how-it-works.md:131` says it only does on a 401: an error of the
  sending half ends the event stream without an error (event.rs:115, 129), and
  `start()` takes that for the end (main.rs:479).
  The same happens when something in between, a proxy for instance, closes the socket
  (event.rs:103).
- `policies`: `sra-token/sample_token-generator.yaml:12` says of a client's policies "all the
  policies must be satisfied", and lines 20 to 26 that the items of a list are a "destination
  ip address" and a "destination port". `get_agent_policy` keeps the policies whose list
  for the agent is *empty* and drops those that say something of it (state/client.rs:66), so a
  client whose white list has db:80 is let through to any host and port.
  `RefusalIgnoresTheConnection` is the theorem that what is asked for makes no difference.

Met while modelling, outside of what a run shows:

- `sra shell` starts `sra connect ... 127.0.0.1 22222`, address and port as two arguments
  (sra-client/src/shell.rs:26, `docs/how-it-works.md:49`), and `connect` takes only an address
  with its port (args.rs:17; `RemoteUsable` in `CommandInv`): it ends with `InvalidPort`, and the
  shell has no tunnel. `ShellSession` begins with a tunnel that stands.

Stated by the properties as what the code does, so that a change of it would show:

- An agent or a client whose socket is closed in an orderly way stays in the registry, where
  `docs/how-it-works.md:80` has a "connected agents table": its stream yields `None`
  (ws.rs:277, event.rs:103), `SelectAll` drops the stream (mod.rs:106, 209), and no `Err`
  reaches the clean-up (mod.rs:202, 249). Its hosts and its certificate stay with it. No
  program of the repository closes a socket so, but the deployment that the docs describe
  has a proxy in front of the gateway (`docs/how-it-works.md:75`). `GhostsWereClosed` says that
  there are no other ghosts, `DisconnectNoticed` excludes them.
- The marks of a certificate's order are removed while its file may still be empty, since `put`
  does not flush (file_storage.rs:74-83): the domain is then not served until
  its agent's next Load, and another order may follow at once. `OrdersPaced` and `DomainsServed`
  with `unwritten` and `missed`.
- The answer to a request of an agent's former socket goes out on the new one (mod.rs:223),
  where a call of the same id takes it for its own. `NarrowInv` (`FormerAnswersById`).
- A client is told "Event connection is lost" while its event connection is open,
  when its user's last agent leaves: the user is removed with its clients
  (users.rs:78). `ForgottenOnlyWithLastAgent` says that this is the only case.
- A certificate of an agent that left is loaded again, and renewed for ever, by a
  `Load` the manager had queued for itself (manager.rs:230, 236). `StoreConsistent`
  says that the tables agree all the same.
- A connection whose direct channel has died is not relayed, as manage.rs:290 and
  the fallback of transport.rs:345 have it: its task asks for the write lock of
  `direct` with its own read guard in hand (transport.rs:141, 148), and all later
  connections queue behind it. `StuckForGood` and `ConnectionsSettle`.
- When one end stops sending, `async_forward` drops bytes of the other direction that
  it has read, and goes on with later ones (lib.rs:67-82), where
  `docs/how-it-works.md:93` has bytes forwarded bidirectionally. `TwoWay` with `over`.
- A TLS connection to a published host loses or repeats bytes as soon as the browser's
  socket does not take a message whole (async_tools.rs:54-66). `TwoWay` with `torn`.
- A request whose send was not ready is cancelled and an error is dropped
  (event.rs:116, 130); two tasks may use one request id (event.rs:37).
  `NarrowInv`, `ErrorsArrive`.
- `Response::read` does not know the code the agent sends for a name it cannot resolve
  (p2p.rs:225); the reason is lost on the direct channel, and on the other path no
  reason ever arrives. `AdmissionInv` (`ReasonReachesClient`). An IPv6 address that is not
  written the usual way fails its signature on the direct channel (`SignedIsVerified`).
- An agent that found its peer but is not called waits for ever (p2p.rs:344).
  `EndsSettle`.
- The agent's side of a shell outlives the client for as long as the program is silent
  or its PTY is full (agent shell.rs:146). `LeftBehind`. Through the gateway both
  directions of a shell share one message and can jam (lib.rs:38), and only a break of the
  connection ends that. `jammed` in `BytesArrive` and `ShellEndsSession`.

## 6. What is not modelled, and why

- Payloads, serialisation, encryption and logging: no modelled decision reads
  them. Tokens are represented by what they say (user, name, publish map, policies), as
  requests that fail verification change no state.
- Load averages, ping times and the list of agents: data that is stored and displayed.
- HTTP connections to published hosts: between the sockets is an HTTP client of a
  library; `StreamToAsync`, which it writes to, may send a message again whose flush is
  pending (async_tools.rs:147).
- The ACME protocol inside an order and the failures of the disk; an order that takes longer
  than the hour its failed mark would last.
- A message that is not valid JSON: `poll_next` of `NarrowEvent` yields an `Err` and the
  socket goes on (event.rs:94); the programs here send each other none.
- The routes and addresses of a TUN device, the bytes of a terminal, the framing of
  encrypted chunks: sequential conversions.
- The routing of HTTP requests by headers and SNI (`service/ws.rs`, `wss.rs`), as far as it
  only picks the message that the state task is sent.
- Configuration files, templates, the command lines of the gateway and the agent, the token
  generator: sequential handling of input without state.

The hazards of `PROJECT.json` without properties say why they have none.

## 7. The plan

Done: all modules of section 2, and theorems for every safety property of the runs.
What is left:

1. Theorems: what the liveness properties rest on and is safety, so that only the fairness stays
   with TLC: that a `jammed` shell stays jammed until its connection breaks, and that what the `LeftBehind` and
   `EndsSettle` of sections 3 and 5 except is for good; that the rows of ports of two
   ends meet for every meeting the gateway lets through (`PeerToPeer`).
2. `StreamToAsync` with the HTTP client as a writer that may be told to wait.
3. The routing of web requests, as a function from requests to messages.
