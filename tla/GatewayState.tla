---------------------------- MODULE GatewayState ----------------------------
(***************************************************************************)
(* The gateway's state task (sra-gateway/src/state): the registry `Users`  *)
(* with, per user, the connected agents, the client sessions and the       *)
(* connections waiting for an agent, the table of published domains, and   *)
(* the select! loop of State::run that serves one message at a time.       *)
(*                                                                         *)
(* The loop is one task: a handler runs to its end, its awaits included,   *)
(* before the next message is looked at, so a handler is one action.  The  *)
(* one await that depends on somebody else, the upgrade of an event socket *)
(* (stream_receiver.await), splits the EventRequest handler in two: while  *)
(* `admitting` is set the loop serves nobody.                              *)
(*                                                                         *)
(* Requests wait in an unbounded channel.  They come from independent HTTP *)
(* connections, so their order is arbitrary and a waiting request is not   *)
(* represented: the action that serves it may simply happen later.         *)
(*                                                                         *)
(* An agent's event socket is identified, as in the code, by its peer      *)
(* address; the Agent value kept in the registry is that of its socket.    *)
(*                                                                         *)
(* An event stream ends in one of two ways.  When its socket breaks it     *)
(* yields an error, whose handler takes the agent or client out of the     *)
(* registry.  When the other side, or a proxy on the way, closes the       *)
(* WebSocket (a Close frame), it yields None: SelectAll drops the stream   *)
(* and no handler runs, so the agent or client stays registered.           *)
(***************************************************************************)
EXTENDS Naturals

CONSTANTS
    Uid,        \* user ids, the uid of a token
    Name,       \* agent names
    Addr,       \* peer addresses of agent event sockets
    Session,    \* session ids of client event sockets (Uuid::new_v4)
    Conn,       \* connection ids (Uuid::new_v4)
    Domain,     \* published host names
    Port,       \* published ports; 0 is the default port of a host
    Publishes,  \* Publishes[u]: the publish maps the agents of u may bring
    None        \* Option::None

Host == Domain \X Port

\* What a publish map says of a host: nothing, or the protocol of its Connect.
Protocol == {"unpublished", "TCP", "HTTP"}
PublishMap == [Host -> Protocol]

ASSUME NoneAssumption ==
    /\ None \notin Uid
    /\ None \notin Addr
    /\ None \notin Session
ASSUME PortAssumption == 0 \in Port
ASSUME PublishAssumption == Publishes \in [Uid -> SUBSET PublishMap]

VARIABLES
    reg,        \* Users: users, agents, clients, connections, domains
    sock,       \* agent event sockets, by peer address
    asked,      \* asked[a]: Connect events sent on socket a and not answered
    shutdown,   \* agent sockets that have been sent Shutdown
    csock,      \* client event sockets, by session
    conn,       \* connections, by id
    certs,      \* certs[u][n]: the last message to the certificate manager
                \* about agent n of u was Load
    admitting   \* the event socket whose upgrade the loop is waiting for

vars == <<reg, sock, asked, shutdown, csock, conn, certs, admitting>>

Published(m) == {h \in Host : m[h] # "unpublished"}
NothingPublished == [h \in Host |-> "unpublished"]

-----------------------------------------------------------------------------
(* The registry: users.rs.  Every operation is a function of the registry. *)

EmptyRegistry ==
    [users   |-> {},
     agents  |-> [u \in Uid |-> [n \in Name |-> None]],
     clients |-> [u \in Uid |-> {}],
     conns   |-> [u \in Uid |-> {}],
     domains |-> [h \in Host |-> None]]

\* The sockets of the agents registered for user u.
Registered(r, u) == {r.agents[u][n] : n \in Name} \ {None}

\* The agents of u that Users::get_mut_agent_by_domain may pick for a host:
\* those that publish the port, or failing any of them the default port.
\* Which of them has the least load is left open.
serving(r, u, d, p) ==
    LET at(q) == {a \in Registered(r, u) : <<d, q>> \in Published(sock[a].pub)}
    IN  IF at(p) # {} THEN at(p) ELSE at(0)

\* User::is_empty looks at the agents only; a user found empty is removed
\* with all its clients and connections.
reclaim(r, u) ==
    IF Registered(r, u) # {}
    THEN r
    ELSE [r EXCEPT !.users = @ \ {u}, !.clients[u] = {}, !.conns[u] = {}]

add_agent(r, u, n, a, m) ==
    [r EXCEPT !.users = @ \cup {u},
              !.agents[u][n] = a,
              !.domains = [h \in Host |-> IF h \in Published(m) THEN u ELSE @[h]]]

add_client(r, u, s) ==
    [r EXCEPT !.users = @ \cup {u}, !.clients[u] = @ \cup {s}]

add_connection(r, u, c) ==
    [r EXCEPT !.users = @ \cup {u}, !.conns[u] = @ \cup {c}]

\* Mutant of unserved: the hosts are cleared without asking who still serves them.
unserved_unchecked(r, u, a) == Published(sock[a].pub)

\* Hosts of the removed agent a that no remaining agent of u serves.
unserved(r, u, a) ==
    {h \in Published(sock[a].pub) : serving(r, u, h[1], h[2]) = {}}

entries(r, d) == {p \in Port : r.domains[<<d, p>>] # None}
ports(hosts, d) == {p \in Port : <<d, p>> \in hosts}

\* del_agent drops the unserved hosts of one domain after the other, and
\* leaves the function with None at a host whose domain has no entry (any
\* more): `domains.get_mut(domain_name)?`.  The order is that of a hash map.
passes(r, hosts, d) == entries(r, d) # {}
stops(r, hosts, d) ==
    /\ entries(r, d) \subseteq ports(hosts, d)
    /\ entries(r, d) = {} \/ entries(r, d) # ports(hosts, d)

clear(r, hosts, D) ==
    [r EXCEPT !.domains = [h \in Host |->
                              IF h \in hosts /\ h[1] \in D THEN None ELSE @[h]]]

\* The outcomes for the registry r, from which agent a of user u was taken: the
\* registry left and the agent returned.
clean_up(r, u, a) ==
    LET hosts == unserved(r, u, a)
        doms  == {d \in Domain : ports(hosts, d) # {}}
        ok    == {d \in doms : passes(r, hosts, d)}
    IN  {[reg |-> reclaim(clear(r, hosts, D), u), agent |-> a] : D \in {doms} \cap {ok}}
        \cup
        {[reg |-> clear(r, hosts, D), agent |-> None] :
            D \in {E \in SUBSET doms :
                     \E d \in E : stops(r, hosts, d) /\ E \ {d} \subseteq ok}}

del_agent(r, u, n) ==
    IF u \notin r.users \/ r.agents[u][n] = None
    THEN {[reg |-> r, agent |-> None]}
    ELSE clean_up([r EXCEPT !.agents[u][n] = None], u, r.agents[u][n])

\* Mutants of del_client: the client goes only with its user; the user is never
\* reclaimed.
del_client_with_user(r, u, s) ==
    IF s \in r.clients[u] /\ Registered(r, u) = {}
    THEN reclaim([r EXCEPT !.clients[u] = @ \ {s}], u)
    ELSE r
del_client_only(r, u, s) == [r EXCEPT !.clients[u] = @ \ {s}]

del_client(r, u, s) ==
    IF s \in r.clients[u]
    THEN reclaim([r EXCEPT !.clients[u] = @ \ {s}], u)
    ELSE r

\* Mutants of del_connection: the user is removed without the is_empty test;
\* the connection is looked up but stays.
del_connection_and_user(r, u, c) ==
    [r EXCEPT !.users = @ \ {u}, !.clients[u] = {}, !.conns[u] = {}]
del_connection_not(r, u, c) == r

del_connection(r, u, c) ==
    IF u \in r.users
    THEN reclaim([r EXCEPT !.conns[u] = @ \ {c}], u)
    ELSE r

\* Users::get_mut_connection removes what it returns.
get_mut_connection(r, u, c) == [r EXCEPT !.conns[u] = @ \ {c}]

\* The user a host is routed to: the entry of the port, or of port 0.
owner(r, d, p) ==
    IF r.domains[<<d, p>>] # None THEN r.domains[<<d, p>>] ELSE r.domains[<<d, 0>>]

\* The agents Users::get_mut_agent_by_domain may return, and the Connect's
\* protocol.
get_mut_agent_by_domain(r, d, p) ==
    IF owner(r, d, p) \in r.users THEN serving(r, owner(r, d, p), d, p) ELSE {}
connect_protocol(a, d, p) ==
    IF sock[a].pub[<<d, p>>] # "unpublished"
    THEN sock[a].pub[<<d, p>>]
    ELSE sock[a].pub[<<d, 0>>]

-----------------------------------------------------------------------------
(* Connections dropped with their user are lost: their sockets close.      *)

\* conn after the registry became r: what left a table without a reason of
\* its own was dropped.
dropped(r) ==
    [c \in Conn |-> IF conn[c].st = "pending" /\ c \notin r.conns[conn[c].uid]
                    THEN [conn[c] EXCEPT !.st = "lost"]
                    ELSE conn[c]]

Idle == admitting.kind = "idle"
NoAdmission ==
    [kind |-> "idle", uid |-> None, name |-> None, addr |-> None,
     session |-> None, pub |-> NothingPublished]

Init ==
    /\ reg = EmptyRegistry
    /\ sock = [a \in Addr |-> [st |-> "free", uid |-> None, name |-> None,
                               pub |-> NothingPublished]]
    /\ asked = [a \in Addr |-> {}]
    /\ shutdown = {}
    /\ csock = [s \in Session |-> [st |-> "fresh", uid |-> None]]
    /\ conn = [c \in Conn |-> [st |-> "fresh", uid |-> None, session |-> None,
                               target |-> None, by |-> None, silent |-> FALSE]]
    /\ certs = [u \in Uid |-> [n \in Name |-> FALSE]]
    /\ admitting = NoAdmission

\* The messages Load and Unload to the certificate manager.
\* Mutant of load: only the first agent of a name has its certificates loaded.
load_first(u, n, m) ==
    IF Published(m) # {} /\ reg.agents[u][n] = None
    THEN [certs EXCEPT ![u][n] = TRUE] ELSE certs

load(u, n, m) ==
    IF Published(m) # {} THEN [certs EXCEPT ![u][n] = TRUE] ELSE certs
unload(u, n) == [certs EXCEPT ![u][n] = FALSE]

-----------------------------------------------------------------------------
(* EventRequest: a new event socket, of a client or of an agent.           *)

\* Mutant of ClientEvent: the loop waits without knowing for which session.
ClientEvent_forgets(u, s) ==
    /\ Idle
    /\ csock[s].st = "fresh"
    /\ csock' = [csock EXCEPT ![s] = [st |-> "upgrading", uid |-> u]]
    /\ admitting' = [NoAdmission EXCEPT !.kind = "client", !.uid = u]
    /\ UNCHANGED <<reg, sock, asked, shutdown, conn, certs>>

\* The token is a client's: the session is answered, the loop waits.
ClientEvent(u, s) ==
    /\ Idle
    /\ csock[s].st = "fresh"
    /\ csock' = [csock EXCEPT ![s] = [st |-> "upgrading", uid |-> u]]
    /\ admitting' = [NoAdmission EXCEPT !.kind = "client", !.uid = u, !.session = s]
    /\ UNCHANGED <<reg, sock, asked, shutdown, conn, certs>>

\* The upgraded stream of the client arrives.
ClientStream ==
    /\ admitting.kind = "client"
    /\ reg' = add_client(reg, admitting.uid, admitting.session)
    /\ csock' = [csock EXCEPT ![admitting.session].st = "open"]
    /\ admitting' = NoAdmission
    /\ UNCHANGED <<sock, asked, shutdown, conn, certs>>

\* The token is an agent's.  An address is used again once its socket has
\* ended, the registry does not hold it any more, and the tasks of its agent
\* that still dial have finished.
AgentEvent(u, n, a, m) ==
    /\ Idle
    /\ \/ sock[a].st \in {"free", "ended"}
       \/ sock[a].st = "closed" /\ a \notin Registered(reg, sock[a].uid)
    /\ asked[a] = {}
    /\ sock' = [sock EXCEPT ![a] = [st |-> "upgrading", uid |-> u, name |-> n, pub |-> m]]
    /\ shutdown' = shutdown \ {a}
    /\ admitting' = [NoAdmission EXCEPT !.kind = "agent", !.uid = u, !.name = n,
                                        !.addr = a, !.pub = m]
    /\ UNCHANGED <<reg, asked, csock, conn, certs>>

\* The upgraded stream of the agent arrives: certificates are loaded for what
\* it publishes, it takes the place of an agent of the same name, and that
\* one is told to shut down.
AgentStream ==
    LET u == admitting.uid
        n == admitting.name
        a == admitting.addr
        previous == reg.agents[u][n]
    IN  /\ admitting.kind = "agent"
        /\ reg' = add_agent(reg, u, n, a, admitting.pub)
        /\ sock' = [sock EXCEPT ![a].st = "open"]
        /\ certs' = load(u, n, admitting.pub)
        /\ shutdown' = shutdown \cup {p \in {previous} \ {None} : sock[p].st = "open"}
        /\ admitting' = NoAdmission
        /\ UNCHANGED <<asked, csock, conn>>

\* The upgrade fails: its sender is dropped and the handler gives up.
StreamFails ==
    /\ ~Idle
    /\ admitting' = NoAdmission
    /\ sock' = IF admitting.kind = "agent"
               THEN [sock EXCEPT ![admitting.addr].st = "ended"] ELSE sock
    /\ csock' = IF admitting.kind = "client"
                THEN [csock EXCEPT ![admitting.session].st = "failed"] ELSE csock
    /\ UNCHANGED <<reg, asked, shutdown, conn, certs>>

-----------------------------------------------------------------------------
(* DataRequest and the transparent requests: connections.                  *)

\* Mutant of OpenConnection: the Connect goes to some agent of the user.
OpenConnection_any_agent(c, u, session, n) ==
    \E a \in Registered(reg, u) :
       /\ conn[c].st = "fresh"
       /\ conn' = [conn EXCEPT ![c] = [st |-> "pending", uid |-> u, session |-> session,
                                       target |-> n, by |-> None, silent |-> FALSE]]
       /\ reg' = add_connection(reg, u, c)
       /\ asked' = [asked EXCEPT ![a] = @ \cup {c}]

\* A connection is created for agent n of user u and its Connect event sent;
\* the result of the send is ignored, so on a socket that broke or was closed it
\* is lost.
OpenConnection(c, u, session, n) ==
    LET a == reg.agents[u][n]
    IN  /\ conn[c].st = "fresh"
        /\ conn' = [conn EXCEPT ![c] = [st |-> "pending", uid |-> u, session |-> session,
                                        target |-> n, by |-> None, silent |-> FALSE]]
        /\ reg' = add_connection(reg, u, c)
        /\ asked' = IF sock[a].st = "open"
                    THEN [asked EXCEPT ![a] = @ \cup {c}] ELSE asked

\* A client asks for a connection to agent n under its session.  A session that
\* the registry does not know is answered "Event connection is lost", one that
\* asks for an agent it does not know "not found", and nothing changes.
ClientData(s, n) ==
    LET u == csock[s].uid
    IN  /\ Idle
        /\ csock[s].st \in {"open", "broken", "closed", "ended"}
        /\ s \in reg.clients[u] /\ reg.agents[u][n] # None
        /\ \E c \in Conn : OpenConnection(c, u, s, n)
        /\ UNCHANGED <<sock, shutdown, csock, certs, admitting>>

\* A plain HTTP request for a published host.
HttpTransparent(d, p) ==
    /\ Idle
    /\ \E a \in get_mut_agent_by_domain(reg, d, p), c \in Conn :
          OpenConnection(c, owner(reg, d, p), None, sock[a].name)
    /\ UNCHANGED <<sock, shutdown, csock, certs, admitting>>

\* A TLS stream for a host published as TCP; otherwise it is shut down.
TlsTransparent(d, p) ==
    /\ Idle
    /\ \E a \in get_mut_agent_by_domain(reg, d, p), c \in Conn :
          /\ connect_protocol(a, d, p) = "TCP"
          /\ OpenConnection(c, owner(reg, d, p), None, sock[a].name)
    /\ UNCHANGED <<sock, shutdown, csock, certs, admitting>>

\* The agent of socket a dials back for connection c.  The connection leaves
\* the table before the answer is sent: if the agent is gone by then
\* (`answered` is FALSE) the connection is dropped.
AgentData(a, c, answered) ==
    LET u == sock[a].uid
    IN  /\ Idle
        /\ c \in asked[a]
        /\ asked' = [asked EXCEPT ![a] = @ \ {c}]
        /\ IF c \in reg.conns[u]
           THEN /\ reg' = get_mut_connection(reg, u, c)
                /\ conn' = IF answered
                           THEN [conn EXCEPT ![c].st = "serving", ![c].by = <<u, sock[a].name>>]
                           ELSE [conn EXCEPT ![c].st = "lost"]
           ELSE UNCHANGED <<reg, conn>>
        /\ UNCHANGED <<sock, shutdown, csock, certs, admitting>>

-----------------------------------------------------------------------------
(* Messages and errors of the registered event sockets.                    *)

\* The agent of socket a reports that it cannot serve connection c.  The
\* session that asked, if it is still registered, is told.
AgentError(a, c) ==
    LET u  == sock[a].uid
        r  == del_connection(reg, u, c)
        st == IF c \in reg.conns[u] /\ conn[c].session \in r.clients[u]
              THEN "failed" ELSE "lost"
    IN  /\ Idle
        /\ sock[a].st \in {"open", "broken"}
        /\ c \in asked[a]
        /\ asked' = [asked EXCEPT ![a] = @ \ {c}]
        /\ reg' = r
        /\ conn' = IF c \in reg.conns[u]
                   THEN [dropped(r) EXCEPT ![c].st = st]
                   ELSE dropped(r)
        /\ UNCHANGED <<sock, shutdown, csock, certs, admitting>>

\* Mutants of superseded: the socket address is not compared, one way or the
\* other.
superseded_never(agent, a) == FALSE
superseded_always(agent, a) == agent # None

\* The agent del_agent returned is registered on another socket than a.
superseded(agent, a) == agent \notin {None, a}

\* The event stream of socket a yields an error.  The agent registered under
\* its name is taken out, and put back when it is another socket's.
AgentDisconnected(a) ==
    LET u == sock[a].uid
        n == sock[a].name
    IN  /\ Idle
        /\ sock[a].st = "broken"
        /\ sock' = [sock EXCEPT ![a].st = "ended"]
        /\ \E out \in del_agent(reg, u, n) :
              IF superseded(out.agent, a)
              THEN /\ reg' = add_agent(out.reg, u, n, out.agent, sock[out.agent].pub)
                   /\ conn' = dropped(out.reg)
                   /\ UNCHANGED certs
              ELSE /\ reg' = out.reg
                   /\ conn' = dropped(out.reg)
                   /\ certs' = unload(u, n)
        /\ UNCHANGED <<asked, shutdown, csock, admitting>>

\* The event stream of session s yields an error.
ClientDisconnected(s) ==
    LET r == del_client(reg, csock[s].uid, s)
    IN  /\ Idle
        /\ csock[s].st = "broken"
        /\ csock' = [csock EXCEPT ![s].st = "ended"]
        /\ reg' = r
        /\ conn' = dropped(r)
        /\ UNCHANGED <<sock, asked, shutdown, certs, admitting>>

-----------------------------------------------------------------------------
(* The peers, as far as the gateway can tell.                              *)

\* An agent's socket breaks; Connect events under way may be lost with it.
AgentBreaks(a) ==
    /\ sock[a].st = "open"
    /\ sock' = [sock EXCEPT ![a].st = "broken"]
    /\ \E kept \in SUBSET asked[a] : asked' = [asked EXCEPT ![a] = kept]
    /\ UNCHANGED <<reg, shutdown, csock, conn, certs, admitting>>

\* An agent's event socket is closed: its stream yields None and nothing is done.
AgentCloses(a) ==
    /\ sock[a].st = "open"
    /\ sock' = [sock EXCEPT ![a].st = "closed"]
    /\ \E kept \in SUBSET asked[a] : asked' = [asked EXCEPT ![a] = kept]
    /\ UNCHANGED <<reg, shutdown, csock, conn, certs, admitting>>

\* The agent will not answer for connection c, although its socket is open: its
\* Error was dropped where the send was Pending, or its dial does not end (the
\* dials of data_connect have no time-out).
AgentSilent(a, c) ==
    /\ sock[a].st = "open"
    /\ c \in asked[a]
    /\ asked' = [asked EXCEPT ![a] = @ \ {c}]
    /\ conn' = [conn EXCEPT ![c].silent = TRUE]
    /\ UNCHANGED <<reg, sock, shutdown, csock, certs, admitting>>

\* The agent's process ends after its socket did, with the tasks that dial.
AgentTasksEnd(a) ==
    /\ sock[a].st \in {"broken", "closed", "ended"}
    /\ asked[a] # {}
    /\ asked' = [asked EXCEPT ![a] = {}]
    /\ UNCHANGED <<reg, sock, shutdown, csock, conn, certs, admitting>>

\* An agent that receives Shutdown exits, and the tasks it spawned with it.
AgentExits(a) ==
    /\ a \in shutdown
    /\ sock' = [sock EXCEPT ![a].st = IF @ = "open" THEN "broken" ELSE @]
    /\ asked' = [asked EXCEPT ![a] = {}]
    /\ shutdown' = shutdown \ {a}
    /\ UNCHANGED <<reg, csock, conn, certs, admitting>>

ClientBreaks(s) ==
    /\ csock[s].st = "open"
    /\ csock' = [csock EXCEPT ![s].st = "broken"]
    /\ UNCHANGED <<reg, sock, asked, shutdown, conn, certs, admitting>>

\* A client's event socket is closed: the same.
ClientCloses(s) ==
    /\ csock[s].st = "open"
    /\ csock' = [csock EXCEPT ![s].st = "closed"]
    /\ UNCHANGED <<reg, sock, asked, shutdown, conn, certs, admitting>>

-----------------------------------------------------------------------------
Next ==
    \/ \E u \in Uid, s \in Session : ClientEvent(u, s)
    \/ \E u \in Uid, n \in Name, a \in Addr : \E m \in Publishes[u] : AgentEvent(u, n, a, m)
    \/ ClientStream
    \/ AgentStream
    \/ StreamFails
    \/ \E s \in Session, n \in Name : ClientData(s, n)
    \/ \E d \in Domain, p \in Port : HttpTransparent(d, p)
    \/ \E d \in Domain, p \in Port : TlsTransparent(d, p)
    \/ \E a \in Addr, c \in Conn, ok \in BOOLEAN : AgentData(a, c, ok)
    \/ \E a \in Addr, c \in Conn : AgentError(a, c)
    \/ \E a \in Addr : AgentDisconnected(a)
    \/ \E s \in Session : ClientDisconnected(s)
    \/ \E a \in Addr : AgentBreaks(a)
    \/ \E a \in Addr : AgentCloses(a)
    \/ \E a \in Addr, c \in Conn : AgentSilent(a, c)
    \/ \E a \in Addr : AgentTasksEnd(a)
    \/ \E a \in Addr : AgentExits(a)
    \/ \E s \in Session : ClientBreaks(s)
    \/ \E s \in Session : ClientCloses(s)

Spec == Init /\ [][Next]_vars

\* An upgrade ends one way or the other (hyper resolves it or drops it).  The
\* branches of select! are polled in random order and SelectAll is fair among
\* its streams, so an event that keeps being ready whenever the loop is idle is
\* served.  A task of the agent handles every Connect it got, with a dial or an
\* error, unless one of them never comes.
\* Nothing is assumed of sockets breaking or closing or of new requests.
Fairness ==
    /\ WF_vars(ClientStream \/ AgentStream \/ StreamFails)
    /\ \A a \in Addr : SF_vars(AgentDisconnected(a))
    /\ \A s \in Session : SF_vars(ClientDisconnected(s))
    /\ \A a \in Addr, c \in Conn :
          SF_vars(\/ AgentError(a, c)
                  \/ \E ok \in BOOLEAN : AgentData(a, c, ok)
                  \/ AgentSilent(a, c))

FairSpec == Spec /\ Fairness

-----------------------------------------------------------------------------
(* Properties.                                                             *)

Registry ==
    [users   : SUBSET Uid,
     agents  : [Uid -> [Name -> Addr \cup {None}]],
     clients : [Uid -> SUBSET Session],
     conns   : [Uid -> SUBSET Conn],
     domains : [Host -> Uid \cup {None}]]

AgentSocket ==
    [st   : {"free", "upgrading", "open", "broken", "closed", "ended"},
     uid  : Uid \cup {None},
     name : Name \cup {None},
     pub  : PublishMap]

ClientSocket ==
    [st  : {"fresh", "upgrading", "open", "broken", "closed", "ended", "failed"},
     uid : Uid \cup {None}]

ConnRecord ==
    [st      : {"fresh", "pending", "serving", "failed", "lost"},
     uid     : Uid \cup {None},
     session : Session \cup {None},
     target  : Name \cup {None},
     by      : (Uid \X Name) \cup {None},
     silent  : BOOLEAN]  \* the agent will not answer (no field of the code)

Admission ==
    [kind    : {"idle", "client", "agent"},
     uid     : Uid \cup {None},
     name    : Name \cup {None},
     addr    : Addr \cup {None},
     session : Session \cup {None},
     pub     : PublishMap]

\* A socket, a session and a connection that are in use belong to a user.
SocketsOK ==
    /\ sock \in [Addr -> AgentSocket]
    /\ \A a \in Addr : sock[a].st # "free" => sock[a].uid \in Uid /\ sock[a].name \in Name
SessionsOK ==
    /\ csock \in [Session -> ClientSocket]
    /\ \A s \in Session : csock[s].st # "fresh" => csock[s].uid \in Uid
ConnsOK ==
    /\ conn \in [Conn -> ConnRecord]
    /\ \A c \in Conn : conn[c].st # "fresh" => conn[c].uid \in Uid /\ conn[c].target \in Name
AdmissionOK ==
    /\ admitting \in Admission
    /\ admitting.kind = "client" => admitting.uid \in Uid /\ admitting.session \in Session
    /\ admitting.kind = "agent" =>
          admitting.uid \in Uid /\ admitting.name \in Name /\ admitting.addr \in Addr

\* Every variable has its type, and the loop waits only for an upgrade it
\* knows what to do with (State::run, Users, User).
TypeOK ==
    /\ reg \in Registry
    /\ SocketsOK
    /\ asked \in [Addr -> SUBSET Conn]
    /\ shutdown \subseteq Addr
    /\ SessionsOK
    /\ ConnsOK
    /\ certs \in [Uid -> [Name -> BOOLEAN]]
    /\ AdmissionOK

\* Whatever the order of reconnections, late errors and removals of users, an
\* agent or a client in the registry is there under its own user (and name), and
\* either its event stream is still being polled, so that an error of it will be
\* noticed, or it was closed: no other ghosts are left by add_agent, del_agent,
\* del_client and the Err arms of State::run.
GhostsWereClosed ==
    /\ \A u \in Uid, n \in Name :
          LET a == reg.agents[u][n]
          IN  a # None => /\ sock[a].st \in {"open", "broken", "closed"}
                          /\ sock[a].uid = u
                          /\ sock[a].name = n
    /\ \A u \in Uid : \A s \in reg.clients[u] :
          csock[s].st \in {"open", "broken", "closed"} /\ csock[s].uid = u

\* A user stays in the registry only for an agent or a client: none is left
\* behind when the last of them goes (the is_empty tests of users.rs).
ReclaimedUsers ==
    \A u \in reg.users : Registered(reg, u) # {} \/ reg.clients[u] # {}

\* The publish maps of different users share no domain.
OwnDomains ==
    \A u, v \in Uid : \A m \in Publishes[u], k \in Publishes[v] :
        \A h \in Published(m), g \in Published(k) : h[1] = g[1] => u = v

\* Where no two users publish the same domain, every host published by a
\* registered agent is routed to its user, however often agents that publish
\* overlapping hosts come, replace one another and go (the domain table kept
\* by add_agent and del_agent, read by get_mut_agent_by_domain).
RoutableHosts ==
    \A u \in Uid, n \in Name :
        reg.agents[u][n] # None =>
            \A h \in Published(sock[reg.agents[u][n]].pub) :
                owner(reg, h[1], h[2]) = u

\* The certificate manager's last word about an agent is Load while it is
\* registered with something published, and is Unload once no agent of the
\* name is registered: a late error of a superseded socket does not unload
\* its successor's certificates (the Err arm of agent events).
CertsFollowRegistration ==
    \A u \in Uid, n \in Name :
        LET a == reg.agents[u][n]
        IN  /\ certs[u][n] => a # None
            /\ a # None /\ Published(sock[a].pub) # {} => certs[u][n]

\* A connection that is served was dialled by the agent it was opened to, of
\* the user it was opened for, although the data request names neither: also
\* when that agent has meanwhile been replaced or its address is in use again
\* (the DataRequest arm without a command).
BridgedToTarget ==
    \A c \in Conn :
        conn[c].st = "serving" => conn[c].by = <<conn[c].uid, conn[c].target>>

\* An agent leaves the registry only by an error of its own socket, or for a
\* new agent of its name whose upgrade just completed: the late error of an
\* older socket never takes it away (socket_addr != peer_socket_addr).
RegistrationStable ==
    [][\A u \in Uid, n \in Name :
          LET a == reg.agents[u][n]
          IN  a # None /\ reg'.agents[u][n] # a =>
                 \/ sock[a].st = "broken" /\ sock'[a].st = "ended"
                 \/ admitting.kind = "agent" /\ reg'.agents[u][n] = admitting.addr]_vars

\* The registry forgets a client whose socket has not ended, or drops a
\* connection that is still waiting, only with a user that had at most one
\* agent (is_empty counts agents alone).
ForgottenOnlyWithLastAgent ==
    [][\A u \in Uid :
          \/ \E s \in reg.clients[u] \ reg'.clients[u] : csock'[s].st # "ended"
          \/ \E c \in reg.conns[u] \ reg'.conns[u] :
                conn'[c].st = "lost" /\ \A a \in Addr : c \in asked[a] => c \in asked'[a]
          => \A n, k \in Name :
                reg.agents[u][n] # None /\ reg.agents[u][k] # None => n = k]_vars

\* An agent whose socket broke is eventually out of the registry, although
\* other upgrades keep the loop from reading its error.
DisconnectNoticed ==
    \A a \in Addr :
        sock[a].st = "broken" ~> \A u \in Uid, n \in Name : reg.agents[u][n] # a

\* A connection whose Connect reached an agent does not wait in the registry
\* for ever while that agent's socket is open: whether the agent dials or reports
\* an error, whoever else connects, disconnects or is upgraded meanwhile.  The
\* exceptions are the code's: a Connect lost with its socket, an Error dropped
\* on an open one, and a dial that never ends leave their connection behind.
OnlyUnansweredLeak ==
    \A a \in Addr, c \in Conn :
        c \in asked[a] /\ sock[a].st = "open"
        ~> \/ sock[a].st # "open"
           \/ conn[c].silent
           \/ \A u \in Uid : c \notin reg.conns[u]

-----------------------------------------------------------------------------
(* The inductive invariant behind the safety properties.                   *)

\* A user that is not in the registry r has left nothing there.
NoResidueIn(r) ==
    \A u \in Uid \ r.users :
        Registered(r, u) = {} /\ r.clients[u] = {} /\ r.conns[u] = {}
NoResidue == NoResidueIn(reg)

\* The socket whose upgrade the loop waits for is known and not yet in use.
UpgradePending ==
    /\ admitting.kind = "client" =>
          /\ csock[admitting.session].st = "upgrading"
          /\ csock[admitting.session].uid = admitting.uid
    /\ admitting.kind = "agent" =>
          /\ sock[admitting.addr].st = "upgrading"
          /\ sock[admitting.addr].uid = admitting.uid
          /\ sock[admitting.addr].name = admitting.name
          /\ sock[admitting.addr].pub = admitting.pub

\* A Connect under way is at the agent its connection was opened to.
AskedOfTarget ==
    \A a \in Addr : \A c \in asked[a] :
        /\ conn[c].st # "fresh"
        /\ conn[c].uid = sock[a].uid
        /\ conn[c].target = sock[a].name

IInv ==
    /\ TypeOK
    /\ GhostsWereClosed
    /\ NoResidue
    /\ UpgradePending
    /\ AskedOfTarget
    /\ BridgedToTarget

\* What an agent publishes is what its user may publish.
PublishesOwn ==
    \A a \in Addr : sock[a].st # "free" => sock[a].pub \in Publishes[sock[a].uid]

\* Every host of a registered agent has an entry of its own, of the agent's user.
HostsEntered ==
    \A u \in Uid, n \in Name :
        reg.agents[u][n] # None =>
            \A h \in Published(sock[reg.agents[u][n]].pub) : reg.domains[h] = u

\* The domain table of users who share no domain: del_agent never stops early.
DomainInv == PublishesOwn /\ HostsEntered /\ ReclaimedUsers

=============================================================================
