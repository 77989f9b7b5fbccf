--------------------------- MODULE Gateway_proofs ---------------------------
(***************************************************************************)
(* Theorems about GatewayState, for every value of its constants, and      *)
(* about AgentFleet: the agent processes leave the gateway in a behaviour  *)
(* of GatewayState, and never shut all of a name down.                     *)
(***************************************************************************)
EXTENDS AgentFleet, TLAPS

-----------------------------------------------------------------------------
(* What the operations of the registry return.                             *)

\* An agent is added: its entry, its hosts, and its user.
LEMMA AddAgentFacts ==
    ASSUME NEW r \in Registry, NEW u \in Uid, NEW n \in Name, NEW a \in Addr,
           NEW m \in PublishMap
    PROVE  /\ add_agent(r, u, n, a, m) \in Registry
           /\ add_agent(r, u, n, a, m).users = r.users \cup {u}
           /\ add_agent(r, u, n, a, m).agents = [r.agents EXCEPT ![u][n] = a]
           /\ add_agent(r, u, n, a, m).clients = r.clients
           /\ add_agent(r, u, n, a, m).conns = r.conns
           /\ add_agent(r, u, n, a, m).domains =
                 [h \in Host |-> IF h \in Published(m) THEN u ELSE r.domains[h]]
BY DEF Registry, add_agent

\* A client is added to its user.
LEMMA AddClientFacts ==
    ASSUME NEW r \in Registry, NEW u \in Uid, NEW s \in Session
    PROVE  /\ add_client(r, u, s) \in Registry
           /\ add_client(r, u, s).users = r.users \cup {u}
           /\ add_client(r, u, s).agents = r.agents
           /\ add_client(r, u, s).clients = [r.clients EXCEPT ![u] = @ \cup {s}]
           /\ add_client(r, u, s).conns = r.conns
           /\ add_client(r, u, s).domains = r.domains
BY DEF Registry, add_client

\* A connection is added to its user.
LEMMA AddConnectionFacts ==
    ASSUME NEW r \in Registry, NEW u \in Uid, NEW c \in Conn
    PROVE  /\ add_connection(r, u, c) \in Registry
           /\ add_connection(r, u, c).users = r.users \cup {u}
           /\ add_connection(r, u, c).agents = r.agents
           /\ add_connection(r, u, c).clients = r.clients
           /\ add_connection(r, u, c).conns = [r.conns EXCEPT ![u] = @ \cup {c}]
           /\ add_connection(r, u, c).domains = r.domains
BY DEF Registry, add_connection

\* A user is reclaimed only when none of its agents is left.
LEMMA ReclaimFacts ==
    ASSUME NEW r \in Registry, NEW u \in Uid
    PROVE  /\ reclaim(r, u) \in Registry
           /\ reclaim(r, u).agents = r.agents
           /\ reclaim(r, u).domains = r.domains
           /\ Registered(r, u) # {} => reclaim(r, u) = r
           /\ Registered(r, u) = {} =>
                 /\ reclaim(r, u).users = r.users \ {u}
                 /\ reclaim(r, u).clients = [r.clients EXCEPT ![u] = {}]
                 /\ reclaim(r, u).conns = [r.conns EXCEPT ![u] = {}]
           /\ \A v \in Uid : /\ reclaim(r, u).clients[v] \subseteq r.clients[v]
                             /\ reclaim(r, u).conns[v] \subseteq r.conns[v]
<1>1. CASE Registered(r, u) # {}
  BY <1>1 DEF reclaim
<1>2. CASE Registered(r, u) = {}
  BY <1>2 DEF Registry, reclaim
<1> QED
  BY <1>1, <1>2

\* Hosts are cleared: nothing else is touched.
LEMMA ClearFacts ==
    ASSUME NEW r \in Registry, NEW hosts, NEW D
    PROVE  /\ clear(r, hosts, D) \in Registry
           /\ clear(r, hosts, D).users = r.users
           /\ clear(r, hosts, D).agents = r.agents
           /\ clear(r, hosts, D).clients = r.clients
           /\ clear(r, hosts, D).conns = r.conns
BY DEF Registry, clear

\* The clean-up clears hosts and reclaims the user, or stops early.
LEMMA CleanUpForms ==
    ASSUME NEW r, NEW u, NEW a, NEW out \in clean_up(r, u, a)
    PROVE  \E D : \/ out = [reg |-> reclaim(clear(r, unserved(r, u, a), D), u), agent |-> a]
                  \/ out = [reg |-> clear(r, unserved(r, u, a), D), agent |-> None]
<1> DEFINE hosts    == unserved(r, u, a)
           doms     == {d \in Domain : ports(hosts, d) # {}}
           ok       == {d \in doms : passes(r, hosts, d)}
           P(D)     == [reg |-> reclaim(clear(r, hosts, D), u), agent |-> a]
           Q(D)     == [reg |-> clear(r, hosts, D), agent |-> None]
           full     == {doms} \cap {ok}
           part     == {E \in SUBSET doms :
                            \E d \in E : stops(r, hosts, d) /\ E \ {d} \subseteq ok}
<1>1. clean_up(r, u, a) = {P(D) : D \in full} \cup {Q(D) : D \in part}
  BY Zenon DEF clean_up
<1> HIDE DEF full, part, P, Q
<1>2. out \in {P(D) : D \in full} \cup {Q(D) : D \in part}
  BY <1>1
<1>3. \/ \E D \in full : out = P(D)
      \/ \E D \in part : out = Q(D)
  BY <1>2
<1>4. \E D : out = P(D) \/ out = Q(D)
  BY <1>3
<1> QED
  BY <1>4 DEF P, Q, hosts

\* Whatever del_agent returns, it took the agent of that name out, and no other,
\* and it can only have removed clients and connections of the user.
LEMMA DelAgentFacts ==
    ASSUME NEW r \in Registry, NEW u \in Uid, NEW n \in Name,
           NEW out \in del_agent(r, u, n)
    PROVE  /\ out.reg \in Registry
           /\ u \notin r.users \/ r.agents[u][n] = None =>
                 out.reg = r /\ out.agent = None
           /\ u \in r.users /\ r.agents[u][n] # None =>
                 /\ out.reg.agents = [r.agents EXCEPT ![u][n] = None]
                 /\ out.agent \in {None, r.agents[u][n]}
           /\ \A v \in Uid : /\ out.reg.clients[v] \subseteq r.clients[v]
                             /\ out.reg.conns[v] \subseteq r.conns[v]
<1>1. CASE u \notin r.users \/ r.agents[u][n] = None
  BY <1>1 DEF del_agent
<1>2. CASE u \in r.users /\ r.agents[u][n] # None
  <2> DEFINE a  == r.agents[u][n]
             r1 == [r EXCEPT !.agents[u][n] = None]
  <2>1. /\ r1 \in Registry
        /\ r1.agents = [r.agents EXCEPT ![u][n] = None]
        /\ r1.users = r.users
        /\ r1.clients = r.clients
        /\ r1.conns = r.conns
    BY DEF Registry
  <2>2. out \in clean_up(r1, u, a)
    BY <1>2 DEF del_agent
  <2> HIDE DEF r1, a
  <2>3. PICK D : \/ out = [reg |-> reclaim(clear(r1, unserved(r1, u, a), D), u), agent |-> a]
                 \/ out = [reg |-> clear(r1, unserved(r1, u, a), D), agent |-> None]
    BY <2>2, CleanUpForms
  <2> DEFINE r2 == clear(r1, unserved(r1, u, a), D)
  <2>4. /\ r2 \in Registry
        /\ r2.agents = r1.agents
        /\ r2.clients = r1.clients
        /\ r2.conns = r1.conns
    BY <2>1, ClearFacts
  <2>5. \/ out.reg = reclaim(r2, u) /\ out.agent = a
        \/ out.reg = r2 /\ out.agent = None
    BY <2>3
  <2> HIDE DEF r2
  <2>6. /\ reclaim(r2, u) \in Registry
        /\ reclaim(r2, u).agents = r2.agents
        /\ \A v \in Uid : /\ reclaim(r2, u).clients[v] \subseteq r2.clients[v]
                          /\ reclaim(r2, u).conns[v] \subseteq r2.conns[v]
    BY <2>4, ReclaimFacts
  <2>7. /\ out.reg \in Registry
        /\ out.reg.agents = [r.agents EXCEPT ![u][n] = None]
        /\ \A v \in Uid : /\ out.reg.clients[v] \subseteq r.clients[v]
                          /\ out.reg.conns[v] \subseteq r.conns[v]
    BY <2>1, <2>4, <2>5, <2>6
  <2>8. out.agent \in {None, r.agents[u][n]}
    BY <2>5 DEF a
  <2> QED
    BY <1>2, <2>7, <2>8
<1> QED
  BY <1>1, <1>2

\* A client is removed: only its session and perhaps its user go.
LEMMA DelClientFacts ==
    ASSUME NEW r \in Registry, NEW u \in Uid, NEW s \in Session
    PROVE  /\ del_client(r, u, s) \in Registry
           /\ del_client(r, u, s).agents = r.agents
           /\ s \notin del_client(r, u, s).clients[u]
           /\ \A v \in Uid : /\ del_client(r, u, s).clients[v] \subseteq r.clients[v]
                             /\ del_client(r, u, s).conns[v] \subseteq r.conns[v]
<1> DEFINE r1 == [r EXCEPT !.clients[u] = @ \ {s}]
<1>1. /\ r1 \in Registry
      /\ r1.agents = r.agents
      /\ r1.clients = [r.clients EXCEPT ![u] = @ \ {s}]
      /\ r1.conns = r.conns
  BY DEF Registry
<1> HIDE DEF r1
<1>2. /\ reclaim(r1, u) \in Registry
      /\ reclaim(r1, u).agents = r1.agents
      /\ \A v \in Uid : /\ reclaim(r1, u).clients[v] \subseteq r1.clients[v]
                        /\ reclaim(r1, u).conns[v] \subseteq r1.conns[v]
  BY <1>1, ReclaimFacts
<1>3. del_client(r, u, s) = IF s \in r.clients[u] THEN reclaim(r1, u) ELSE r
  BY DEF del_client, r1
<1>4. /\ r1.clients[u] = r.clients[u] \ {s}
      /\ \A v \in Uid : r1.clients[v] \subseteq r.clients[v]
  BY <1>1 DEF Registry
<1> QED
  BY <1>1, <1>2, <1>3, <1>4

\* A connection is removed: only it and perhaps its user go.
LEMMA DelConnectionFacts ==
    ASSUME NEW r \in Registry, NEW u \in Uid, NEW c \in Conn
    PROVE  /\ del_connection(r, u, c) \in Registry
           /\ del_connection(r, u, c).agents = r.agents
           /\ \A v \in Uid :
                 /\ del_connection(r, u, c).clients[v] \subseteq r.clients[v]
                 /\ del_connection(r, u, c).conns[v] \subseteq r.conns[v]
<1> DEFINE r1 == [r EXCEPT !.conns[u] = @ \ {c}]
<1>1. /\ r1 \in Registry
      /\ r1.agents = r.agents
      /\ r1.clients = r.clients
      /\ \A v \in Uid : r1.conns[v] \subseteq r.conns[v]
  BY DEF Registry
<1> HIDE DEF r1
<1>2. /\ reclaim(r1, u) \in Registry
      /\ reclaim(r1, u).agents = r1.agents
      /\ \A v \in Uid : /\ reclaim(r1, u).clients[v] \subseteq r1.clients[v]
                        /\ reclaim(r1, u).conns[v] \subseteq r1.conns[v]
  BY <1>1, ReclaimFacts
<1>3. del_connection(r, u, c) = IF u \in r.users THEN reclaim(r1, u) ELSE r
  BY DEF del_connection, r1
<1> QED
  BY <1>1, <1>2, <1>3

\* A connection that is taken out leaves everything else as it was.
LEMMA GetMutConnectionFacts ==
    ASSUME NEW r \in Registry, NEW u \in Uid, NEW c \in Conn
    PROVE  /\ get_mut_connection(r, u, c) \in Registry
           /\ get_mut_connection(r, u, c).users = r.users
           /\ get_mut_connection(r, u, c).agents = r.agents
           /\ get_mut_connection(r, u, c).clients = r.clients
           /\ get_mut_connection(r, u, c).conns = [r.conns EXCEPT ![u] = @ \ {c}]
           /\ get_mut_connection(r, u, c).domains = r.domains
BY DEF Registry, get_mut_connection

\* A connection's sockets may close, but nothing else of it changes, when the
\* registry drops it.
LEMMA DroppedFacts ==
    ASSUME conn \in [Conn -> ConnRecord], NEW r
    PROVE  /\ dropped(r) \in [Conn -> ConnRecord]
           /\ \A c \in Conn :
                 /\ dropped(r)[c].uid = conn[c].uid
                 /\ dropped(r)[c].target = conn[c].target
                 /\ dropped(r)[c].by = conn[c].by
                 /\ (dropped(r)[c].st = conn[c].st \/ dropped(r)[c].st = "lost")
                 /\ dropped(r)[c].st = "lost" => conn[c].st \in {"pending", "lost"}
BY DEF dropped, ConnRecord

-----------------------------------------------------------------------------
(* Type correctness.                                                       *)

\* To publish nothing is a publish map.
LEMMA NothingPublishedType == NothingPublished \in PublishMap
BY DEF NothingPublished, PublishMap, Protocol

\* The gateway starts with every variable of its type.
LEMMA InitType == Init => TypeOK
BY NothingPublishedType
DEF Init, TypeOK, EmptyRegistry, Registry, AgentSocket, ConnRecord, ClientSocket,
    Admission, NoAdmission, SocketsOK, SessionsOK, ConnsOK, AdmissionOK

\* No upgrade is under way when there is none to wait for.
LEMMA NoAdmissionOK == NoAdmission \in Admission /\ NoAdmission.kind = "idle"
BY NothingPublishedType DEF NoAdmission, Admission

\* A socket that changes its state only stays well typed.
LEMMA SocketsStep ==
    ASSUME SocketsOK, NEW a \in Addr, sock[a].st # "free",
           NEW st \in {"open", "broken", "closed", "ended"}, sock' = [sock EXCEPT ![a].st = st]
    PROVE  /\ SocketsOK'
           /\ sock'[a].st = st
           /\ sock'[a].uid = sock[a].uid
           /\ sock'[a].name = sock[a].name
           /\ sock'[a].pub = sock[a].pub
           /\ \A b \in Addr \ {a} : sock'[b] = sock[b]
<1>1. sock[a] \in AgentSocket
  BY DEF SocketsOK
<1>2. /\ [sock[a] EXCEPT !.st = st] \in AgentSocket
      /\ [sock[a] EXCEPT !.st = st].uid = sock[a].uid
      /\ [sock[a] EXCEPT !.st = st].name = sock[a].name
      /\ [sock[a] EXCEPT !.st = st].pub = sock[a].pub
      /\ [sock[a] EXCEPT !.st = st].st = st
  BY <1>1 DEF AgentSocket
<1>3. sock'[a] = [sock[a] EXCEPT !.st = st] /\ \A b \in Addr \ {a} : sock'[b] = sock[b]
  BY DEF SocketsOK
<1>4. sock' \in [Addr -> AgentSocket]
  BY <1>2 DEF SocketsOK
<1> QED
  BY <1>2, <1>3, <1>4 DEF SocketsOK

\* Likewise a session whose socket changes its state only.
LEMMA SessionsStep ==
    ASSUME SessionsOK, NEW s \in Session, csock[s].st # "fresh",
           NEW st \in {"open", "broken", "closed", "ended", "failed"},
           csock' = [csock EXCEPT ![s].st = st]
    PROVE  /\ SessionsOK'
           /\ csock'[s].st = st
           /\ csock'[s].uid = csock[s].uid
           /\ \A z \in Session \ {s} : csock'[z] = csock[z]
<1>1. csock[s] \in ClientSocket
  BY DEF SessionsOK
<1>2. /\ [csock[s] EXCEPT !.st = st] \in ClientSocket
      /\ [csock[s] EXCEPT !.st = st].uid = csock[s].uid
      /\ [csock[s] EXCEPT !.st = st].st = st
  BY <1>1 DEF ClientSocket
<1>3. csock'[s] = [csock[s] EXCEPT !.st = st] /\ \A z \in Session \ {s} : csock'[z] = csock[z]
  BY DEF SessionsOK
<1>4. csock' \in [Session -> ClientSocket]
  BY <1>2 DEF SessionsOK
<1> QED
  BY <1>2, <1>3, <1>4 DEF SessionsOK

\* What OpenConnection changes: one connection, one table, one agent's Connects.
LEMMA OpenConnectionFacts ==
    ASSUME reg \in Registry, ConnsOK, asked \in [Addr -> SUBSET Conn],
           NEW c \in Conn, NEW u \in Uid, NEW session \in Session \cup {None},
           NEW n \in Name, OpenConnection(c, u, session, n)
    PROVE  /\ reg' \in Registry
           /\ reg'.users = reg.users \cup {u}
           /\ reg'.agents = reg.agents
           /\ reg'.clients = reg.clients
           /\ \A v \in Uid \ {u} : reg'.conns[v] = reg.conns[v]
           /\ ConnsOK'
           /\ conn[c].st = "fresh"
           /\ conn'[c].st = "pending"
           /\ conn'[c].uid = u
           /\ conn'[c].target = n
           /\ \A k \in Conn \ {c} : conn'[k] = conn[k]
           /\ asked' \in [Addr -> SUBSET Conn]
           /\ \A b \in Addr : asked'[b] \subseteq asked[b] \cup {c}
           /\ \A b \in Addr \ {reg.agents[u][n]} : asked'[b] = asked[b]
<1> DEFINE new == [st |-> "pending", uid |-> u, session |-> session, target |-> n, by |-> None,
                    silent |-> FALSE]
<1>1. /\ conn[c].st = "fresh"
      /\ conn' = [conn EXCEPT ![c] = new]
      /\ reg' = add_connection(reg, u, c)
      /\ asked' = asked \/ asked' = [asked EXCEPT ![reg.agents[u][n]] = @ \cup {c}]
  BY DEF OpenConnection
<1>2. new \in ConnRecord /\ new.st = "pending" /\ new.uid = u /\ new.target = n
  BY DEF ConnRecord
<1> HIDE DEF new
<1>3. /\ conn' \in [Conn -> ConnRecord]
      /\ conn'[c] = new
      /\ \A k \in Conn \ {c} : conn'[k] = conn[k]
  BY <1>1, <1>2 DEF ConnsOK
<1>4. ConnsOK'
  BY <1>2, <1>3 DEF ConnsOK
<1>5. /\ reg' \in Registry
      /\ reg'.users = reg.users \cup {u}
      /\ reg'.agents = reg.agents
      /\ reg'.clients = reg.clients
      /\ reg'.conns = [reg.conns EXCEPT ![u] = @ \cup {c}]
  BY <1>1, AddConnectionFacts
<1>6. \A v \in Uid \ {u} : reg'.conns[v] = reg.conns[v]
  BY <1>5 DEF Registry
<1>7. /\ asked' \in [Addr -> SUBSET Conn]
      /\ \A b \in Addr : asked'[b] \subseteq asked[b] \cup {c}
      /\ \A b \in Addr \ {reg.agents[u][n]} : asked'[b] = asked[b]
  BY <1>1
<1> QED
  BY <1>1, <1>2, <1>3, <1>4, <1>5, <1>6, <1>7

\* The agent a published host is routed to is registered, with its name, for
\* the user the host is routed to.
LEMMA RoutedAgent ==
    ASSUME TypeOK, GhostsWereClosed, NEW d \in Domain, NEW p \in Port,
           NEW a \in get_mut_agent_by_domain(reg, d, p)
    PROVE  /\ owner(reg, d, p) \in Uid
           /\ a \in Addr
           /\ sock[a].uid = owner(reg, d, p)
           /\ sock[a].name \in Name
           /\ reg.agents[owner(reg, d, p)][sock[a].name] = a
<1> DEFINE u == owner(reg, d, p)
<1>1. u \in reg.users /\ a \in serving(reg, u, d, p)
  BY DEF get_mut_agent_by_domain
<1>2. u \in Uid
  BY <1>1 DEF TypeOK, Registry
<1>3. a \in Registered(reg, u)
  BY <1>1 DEF serving
<1> HIDE DEF u
<1>4. PICK n \in Name : reg.agents[u][n] = a /\ a # None
  BY <1>3 DEF Registered
<1>5. a \in Addr
  BY <1>2, <1>4 DEF TypeOK, Registry
<1>6. sock[a].uid = u /\ sock[a].name = n
  BY <1>2, <1>4 DEF GhostsWereClosed
<1> QED
  BY <1>2, <1>4, <1>5, <1>6 DEF u

\* A connection whose record is replaced stays well typed; the others may have
\* changed their state only.
LEMMA ConnsStep ==
    ASSUME ConnsOK, NEW c \in Conn, conn[c].st # "fresh",
           NEW new \in ConnRecord, new.uid = conn[c].uid, new.target = conn[c].target,
           NEW old \in [Conn -> ConnRecord],
           \A k \in Conn : /\ old[k].uid = conn[k].uid
                           /\ old[k].target = conn[k].target
                           /\ conn[k].st = "fresh" => old[k].st = "fresh",
           conn' = [old EXCEPT ![c] = new]
    PROVE  /\ ConnsOK'
           /\ conn'[c] = new
           /\ \A k \in Conn \ {c} : conn'[k] = old[k]
<1>1. /\ conn' \in [Conn -> ConnRecord]
      /\ conn'[c] = new
      /\ \A k \in Conn \ {c} : conn'[k] = old[k]
  OBVIOUS
<1>2. \A k \in Conn : conn'[k].st # "fresh" => conn'[k].uid \in Uid /\ conn'[k].target \in Name
  <2> SUFFICES ASSUME NEW k \in Conn, conn'[k].st # "fresh"
               PROVE  conn'[k].uid \in Uid /\ conn'[k].target \in Name
    OBVIOUS
  <2>1. conn[k].st # "fresh" => conn[k].uid \in Uid /\ conn[k].target \in Name
    BY DEF ConnsOK
  <2>2. CASE k = c
    BY <1>1, <2>1, <2>2
  <2>3. CASE k # c
    <3>1. conn'[k] = old[k]
      BY <1>1, <2>3
    <3> QED
      BY <2>1, <3>1
  <2> QED
    BY <2>2, <2>3
<1> QED
  BY <1>1, <1>2 DEF ConnsOK

\* What a dial of an agent, and its error, do to the connections.
LEMMA AgentDataConn ==
    ASSUME ConnsOK, NEW a \in Addr, NEW c \in Conn, NEW ok \in BOOLEAN, AgentData(a, c, ok),
           conn[c].st # "fresh", sock[a].uid \in Uid, sock[a].name \in Name
    PROVE  /\ ConnsOK'
           /\ \A k \in Conn : /\ conn'[k].uid = conn[k].uid
                              /\ conn'[k].target = conn[k].target
                              /\ conn[k].st # "fresh" => conn'[k].st # "fresh"
           /\ \A k \in Conn \ {c} : conn'[k] = conn[k]
           /\ conn'[c].st = "serving" =>
                 conn'[c] = conn[c] \/ conn'[c].by = <<sock[a].uid, sock[a].name>>
<1> DEFINE by == <<sock[a].uid, sock[a].name>>
<1>1. conn \in [Conn -> ConnRecord] /\ by \in Uid \X Name
  BY DEF ConnsOK
<1>2. \/ conn' = conn
      \/ conn' = [conn EXCEPT ![c].st = "serving", ![c].by = by]
      \/ conn' = [conn EXCEPT ![c].st = "lost"]
  BY DEF AgentData
<1> HIDE DEF by
<1>3. CASE conn' = conn
  BY <1>3 DEF ConnsOK
<1>4. CASE conn' = [conn EXCEPT ![c].st = "serving", ![c].by = by]
  <2> DEFINE new == [conn[c] EXCEPT !.st = "serving", !.by = by]
  <2>1. /\ new \in ConnRecord
        /\ new.uid = conn[c].uid /\ new.target = conn[c].target
        /\ new.st = "serving" /\ new.by = by
        /\ conn' = [conn EXCEPT ![c] = new]
    BY <1>1, <1>4 DEF ConnRecord
  <2> HIDE DEF new
  <2>2. ConnsOK' /\ conn'[c] = new /\ \A k \in Conn \ {c} : conn'[k] = conn[k]
    BY <1>1, <2>1, ConnsStep
  <2> QED
    BY <2>1, <2>2 DEF by
<1>5. CASE conn' = [conn EXCEPT ![c].st = "lost"]
  <2> DEFINE new == [conn[c] EXCEPT !.st = "lost"]
  <2>1. /\ new \in ConnRecord
        /\ new.uid = conn[c].uid /\ new.target = conn[c].target
        /\ new.st = "lost"
        /\ conn' = [conn EXCEPT ![c] = new]
      BY <1>1, <1>5 DEF ConnRecord
  <2> HIDE DEF new
  <2>2. ConnsOK' /\ conn'[c] = new /\ \A k \in Conn \ {c} : conn'[k] = conn[k]
    BY <1>1, <2>1, ConnsStep
  <2> QED
    BY <2>1, <2>2
<1> QED
  BY <1>2, <1>3, <1>4, <1>5

\* Connections that are dropped keep whom they were opened by and to.
LEMMA DroppedKeeps ==
    ASSUME ConnsOK, NEW r, conn' = dropped(r)
    PROVE  /\ ConnsOK'
           /\ \A k \in Conn : /\ conn'[k].uid = conn[k].uid
                              /\ conn'[k].target = conn[k].target
                              /\ conn'[k].by = conn[k].by
                              /\ conn[k].st # "fresh" => conn'[k].st # "fresh"
                              /\ conn'[k].st = "serving" => conn[k].st = "serving"
BY DroppedFacts DEF ConnsOK

\* An agent's error ends its connection and changes no other.
LEMMA AgentErrorConn ==
    ASSUME ConnsOK, NEW a \in Addr, NEW c \in Conn, AgentError(a, c), conn[c].st # "fresh"
    PROVE  /\ ConnsOK'
           /\ \A k \in Conn : /\ conn'[k].uid = conn[k].uid
                              /\ conn'[k].target = conn[k].target
                              /\ conn'[k].by = conn[k].by
                              /\ conn[k].st # "fresh" => conn'[k].st # "fresh"
                              /\ conn'[k].st = "serving" => conn[k].st = "serving"
<1> DEFINE r == del_connection(reg, sock[a].uid, c)
<1>1. \/ conn' = dropped(r)
      \/ \E st \in {"failed", "lost"} : conn' = [dropped(r) EXCEPT ![c].st = st]
  BY DEF AgentError
<1> HIDE DEF r
<1>2. CASE conn' = dropped(r)
  BY <1>2, DroppedKeeps
<1>3. PICK old \in [Conn -> ConnRecord] :
      /\ old = dropped(r)
      /\ \A k \in Conn : /\ old[k].uid = conn[k].uid
                         /\ old[k].target = conn[k].target
                         /\ old[k].by = conn[k].by
                         /\ (old[k].st = conn[k].st \/ old[k].st = "lost")
                         /\ conn[k].st = "fresh" => old[k].st = "fresh"
  BY DroppedFacts DEF ConnsOK
<1>4. CASE \E st \in {"failed", "lost"} : conn' = [dropped(r) EXCEPT ![c].st = st]
  <2>1. PICK st \in {"failed", "lost"} : conn' = [old EXCEPT ![c].st = st]
    BY <1>3, <1>4
  <2> DEFINE new == [old[c] EXCEPT !.st = st]
  <2>2. old[c].uid = conn[c].uid /\ old[c].target = conn[c].target /\ old[c].by = conn[c].by
    BY <1>3
  <2>3. /\ new \in ConnRecord
        /\ new.uid = old[c].uid /\ new.target = old[c].target
        /\ new.by = old[c].by /\ new.st = st
        /\ conn' = [old EXCEPT ![c] = new]
    BY <1>3, <2>1 DEF ConnRecord
  <2> HIDE DEF new
  <2>4. \A k \in Conn : /\ old[k].uid = conn[k].uid
                        /\ old[k].target = conn[k].target
                        /\ conn[k].st = "fresh" => old[k].st = "fresh"
    BY <1>3
  <2>5. ConnsOK' /\ conn'[c] = new /\ \A k \in Conn \ {c} : conn'[k] = old[k]
    BY <1>3, <2>2, <2>3, <2>4, ConnsStep
  <2>6. ASSUME NEW k \in Conn
        PROVE  /\ conn'[k].uid = conn[k].uid
               /\ conn'[k].target = conn[k].target
               /\ conn'[k].by = conn[k].by
               /\ conn[k].st # "fresh" => conn'[k].st # "fresh"
               /\ conn'[k].st = "serving" => conn[k].st = "serving"
    <3>1. CASE k = c
      BY <2>2, <2>3, <2>5, <3>1
    <3>2. CASE k # c
      BY <1>3, <2>5, <3>2
    <3> QED
      BY <3>1, <3>2
  <2> QED
    BY <2>5, <2>6
<1> QED
  BY <1>1, <1>2, <1>4

\* An address that is used again is nobody's in the registry.
LEMMA FreeAddress ==
    ASSUME GhostsWereClosed, NEW u, NEW n, NEW a \in Addr, NEW m, AgentEvent(u, n, a, m)
    PROVE  /\ sock[a].st \in {"free", "ended", "closed"}
           /\ \A v \in Uid, k \in Name : reg.agents[v][k] # a
<1>1. \/ sock[a].st \in {"free", "ended"}
      \/ sock[a].st = "closed" /\ a \notin Registered(reg, sock[a].uid)
  BY DEF AgentEvent
<1>2. ASSUME NEW v \in Uid, NEW k \in Name, reg.agents[v][k] = a PROVE FALSE
  <2>1. sock[a].st \in {"open", "broken", "closed"} /\ sock[a].uid = v
    BY <1>2, NoneAssumption DEF GhostsWereClosed
  <2>2. a \in Registered(reg, v)
    BY <1>2, NoneAssumption DEF Registered
  <2> QED
    BY <1>1, <2>1, <2>2
<1> QED
  BY <1>1, <1>2

\* A Connect that will not be answered stays with its agent's connection.
LEMMA AgentSilentConn ==
    ASSUME ConnsOK, NEW a \in Addr, NEW c \in Conn, AgentSilent(a, c)
    PROVE  /\ ConnsOK'
           /\ \A k \in Conn : /\ conn'[k].st = conn[k].st
                            /\ conn'[k].uid = conn[k].uid
                            /\ conn'[k].target = conn[k].target
                            /\ conn'[k].by = conn[k].by
<1>1. conn \in [Conn -> ConnRecord] /\ conn' = [conn EXCEPT ![c].silent = TRUE]
  BY DEF ConnsOK, AgentSilent
<1>2. conn' \in [Conn -> ConnRecord]
  BY <1>1 DEF ConnRecord
<1>3. \A k \in Conn : /\ conn'[k].st = conn[k].st
                     /\ conn'[k].uid = conn[k].uid
                     /\ conn'[k].target = conn[k].target
                     /\ conn'[k].by = conn[k].by
  BY <1>1 DEF ConnRecord
<1> QED
  BY <1>2, <1>3 DEF ConnsOK

\* A process that exits breaks its socket if that is still open.
LEMMA ExitingSocket ==
    ASSUME SocketsOK, NEW a \in Addr, AgentExits(a)
    PROVE  \/ sock' = sock
           \/ sock[a].st = "open" /\ sock' = [sock EXCEPT ![a].st = "broken"]
<1>1. CASE sock[a].st = "open"
  BY <1>1 DEF AgentExits
<1>2. CASE sock[a].st # "open"
  <2>1. [sock[a] EXCEPT !.st = sock[a].st] = sock[a]
    BY DEF SocketsOK, AgentSocket
  <2>2. sock' = [sock EXCEPT ![a] = sock[a]]
    BY <1>2, <2>1 DEF AgentExits
  <2> QED
    BY <2>2 DEF SocketsOK
<1> QED
  BY <1>1, <1>2

\* Every handler and every step of a peer keeps the types.
LEMMA TypeStep == IInv /\ [Next]_vars => TypeOK'
<1> SUFFICES ASSUME IInv, [Next]_vars PROVE TypeOK'
  OBVIOUS
<1> USE DEF TypeOK
<1>0. TypeOK /\ GhostsWereClosed /\ UpgradePending /\ AskedOfTarget
  BY DEF IInv
<1>1. ASSUME NEW u \in Uid, NEW s \in Session, ClientEvent(u, s) PROVE TypeOK'
  <2>1. SessionsOK'
    BY <1>0, <1>1 DEF ClientEvent, SessionsOK, ClientSocket
  <2>2. AdmissionOK'
    BY <1>1, NothingPublishedType DEF ClientEvent, AdmissionOK, Admission, NoAdmission
  <2> QED
    BY <1>0, <1>1, <2>1, <2>2 DEF ClientEvent, SocketsOK, ConnsOK
<1>2. ASSUME NEW u \in Uid, NEW n \in Name, NEW a \in Addr, NEW m \in Publishes[u],
             AgentEvent(u, n, a, m)
      PROVE TypeOK'
  <2>1. m \in PublishMap
    BY PublishAssumption
  <2>2. SocketsOK'
    BY <1>0, <1>2, <2>1 DEF AgentEvent, SocketsOK, AgentSocket
  <2>3. AdmissionOK'
    BY <1>2, <2>1 DEF AgentEvent, AdmissionOK, Admission, NoAdmission
  <2>4. shutdown' \subseteq Addr
    BY <1>0, <1>2 DEF AgentEvent
  <2> QED
    BY <1>0, <1>2, <2>2, <2>3, <2>4 DEF AgentEvent, SessionsOK, ConnsOK
<1>3. CASE ClientStream
  <2>1. admitting.uid \in Uid /\ admitting.session \in Session
    BY <1>0, <1>3 DEF ClientStream, AdmissionOK
  <2>2. SessionsOK'
    BY <1>0, <1>3, <2>1, SessionsStep DEF ClientStream, UpgradePending
  <2> QED
    BY <1>0, <1>3, <2>1, <2>2, AddClientFacts, NoAdmissionOK
    DEF ClientStream, AdmissionOK, SocketsOK, ConnsOK
<1>4. CASE AgentStream
  <2>1. /\ admitting.uid \in Uid /\ admitting.name \in Name /\ admitting.addr \in Addr
        /\ admitting.pub \in PublishMap
    BY <1>0, <1>4 DEF AgentStream, AdmissionOK, Admission
  <2>2. SocketsOK'
    BY <1>0, <1>4, <2>1, SocketsStep DEF AgentStream, UpgradePending
  <2>3. shutdown' \subseteq Addr
    BY <1>0, <1>4, <2>1 DEF AgentStream, Registry
  <2>4. certs' \in [Uid -> [Name -> BOOLEAN]]
    BY <1>0, <1>4, <2>1 DEF AgentStream, load
  <2>5. reg' \in Registry
    BY <1>0, <1>4, <2>1, AddAgentFacts DEF AgentStream
  <2> QED
    BY <1>0, <1>4, <2>2, <2>3, <2>4, <2>5, NoAdmissionOK
    DEF AgentStream, AdmissionOK, SessionsOK, ConnsOK
<1>5. CASE StreamFails
  <2>1. SocketsOK'
    <3>1. CASE admitting.kind = "agent"
      BY <1>0, <1>5, <3>1, SocketsStep DEF StreamFails, UpgradePending, AdmissionOK
    <3>2. CASE admitting.kind # "agent"
      BY <1>0, <1>5, <3>2 DEF StreamFails, SocketsOK
    <3> QED
      BY <3>1, <3>2
  <2>2. SessionsOK'
    <3>1. CASE admitting.kind = "client"
      BY <1>0, <1>5, <3>1, SessionsStep DEF StreamFails, UpgradePending, AdmissionOK
    <3>2. CASE admitting.kind # "client"
      BY <1>0, <1>5, <3>2 DEF StreamFails, SessionsOK
    <3> QED
      BY <3>1, <3>2
  <2> QED
    BY <1>0, <1>5, <2>1, <2>2, NoAdmissionOK DEF StreamFails, AdmissionOK, ConnsOK
<1>6. ASSUME NEW s \in Session, NEW n \in Name, ClientData(s, n) PROVE TypeOK'
  <2>1. csock[s].uid \in Uid
    BY <1>0, <1>6 DEF ClientData, SessionsOK
  <2>2. PICK c \in Conn : OpenConnection(c, csock[s].uid, s, n)
    BY <1>6 DEF ClientData
  <2>3. reg' \in Registry /\ ConnsOK' /\ asked' \in [Addr -> SUBSET Conn]
    BY <1>0, <2>1, <2>2, OpenConnectionFacts
  <2> QED
    BY <1>0, <1>6, <2>3 DEF ClientData, SocketsOK, SessionsOK, AdmissionOK
<1>7. ASSUME NEW d \in Domain, NEW p \in Port,
             HttpTransparent(d, p) \/ TlsTransparent(d, p)
      PROVE TypeOK'
  <2>1. PICK a \in get_mut_agent_by_domain(reg, d, p), c \in Conn :
              OpenConnection(c, owner(reg, d, p), None, sock[a].name)
    BY <1>7 DEF HttpTransparent, TlsTransparent
  <2>2. owner(reg, d, p) \in Uid /\ sock[a].name \in Name
    BY <1>0, RoutedAgent
  <2>3. reg' \in Registry /\ ConnsOK' /\ asked' \in [Addr -> SUBSET Conn]
    BY <1>0, <2>1, <2>2, OpenConnectionFacts
  <2>4. UNCHANGED <<sock, shutdown, csock, certs, admitting>>
    BY <1>7 DEF HttpTransparent, TlsTransparent
  <2> QED
    BY <1>0, <2>3, <2>4 DEF SocketsOK, SessionsOK, AdmissionOK
<1>8. ASSUME NEW a \in Addr, NEW c \in Conn, NEW ok \in BOOLEAN, AgentData(a, c, ok)
      PROVE TypeOK'
  <2>1. asked' \in [Addr -> SUBSET Conn]
    BY <1>0, <1>8 DEF AgentData
  <2>2. conn[c].st # "fresh" /\ sock[a].uid \in Uid /\ sock[a].name \in Name
    BY <1>0, <1>8 DEF AgentData, AskedOfTarget, ConnsOK
  <2>3. reg' \in Registry
    <3>1. reg' = reg \/ reg' = get_mut_connection(reg, sock[a].uid, c)
      BY <1>8 DEF AgentData
    <3>2. reg \in Registry
      BY <1>0
    <3>3. get_mut_connection(reg, sock[a].uid, c) \in Registry
      BY <2>2, <3>2, GetMutConnectionFacts
    <3> QED
      BY <3>1, <3>2, <3>3
  <2>4. ConnsOK'
    BY <1>0, <1>8, <2>2, AgentDataConn
  <2> QED
    BY <1>0, <1>8, <2>1, <2>3, <2>4 DEF AgentData, SocketsOK, SessionsOK, AdmissionOK
<1>9. ASSUME NEW a \in Addr, NEW c \in Conn, AgentError(a, c) PROVE TypeOK'
  <2>1. asked' \in [Addr -> SUBSET Conn]
    BY <1>0, <1>9 DEF AgentError
  <2>2. conn[c].st # "fresh" /\ sock[a].uid \in Uid
    BY <1>0, <1>9 DEF AgentError, AskedOfTarget, ConnsOK
  <2>3. reg' \in Registry
    BY <1>0, <1>9, <2>2, DelConnectionFacts DEF AgentError
  <2>4. ConnsOK'
    BY <1>0, <1>9, <2>2, AgentErrorConn
  <2> QED
    BY <1>0, <1>9, <2>1, <2>3, <2>4 DEF AgentError, SocketsOK, SessionsOK, AdmissionOK
<1>10. ASSUME NEW a \in Addr, AgentDisconnected(a) PROVE TypeOK'
  <2>1. sock[a].uid \in Uid /\ sock[a].name \in Name
    BY <1>0, <1>10 DEF AgentDisconnected, SocketsOK
  <2>2. SocketsOK'
    BY <1>0, <1>10, SocketsStep DEF AgentDisconnected
  <2>3. PICK out \in del_agent(reg, sock[a].uid, sock[a].name) :
            /\ reg' = IF superseded(out.agent, a)
                      THEN add_agent(out.reg, sock[a].uid, sock[a].name, out.agent,
                                     sock[out.agent].pub)
                      ELSE out.reg
            /\ conn' = dropped(out.reg)
            /\ certs' \in {certs, unload(sock[a].uid, sock[a].name)}
    BY <1>10 DEF AgentDisconnected
  <2>4. out.reg \in Registry /\ (out.agent # None => out.agent \in Addr)
    <3>1. /\ out.reg \in Registry
          /\ out.agent \in {None, reg.agents[sock[a].uid][sock[a].name]}
      BY <1>0, <2>1, <2>3, DelAgentFacts
    <3>2. reg.agents[sock[a].uid][sock[a].name] \in Addr \cup {None}
      BY <1>0, <2>1 DEF Registry
    <3> QED
      BY <3>1, <3>2
  <2>5. reg' \in Registry
    <3>1. CASE superseded(out.agent, a)
      <4>1. out.agent \in Addr /\ sock[out.agent].pub \in PublishMap
        BY <1>0, <2>4, <3>1 DEF superseded, SocketsOK, AgentSocket
      <4> QED
        BY <2>1, <2>3, <2>4, <3>1, <4>1, AddAgentFacts
    <3>2. CASE ~superseded(out.agent, a)
      BY <2>3, <2>4, <3>2
    <3> QED
      BY <3>1, <3>2
  <2>6. certs' \in [Uid -> [Name -> BOOLEAN]]
    <3>1. unload(sock[a].uid, sock[a].name) \in [Uid -> [Name -> BOOLEAN]]
      BY <1>0, <2>1 DEF unload
    <3> QED
      BY <1>0, <2>3, <3>1
  <2>7. ConnsOK'
    BY <1>0, <2>3, DroppedKeeps
  <2> QED
    BY <1>0, <1>10, <2>2, <2>5, <2>6, <2>7 DEF AgentDisconnected, SessionsOK, AdmissionOK
<1>11. ASSUME NEW s \in Session, ClientDisconnected(s) PROVE TypeOK'
  <2>1. csock[s].uid \in Uid
    BY <1>0, <1>11 DEF ClientDisconnected, SessionsOK
  <2>2. SessionsOK'
    BY <1>0, <1>11, SessionsStep DEF ClientDisconnected
  <2>3. reg' \in Registry
    BY <1>0, <1>11, <2>1, DelClientFacts DEF ClientDisconnected
  <2>4. ConnsOK'
    BY <1>0, <1>11, DroppedKeeps DEF ClientDisconnected
  <2> QED
    BY <1>0, <1>11, <2>2, <2>3, <2>4 DEF ClientDisconnected, SocketsOK, AdmissionOK
<1>12. ASSUME NEW a \in Addr, AgentBreaks(a) \/ AgentCloses(a) PROVE TypeOK'
  <2>1. SocketsOK'
    BY <1>0, <1>12, SocketsStep DEF AgentBreaks, AgentCloses
  <2>2. /\ asked' \in [Addr -> SUBSET Conn]
        /\ UNCHANGED <<reg, shutdown, csock, conn, certs, admitting>>
    BY <1>0, <1>12 DEF AgentBreaks, AgentCloses
  <2> QED
    BY <1>0, <2>1, <2>2 DEF SessionsOK, ConnsOK, AdmissionOK
<1>13. ASSUME NEW a \in Addr, AgentTasksEnd(a) PROVE TypeOK'
  BY <1>0, <1>13 DEF AgentTasksEnd, SocketsOK, SessionsOK, ConnsOK, AdmissionOK
<1>14. ASSUME NEW a \in Addr, AgentExits(a) PROVE TypeOK'
  <2>1. SocketsOK'
    <3>1. CASE sock' = sock
      BY <1>0, <3>1 DEF SocketsOK
    <3>2. CASE sock[a].st = "open" /\ sock' = [sock EXCEPT ![a].st = "broken"]
      BY <1>0, <3>2, SocketsStep
    <3> QED
      BY <1>0, <1>14, <3>1, <3>2, ExitingSocket
  <2>2. asked' \in [Addr -> SUBSET Conn] /\ shutdown' \subseteq Addr
    BY <1>0, <1>14 DEF AgentExits
  <2> QED
    BY <1>0, <1>14, <2>1, <2>2 DEF AgentExits, SessionsOK, ConnsOK, AdmissionOK
<1>15. ASSUME NEW s \in Session, ClientBreaks(s) \/ ClientCloses(s) PROVE TypeOK'
  <2>1. SessionsOK'
    BY <1>0, <1>15, SessionsStep DEF ClientBreaks, ClientCloses
  <2>2. UNCHANGED <<reg, sock, asked, shutdown, conn, certs, admitting>>
    BY <1>15 DEF ClientBreaks, ClientCloses
  <2> QED
    BY <1>0, <2>1, <2>2 DEF SocketsOK, ConnsOK, AdmissionOK
<1>16. ASSUME NEW a \in Addr, NEW c \in Conn, AgentSilent(a, c) PROVE TypeOK'
  <2>1. ConnsOK'
    BY <1>0, <1>16, AgentSilentConn
  <2>2. /\ asked' \in [Addr -> SUBSET Conn]
        /\ UNCHANGED <<reg, sock, shutdown, csock, certs, admitting>>
    BY <1>0, <1>16 DEF AgentSilent
  <2> QED
    BY <1>0, <2>1, <2>2 DEF SocketsOK, SessionsOK, AdmissionOK
<1>17. CASE UNCHANGED vars
  BY <1>0, <1>17 DEF vars, SocketsOK, SessionsOK, ConnsOK, AdmissionOK
<1> QED
  BY <1>1, <1>2, <1>3, <1>4, <1>5, <1>6, <1>7, <1>8, <1>9, <1>10, <1>11, <1>12,
     <1>13, <1>14, <1>15, <1>16, <1>17 DEF Next

-----------------------------------------------------------------------------
(* No operation of the registry leaves a residue of a user it removes.     *)

\* What is added belongs to a user that is there.
LEMMA AddResidue ==
    ASSUME NEW r \in Registry, NoResidueIn(r), NEW u \in Uid
    PROVE  /\ \A n \in Name, a \in Addr, m \in PublishMap : NoResidueIn(add_agent(r, u, n, a, m))
           /\ \A s \in Session : NoResidueIn(add_client(r, u, s))
           /\ \A c \in Conn : NoResidueIn(add_connection(r, u, c))
<1>1. ASSUME NEW n \in Name, NEW a \in Addr, NEW m \in PublishMap
      PROVE  NoResidueIn(add_agent(r, u, n, a, m))
  <2> DEFINE q == add_agent(r, u, n, a, m)
  <2>1. /\ q.users = r.users \cup {u}
        /\ q.agents = [r.agents EXCEPT ![u][n] = a]
        /\ q.clients = r.clients
        /\ q.conns = r.conns
    BY DEF add_agent, Registry
  <2> HIDE DEF q
  <2>2. \A v \in Uid \ {u} : Registered(q, v) = Registered(r, v)
    BY <2>1 DEF Registered, Registry
  <2>3. NoResidueIn(q)
    BY <2>1, <2>2 DEF NoResidueIn
  <2> QED
    BY <2>3 DEF q
<1>2. ASSUME NEW s \in Session PROVE NoResidueIn(add_client(r, u, s))
  <2> DEFINE q == add_client(r, u, s)
  <2>1. /\ q.users = r.users \cup {u}
        /\ q.agents = r.agents
        /\ q.clients = [r.clients EXCEPT ![u] = @ \cup {s}]
        /\ q.conns = r.conns
    BY AddClientFacts
  <2> HIDE DEF q
  <2>2. \A v \in Uid \ {u} : Registered(q, v) = Registered(r, v) /\ q.clients[v] = r.clients[v]
    BY <2>1 DEF Registered, Registry
  <2>3. NoResidueIn(q)
    BY <2>1, <2>2 DEF NoResidueIn
  <2> QED
    BY <2>3 DEF q
<1>3. ASSUME NEW c \in Conn PROVE NoResidueIn(add_connection(r, u, c))
  <2> DEFINE q == add_connection(r, u, c)
  <2>1. /\ q.users = r.users \cup {u}
        /\ q.agents = r.agents
        /\ q.clients = r.clients
        /\ q.conns = [r.conns EXCEPT ![u] = @ \cup {c}]
    BY AddConnectionFacts
  <2> HIDE DEF q
  <2>2. \A v \in Uid \ {u} : Registered(q, v) = Registered(r, v) /\ q.conns[v] = r.conns[v]
    BY <2>1 DEF Registered, Registry
  <2>3. NoResidueIn(q)
    BY <2>1, <2>2 DEF NoResidueIn
  <2> QED
    BY <2>3 DEF q
<1> QED
  BY <1>1, <1>2, <1>3

\* A user that is reclaimed leaves nothing behind.
LEMMA ReclaimResidue ==
    ASSUME NEW r \in Registry, NEW u \in Uid, u \in r.users, NoResidueIn(r)
    PROVE  NoResidueIn(reclaim(r, u))
<1>1. CASE Registered(r, u) # {}
  BY <1>1, ReclaimFacts
<1>2. CASE Registered(r, u) = {}
  <2>1. /\ reclaim(r, u).users = r.users \ {u}
        /\ reclaim(r, u).clients = [r.clients EXCEPT ![u] = {}]
        /\ reclaim(r, u).conns = [r.conns EXCEPT ![u] = {}]
        /\ reclaim(r, u).agents = r.agents
    BY <1>2, ReclaimFacts
  <2>2. \A v \in Uid : Registered(reclaim(r, u), v) = Registered(r, v)
    BY <2>1 DEF Registered
  <2> QED
    BY <1>2, <2>1, <2>2 DEF NoResidueIn, Registry
<1> QED
  BY <1>1, <1>2

\* A registry with the users of r and nothing more in it has no residue either.
LEMMA SmallerResidue ==
    ASSUME NEW r, NoResidueIn(r), NEW q, q.users = r.users,
           \A v \in Uid : /\ Registered(q, v) \subseteq Registered(r, v)
                          /\ q.clients[v] \subseteq r.clients[v]
                          /\ q.conns[v] \subseteq r.conns[v]
    PROVE  NoResidueIn(q)
<1> SUFFICES ASSUME NEW v \in Uid, v \notin r.users
             PROVE  Registered(q, v) = {} /\ q.clients[v] = {} /\ q.conns[v] = {}
  BY DEF NoResidueIn
<1>1. Registered(r, v) = {} /\ r.clients[v] = {} /\ r.conns[v] = {}
  BY DEF NoResidueIn
<1>2. Registered(q, v) \subseteq {} /\ q.clients[v] \subseteq {} /\ q.conns[v] \subseteq {}
  BY <1>1
<1> QED
  BY <1>2

\* An agent that is removed leaves nothing of a user that is gone.
LEMMA DelAgentResidue ==
    ASSUME NEW r \in Registry, NEW u \in Uid, NEW n \in Name, NoResidueIn(r),
           NEW out \in del_agent(r, u, n)
    PROVE  NoResidueIn(out.reg)
<1>1. CASE u \notin r.users \/ r.agents[u][n] = None
  BY <1>1 DEF del_agent
<1>2. CASE u \in r.users /\ r.agents[u][n] # None
  <2> DEFINE a  == r.agents[u][n]
             r1 == [r EXCEPT !.agents[u][n] = None]
  <2>1. /\ r1 \in Registry
        /\ r1.agents = [r.agents EXCEPT ![u][n] = None]
        /\ r1.users = r.users
        /\ r1.clients = r.clients
        /\ r1.conns = r.conns
    BY DEF Registry
  <2>2. out \in clean_up(r1, u, a)
    BY <1>2 DEF del_agent
  <2> HIDE DEF r1, a
  <2>3. \A v \in Uid : Registered(r1, v) \subseteq Registered(r, v)
    BY <2>1 DEF Registered, Registry
  <2>4. NoResidueIn(r1)
    BY <2>1, <2>3, SmallerResidue
  <2>5. PICK D : \/ out = [reg |-> reclaim(clear(r1, unserved(r1, u, a), D), u), agent |-> a]
                 \/ out = [reg |-> clear(r1, unserved(r1, u, a), D), agent |-> None]
    BY <2>2, CleanUpForms
  <2> DEFINE r2 == clear(r1, unserved(r1, u, a), D)
  <2>6. /\ r2 \in Registry
        /\ r2.users = r1.users
        /\ r2.agents = r1.agents
        /\ r2.clients = r1.clients
        /\ r2.conns = r1.conns
    BY <2>1, ClearFacts
  <2>7. out.reg = reclaim(r2, u) \/ out.reg = r2
    BY <2>5
  <2> HIDE DEF r2
  <2>8. \A v \in Uid : Registered(r2, v) = Registered(r1, v)
    BY <2>6 DEF Registered
  <2>9. NoResidueIn(r2)
    BY <2>4, <2>6, <2>8, SmallerResidue
  <2>10. NoResidueIn(reclaim(r2, u))
    BY <1>2, <2>1, <2>6, <2>9, ReclaimResidue
  <2> QED
    BY <2>7, <2>9, <2>10
<1> QED
  BY <1>1, <1>2

\* A client that is removed leaves nothing of a user that is gone.
LEMMA DelClientResidue ==
    ASSUME NEW r \in Registry, NEW u \in Uid, NEW s \in Session, NoResidueIn(r)
    PROVE  NoResidueIn(del_client(r, u, s))
<1> DEFINE r1 == [r EXCEPT !.clients[u] = @ \ {s}]
<1>1. /\ r1 \in Registry
      /\ r1.users = r.users
      /\ r1.agents = r.agents
      /\ r1.clients = [r.clients EXCEPT ![u] = @ \ {s}]
      /\ r1.conns = r.conns
  BY DEF Registry
<1>2. del_client(r, u, s) = IF s \in r.clients[u] THEN reclaim(r1, u) ELSE r
  BY DEF del_client
<1> HIDE DEF r1
<1>3. \A v \in Uid : /\ Registered(r1, v) = Registered(r, v)
                     /\ r1.clients[v] \subseteq r.clients[v]
  BY <1>1 DEF Registered, Registry
<1>4. NoResidueIn(r1)
  BY <1>1, <1>3, SmallerResidue
<1>5. s \in r.clients[u] => u \in r.users
  BY DEF NoResidueIn
<1> QED
  BY <1>1, <1>2, <1>4, <1>5, ReclaimResidue

\* A connection that is removed leaves nothing of a user that is gone.
LEMMA ConnectionResidue ==
    ASSUME NEW r \in Registry, NEW u \in Uid, NEW c \in Conn, NoResidueIn(r)
    PROVE  NoResidueIn(del_connection(r, u, c)) /\ NoResidueIn(get_mut_connection(r, u, c))
<1> DEFINE r1 == [r EXCEPT !.conns[u] = @ \ {c}]
<1>1. /\ r1 \in Registry
      /\ r1.users = r.users
      /\ r1.agents = r.agents
      /\ r1.clients = r.clients
      /\ r1.conns = [r.conns EXCEPT ![u] = @ \ {c}]
  BY DEF Registry
<1>2. /\ del_connection(r, u, c) = IF u \in r.users THEN reclaim(r1, u) ELSE r
      /\ get_mut_connection(r, u, c) = r1
  BY DEF del_connection, get_mut_connection
<1> HIDE DEF r1
<1>3. \A v \in Uid : /\ Registered(r1, v) = Registered(r, v)
                     /\ r1.conns[v] \subseteq r.conns[v]
  BY <1>1 DEF Registered, Registry
<1>4. NoResidueIn(r1)
  BY <1>1, <1>3, SmallerResidue
<1> QED
  BY <1>1, <1>2, <1>4, ReclaimResidue

-----------------------------------------------------------------------------
(* Every step keeps what relates the registry, the sockets and the         *)
(* connections.                                                            *)

Linked ==
    GhostsWereClosed /\ NoResidue /\ UpgradePending /\ AskedOfTarget /\ BridgedToTarget

\* At first nobody is registered and nothing was asked.
LEMMA InitLinked == Init => Linked
BY DEF Init, Linked, GhostsWereClosed, NoResidue, NoResidueIn, UpgradePending, AskedOfTarget,
       BridgedToTarget, EmptyRegistry, Registered, NoAdmission

\* Where the registry's agents and clients stay and the sockets and sessions
\* in it stay open, broken or closed, nothing in the registry becomes a ghost.
LEMMA LiveKept ==
    ASSUME TypeOK, GhostsWereClosed,
           reg'.agents = reg.agents,
           \A u \in Uid : reg'.clients[u] \subseteq reg.clients[u],
           \A a \in Addr : sock[a].st \in {"open", "broken", "closed"} =>
               /\ sock'[a].st \in {"open", "broken", "closed"}
               /\ sock'[a].uid = sock[a].uid
               /\ sock'[a].name = sock[a].name,
           \A u \in Uid : \A s \in reg'.clients[u] : csock[s].st \in {"open", "broken", "closed"} =>
               csock'[s].st \in {"open", "broken", "closed"} /\ csock'[s].uid = csock[s].uid
    PROVE  GhostsWereClosed'
<1>1. ASSUME NEW u \in Uid, NEW n \in Name, reg'.agents[u][n] # None
      PROVE  LET a == reg'.agents[u][n]
             IN  sock'[a].st \in {"open", "broken", "closed"} /\ sock'[a].uid = u /\ sock'[a].name = n
  <2>1. reg.agents[u][n] \in Addr
    BY <1>1 DEF TypeOK, Registry
  <2>2. /\ sock[reg.agents[u][n]].st \in {"open", "broken", "closed"}
        /\ sock[reg.agents[u][n]].uid = u
        /\ sock[reg.agents[u][n]].name = n
    BY <1>1 DEF GhostsWereClosed
  <2> QED
    BY <2>1, <2>2
<1>2. ASSUME NEW u \in Uid, NEW s \in reg'.clients[u]
      PROVE  csock'[s].st \in {"open", "broken", "closed"} /\ csock'[s].uid = u
  <2>1. csock[s].st \in {"open", "broken", "closed"} /\ csock[s].uid = u
    BY <1>2 DEF GhostsWereClosed
  <2> QED
    BY <1>2, <2>1
<1> QED
  BY <1>1, <1>2 DEF GhostsWereClosed

\* Where no Connect is sent and no connection changes its user or target, the
\* Connects under way stay at the agents of their connections.
LEMMA AskedKept ==
    ASSUME TypeOK, AskedOfTarget,
           \A a \in Addr : asked'[a] \subseteq asked[a],
           \A a \in Addr : asked'[a] # {} =>
               sock'[a].uid = sock[a].uid /\ sock'[a].name = sock[a].name,
           \A c \in Conn : /\ conn'[c].uid = conn[c].uid
                           /\ conn'[c].target = conn[c].target
                           /\ conn[c].st # "fresh" => conn'[c].st # "fresh"
    PROVE  AskedOfTarget'
<1> SUFFICES ASSUME NEW a \in Addr, NEW c \in asked'[a]
             PROVE  /\ conn'[c].st # "fresh"
                    /\ conn'[c].uid = sock'[a].uid
                    /\ conn'[c].target = sock'[a].name
  BY DEF AskedOfTarget
<1>1. c \in asked[a] /\ c \in Conn
  BY DEF TypeOK
<1>2. conn[c].st # "fresh" /\ conn[c].uid = sock[a].uid /\ conn[c].target = sock[a].name
  BY <1>1 DEF AskedOfTarget
<1> QED
  BY <1>1, <1>2

\* Connections that are served already stay with their agent.
LEMMA BridgedKept ==
    ASSUME BridgedToTarget,
           \A c \in Conn : conn'[c].st = "serving" =>
               /\ conn[c].st = "serving"
               /\ conn'[c].by = conn[c].by
               /\ conn'[c].uid = conn[c].uid
               /\ conn'[c].target = conn[c].target
    PROVE  BridgedToTarget'
BY DEF BridgedToTarget

\* A connection opened to agent n of user u: what it does to the three.
LEMMA OpenConnectionLinked ==
    ASSUME TypeOK, Linked, NEW c \in Conn, NEW u \in Uid, NEW session \in Session \cup {None},
           NEW n \in Name, reg.agents[u][n] # None, OpenConnection(c, u, session, n),
           UNCHANGED <<sock, csock, admitting>>
    PROVE  Linked'
<1> USE DEF Linked
<1>1. reg \in Registry /\ ConnsOK /\ asked \in [Addr -> SUBSET Conn]
  BY DEF TypeOK
<1>2. /\ reg'.agents = reg.agents
      /\ reg'.clients = reg.clients
      /\ conn[c].st = "fresh"
      /\ conn'[c].st = "pending"
      /\ conn'[c].uid = u
      /\ conn'[c].target = n
      /\ \A k \in Conn \ {c} : conn'[k] = conn[k]
      /\ asked' \in [Addr -> SUBSET Conn]
      /\ \A b \in Addr : asked'[b] \subseteq asked[b] \cup {c}
      /\ \A b \in Addr \ {reg.agents[u][n]} : asked'[b] = asked[b]
  BY <1>1, OpenConnectionFacts
<1>3. GhostsWereClosed'
  BY <1>2, LiveKept
<1>4. NoResidue'
  BY <1>1, AddResidue DEF OpenConnection, NoResidue
<1>5. UpgradePending'
  BY DEF UpgradePending
<1>6. AskedOfTarget'
  <2> SUFFICES ASSUME NEW a \in Addr, NEW k \in asked'[a]
               PROVE  /\ conn'[k].st # "fresh"
                      /\ conn'[k].uid = sock[a].uid
                      /\ conn'[k].target = sock[a].name
    BY DEF AskedOfTarget
  <2>1. k \in Conn
    BY <1>2
  <2>2. \A z \in asked[a] : /\ conn[z].st # "fresh"
                            /\ conn[z].uid = sock[a].uid
                            /\ conn[z].target = sock[a].name
    BY DEF AskedOfTarget
  <2>3. CASE k = c
    <3>1. c \notin asked[a]
      BY <1>2, <2>2
    <3>2. a = reg.agents[u][n]
      BY <1>2, <2>3, <3>1
    <3>3. sock[a].uid = u /\ sock[a].name = n
      BY <3>2 DEF GhostsWereClosed
    <3> QED
      BY <1>2, <2>3, <3>3
  <2>4. CASE k # c
    <3>1. k \in asked[a] /\ conn'[k] = conn[k]
      BY <1>2, <2>1, <2>4
    <3> QED
      BY <2>2, <3>1
  <2> QED
    BY <2>3, <2>4
<1>7. BridgedToTarget'
  BY <1>2 DEF BridgedToTarget
<1> QED
  BY <1>3, <1>4, <1>5, <1>6, <1>7

\* Every step keeps the registry linked to the sockets.
LEMMA LinkedStep == IInv /\ [Next]_vars => Linked'
<1> SUFFICES ASSUME TypeOK, Linked, [Next]_vars PROVE Linked'
  BY DEF IInv, Linked
<1>0. GhostsWereClosed /\ NoResidue /\ UpgradePending /\ AskedOfTarget /\ BridgedToTarget
  BY DEF Linked
<1>t. /\ reg \in Registry
      /\ SocketsOK /\ SessionsOK /\ ConnsOK /\ AdmissionOK
      /\ asked \in [Addr -> SUBSET Conn]
  BY DEF TypeOK
<1>1. ASSUME NEW u \in Uid, NEW s \in Session, ClientEvent(u, s) PROVE Linked'
  <2>1. /\ csock[s].st = "fresh"
        /\ csock' = [csock EXCEPT ![s] = [st |-> "upgrading", uid |-> u]]
        /\ admitting'.kind = "client" /\ admitting'.uid = u /\ admitting'.session = s
        /\ UNCHANGED <<reg, sock, asked, conn>>
    BY <1>1 DEF ClientEvent, NoAdmission
  <2>2. csock'[s].st = "upgrading" /\ csock'[s].uid = u
        /\ \A z \in Session \ {s} : csock'[z] = csock[z]
    BY <1>t, <2>1 DEF SessionsOK
  <2>3. GhostsWereClosed'
    <3>1. \A v \in Uid : \A z \in reg.clients[v] : z \in Session \ {s}
      BY <1>0, <1>t, <2>1 DEF GhostsWereClosed, Registry
    <3> QED
      BY <1>0, <2>1, <2>2, <3>1 DEF GhostsWereClosed
  <2>4. UpgradePending'
    BY <2>1, <2>2 DEF UpgradePending
  <2> QED
    BY <1>0, <2>1, <2>3, <2>4 DEF Linked, NoResidue, AskedOfTarget, BridgedToTarget
<1>2. ASSUME NEW u \in Uid, NEW n \in Name, NEW a \in Addr, NEW m \in Publishes[u],
             AgentEvent(u, n, a, m)
      PROVE Linked'
  <2>1. /\ asked[a] = {}
        /\ sock' = [sock EXCEPT ![a] = [st |-> "upgrading", uid |-> u, name |-> n, pub |-> m]]
        /\ admitting'.kind = "agent" /\ admitting'.uid = u /\ admitting'.name = n
        /\ admitting'.addr = a /\ admitting'.pub = m
        /\ UNCHANGED <<reg, asked, csock, conn>>
    BY <1>2 DEF AgentEvent, NoAdmission
  <2>2. /\ sock'[a].st = "upgrading" /\ sock'[a].uid = u
        /\ sock'[a].name = n /\ sock'[a].pub = m
        /\ \A b \in Addr \ {a} : sock'[b] = sock[b]
    BY <1>t, <2>1 DEF SocketsOK
  <2>3. GhostsWereClosed'
    <3>1. ASSUME NEW v \in Uid, NEW k \in Name, reg.agents[v][k] # None
          PROVE  sock'[reg.agents[v][k]] = sock[reg.agents[v][k]]
      <4>1. reg.agents[v][k] \in Addr \ {a}
        BY <1>0, <1>t, <1>2, <3>1, FreeAddress DEF Registry
      <4> QED
        BY <2>2, <4>1
    <3> QED
      BY <1>0, <2>1, <3>1 DEF GhostsWereClosed
  <2>4. UpgradePending'
    BY <2>1, <2>2 DEF UpgradePending
  <2>5. AskedOfTarget'
    BY <1>0, <2>1, <2>2, AskedKept
  <2> QED
    BY <1>0, <2>1, <2>3, <2>4, <2>5 DEF Linked, NoResidue, BridgedToTarget
<1>3. CASE ClientStream
  <2> DEFINE u == admitting.uid
             s == admitting.session
  <2>1. /\ u \in Uid /\ s \in Session
        /\ csock[s].st = "upgrading" /\ csock[s].uid = u
    BY <1>0, <1>t, <1>3 DEF ClientStream, AdmissionOK, UpgradePending
  <2>2. /\ reg' = add_client(reg, u, s)
        /\ csock' = [csock EXCEPT ![s].st = "open"]
        /\ admitting' = NoAdmission
        /\ UNCHANGED <<sock, asked, conn>>
    BY <1>3 DEF ClientStream
  <2> HIDE DEF u, s
  <2>3. /\ csock'[s].st = "open" /\ csock'[s].uid = u
        /\ \A z \in Session \ {s} : csock'[z] = csock[z]
    BY <1>t, <2>1, <2>2, SessionsStep
  <2>4. reg'.agents = reg.agents /\ reg'.clients = [reg.clients EXCEPT ![u] = @ \cup {s}]
    BY <1>t, <2>1, <2>2, AddClientFacts
  <2>5. GhostsWereClosed'
    <3>1. ASSUME NEW v \in Uid, NEW z \in reg'.clients[v]
          PROVE  csock'[z].st \in {"open", "broken", "closed"} /\ csock'[z].uid = v
      <4>1. CASE v = u /\ z = s
        BY <2>3, <4>1
      <4>2. CASE ~(v = u /\ z = s)
        <5>1. z \in reg.clients[v] /\ z \in Session
          BY <1>t, <2>4, <4>2 DEF Registry
        <5>2. csock[z].st \in {"open", "broken", "closed"} /\ csock[z].uid = v
          BY <1>0, <5>1 DEF GhostsWereClosed
        <5> QED
          BY <2>1, <2>3, <5>1, <5>2
      <4> QED
        BY <4>1, <4>2
    <3> QED
      BY <1>0, <2>2, <2>4, <3>1 DEF GhostsWereClosed
  <2>6. NoResidue'
    BY <1>0, <1>t, <2>1, <2>2, AddResidue DEF NoResidue
  <2>7. UpgradePending'
    BY <2>2, NoAdmissionOK DEF UpgradePending
  <2> QED
    BY <1>0, <2>2, <2>5, <2>6, <2>7 DEF Linked, AskedOfTarget, BridgedToTarget
<1>4. CASE AgentStream
  <2> DEFINE u == admitting.uid
             n == admitting.name
             a == admitting.addr
             m == admitting.pub
  <2>1. /\ u \in Uid /\ n \in Name /\ a \in Addr /\ m \in PublishMap
        /\ sock[a].st = "upgrading" /\ sock[a].uid = u /\ sock[a].name = n
    BY <1>0, <1>t, <1>4 DEF AgentStream, AdmissionOK, Admission, UpgradePending
  <2>2. /\ reg' = add_agent(reg, u, n, a, m)
        /\ sock' = [sock EXCEPT ![a].st = "open"]
        /\ admitting' = NoAdmission
        /\ UNCHANGED <<asked, csock, conn>>
    BY <1>4 DEF AgentStream
  <2> HIDE DEF u, n, a, m
  <2>3. /\ sock'[a].st = "open" /\ sock'[a].uid = u /\ sock'[a].name = n
        /\ \A b \in Addr \ {a} : sock'[b] = sock[b]
    BY <1>t, <2>1, <2>2, SocketsStep
  <2>4. reg'.agents = [reg.agents EXCEPT ![u][n] = a] /\ reg'.clients = reg.clients
    BY <1>t, <2>1, <2>2 DEF add_agent, Registry
  <2>5. GhostsWereClosed'
    <3>1. ASSUME NEW v \in Uid, NEW k \in Name, reg'.agents[v][k] # None
          PROVE  LET b == reg'.agents[v][k]
                 IN  sock'[b].st \in {"open", "broken", "closed"} /\ sock'[b].uid = v /\ sock'[b].name = k
      <4>1. CASE v = u /\ k = n
        BY <1>t, <2>1, <2>3, <2>4, <4>1 DEF Registry
      <4>2. CASE ~(v = u /\ k = n)
        <5>1. reg'.agents[v][k] = reg.agents[v][k] /\ reg.agents[v][k] \in Addr
          BY <1>t, <2>1, <2>4, <3>1, <4>2 DEF Registry
        <5>2. LET b == reg.agents[v][k]
              IN  sock[b].st \in {"open", "broken", "closed"} /\ sock[b].uid = v /\ sock[b].name = k
          BY <1>0, <3>1, <5>1 DEF GhostsWereClosed
        <5> QED
          BY <2>1, <2>3, <5>1, <5>2
      <4> QED
        BY <4>1, <4>2
    <3> QED
      BY <1>0, <2>2, <2>4, <3>1 DEF GhostsWereClosed
  <2>6. NoResidue'
    BY <1>0, <1>t, <2>1, <2>2, AddResidue DEF NoResidue
  <2>7. UpgradePending'
    BY <2>2, NoAdmissionOK DEF UpgradePending
  <2>8. AskedOfTarget'
    BY <1>0, <2>1, <2>2, <2>3, AskedKept
  <2> QED
    BY <1>0, <2>2, <2>5, <2>6, <2>7, <2>8 DEF Linked, BridgedToTarget
<1>5. CASE StreamFails
  <2>1. /\ admitting' = NoAdmission
        /\ UNCHANGED <<reg, asked, conn>>
    BY <1>5 DEF StreamFails
  <2>2. \A b \in Addr : /\ sock[b].st # "upgrading" => sock'[b].st = sock[b].st
                        /\ sock'[b].uid = sock[b].uid
                        /\ sock'[b].name = sock[b].name
    <3>1. CASE admitting.kind = "agent"
      BY <1>0, <1>t, <1>5, <3>1, SocketsStep DEF StreamFails, AdmissionOK, UpgradePending
    <3>2. CASE admitting.kind # "agent"
      BY <1>5, <3>2 DEF StreamFails
    <3> QED
      BY <3>1, <3>2
  <2>3. \A z \in Session : csock[z].st # "upgrading" => csock'[z] = csock[z]
    <3>1. CASE admitting.kind = "client"
      BY <1>0, <1>t, <1>5, <3>1, SessionsStep DEF StreamFails, AdmissionOK, UpgradePending
    <3>2. CASE admitting.kind # "client"
      BY <1>5, <3>2 DEF StreamFails
    <3> QED
      BY <3>1, <3>2
  <2>4. GhostsWereClosed'
    <3>1. \A v \in Uid : reg.clients[v] \subseteq Session
      BY <1>t DEF Registry
    <3> QED
      BY <1>0, <2>1, <2>2, <2>3, <3>1, LiveKept
  <2>5. UpgradePending'
    BY <2>1, NoAdmissionOK DEF UpgradePending
  <2>6. AskedOfTarget'
    BY <1>0, <2>1, <2>2, AskedKept
  <2> QED
    BY <1>0, <2>1, <2>4, <2>5, <2>6 DEF Linked, NoResidue, BridgedToTarget
<1>6. ASSUME NEW s \in Session, NEW n \in Name, ClientData(s, n) PROVE Linked'
  <2> DEFINE u == csock[s].uid
  <2>1. /\ u \in Uid
        /\ UNCHANGED <<sock, csock, admitting>>
    BY <1>t, <1>6 DEF ClientData, SessionsOK
  <2>2. reg.agents[u][n] # None /\ \E c \in Conn : OpenConnection(c, u, s, n)
    BY <1>6 DEF ClientData
  <2> QED
    BY <2>1, <2>2, OpenConnectionLinked
<1>7. ASSUME NEW d \in Domain, NEW p \in Port,
             HttpTransparent(d, p) \/ TlsTransparent(d, p)
      PROVE Linked'
  <2>1. PICK a \in get_mut_agent_by_domain(reg, d, p), c \in Conn :
              OpenConnection(c, owner(reg, d, p), None, sock[a].name)
    BY <1>7 DEF HttpTransparent, TlsTransparent
  <2>2. /\ owner(reg, d, p) \in Uid
        /\ a \in Addr
        /\ sock[a].name \in Name
        /\ reg.agents[owner(reg, d, p)][sock[a].name] = a
    BY <1>0, RoutedAgent
  <2>3. UNCHANGED <<sock, csock, admitting>>
    BY <1>7 DEF HttpTransparent, TlsTransparent
  <2> QED
    BY <2>1, <2>2, <2>3, NoneAssumption, OpenConnectionLinked
<1>8. ASSUME NEW a \in Addr, NEW c \in Conn, NEW ok \in BOOLEAN, AgentData(a, c, ok)
      PROVE Linked'
  <2>1. /\ c \in asked[a]
        /\ asked' = [asked EXCEPT ![a] = @ \ {c}]
        /\ (reg' = reg \/ reg' = get_mut_connection(reg, sock[a].uid, c))
        /\ UNCHANGED <<sock, csock, admitting>>
    BY <1>8 DEF AgentData
  <2>2. /\ conn[c].st # "fresh" /\ conn[c].uid = sock[a].uid /\ conn[c].target = sock[a].name
        /\ sock[a].uid \in Uid /\ sock[a].name \in Name
    BY <1>0, <1>t, <2>1 DEF AskedOfTarget, ConnsOK
  <2>3. /\ \A k \in Conn : /\ conn'[k].uid = conn[k].uid
                           /\ conn'[k].target = conn[k].target
                           /\ conn[k].st # "fresh" => conn'[k].st # "fresh"
        /\ \A k \in Conn \ {c} : conn'[k] = conn[k]
        /\ conn'[c].st = "serving" =>
              conn'[c] = conn[c] \/ conn'[c].by = <<sock[a].uid, sock[a].name>>
    BY <1>t, <1>8, <2>2, AgentDataConn
  <2>4. reg'.agents = reg.agents /\ reg'.clients = reg.clients
    <3>1. /\ get_mut_connection(reg, sock[a].uid, c).agents = reg.agents
          /\ get_mut_connection(reg, sock[a].uid, c).clients = reg.clients
      BY <1>t, <2>2, GetMutConnectionFacts
    <3> QED
      BY <2>1, <3>1
  <2>5. GhostsWereClosed'
    BY <1>0, <2>1, <2>4, LiveKept
  <2>6. NoResidue'
    BY <1>0, <1>t, <2>1, <2>2, ConnectionResidue DEF NoResidue
  <2>7. AskedOfTarget'
    <3>1. \A b \in Addr : asked'[b] \subseteq asked[b]
      BY <1>t, <2>1
    <3> QED
      BY <1>0, <2>1, <2>3, <3>1, AskedKept
  <2>8. BridgedToTarget'
    <3> SUFFICES ASSUME NEW k \in Conn, conn'[k].st = "serving"
                 PROVE  conn'[k].by = <<conn'[k].uid, conn'[k].target>>
      BY DEF BridgedToTarget
    <3>1. CASE k = c
      BY <1>0, <2>2, <2>3, <3>1 DEF BridgedToTarget
    <3>2. CASE k # c
      BY <1>0, <2>3, <3>2 DEF BridgedToTarget
    <3> QED
      BY <3>1, <3>2
  <2> QED
    BY <1>0, <2>1, <2>5, <2>6, <2>7, <2>8 DEF Linked, UpgradePending
<1>9. ASSUME NEW a \in Addr, NEW c \in Conn, AgentError(a, c) PROVE Linked'
  <2>1. /\ c \in asked[a]
        /\ asked' = [asked EXCEPT ![a] = @ \ {c}]
        /\ reg' = del_connection(reg, sock[a].uid, c)
        /\ UNCHANGED <<sock, csock, admitting>>
    BY <1>9 DEF AgentError
  <2>2. conn[c].st # "fresh" /\ sock[a].uid \in Uid
    BY <1>0, <1>t, <2>1 DEF AskedOfTarget, ConnsOK
  <2>3. \A k \in Conn : /\ conn'[k].uid = conn[k].uid
                        /\ conn'[k].target = conn[k].target
                        /\ conn'[k].by = conn[k].by
                        /\ conn[k].st # "fresh" => conn'[k].st # "fresh"
                        /\ conn'[k].st = "serving" => conn[k].st = "serving"
    BY <1>t, <1>9, <2>2, AgentErrorConn
  <2>4. /\ reg'.agents = reg.agents
        /\ \A v \in Uid : reg'.clients[v] \subseteq reg.clients[v]
    BY <1>t, <2>1, <2>2, DelConnectionFacts
  <2>5. GhostsWereClosed'
    BY <1>0, <2>1, <2>4, LiveKept
  <2>6. NoResidue'
    BY <1>0, <1>t, <2>1, <2>2, ConnectionResidue DEF NoResidue
  <2>7. AskedOfTarget'
    <3>1. \A b \in Addr : asked'[b] \subseteq asked[b]
      BY <1>t, <2>1
    <3> QED
      BY <1>0, <2>1, <2>3, <3>1, AskedKept
  <2>8. BridgedToTarget'
    BY <1>0, <2>3, BridgedKept
  <2> QED
    BY <1>0, <2>1, <2>5, <2>6, <2>7, <2>8 DEF Linked, UpgradePending
<1>10. ASSUME NEW a \in Addr, AgentDisconnected(a) PROVE Linked'
  <2> DEFINE u == sock[a].uid
             n == sock[a].name
  <2>1. /\ u \in Uid /\ n \in Name
        /\ sock[a].st = "broken"
        /\ sock' = [sock EXCEPT ![a].st = "ended"]
        /\ UNCHANGED <<asked, csock, admitting>>
    BY <1>t, <1>10 DEF AgentDisconnected, SocketsOK
  <2>2. PICK out \in del_agent(reg, u, n) :
            /\ reg' = IF superseded(out.agent, a)
                      THEN add_agent(out.reg, u, n, out.agent, sock[out.agent].pub)
                      ELSE out.reg
            /\ conn' = dropped(out.reg)
    BY <1>10 DEF AgentDisconnected
  <2>3. \A k \in Conn : /\ conn'[k].uid = conn[k].uid
                        /\ conn'[k].target = conn[k].target
                        /\ conn'[k].by = conn[k].by
                        /\ conn[k].st # "fresh" => conn'[k].st # "fresh"
                        /\ conn'[k].st = "serving" => conn[k].st = "serving"
    BY <1>t, <2>2, DroppedKeeps
  <2>4. /\ sock'[a].st = "ended" /\ sock'[a].uid = u /\ sock'[a].name = n
        /\ \A b \in Addr \ {a} : sock'[b] = sock[b]
    BY <1>t, <2>1, SocketsStep
  <2> HIDE DEF u, n
  <2>5. /\ out.reg \in Registry
        /\ u \notin reg.users \/ reg.agents[u][n] = None =>
              out.reg = reg /\ out.agent = None
        /\ u \in reg.users /\ reg.agents[u][n] # None =>
              /\ out.reg.agents = [reg.agents EXCEPT ![u][n] = None]
              /\ out.agent \in {None, reg.agents[u][n]}
        /\ \A v \in Uid : out.reg.clients[v] \subseteq reg.clients[v]
    BY <1>t, <2>1, <2>2, DelAgentFacts
  <2>6. u \notin reg.users => reg.agents[u][n] = None
    BY <1>0, <2>1 DEF NoResidue, NoResidueIn, Registered
  <2>7. /\ out.reg.agents = [reg.agents EXCEPT ![u][n] = None]
        /\ \/ out.agent = None
           \/ out.agent = reg.agents[u][n] /\ out.agent \in Addr
    <3>1. CASE reg.agents[u][n] = None
      BY <1>t, <2>1, <2>5, <3>1 DEF Registry
    <3>2. CASE reg.agents[u][n] # None
      <4>1. reg.agents[u][n] \in Addr
        BY <1>t, <2>1, <3>2 DEF Registry
      <4> QED
        BY <2>5, <2>6, <3>2, <4>1
    <3> QED
      BY <3>1, <3>2
  <2>8. NoResidueIn(out.reg)
    BY <1>0, <1>t, <2>1, <2>2, DelAgentResidue DEF NoResidue
  <2>9. /\ reg'.clients = out.reg.clients
        /\ \/ reg'.agents = out.reg.agents
           \/ /\ reg'.agents = [out.reg.agents EXCEPT ![u][n] = out.agent]
              /\ out.agent \in Addr \ {a}
        /\ NoResidueIn(reg')
    <3>1. CASE superseded(out.agent, a)
      <4>1. out.agent \in Addr \ {a} /\ sock[out.agent].pub \in PublishMap
        BY <1>t, <2>7, <3>1 DEF superseded, SocketsOK, AgentSocket
      <4>2. reg' = add_agent(out.reg, u, n, out.agent, sock[out.agent].pub)
        BY <2>2, <3>1
      <4>3. NoResidueIn(reg')
        BY <2>1, <2>5, <2>8, <4>1, <4>2, AddResidue
      <4>4. /\ reg'.agents = [out.reg.agents EXCEPT ![u][n] = out.agent]
            /\ reg'.clients = out.reg.clients
        BY <2>5, <4>2 DEF add_agent, Registry
      <4> QED
        BY <4>1, <4>3, <4>4
    <3>2. CASE ~superseded(out.agent, a)
      BY <2>2, <2>8, <3>2
    <3> QED
      BY <3>1, <3>2
  <2>10. ASSUME NEW v \in Uid, NEW k \in Name, reg'.agents[v][k] # None
         PROVE  LET b == reg'.agents[v][k]
                IN  sock'[b].st \in {"open", "broken", "closed"} /\ sock'[b].uid = v /\ sock'[b].name = k
    <3>1. reg'.agents[v][k] = reg.agents[v][k] /\ reg.agents[v][k] \in Addr \ {a}
      <4>1. CASE v = u /\ k = n
        BY <1>t, <2>1, <2>5, <2>7, <2>9, <2>10, <4>1 DEF Registry
      <4>2. CASE ~(v = u /\ k = n)
        <5>1. reg'.agents[v][k] = reg.agents[v][k] /\ reg.agents[v][k] \in Addr
          BY <1>t, <2>1, <2>5, <2>7, <2>9, <2>10, <4>2 DEF Registry
        <5>2. sock[reg.agents[v][k]].uid = v /\ sock[reg.agents[v][k]].name = k
          BY <1>0, <2>10, <5>1 DEF GhostsWereClosed
        <5> QED
          BY <4>2, <5>1, <5>2 DEF u, n
      <4> QED
        BY <4>1, <4>2
    <3>2. LET b == reg.agents[v][k]
          IN  sock[b].st \in {"open", "broken", "closed"} /\ sock[b].uid = v /\ sock[b].name = k
      BY <1>0, <2>10, <3>1 DEF GhostsWereClosed
    <3> QED
      BY <2>4, <3>1, <3>2
  <2>11. ASSUME NEW v \in Uid, NEW z \in reg'.clients[v]
         PROVE  csock'[z].st \in {"open", "broken", "closed"} /\ csock'[z].uid = v
    BY <1>0, <2>1, <2>5, <2>9 DEF GhostsWereClosed
  <2>12. GhostsWereClosed'
    BY <2>10, <2>11 DEF GhostsWereClosed
  <2>13. UpgradePending'
    <3>1. admitting.kind = "agent" => admitting.addr \in Addr \ {a}
      BY <1>0, <1>t, <2>1 DEF UpgradePending, AdmissionOK
    <3> QED
      BY <1>0, <2>1, <2>4, <3>1 DEF UpgradePending
  <2>14. AskedOfTarget'
    <3>1. \A b \in Addr : sock'[b].uid = sock[b].uid /\ sock'[b].name = sock[b].name
      BY <2>4 DEF u, n
    <3> QED
      BY <1>0, <2>1, <2>3, <3>1, AskedKept
  <2>15. BridgedToTarget'
    BY <1>0, <2>3, BridgedKept
  <2> QED
    BY <2>9, <2>12, <2>13, <2>14, <2>15 DEF Linked, NoResidue
<1>11. ASSUME NEW s \in Session, ClientDisconnected(s) PROVE Linked'
  <2> DEFINE u == csock[s].uid
  <2>1. /\ u \in Uid
        /\ csock[s].st = "broken"
        /\ csock' = [csock EXCEPT ![s].st = "ended"]
        /\ reg' = del_client(reg, u, s)
        /\ conn' = dropped(reg')
        /\ UNCHANGED <<sock, asked, admitting>>
    BY <1>t, <1>11 DEF ClientDisconnected, SessionsOK
  <2>2. \A z \in Session \ {s} : csock'[z] = csock[z]
    BY <1>t, <2>1, SessionsStep
  <2>3. \A k \in Conn : /\ conn'[k].uid = conn[k].uid
                        /\ conn'[k].target = conn[k].target
                        /\ conn'[k].by = conn[k].by
                        /\ conn[k].st # "fresh" => conn'[k].st # "fresh"
                        /\ conn'[k].st = "serving" => conn[k].st = "serving"
    BY <1>t, <2>1, DroppedKeeps
  <2>4. /\ reg'.agents = reg.agents
        /\ s \notin reg'.clients[u]
        /\ \A v \in Uid : reg'.clients[v] \subseteq reg.clients[v]
    BY <1>t, <2>1, DelClientFacts
  <2>5. GhostsWereClosed'
    <3>1. ASSUME NEW v \in Uid, NEW z \in reg'.clients[v] PROVE z \in Session \ {s}
      <4>1. z \in reg.clients[v] /\ z \in Session
        BY <1>t, <2>4 DEF Registry
      <4>2. csock[z].uid = v
        BY <1>0, <4>1 DEF GhostsWereClosed
      <4> QED
        BY <2>4, <4>1, <4>2
    <3> QED
      BY <1>0, <2>1, <2>2, <2>4, <3>1, LiveKept
  <2>6. NoResidue'
    BY <1>0, <1>t, <2>1, DelClientResidue DEF NoResidue
  <2>7. UpgradePending'
    <3>1. admitting.kind = "client" => admitting.session \in Session \ {s}
      BY <1>0, <1>t, <2>1 DEF UpgradePending, AdmissionOK
    <3> QED
      BY <1>0, <2>1, <2>2, <3>1 DEF UpgradePending
  <2>8. AskedOfTarget'
    BY <1>0, <2>1, <2>3, AskedKept
  <2>9. BridgedToTarget'
    BY <1>0, <2>3, BridgedKept
  <2> QED
    BY <2>5, <2>6, <2>7, <2>8, <2>9 DEF Linked
<1>12. ASSUME NEW a \in Addr, AgentBreaks(a) \/ AgentCloses(a) \/ AgentExits(a) PROVE Linked'
  <2>1. UNCHANGED <<reg, csock, conn, admitting>>
    BY <1>12 DEF AgentBreaks, AgentCloses, AgentExits
  <2>2. \A b \in Addr : asked'[b] \subseteq asked[b]
    BY <1>t, <1>12 DEF AgentBreaks, AgentCloses, AgentExits
  <2>3. \A b \in Addr : \/ sock'[b] = sock[b]
                        \/ /\ sock[b].st = "open" /\ sock'[b].st \in {"broken", "closed"}
                           /\ sock'[b].uid = sock[b].uid /\ sock'[b].name = sock[b].name
    <3>1. \/ sock' = sock
          \/ /\ sock[a].st = "open"
             /\ \E st \in {"broken", "closed"} : sock' = [sock EXCEPT ![a].st = st]
      BY <1>t, <1>12, ExitingSocket DEF AgentBreaks, AgentCloses
    <3>2. ASSUME sock[a].st = "open",
                 NEW st \in {"broken", "closed"}, sock' = [sock EXCEPT ![a].st = st]
          PROVE  \A b \in Addr :
                    \/ sock'[b] = sock[b]
                    \/ /\ sock[b].st = "open" /\ sock'[b].st \in {"broken", "closed"}
                       /\ sock'[b].uid = sock[b].uid /\ sock'[b].name = sock[b].name
      BY <1>t, <3>2, SocketsStep
    <3> QED
      BY <3>1, <3>2
  <2>4. GhostsWereClosed'
    BY <1>0, <2>1, <2>3, LiveKept
  <2>5. UpgradePending'
    <3>1. admitting.kind = "agent" =>
              admitting.addr \in Addr /\ sock[admitting.addr].st = "upgrading"
      BY <1>0, <1>t DEF UpgradePending, AdmissionOK
    <3> QED
      BY <1>0, <2>1, <2>3, <3>1 DEF UpgradePending
  <2>6. AskedOfTarget'
    BY <1>0, <2>1, <2>2, <2>3, AskedKept
  <2> QED
    BY <1>0, <2>1, <2>4, <2>5, <2>6 DEF Linked, NoResidue, BridgedToTarget
<1>13. ASSUME NEW a \in Addr, AgentTasksEnd(a) PROVE Linked'
  <2>1. UNCHANGED <<reg, sock, csock, conn, admitting>>
    BY <1>13 DEF AgentTasksEnd
  <2>2. \A b \in Addr : asked'[b] \subseteq asked[b]
    BY <1>t, <1>13 DEF AgentTasksEnd
  <2>3. AskedOfTarget'
    BY <1>0, <2>1, <2>2, AskedKept
  <2> QED
    BY <1>0, <2>1, <2>3 DEF Linked, GhostsWereClosed, NoResidue, UpgradePending, BridgedToTarget
<1>14. ASSUME NEW s \in Session, ClientBreaks(s) \/ ClientCloses(s) PROVE Linked'
  <2>1. /\ csock[s].st = "open"
        /\ \E st \in {"broken", "closed"} : csock' = [csock EXCEPT ![s].st = st]
        /\ UNCHANGED <<reg, sock, asked, conn, admitting>>
    BY <1>14 DEF ClientBreaks, ClientCloses
  <2>2. /\ csock'[s].st \in {"broken", "closed"} /\ csock'[s].uid = csock[s].uid
        /\ \A z \in Session \ {s} : csock'[z] = csock[z]
    BY <1>t, <2>1, SessionsStep
  <2>3. GhostsWereClosed'
    <3>1. \A v \in Uid : reg.clients[v] \subseteq Session
      BY <1>t DEF Registry
    <3> QED
      BY <1>0, <2>1, <2>2, <3>1, LiveKept
  <2>4. UpgradePending'
    <3>1. admitting.kind = "client" => admitting.session \in Session \ {s}
      BY <1>0, <1>t, <2>1 DEF UpgradePending, AdmissionOK
    <3> QED
      BY <1>0, <2>1, <2>2, <3>1 DEF UpgradePending
  <2> QED
    BY <1>0, <2>1, <2>3, <2>4 DEF Linked, NoResidue, AskedOfTarget, BridgedToTarget
<1>15. ASSUME NEW a \in Addr, NEW c \in Conn, AgentSilent(a, c) PROVE Linked'
  <2>1. UNCHANGED <<reg, sock, csock, admitting>>
    BY <1>15 DEF AgentSilent
  <2>2. \A b \in Addr : asked'[b] \subseteq asked[b]
    BY <1>t, <1>15 DEF AgentSilent
  <2>3. \A k \in Conn : /\ conn'[k].st = conn[k].st
                       /\ conn'[k].uid = conn[k].uid
                       /\ conn'[k].target = conn[k].target
                       /\ conn'[k].by = conn[k].by
    BY <1>t, <1>15, AgentSilentConn
  <2>4. AskedOfTarget'
    BY <1>0, <2>1, <2>2, <2>3, AskedKept
  <2>5. BridgedToTarget'
    BY <1>0, <2>3, BridgedKept
  <2> QED
    BY <1>0, <2>1, <2>4, <2>5 DEF Linked, GhostsWereClosed, NoResidue, UpgradePending
<1>16. CASE UNCHANGED vars
  BY <1>0, <1>16
  DEF vars, Linked, GhostsWereClosed, NoResidue, NoResidueIn, Registered, UpgradePending,
      AskedOfTarget, BridgedToTarget
<1> QED
  BY <1>1, <1>2, <1>3, <1>4, <1>5, <1>6, <1>7, <1>8, <1>9, <1>10, <1>11, <1>12,
     <1>13, <1>14, <1>15, <1>16 DEF Next

-----------------------------------------------------------------------------
(* The theorems.                                                           *)

\* The inductive invariant holds in every behaviour.
THEOREM Inductive == Spec => []IInv
<1>1. Init => IInv
  BY InitType, InitLinked DEF IInv, Linked
<1>2. IInv /\ [Next]_vars => IInv'
  BY TypeStep, LinkedStep DEF IInv, Linked
<1> QED
  BY <1>1, <1>2, PTL DEF Spec

\* Every variable keeps its type, for any number of users, agents, clients,
\* connections and hosts.
THEOREM TypeCorrect == Spec => []TypeOK
<1>1. IInv => TypeOK
  BY DEF IInv
<1> QED
  BY <1>1, Inductive, PTL

\* A ghost is left in the registry only by a socket that was closed: anything else
\* in it is still being polled, whatever the order of reconnections, late errors
\* and removals.
THEOREM GhostsOnlyByClose == Spec => []GhostsWereClosed
<1>1. IInv => GhostsWereClosed
  BY DEF IInv
<1> QED
  BY <1>1, Inductive, PTL

\* A connection is served only by the agent, of the user, it was opened to.
THEOREM BridgesAreRight == Spec => []BridgedToTarget
<1>1. IInv => BridgedToTarget
  BY DEF IInv
<1> QED
  BY <1>1, Inductive, PTL

-----------------------------------------------------------------------------
(* Which steps change whom the registry holds, and who is left behind.      *)

\* A socket keeps its user, its name and its publish map until its address is
\* used again.
LEMMA SocketsKeep ==
    ASSUME IInv, [Next]_vars, NEW a \in Addr
    PROVE  \/ /\ sock[a].st \in {"free", "ended", "closed"}
              /\ \A v \in Uid, k \in Name : reg.agents[v][k] # a
              /\ \E u \in Uid, n \in Name : \E m \in Publishes[u] :
                    sock'[a] = [st |-> "upgrading", uid |-> u, name |-> n, pub |-> m]
           \/ /\ sock'[a].uid = sock[a].uid
              /\ sock'[a].name = sock[a].name
              /\ sock'[a].pub = sock[a].pub
              /\ sock'[a].st = "free" <=> sock[a].st = "free"
<1>t. sock \in [Addr -> AgentSocket]
  BY DEF IInv, TypeOK, SocketsOK
<1> DEFINE Kept == /\ sock'[a].uid = sock[a].uid
                   /\ sock'[a].name = sock[a].name
                   /\ sock'[a].pub = sock[a].pub
                   /\ sock'[a].st = "free" <=> sock[a].st = "free"
<1>1. ASSUME NEW b \in Addr, sock[b].st # "free", NEW st, st # "free",
             sock' = [sock EXCEPT ![b].st = st]
      PROVE  Kept
  <2>1. /\ [sock[b] EXCEPT !.st = st].uid = sock[b].uid
        /\ [sock[b] EXCEPT !.st = st].name = sock[b].name
        /\ [sock[b] EXCEPT !.st = st].pub = sock[b].pub
        /\ [sock[b] EXCEPT !.st = st].st = st
    BY <1>t DEF AgentSocket
  <2> QED
    BY <1>t, <1>1, <2>1
<1>2. ASSUME NEW u \in Uid, NEW n \in Name, NEW b \in Addr, NEW m \in Publishes[u],
             AgentEvent(u, n, b, m)
      PROVE  \/ Kept
             \/ /\ sock[a].st \in {"free", "ended", "closed"}
                /\ \A v \in Uid, k \in Name : reg.agents[v][k] # a
                /\ sock'[a] = [st |-> "upgrading", uid |-> u, name |-> n, pub |-> m]
  <2>1. sock' = [sock EXCEPT ![b] = [st |-> "upgrading", uid |-> u, name |-> n, pub |-> m]]
    BY <1>2 DEF AgentEvent
  <2>2. CASE a = b
    BY <1>t, <1>2, <2>1, <2>2, FreeAddress DEF IInv
  <2>3. CASE a # b
    BY <1>t, <2>1, <2>3
  <2> QED
    BY <2>2, <2>3
<1>3. CASE AgentStream \/ StreamFails
  <2>1. sock' = sock \/ \E st \in {"open", "ended"} : sock' = [sock EXCEPT ![admitting.addr].st = st]
    BY <1>3 DEF AgentStream, StreamFails
  <2>2. admitting.kind = "agent" => admitting.addr \in Addr /\ sock[admitting.addr].st = "upgrading"
    BY DEF IInv, TypeOK, AdmissionOK, UpgradePending
  <2>3. sock' = sock \/ admitting.kind = "agent"
    BY <1>3 DEF AgentStream, StreamFails
  <2> QED
    BY <1>1, <2>1, <2>2, <2>3
<1>4. ASSUME NEW b \in Addr, AgentDisconnected(b)
      PROVE  Kept
  <2>1. sock[b].st = "broken" /\ sock' = [sock EXCEPT ![b].st = "ended"]
    BY <1>4 DEF AgentDisconnected
  <2> QED
    BY <1>1, <2>1
<1>5. ASSUME NEW b \in Addr, AgentBreaks(b) \/ AgentCloses(b)
      PROVE  Kept
  <2>1. /\ sock[b].st = "open"
        /\ \E st \in {"broken", "closed"} : sock' = [sock EXCEPT ![b].st = st]
    BY <1>5 DEF AgentBreaks, AgentCloses
  <2> QED
    BY <1>1, <2>1
<1>6. ASSUME NEW b \in Addr, AgentExits(b)
      PROVE  Kept
  <2>1. \/ sock' = sock
        \/ sock[b].st = "open" /\ sock' = [sock EXCEPT ![b].st = "broken"]
    BY <1>6, ExitingSocket DEF IInv, TypeOK
  <2> QED
    BY <1>1, <2>1
<1>7. \/ sock' = sock
      \/ \E u \in Uid, n \in Name, b \in Addr : \E m \in Publishes[u] : AgentEvent(u, n, b, m)
      \/ AgentStream \/ StreamFails
      \/ \E b \in Addr : AgentDisconnected(b) \/ AgentBreaks(b) \/ AgentCloses(b) \/ AgentExits(b)
  BY DEF Next, vars, ClientEvent, ClientStream, ClientData, HttpTransparent, TlsTransparent,
         AgentData, AgentError, ClientDisconnected, AgentSilent, AgentTasksEnd, ClientBreaks,
         ClientCloses
<1> QED
  BY <1>2, <1>3, <1>4, <1>5, <1>6, <1>7

\* Agents enter and leave the registry in two ways, and with them the entries
\* of domains and the messages to the certificate manager.
LEMMA AgentsStep ==
    ASSUME IInv, [Next]_vars
    PROVE  \/ reg'.agents = reg.agents /\ reg'.domains = reg.domains /\ certs' = certs
           \/ AgentStream
           \/ \E a \in Addr : AgentDisconnected(a)
<1>t. reg \in Registry /\ ConnsOK /\ asked \in [Addr -> SUBSET Conn]
  BY DEF IInv, TypeOK
<1> DEFINE Same == reg'.agents = reg.agents /\ reg'.domains = reg.domains /\ certs' = certs
<1>1. ASSUME NEW c \in Conn, NEW u, NEW s, NEW n, OpenConnection(c, u, s, n), certs' = certs
      PROVE  Same
  BY <1>t, <1>1 DEF OpenConnection, add_connection, Registry
<1>2. ASSUME NEW s \in Session, NEW n \in Name, ClientData(s, n) PROVE Same
  BY <1>1, <1>2 DEF ClientData
<1>3. ASSUME NEW d \in Domain, NEW p \in Port, HttpTransparent(d, p) \/ TlsTransparent(d, p)
      PROVE  Same
  BY <1>1, <1>3 DEF HttpTransparent, TlsTransparent
<1>4. CASE ClientStream
  BY <1>t, <1>4 DEF ClientStream, add_client, Registry
<1>5. ASSUME NEW a \in Addr, NEW c \in Conn, NEW ok \in BOOLEAN, AgentData(a, c, ok) PROVE Same
  BY <1>t, <1>5, SMTT(30) DEF AgentData, get_mut_connection, Registry
<1>6. ASSUME NEW a \in Addr, NEW c \in Conn, AgentError(a, c) PROVE Same
  BY <1>t, <1>6 DEF AgentError, del_connection, reclaim, Registry
<1>7. ASSUME NEW s \in Session, ClientDisconnected(s) PROVE Same
  BY <1>t, <1>7 DEF ClientDisconnected, del_client, reclaim, Registry
<1>8. CASE UNCHANGED <<reg, certs>>
  BY <1>8
<1>9. \/ UNCHANGED <<reg, certs>>
      \/ ClientStream \/ AgentStream
      \/ \E s \in Session, n \in Name : ClientData(s, n)
      \/ \E d \in Domain, p \in Port : HttpTransparent(d, p) \/ TlsTransparent(d, p)
      \/ \E a \in Addr, c \in Conn, ok \in BOOLEAN : AgentData(a, c, ok)
      \/ \E a \in Addr, c \in Conn : AgentError(a, c)
      \/ \E a \in Addr : AgentDisconnected(a)
      \/ \E s \in Session : ClientDisconnected(s)
  BY DEF Next, vars, ClientEvent, AgentEvent, StreamFails, AgentBreaks, AgentCloses,
         AgentSilent, AgentTasksEnd, AgentExits, ClientBreaks, ClientCloses
<1> QED
  BY <1>2, <1>3, <1>4, <1>5, <1>6, <1>7, <1>8, <1>9

\* An agent whose upgrade ends takes the place of its name and no other's.
LEMMA AgentStreamFacts ==
    ASSUME IInv, AgentStream
    PROVE  LET u == admitting.uid
               n == admitting.name
               a == admitting.addr
               m == admitting.pub
           IN  /\ u \in Uid /\ n \in Name /\ a \in Addr /\ m \in PublishMap
               /\ sock[a].st = "upgrading" /\ sock[a].uid = u /\ sock[a].name = n /\ sock[a].pub = m
               /\ reg'.agents = [reg.agents EXCEPT ![u][n] = a]
               /\ reg'.users = reg.users \cup {u}
               /\ reg'.clients = reg.clients /\ reg'.conns = reg.conns
               /\ reg'.domains = [h \in Host |-> IF h \in Published(m) THEN u ELSE reg.domains[h]]
               /\ certs' = load(u, n, m)
<1> DEFINE u == admitting.uid
           n == admitting.name
           a == admitting.addr
           m == admitting.pub
<1>1. /\ u \in Uid /\ n \in Name /\ a \in Addr /\ m \in PublishMap
      /\ sock[a].st = "upgrading" /\ sock[a].uid = u /\ sock[a].name = n /\ sock[a].pub = m
  BY DEF IInv, TypeOK, AgentStream, AdmissionOK, Admission, UpgradePending
<1>2. reg' = add_agent(reg, u, n, a, m) /\ certs' = load(u, n, m)
  BY DEF AgentStream
<1>3. reg \in Registry
  BY DEF IInv, TypeOK
<1> QED
  BY <1>1, <1>2, <1>3, AddAgentFacts

\* The error of a socket takes the agent of its name out, unless the agent is
\* another socket's and was found; and the users keep clients and connections
\* unless that was the last agent.
LEMMA DisconnectFacts ==
    ASSUME IInv, NEW a \in Addr, AgentDisconnected(a)
    PROVE  LET u == sock[a].uid
               n == sock[a].name
           IN  /\ u \in Uid /\ n \in Name
               /\ \/ reg'.agents = reg.agents /\ certs' = certs
                  \/ /\ reg'.agents = [reg.agents EXCEPT ![u][n] = None]
                     /\ certs' = unload(u, n)
<1> DEFINE u == sock[a].uid
           n == sock[a].name
<1>1. u \in Uid /\ n \in Name /\ reg \in Registry /\ sock \in [Addr -> AgentSocket]
  BY DEF AgentDisconnected, IInv, TypeOK, SocketsOK
<1>2. PICK out \in del_agent(reg, u, n) :
          IF superseded(out.agent, a)
          THEN reg' = add_agent(out.reg, u, n, out.agent, sock[out.agent].pub) /\ certs' = certs
          ELSE reg' = out.reg /\ certs' = unload(u, n)
  BY DEF AgentDisconnected
<1> HIDE DEF u, n
<1>3. /\ out.reg \in Registry
      /\ u \notin reg.users \/ reg.agents[u][n] = None => out.reg = reg /\ out.agent = None
      /\ u \in reg.users /\ reg.agents[u][n] # None =>
            /\ out.reg.agents = [reg.agents EXCEPT ![u][n] = None]
            /\ out.agent \in {None, reg.agents[u][n]}
  BY <1>1, DelAgentFacts
<1>4. u \notin reg.users => reg.agents[u][n] = None
  BY <1>1 DEF IInv, NoResidue, NoResidueIn, Registered
<1>5. /\ out.reg.agents = [reg.agents EXCEPT ![u][n] = None]
      /\ out.agent \in {None, reg.agents[u][n]}
  BY <1>1, <1>3, <1>4 DEF Registry
<1>6. CASE superseded(out.agent, a)
  <2>1. out.agent = reg.agents[u][n] /\ out.agent \in Addr
    BY <1>1, <1>5, <1>6 DEF superseded, Registry
  <2>2. reg'.agents = [out.reg.agents EXCEPT ![u][n] = out.agent]
    <3>1. sock[out.agent].pub \in PublishMap
      BY <1>1, <2>1 DEF AgentSocket
    <3>2. reg' = add_agent(out.reg, u, n, out.agent, sock[out.agent].pub)
      BY <1>2, <1>6
    <3>3. add_agent(out.reg, u, n, out.agent, sock[out.agent].pub).agents
              = [out.reg.agents EXCEPT ![u][n] = out.agent]
      <4>1. u \in Uid /\ n \in Name /\ out.reg \in Registry /\ out.agent \in Addr
        BY <1>1, <1>3, <2>1
      <4> QED
        BY <4>1 DEF add_agent, Registry
    <3> QED
      BY <3>2, <3>3
  <2>3. reg'.agents = reg.agents
    BY <1>1, <1>5, <2>1, <2>2 DEF Registry
  <2> QED
    BY <1>1, <1>2, <1>6, <2>3 DEF u, n
<1>7. CASE ~superseded(out.agent, a)
  BY <1>1, <1>2, <1>5, <1>7 DEF u, n
<1> QED
  BY <1>6, <1>7

-----------------------------------------------------------------------------
(* Certificates follow the registration.                                   *)

\* Every step keeps what was last sent of an agent's certificates true to the registry.
LEMMA CertsStep == IInv /\ CertsFollowRegistration /\ [Next]_vars => CertsFollowRegistration'
<1> SUFFICES ASSUME IInv, CertsFollowRegistration, [Next]_vars,
                    NEW v \in Uid, NEW k \in Name
             PROVE  LET b == reg'.agents[v][k]
                    IN  /\ certs'[v][k] => b # None
                        /\ b # None /\ Published(sock'[b].pub) # {} => certs'[v][k]
  BY DEF CertsFollowRegistration
<1>t. /\ reg \in Registry /\ certs \in [Uid -> [Name -> BOOLEAN]]
  BY DEF IInv, TypeOK
<1>0. LET b == reg.agents[v][k]
      IN  /\ certs[v][k] => b # None
          /\ b # None /\ Published(sock[b].pub) # {} => certs[v][k]
  BY DEF CertsFollowRegistration
<1>1. reg.agents[v][k] # None =>
          reg.agents[v][k] \in Addr /\ sock'[reg.agents[v][k]].pub = sock[reg.agents[v][k]].pub
  <2>1. ASSUME reg.agents[v][k] # None
        PROVE  reg.agents[v][k] \in Addr /\ sock[reg.agents[v][k]].st \in {"open", "broken", "closed"}
    BY <1>t, <2>1 DEF IInv, GhostsWereClosed, Registry
  <2> QED
    BY <2>1, SocketsKeep
<1>2. CASE reg'.agents = reg.agents /\ certs' = certs
  BY <1>0, <1>1, <1>2
<1>3. CASE AgentStream
  <2> DEFINE u == admitting.uid
             n == admitting.name
             a == admitting.addr
             m == admitting.pub
  <2>1. /\ u \in Uid /\ n \in Name /\ a \in Addr /\ sock[a].st = "upgrading" /\ sock[a].pub = m
        /\ reg'.agents = [reg.agents EXCEPT ![u][n] = a]
        /\ certs' = load(u, n, m)
    BY <1>3, AgentStreamFacts
  <2>2. sock'[a].pub = m
    BY <2>1, SocketsKeep
  <2> HIDE DEF u, n, a, m
  <2>3. CASE v = u /\ k = n
    <3>1. reg'.agents[v][k] = a /\ a # None
      BY <1>t, <2>1, <2>3, NoneAssumption DEF Registry
    <3>2. Published(m) # {} => certs'[v][k]
      BY <1>t, <2>1, <2>3 DEF load
    <3> QED
      BY <2>2, <3>1, <3>2
  <2>4. CASE ~(v = u /\ k = n)
    <3>1. reg'.agents[v][k] = reg.agents[v][k]
      BY <1>t, <2>1, <2>4 DEF Registry
    <3>2. certs' = certs \/ certs' = [certs EXCEPT ![u][n] = TRUE]
      BY <2>1 DEF load
    <3>3. certs'[v][k] = certs[v][k]
      BY <1>t, <2>1, <2>4, <3>2
    <3> QED
      BY <1>0, <1>1, <3>1, <3>3
  <2> QED
    BY <2>3, <2>4
<1>4. ASSUME NEW a \in Addr, AgentDisconnected(a),
             reg'.agents = [reg.agents EXCEPT ![sock[a].uid][sock[a].name] = None],
             certs' = unload(sock[a].uid, sock[a].name)
      PROVE  LET b == reg'.agents[v][k]
             IN  /\ certs'[v][k] => b # None
                 /\ b # None /\ Published(sock'[b].pub) # {} => certs'[v][k]
  <2> DEFINE u == sock[a].uid
             n == sock[a].name
  <2>1. u \in Uid /\ n \in Name
    BY <1>4, DisconnectFacts
  <2>2. reg'.agents = [reg.agents EXCEPT ![u][n] = None] /\ certs' = [certs EXCEPT ![u][n] = FALSE]
    BY <1>4 DEF unload
  <2> HIDE DEF u, n
  <2>3. CASE v = u /\ k = n
    <3>1. reg'.agents[v][k] = None
      BY <1>t, <2>1, <2>2, <2>3 DEF Registry
    <3>2. certs'[v][k] = FALSE
      BY <1>t, <2>1, <2>2, <2>3
    <3> QED
      BY <3>1, <3>2
  <2>4. CASE ~(v = u /\ k = n)
    <3>1. reg'.agents[v][k] = reg.agents[v][k]
      BY <1>t, <2>1, <2>2, <2>4 DEF Registry
    <3>2. certs'[v][k] = certs[v][k]
      BY <1>t, <2>1, <2>2, <2>4
    <3> QED
      BY <1>0, <1>1, <3>1, <3>2
  <2> QED
    BY <2>3, <2>4
<1> QED
  BY <1>2, <1>3, <1>4, AgentsStep, DisconnectFacts

\* The certificate manager is told to load what is published and registered,
\* and to unload what is not, for any number of users, agents and sockets.
THEOREM CertificatesFollow == Spec => []CertsFollowRegistration
<1>1. Init => CertsFollowRegistration
  BY DEF Init, CertsFollowRegistration, EmptyRegistry
<1> QED
  BY <1>1, CertsStep, Inductive, PTL DEF Spec

-----------------------------------------------------------------------------
(* Users who share no domain: del_agent does not stop before it is done.    *)

\* del_agent clears the hosts that nobody of the user serves any more, and
\* returns the agent, where every host of a registered agent has its entry.
LEMMA DelAgentClears ==
    ASSUME IInv, DomainInv, NEW u \in Uid, NEW n \in Name, reg.agents[u][n] # None,
           NEW out \in del_agent(reg, u, n)
    PROVE  LET a     == reg.agents[u][n]
               r1    == [reg EXCEPT !.agents[u][n] = None]
               hosts == unserved(r1, u, a)
           IN  out = [reg |-> reclaim(clear(r1, hosts, {d \in Domain : ports(hosts, d) # {}}), u),
                      agent |-> a]
<1> DEFINE a     == reg.agents[u][n]
           r1    == [reg EXCEPT !.agents[u][n] = None]
           hosts == unserved(r1, u, a)
           doms  == {d \in Domain : ports(hosts, d) # {}}
           ok    == {d \in doms : passes(r1, hosts, d)}
           P(D)  == [reg |-> reclaim(clear(r1, hosts, D), u), agent |-> a]
           Q(D)  == [reg |-> clear(r1, hosts, D), agent |-> None]
           part  == {E \in SUBSET doms :
                        \E d \in E : stops(r1, hosts, d) /\ E \ {d} \subseteq ok}
<1>t. reg \in Registry /\ sock \in [Addr -> AgentSocket]
  BY DEF IInv, TypeOK, SocketsOK
<1>1. u \in reg.users
  BY DEF IInv, NoResidue, NoResidueIn, Registered
<1>2. r1.domains = reg.domains
  BY <1>t DEF Registry
<1>3. hosts \subseteq Published(sock[a].pub) /\ Published(sock[a].pub) \subseteq Host
  BY DEF unserved, Published
<1>4. \A h \in hosts : reg.domains[h] = u
  BY <1>3 DEF DomainInv, HostsEntered
<1>5. out \in clean_up(r1, u, a)
  BY <1>1 DEF del_agent
<1>6. out \in {P(D) : D \in {doms} \cap {ok}} \cup {Q(D) : D \in part}
  BY <1>5 DEF clean_up
<1> HIDE DEF r1, hosts, a
<1>7. \A d \in Domain : ports(hosts, d) \subseteq entries(r1, d)
  BY <1>2, <1>4, NoneAssumption DEF ports, entries
<1>8. \A d \in doms : passes(r1, hosts, d) /\ ~stops(r1, hosts, d)
  BY <1>7 DEF passes, stops
<1>9. ok = doms /\ part = {}
  BY <1>8
<1> HIDE DEF doms, ok, part
<1>10. out \in {P(D) : D \in {doms}}
  BY <1>6, <1>9
<1> QED
  BY <1>10 DEF r1, hosts, a, doms

\* What is left of the domain table has an entry for each host that remains.
LEMMA DelAgentEntries ==
    ASSUME IInv, DomainInv, OwnDomains, NEW u \in Uid, NEW n \in Name, reg.agents[u][n] # None,
           NEW out \in del_agent(reg, u, n)
    PROVE  /\ out.agent = reg.agents[u][n]
           /\ \A v \in Uid, k \in Name :
                 ~(v = u /\ k = n) /\ reg.agents[v][k] # None =>
                     \A h \in Published(sock[reg.agents[v][k]].pub) : out.reg.domains[h] = v
<1> DEFINE a     == reg.agents[u][n]
           r1    == [reg EXCEPT !.agents[u][n] = None]
           hosts == unserved(r1, u, a)
           doms  == {d \in Domain : ports(hosts, d) # {}}
<1>t. reg \in Registry /\ sock \in [Addr -> AgentSocket]
  BY DEF IInv, TypeOK, SocketsOK
<1>r. r1 \in Registry /\ r1.domains = reg.domains /\ r1.agents = [reg.agents EXCEPT ![u][n] = None]
  BY <1>t DEF Registry
<1>1. out = [reg |-> reclaim(clear(r1, hosts, doms), u), agent |-> a]
  BY DelAgentClears
<1>2. a \in Addr /\ sock[a].st # "free" /\ sock[a].uid = u
  BY <1>t, SMTT(30) DEF IInv, GhostsWereClosed, Registry
<1>3. hosts = {h \in Published(sock[a].pub) : serving(r1, u, h[1], h[2]) = {}}
  BY DEF unserved
<1> HIDE DEF r1, hosts, doms, a
<1>4. clear(r1, hosts, doms) \in Registry
      /\ clear(r1, hosts, doms).domains =
            [h \in Host |-> IF h \in hosts /\ h[1] \in doms THEN None ELSE r1.domains[h]]
  BY <1>r DEF clear, Registry
<1>5. out.reg.domains = [h \in Host |-> IF h \in hosts /\ h[1] \in doms THEN None ELSE r1.domains[h]]
  <2>1. out.reg = reclaim(clear(r1, hosts, doms), u)
    BY <1>1
  <2>2. reclaim(clear(r1, hosts, doms), u).domains = clear(r1, hosts, doms).domains
    BY <1>4, ReclaimFacts
  <2> QED
    BY <1>4, <2>1, <2>2
<1>6. ASSUME NEW v \in Uid, NEW k \in Name, ~(v = u /\ k = n), reg.agents[v][k] # None,
             NEW h \in Published(sock[reg.agents[v][k]].pub)
      PROVE  out.reg.domains[h] = v
  <2> DEFINE b == reg.agents[v][k]
  <2>1. b \in Addr /\ sock[b].st # "free" /\ sock[b].uid = v
    <3>1. b \in Addr
      BY <1>t, <1>6 DEF Registry
    <3>2. sock[b].st \in {"open", "broken", "closed"} /\ sock[b].uid = v
      BY <1>6 DEF IInv, GhostsWereClosed
    <3> QED
      BY <3>1, <3>2
  <2>2. h \in Host /\ reg.domains[h] = v
    BY <1>6 DEF DomainInv, HostsEntered, Published
  <2>3. ASSUME h \in hosts PROVE FALSE
    <3>1. h \in Published(sock[a].pub)
      BY <1>3, <2>3
    <3>2. u = v
      BY <1>2, <1>6, <2>1, <3>1 DEF DomainInv, PublishesOwn, OwnDomains
    <3>3. b \in Registered(r1, u)
      BY <1>t, <1>r, <1>6, <2>1, <3>2, NoneAssumption DEF Registered, Registry
    <3>4. h = <<h[1], h[2]>>
      BY <2>2 DEF Host
    <3>5. b \in {x \in Registered(r1, u) : <<h[1], h[2]>> \in Published(sock[x].pub)}
      BY <1>6, <3>3, <3>4
    <3>6. serving(r1, u, h[1], h[2]) # {}
      BY <3>5 DEF serving
    <3> QED
      BY <1>3, <2>3, <3>6
  <2> QED
    BY <1>r, <1>5, <2>2, <2>3
<1>7. out.agent = reg.agents[u][n]
  BY <1>1 DEF a
<1> QED
  BY <1>6, <1>7

\* A registry in which users stay only for an agent or a client.
Reclaimed(r) == \A u \in r.users : Registered(r, u) # {} \/ r.clients[u] # {}

\* reclaim removes the one user that may be without agents and clients.
LEMMA ReclaimReclaims ==
    ASSUME NEW r \in Registry, NEW u \in Uid,
           \A v \in r.users \ {u} : Registered(r, v) # {} \/ r.clients[v] # {}
    PROVE  Reclaimed(reclaim(r, u))
<1>1. CASE Registered(r, u) # {}
  <2>1. reclaim(r, u) = r
    BY <1>1 DEF reclaim
  <2> QED
    BY <1>1, <2>1 DEF Reclaimed
<1>2. CASE Registered(r, u) = {}
  <2>1. /\ reclaim(r, u).users = r.users \ {u}
        /\ reclaim(r, u).agents = r.agents
        /\ reclaim(r, u).clients = [r.clients EXCEPT ![u] = {}]
    BY <1>2, ReclaimFacts
  <2>2. \A v \in r.users \ {u} :
            Registered(reclaim(r, u), v) = Registered(r, v) /\ reclaim(r, u).clients[v] = r.clients[v]
    BY <2>1 DEF Registered, Registry
  <2> QED
    BY <2>1, <2>2 DEF Reclaimed
<1> QED
  BY <1>1, <1>2

\* With the domain table in order, an agent is taken out by its own socket only.
LEMMA DisconnectStable ==
    ASSUME IInv, DomainInv, OwnDomains, NEW a \in Addr, AgentDisconnected(a)
    PROVE  LET u == sock[a].uid
               n == sock[a].name
           IN  /\ u \in Uid /\ n \in Name
               /\ \/ /\ reg'.agents = reg.agents
                     /\ \A v \in Uid, k \in Name : reg.agents[v][k] # None =>
                            \A h \in Published(sock[reg.agents[v][k]].pub) : reg'.domains[h] = v
                  \/ /\ reg'.agents = [reg.agents EXCEPT ![u][n] = None]
                     /\ reg.agents[u][n] = a
                     /\ \A v \in Uid, k \in Name : ~(v = u /\ k = n) /\ reg.agents[v][k] # None =>
                            \A h \in Published(sock[reg.agents[v][k]].pub) : reg'.domains[h] = v
<1> DEFINE u == sock[a].uid
           n == sock[a].name
           b == reg.agents[u][n]
<1>1. u \in Uid /\ n \in Name /\ reg \in Registry /\ sock \in [Addr -> AgentSocket]
  BY DEF AgentDisconnected, IInv, TypeOK, SocketsOK
<1>2. PICK out \in del_agent(reg, u, n) :
          IF superseded(out.agent, a)
          THEN reg' = add_agent(out.reg, u, n, out.agent, sock[out.agent].pub)
          ELSE reg' = out.reg
  BY DEF AgentDisconnected
<1> HIDE DEF u, n
<1>3. CASE b = None
  <2>1. out.reg = reg /\ out.agent = None
    BY <1>3 DEF del_agent
  <2>2. reg' = reg
    BY <1>2, <2>1 DEF superseded
  <2> QED
    BY <1>1, <2>2 DEF DomainInv, HostsEntered, u, n
<1>4. CASE b # None
  <2>1. /\ out.agent = b
        /\ \A v \in Uid, k \in Name :
              ~(v = u /\ k = n) /\ reg.agents[v][k] # None =>
                  \A h \in Published(sock[reg.agents[v][k]].pub) : out.reg.domains[h] = v
    BY <1>1, <1>4, DelAgentEntries
  <2>2. out.reg \in Registry /\ out.reg.agents = [reg.agents EXCEPT ![u][n] = None]
    <3>1. u \in reg.users
      BY <1>1, <1>4 DEF IInv, NoResidue, NoResidueIn, Registered
    <3> QED
      BY <1>1, <1>4, <3>1, DelAgentFacts
  <2>3. b \in Addr /\ sock[b].pub \in PublishMap
    <3>1. b \in Addr
      BY <1>1, <1>4 DEF Registry
    <3> QED
      BY <1>1, <3>1 DEF AgentSocket
  <2>4. CASE b # a
    <3>1. reg' = add_agent(out.reg, u, n, b, sock[b].pub)
      BY <1>2, <1>4, <2>1, <2>4 DEF superseded
    <3> DEFINE m == sock[b].pub
    <3>2. m \in PublishMap /\ reg' = add_agent(out.reg, u, n, b, m)
      BY <2>3, <3>1
    <3> HIDE DEF m
    <3>3. /\ reg'.agents = [out.reg.agents EXCEPT ![u][n] = b]
          /\ reg'.domains = [h \in Host |-> IF h \in Published(m) THEN u ELSE out.reg.domains[h]]
      BY <2>2, <3>2 DEF add_agent, Registry
    <3>4. reg'.agents = reg.agents
      BY <1>1, <2>2, <3>3 DEF Registry
    <3>5. ASSUME NEW v \in Uid, NEW k \in Name, reg.agents[v][k] # None,
                 NEW h \in Published(sock[reg.agents[v][k]].pub)
          PROVE  reg'.domains[h] = v
      <4>1. h \in Host
        BY DEF Published
      <4>2. CASE v = u /\ k = n
        BY <3>3, <4>1, <4>2 DEF m
      <4>3. CASE ~(v = u /\ k = n)
        <5>1. reg.domains[h] = v
          BY <3>5 DEF DomainInv, HostsEntered
        <5>2. h \in Published(m) => reg.domains[h] = u
          BY <1>1, <1>4 DEF DomainInv, HostsEntered, m
        <5>3. out.reg.domains[h] = v
          BY <2>1, <3>5, <4>3
        <5> QED
          BY <3>3, <4>1, <5>1, <5>2, <5>3
      <4> QED
        BY <4>2, <4>3
    <3> QED
      BY <1>1, <3>4, <3>5 DEF u, n
  <2>5. CASE b = a
    <3>1. reg' = out.reg
      BY <1>2, <2>1, <2>5 DEF superseded
    <3> QED
      BY <1>1, <2>1, <2>2, <2>5, <3>1 DEF u, n
  <2> QED
    BY <2>4, <2>5
<1> QED
  BY <1>3, <1>4

\* Every step keeps hosts entered for the agents that publish them.
LEMMA EntriesStep ==
    ASSUME IInv, DomainInv, OwnDomains, [Next]_vars
    PROVE  PublishesOwn' /\ HostsEntered'
<1>t. reg \in Registry /\ sock \in [Addr -> AgentSocket] /\ admitting \in Admission
  BY DEF IInv, TypeOK, SocketsOK, AdmissionOK
<1>1. PublishesOwn'
  <2> SUFFICES ASSUME NEW a \in Addr, sock'[a].st # "free"
               PROVE  sock'[a].pub \in Publishes[sock'[a].uid]
    BY DEF PublishesOwn
  <2> QED
    <3>1. CASE \E u \in Uid, n \in Name : \E m \in Publishes[u] :
                   sock'[a] = [st |-> "upgrading", uid |-> u, name |-> n, pub |-> m]
      BY <3>1
    <3>2. CASE /\ sock'[a].uid = sock[a].uid
               /\ sock'[a].pub = sock[a].pub
               /\ sock'[a].st = "free" <=> sock[a].st = "free"
      BY <3>2 DEF DomainInv, PublishesOwn
    <3> QED
      BY <3>1, <3>2, SocketsKeep
<1>2. \A v \in Uid, k \in Name : reg.agents[v][k] # None =>
          /\ reg.agents[v][k] \in Addr
          /\ sock[reg.agents[v][k]].st \in {"open", "broken", "closed"}
          /\ sock[reg.agents[v][k]].uid = v
          /\ sock'[reg.agents[v][k]].pub = sock[reg.agents[v][k]].pub
          /\ \A h \in Published(sock[reg.agents[v][k]].pub) : h \in Host /\ reg.domains[h] = v
  <2> SUFFICES ASSUME NEW v \in Uid, NEW k \in Name, reg.agents[v][k] # None
               PROVE  /\ reg.agents[v][k] \in Addr
                      /\ sock[reg.agents[v][k]].st \in {"open", "broken", "closed"}
                      /\ sock[reg.agents[v][k]].uid = v
                      /\ sock'[reg.agents[v][k]].pub = sock[reg.agents[v][k]].pub
                      /\ \A h \in Published(sock[reg.agents[v][k]].pub) :
                            h \in Host /\ reg.domains[h] = v
    OBVIOUS
  <2>1. reg.agents[v][k] \in Addr
    BY <1>t DEF Registry
  <2>2. sock[reg.agents[v][k]].st \in {"open", "broken", "closed"} /\ sock[reg.agents[v][k]].uid = v
    BY DEF IInv, GhostsWereClosed
  <2>3. sock'[reg.agents[v][k]].pub = sock[reg.agents[v][k]].pub
    BY <2>1, <2>2, SocketsKeep
  <2>4. \A h \in Published(sock[reg.agents[v][k]].pub) : h \in Host /\ reg.domains[h] = v
    BY DEF DomainInv, HostsEntered, Published
  <2> QED
    BY <2>1, <2>2, <2>3, <2>4
<1>3. ASSUME reg'.agents = reg.agents, reg'.domains = reg.domains PROVE HostsEntered'
  BY <1>2, <1>3 DEF HostsEntered, Published
<1>4. ASSUME AgentStream PROVE HostsEntered'
  <2> DEFINE u == admitting.uid
             n == admitting.name
             a == admitting.addr
             m == admitting.pub
  <2>1. /\ u \in Uid /\ n \in Name /\ a \in Addr
        /\ sock[a].st = "upgrading" /\ sock[a].uid = u /\ sock[a].pub = m
        /\ reg'.agents = [reg.agents EXCEPT ![u][n] = a]
        /\ reg'.domains = [h \in Host |-> IF h \in Published(m) THEN u ELSE reg.domains[h]]
    BY <1>4, AgentStreamFacts
  <2>2. sock'[a].pub = m
    BY <2>1, SocketsKeep
  <2>3. m \in Publishes[u]
    BY <2>1 DEF DomainInv, PublishesOwn
  <2> HIDE DEF u, n, a, m
  <2> SUFFICES ASSUME NEW v \in Uid, NEW k \in Name, reg'.agents[v][k] # None,
                      NEW h \in Published(sock'[reg'.agents[v][k]].pub)
               PROVE  reg'.domains[h] = v
    BY DEF HostsEntered, Published
  <2>4. h \in Host
    BY DEF Published
  <2>5. CASE v = u /\ k = n
    <3>1. reg'.agents[v][k] = a
      BY <1>t, <2>1, <2>5 DEF Registry
    <3> QED
      BY <2>1, <2>2, <2>4, <2>5, <3>1
  <2>6. CASE ~(v = u /\ k = n)
    <3>1. reg'.agents[v][k] = reg.agents[v][k]
      BY <1>t, <2>1, <2>6 DEF Registry
    <3>2. h \in Published(sock[reg.agents[v][k]].pub) /\ reg.domains[h] = v
      BY <1>2, <3>1
    <3>3. sock[reg.agents[v][k]].pub \in Publishes[v]
      BY <1>2, <3>1 DEF DomainInv, PublishesOwn
    <3>4. h \in Published(m) => u = v
      BY <2>1, <2>3, <3>2, <3>3 DEF OwnDomains
    <3> QED
      BY <2>1, <2>4, <3>2, <3>4
  <2> QED
    BY <2>5, <2>6
<1>5. ASSUME NEW a \in Addr, AgentDisconnected(a)
      PROVE  HostsEntered'
  <2> DEFINE u == sock[a].uid
             n == sock[a].name
  <2>1. /\ u \in Uid /\ n \in Name
        /\ \/ /\ reg'.agents = reg.agents
              /\ \A v \in Uid, k \in Name : reg.agents[v][k] # None =>
                    \A h \in Published(sock[reg.agents[v][k]].pub) : reg'.domains[h] = v
           \/ /\ reg'.agents = [reg.agents EXCEPT ![u][n] = None]
              /\ \A v \in Uid, k \in Name : ~(v = u /\ k = n) /\ reg.agents[v][k] # None =>
                    \A h \in Published(sock[reg.agents[v][k]].pub) : reg'.domains[h] = v
    BY <1>5, DisconnectStable
  <2> HIDE DEF u, n
  <2>2. \A v \in Uid, k \in Name :
            reg'.agents[v][k] = reg.agents[v][k] \/ (v = u /\ k = n /\ reg'.agents[v][k] = None)
    BY <1>t, <2>1 DEF Registry
  <2> SUFFICES ASSUME NEW v \in Uid, NEW k \in Name, reg'.agents[v][k] # None,
                      NEW h \in Published(sock'[reg'.agents[v][k]].pub)
               PROVE  reg'.domains[h] = v
    BY DEF HostsEntered, Published
  <2>4. reg'.agents[v][k] = reg.agents[v][k] /\ h \in Published(sock[reg.agents[v][k]].pub)
    BY <1>2, <2>2
  <2>5. reg'.agents = [reg.agents EXCEPT ![u][n] = None] => ~(v = u /\ k = n)
    BY <1>t, <2>1 DEF Registry
  <2> QED
    BY <2>1, <2>4, <2>5
<1> QED
  BY <1>1, <1>3, <1>4, <1>5, AgentsStep

\* A client that is removed leaves no user without agents and clients.
LEMMA DelClientReclaims ==
    ASSUME NEW r \in Registry, Reclaimed(r), NEW u \in Uid, NEW s \in Session
    PROVE  Reclaimed(del_client(r, u, s))
<1> DEFINE r1 == [r EXCEPT !.clients[u] = @ \ {s}]
<1>1. /\ r1 \in Registry /\ r1.users = r.users /\ r1.agents = r.agents
      /\ r1.clients = [r.clients EXCEPT ![u] = @ \ {s}]
  BY DEF Registry
<1>2. del_client(r, u, s) = IF s \in r.clients[u] THEN reclaim(r1, u) ELSE r
  BY DEF del_client
<1> HIDE DEF r1
<1>3. \A v \in r.users \ {u} : Registered(r1, v) = Registered(r, v) /\ r1.clients[v] = r.clients[v]
  BY <1>1 DEF Registered, Registry
<1>4. Reclaimed(reclaim(r1, u))
  <2>1. \A v \in r1.users \ {u} : Registered(r1, v) # {} \/ r1.clients[v] # {}
    BY <1>1, <1>3 DEF Reclaimed
  <2> QED
    BY <1>1, <2>1, ReclaimReclaims
<1> QED
  BY <1>2, <1>4

\* A connection that is removed leaves no user without agents and clients.
LEMMA DelConnectionReclaims ==
    ASSUME NEW r \in Registry, Reclaimed(r), NEW u \in Uid, NEW c \in Conn
    PROVE  Reclaimed(del_connection(r, u, c))
<1> DEFINE r1 == [r EXCEPT !.conns[u] = @ \ {c}]
<1>1. r1 \in Registry /\ r1.users = r.users /\ r1.agents = r.agents /\ r1.clients = r.clients
  BY DEF Registry
<1>2. del_connection(r, u, c) = IF u \in r.users THEN reclaim(r1, u) ELSE r
  BY DEF del_connection
<1> HIDE DEF r1
<1>3. \A v \in r1.users \ {u} : Registered(r1, v) # {} \/ r1.clients[v] # {}
  BY <1>1 DEF Reclaimed, Registered
<1>4. Reclaimed(reclaim(r1, u))
  BY <1>1, <1>3, ReclaimReclaims
<1> QED
  BY <1>2, <1>4

\* An agent that is removed leaves no user without agents and clients.
LEMMA DelAgentReclaims ==
    ASSUME IInv, DomainInv, NEW u \in Uid, NEW n \in Name, NEW out \in del_agent(reg, u, n)
    PROVE  Reclaimed(out.reg)
<1>t. reg \in Registry /\ Reclaimed(reg)
  BY DEF IInv, TypeOK, DomainInv, ReclaimedUsers, Reclaimed
<1>1. CASE reg.agents[u][n] = None
  <2>1. out.reg = reg
    BY <1>1 DEF del_agent
  <2> QED
    BY <1>t, <2>1
<1>2. CASE reg.agents[u][n] # None
  <2> DEFINE a     == reg.agents[u][n]
             r1    == [reg EXCEPT !.agents[u][n] = None]
             hosts == unserved(r1, u, a)
             doms  == {d \in Domain : ports(hosts, d) # {}}
             r2    == clear(r1, hosts, doms)
  <2>1. out.reg = reclaim(r2, u)
    <3>1. out = [reg |-> reclaim(r2, u), agent |-> a]
      BY <1>2, DelAgentClears
    <3> QED
      BY <3>1
  <2>2. /\ r1 \in Registry /\ r1.users = reg.users /\ r1.clients = reg.clients
        /\ r1.agents = [reg.agents EXCEPT ![u][n] = None]
    BY <1>t DEF Registry
  <2> HIDE DEF a, r1, hosts, doms
  <2>3. /\ r2 \in Registry /\ r2.users = reg.users /\ r2.clients = reg.clients
        /\ r2.agents = [reg.agents EXCEPT ![u][n] = None]
    BY <2>2, ClearFacts
  <2> HIDE DEF r2
  <2>4. \A v \in Uid \ {u} : r2.agents[v] = reg.agents[v]
    BY <1>t, <2>3 DEF Registry
  <2>5. ASSUME NEW v \in r2.users \ {u} PROVE Registered(r2, v) # {} \/ r2.clients[v] # {}
    <3>1. v \in reg.users /\ v \in Uid \ {u}
      BY <2>3, <2>5 DEF Registry
    <3>2. Registered(r2, v) = Registered(reg, v)
      BY <2>4, <3>1 DEF Registered
    <3> QED
      BY <1>t, <2>3, <3>1, <3>2 DEF Reclaimed
  <2> QED
    BY <2>1, <2>3, <2>5, ReclaimReclaims
<1> QED
  BY <1>1, <1>2

\* An agent, a client or, for a user with an agent, a connection is added.
LEMMA AddingReclaims ==
    ASSUME NEW r \in Registry, Reclaimed(r), NEW u \in Uid
    PROVE  /\ \A n \in Name, a \in Addr, m \in PublishMap : Reclaimed(add_agent(r, u, n, a, m))
           /\ \A s \in Session : Reclaimed(add_client(r, u, s))
           /\ \A c \in Conn : Registered(r, u) # {} => Reclaimed(add_connection(r, u, c))
<1>1. ASSUME NEW n \in Name, NEW a \in Addr, NEW m \in PublishMap
      PROVE  Reclaimed(add_agent(r, u, n, a, m))
  <2> DEFINE q == add_agent(r, u, n, a, m)
  <2>1. q.users = r.users \cup {u} /\ q.agents = [r.agents EXCEPT ![u][n] = a] /\ q.clients = r.clients
    BY DEF add_agent, Registry
  <2> HIDE DEF q
  <2>2. a \in Registered(q, u)
    BY <2>1, NoneAssumption DEF Registered, Registry
  <2>3. \A v \in Uid \ {u} : Registered(q, v) = Registered(r, v)
    BY <2>1 DEF Registered, Registry
  <2>4. r.users \subseteq Uid
    BY DEF Registry
  <2>5. Reclaimed(q)
    BY <2>1, <2>2, <2>3, <2>4 DEF Reclaimed
  <2> QED
    BY <2>5 DEF q
<1>2. ASSUME NEW s \in Session
      PROVE  Reclaimed(add_client(r, u, s))
  <2> DEFINE q == add_client(r, u, s)
  <2>1. /\ q.users = r.users \cup {u} /\ q.agents = r.agents
        /\ q.clients = [r.clients EXCEPT ![u] = @ \cup {s}]
    BY DEF add_client, Registry
  <2> HIDE DEF q
  <2>2. \A v \in Uid : Registered(q, v) = Registered(r, v) /\ r.clients[v] \subseteq q.clients[v]
    BY <2>1 DEF Registered, Registry
  <2>3. s \in q.clients[u] /\ r.users \subseteq Uid
    BY <2>1 DEF Registry
  <2>4. Reclaimed(q)
    BY <2>1, <2>2, <2>3 DEF Reclaimed
  <2> QED
    BY <2>4 DEF q
<1>3. ASSUME NEW c \in Conn, Registered(r, u) # {}
      PROVE  Reclaimed(add_connection(r, u, c))
  <2> DEFINE q == add_connection(r, u, c)
  <2>1. q.users = r.users \cup {u} /\ q.agents = r.agents /\ q.clients = r.clients
    BY DEF add_connection, Registry
  <2> HIDE DEF q
  <2>2. Reclaimed(q)
    BY <1>3, <2>1 DEF Reclaimed, Registered
  <2> QED
    BY <2>2 DEF q
<1> QED
  BY <1>1, <1>2, <1>3

\* Every step keeps users without agents and clients reclaimed.
LEMMA ReclaimedStep == IInv /\ DomainInv /\ OwnDomains /\ [Next]_vars => ReclaimedUsers'
<1> SUFFICES ASSUME IInv, DomainInv, OwnDomains, [Next]_vars PROVE Reclaimed(reg')
  BY DEF ReclaimedUsers, Reclaimed, Registered
<1>t. /\ reg \in Registry /\ Reclaimed(reg)
      /\ sock \in [Addr -> AgentSocket] /\ SocketsOK /\ SessionsOK
  BY DEF IInv, TypeOK, DomainInv, ReclaimedUsers, Reclaimed, SocketsOK
<1>1. ASSUME NEW c \in Conn, NEW u \in Uid, NEW s, NEW n \in Name, reg.agents[u][n] # None,
             OpenConnection(c, u, s, n)
      PROVE  Reclaimed(reg')
  <2>1. Registered(reg, u) # {} /\ reg' = add_connection(reg, u, c)
    BY <1>1 DEF OpenConnection, Registered
  <2> QED
    BY <1>t, <2>1, AddingReclaims
<1>2. ASSUME NEW s \in Session, NEW n \in Name, ClientData(s, n) PROVE Reclaimed(reg')
  <2>1. csock[s].uid \in Uid /\ reg.agents[csock[s].uid][n] # None
    BY <1>t, <1>2 DEF ClientData, SessionsOK
  <2> QED
    BY <1>1, <1>2, <2>1 DEF ClientData
<1>3. ASSUME NEW d \in Domain, NEW p \in Port, HttpTransparent(d, p) \/ TlsTransparent(d, p)
      PROVE  Reclaimed(reg')
  <2>1. PICK a \in get_mut_agent_by_domain(reg, d, p), c \in Conn :
            OpenConnection(c, owner(reg, d, p), None, sock[a].name)
    BY <1>3 DEF HttpTransparent, TlsTransparent
  <2>2. /\ owner(reg, d, p) \in Uid /\ sock[a].name \in Name
        /\ reg.agents[owner(reg, d, p)][sock[a].name] # None
    BY RoutedAgent, NoneAssumption DEF IInv
  <2> QED
    BY <1>1, <2>1, <2>2
<1>4. CASE ClientStream
  <2>1. admitting.uid \in Uid /\ admitting.session \in Session
    BY <1>4 DEF ClientStream, IInv, TypeOK, AdmissionOK
  <2> QED
    BY <1>t, <1>4, <2>1, AddingReclaims DEF ClientStream
<1>5. CASE AgentStream
  <2>1. /\ admitting.uid \in Uid /\ admitting.name \in Name /\ admitting.addr \in Addr
        /\ admitting.pub \in PublishMap
    BY <1>5, AgentStreamFacts
  <2> QED
    BY <1>t, <1>5, <2>1, AddingReclaims DEF AgentStream
<1>6. ASSUME NEW a \in Addr, NEW c \in Conn, NEW ok \in BOOLEAN, AgentData(a, c, ok)
      PROVE  Reclaimed(reg')
  <2>1. /\ reg'.users = reg.users /\ reg'.agents = reg.agents /\ reg'.clients = reg.clients
    BY <1>t, <1>6 DEF AgentData, get_mut_connection, Registry
  <2> QED
    BY <1>t, <2>1 DEF Reclaimed, Registered
<1>7. ASSUME NEW a \in Addr, NEW c \in Conn, AgentError(a, c) PROVE Reclaimed(reg')
  <2>1. sock[a].uid \in Uid /\ reg' = del_connection(reg, sock[a].uid, c)
    BY <1>t, <1>7 DEF AgentError, SocketsOK
  <2> QED
    BY <1>t, <2>1, DelConnectionReclaims
<1>8. ASSUME NEW s \in Session, ClientDisconnected(s) PROVE Reclaimed(reg')
  <2>1. csock[s].uid \in Uid /\ reg' = del_client(reg, csock[s].uid, s)
    BY <1>t, <1>8 DEF ClientDisconnected, SessionsOK
  <2> QED
    BY <1>t, <2>1, DelClientReclaims
<1>9. ASSUME NEW a \in Addr, AgentDisconnected(a) PROVE Reclaimed(reg')
  <2> DEFINE u == sock[a].uid
             n == sock[a].name
  <2>1. u \in Uid /\ n \in Name
    BY <1>t, <1>9 DEF AgentDisconnected, SocketsOK
  <2>2. PICK out \in del_agent(reg, u, n) :
            IF superseded(out.agent, a)
            THEN reg' = add_agent(out.reg, u, n, out.agent, sock[out.agent].pub)
            ELSE reg' = out.reg
    BY <1>9 DEF AgentDisconnected
  <2> HIDE DEF u, n
  <2>3. Reclaimed(out.reg) /\ out.reg \in Registry /\ out.agent \in {None, reg.agents[u][n]}
    <3>1. out.reg \in Registry
      BY <1>t, <2>1, DelAgentFacts
    <3>2. out.agent \in {None, reg.agents[u][n]}
      <4>1. CASE u \notin reg.users \/ reg.agents[u][n] = None
        BY <4>1 DEF del_agent
      <4>2. CASE u \in reg.users /\ reg.agents[u][n] # None
        BY <1>t, <2>1, <4>2, DelAgentFacts
      <4> QED
        BY <4>1, <4>2
    <3> QED
      BY <2>1, <3>1, <3>2, DelAgentReclaims
  <2>4. CASE superseded(out.agent, a)
    <3>1. out.agent \in Addr
      BY <1>t, <2>1, <2>3, <2>4 DEF superseded, Registry
    <3>2. sock[out.agent].pub \in PublishMap
      BY <1>t, <3>1 DEF AgentSocket
    <3> QED
      BY <2>1, <2>2, <2>3, <2>4, <3>1, <3>2, AddingReclaims
  <2>5. CASE ~superseded(out.agent, a)
    BY <2>2, <2>3, <2>5
  <2> QED
    BY <2>4, <2>5
<1>10. CASE UNCHANGED reg
  BY <1>t, <1>10
<1>11. \/ UNCHANGED reg
       \/ ClientStream \/ AgentStream
       \/ \E s \in Session, n \in Name : ClientData(s, n)
       \/ \E d \in Domain, p \in Port : HttpTransparent(d, p) \/ TlsTransparent(d, p)
       \/ \E a \in Addr, c \in Conn, ok \in BOOLEAN : AgentData(a, c, ok)
       \/ \E a \in Addr, c \in Conn : AgentError(a, c)
       \/ \E a \in Addr : AgentDisconnected(a)
       \/ \E s \in Session : ClientDisconnected(s)
  BY DEF Next, vars, ClientEvent, AgentEvent, StreamFails, AgentBreaks, AgentCloses,
         AgentSilent, AgentTasksEnd, AgentExits, ClientBreaks, ClientCloses
<1> QED
  BY <1>2, <1>3, <1>4, <1>5, <1>6, <1>7, <1>8, <1>9, <1>10, <1>11

\* Where no two users publish one domain, the domain table has an entry for every
\* host of every registered agent, and nobody is left behind.
THEOREM DomainsInOrder == OwnDomains => (Spec => []DomainInv)
<1> SUFFICES ASSUME OwnDomains PROVE Spec => []DomainInv
  OBVIOUS
<1>1. Init => DomainInv
  BY DEF Init, DomainInv, PublishesOwn, HostsEntered, ReclaimedUsers, EmptyRegistry
<1>2. IInv /\ DomainInv /\ [Next]_vars => DomainInv'
  BY EntriesStep, ReclaimedStep DEF DomainInv
<1> QED
  BY <1>1, <1>2, Inductive, PTL DEF Spec

\* Every host a registered agent publishes is routed to its user.
THEOREM HostsAreRouted == OwnDomains => (Spec => []RoutableHosts)
<1> SUFFICES ASSUME OwnDomains PROVE Spec => []RoutableHosts
  OBVIOUS
<1>1. DomainInv => RoutableHosts
  <2> SUFFICES ASSUME DomainInv, NEW u \in Uid, NEW n \in Name, reg.agents[u][n] # None,
                      NEW h \in Published(sock[reg.agents[u][n]].pub)
               PROVE  owner(reg, h[1], h[2]) = u
    BY DEF RoutableHosts
  <2>1. reg.domains[h] = u /\ h = <<h[1], h[2]>>
    BY DEF DomainInv, HostsEntered, Published, Host
  <2> QED
    BY <2>1, NoneAssumption DEF owner
<1> QED
  BY <1>1, DomainsInOrder, PTL

\* No user stays in the registry for nobody.
THEOREM UsersAreReclaimed == OwnDomains => (Spec => []ReclaimedUsers)
<1>1. DomainInv => ReclaimedUsers
  BY DEF DomainInv
<1> QED
  BY <1>1, DomainsInOrder, PTL

\* A late error of a former socket never takes the agent of the name away.
THEOREM RegistrationIsStable == OwnDomains => (Spec => RegistrationStable)
<1> SUFFICES ASSUME OwnDomains PROVE Spec => RegistrationStable
  OBVIOUS
<1> DEFINE Stable == \A u \in Uid, n \in Name :
                        LET a == reg.agents[u][n]
                        IN  a # None /\ reg'.agents[u][n] # a =>
                               \/ sock[a].st = "broken" /\ sock'[a].st = "ended"
                               \/ admitting.kind = "agent" /\ reg'.agents[u][n] = admitting.addr
<1>1. IInv /\ DomainInv /\ [Next]_vars => Stable
  <2> SUFFICES ASSUME IInv, DomainInv, [Next]_vars, NEW v \in Uid, NEW k \in Name,
                      reg.agents[v][k] # None, reg'.agents[v][k] # reg.agents[v][k]
               PROVE  LET a == reg.agents[v][k]
                      IN  \/ sock[a].st = "broken" /\ sock'[a].st = "ended"
                          \/ admitting.kind = "agent" /\ reg'.agents[v][k] = admitting.addr
    OBVIOUS
  <2>t. reg \in Registry /\ sock \in [Addr -> AgentSocket]
    BY DEF IInv, TypeOK, SocketsOK
  <2>1. CASE AgentStream
    <3>1. /\ reg'.agents = [reg.agents EXCEPT ![admitting.uid][admitting.name] = admitting.addr]
          /\ admitting.uid \in Uid /\ admitting.name \in Name
      BY <2>1, AgentStreamFacts
    <3>2. reg'.agents[v][k] = admitting.addr
      BY <2>t, <3>1 DEF Registry
    <3> QED
      BY <2>1, <3>2 DEF AgentStream
  <2>2. ASSUME NEW a \in Addr, AgentDisconnected(a)
        PROVE  sock[reg.agents[v][k]].st = "broken" /\ sock'[reg.agents[v][k]].st = "ended"
    <3> DEFINE u == sock[a].uid
               n == sock[a].name
    <3>1. /\ u \in Uid /\ n \in Name
          /\ reg'.agents = [reg.agents EXCEPT ![u][n] = None] /\ reg.agents[u][n] = a
      BY <2>2, DisconnectStable
    <3> HIDE DEF u, n
    <3>2. v = u /\ k = n
      BY <2>t, <3>1 DEF Registry
    <3>3. sock[a].st = "broken" /\ sock' = [sock EXCEPT ![a].st = "ended"]
      BY <2>2 DEF AgentDisconnected
    <3>4. sock'[a].st = "ended"
      BY <2>t, <3>3 DEF AgentSocket
    <3> QED
      BY <3>1, <3>2, <3>3, <3>4
  <2> QED
    BY <2>1, <2>2, AgentsStep
<1>2. Spec => [][Stable]_vars
  BY <1>1, Inductive, DomainsInOrder, PTL DEF Spec
<1> QED
  BY <1>2 DEF RegistrationStable

-----------------------------------------------------------------------------
(* Who is forgotten with a user.                                            *)

\* User v has two agents in the registry r.
TwoAgents(r, v) == \E n, k \in Name : n # k /\ r.agents[v][n] # None /\ r.agents[v][k] # None

\* Reclaiming leaves the clients and the connections of a user with an agent.
LEMMA ReclaimKeeps ==
    ASSUME NEW r \in Registry, NEW u \in Uid, NEW v \in Uid, Registered(r, v) # {}
    PROVE  reclaim(r, u).clients[v] = r.clients[v] /\ reclaim(r, u).conns[v] = r.conns[v]
<1>1. CASE Registered(r, u) # {}
  BY <1>1 DEF reclaim
<1>2. CASE Registered(r, u) = {}
  <2>1. u # v
    BY <1>2
  <2> QED
    BY <1>2, <2>1 DEF reclaim, Registry
<1> QED
  BY <1>1, <1>2

\* Removing an agent leaves those of a user with two agents.
LEMMA DelAgentKeeps ==
    ASSUME NEW r \in Registry, NEW u \in Uid, NEW n \in Name, NEW out \in del_agent(r, u, n),
           NEW v \in Uid, TwoAgents(r, v)
    PROVE  out.reg.clients[v] = r.clients[v] /\ out.reg.conns[v] = r.conns[v]
<1>1. CASE u \notin r.users \/ r.agents[u][n] = None
  <2>1. out.reg = r
    BY <1>1 DEF del_agent
  <2> QED
    BY <2>1
<1>2. CASE u \in r.users /\ r.agents[u][n] # None
  <2> DEFINE a     == r.agents[u][n]
             r1    == [r EXCEPT !.agents[u][n] = None]
             hosts == unserved(r1, u, a)
  <2>1. out \in clean_up(r1, u, a)
    BY <1>2 DEF del_agent
  <2>2. PICK D : \/ out = [reg |-> reclaim(clear(r1, hosts, D), u), agent |-> a]
                 \/ out = [reg |-> clear(r1, hosts, D), agent |-> None]
    BY <2>1, CleanUpForms
  <2> DEFINE r2 == clear(r1, hosts, D)
  <2>3. /\ r1 \in Registry /\ r1.clients = r.clients /\ r1.conns = r.conns
        /\ r1.agents = [r.agents EXCEPT ![u][n] = None]
    BY DEF Registry
  <2> HIDE DEF r1, hosts, a
  <2>4. r2 \in Registry /\ r2.agents = r1.agents /\ r2.clients = r.clients /\ r2.conns = r.conns
    BY <2>3, ClearFacts
  <2>5. out.reg = reclaim(r2, u) \/ out.reg = r2
    <3>1. CASE out = [reg |-> reclaim(r2, u), agent |-> a]
      BY <3>1
    <3>2. CASE out = [reg |-> r2, agent |-> None]
      BY <3>2
    <3> QED
      BY <2>2, <3>1, <3>2
  <2> HIDE DEF r2
  <2>6. PICK k \in Name : r.agents[v][k] # None /\ ~(v = u /\ k = n)
    BY DEF TwoAgents
  <2>7. r2.agents[v][k] = r.agents[v][k]
    BY <2>3, <2>4, <2>6 DEF Registry
  <2>8. Registered(r2, v) # {}
    BY <2>6, <2>7 DEF Registered
  <2> QED
    BY <2>4, <2>5, <2>8, ReclaimKeeps
<1> QED
  BY <1>1, <1>2

\* A step takes at most one client, whose socket ends with it, and one
\* connection, whose Connect is answered with it, from a user with two agents.
LEMMA ForgetStep ==
    ASSUME IInv, [Next]_vars, NEW v \in Uid, TwoAgents(reg, v)
    PROVE  /\ \A s \in reg.clients[v] \ reg'.clients[v] : csock'[s].st = "ended"
           /\ \A c \in reg.conns[v] \ reg'.conns[v] :
                 \E a \in Addr : c \in asked[a] /\ c \notin asked'[a]
<1> DEFINE Kept == reg.clients[v] \subseteq reg'.clients[v] /\ reg.conns[v] \subseteq reg'.conns[v]
<1>t. /\ reg \in Registry /\ sock \in [Addr -> AgentSocket] /\ asked \in [Addr -> SUBSET Conn]
      /\ SocketsOK /\ SessionsOK /\ Registered(reg, v) # {}
      /\ csock \in [Session -> ClientSocket]
  BY DEF IInv, TypeOK, SocketsOK, SessionsOK, TwoAgents, Registered
<1>0. ASSUME NEW c \in Conn, NEW u \in Uid, NEW s, NEW n, OpenConnection(c, u, s, n)
      PROVE  Kept
  <2>1. reg' = add_connection(reg, u, c)
    BY <1>0 DEF OpenConnection
  <2>2. reg'.clients = reg.clients /\ reg'.conns = [reg.conns EXCEPT ![u] = @ \cup {c}]
    BY <1>t, <2>1, AddConnectionFacts
  <2> QED
    BY <1>t, <2>2 DEF Registry
<1>1. ASSUME NEW s \in Session, NEW n \in Name, ClientData(s, n) PROVE Kept
  <2>1. csock[s].uid \in Uid
    BY <1>t, <1>1 DEF ClientData, SessionsOK
  <2> QED
    BY <1>0, <1>1, <2>1 DEF ClientData
<1>2. ASSUME NEW d \in Domain, NEW p \in Port, HttpTransparent(d, p) \/ TlsTransparent(d, p)
      PROVE  Kept
  <2>1. PICK a \in get_mut_agent_by_domain(reg, d, p), c \in Conn :
            OpenConnection(c, owner(reg, d, p), None, sock[a].name)
    BY <1>2 DEF HttpTransparent, TlsTransparent
  <2>2. owner(reg, d, p) \in Uid
    BY RoutedAgent DEF IInv
  <2> QED
    BY <1>0, <2>1, <2>2
<1>3. CASE ClientStream
  <2>1. admitting.uid \in Uid /\ admitting.session \in Session
    BY <1>3 DEF ClientStream, IInv, TypeOK, AdmissionOK
  <2>2. reg'.conns = reg.conns /\ reg'.clients = [reg.clients EXCEPT ![admitting.uid] = @ \cup {admitting.session}]
    BY <1>t, <1>3, <2>1, AddClientFacts DEF ClientStream
  <2>3. Kept
    BY <1>t, <2>2 DEF Registry
  <2> QED
    BY <2>3
<1>4. CASE AgentStream
  <2>1. reg'.clients = reg.clients /\ reg'.conns = reg.conns
    <3>1. /\ admitting.uid \in Uid /\ admitting.name \in Name /\ admitting.addr \in Addr
          /\ admitting.pub \in PublishMap
      BY <1>4, AgentStreamFacts
    <3> QED
      BY <1>t, <1>4, <3>1 DEF AgentStream, add_agent, Registry
  <2> QED
    BY <2>1
<1>5. ASSUME NEW a \in Addr, NEW c \in Conn, NEW ok \in BOOLEAN, AgentData(a, c, ok)
      PROVE  /\ reg.clients[v] \subseteq reg'.clients[v]
             /\ reg.conns[v] \ reg'.conns[v] \subseteq {c}
             /\ c \in asked[a] /\ c \notin asked'[a]
  <2>1. c \in asked[a] /\ c \notin asked'[a]
    BY <1>t, <1>5 DEF AgentData
  <2>2. sock[a].uid \in Uid \cup {None}
    BY <1>t DEF AgentSocket
  <2>3. reg'.clients = reg.clients /\ reg.conns[v] \ reg'.conns[v] \subseteq {c}
    BY <1>t, <1>5 DEF AgentData, get_mut_connection, Registry
  <2> QED
    BY <2>1, <2>3
<1>6. ASSUME NEW a \in Addr, NEW c \in Conn, AgentError(a, c)
      PROVE  /\ reg.clients[v] \subseteq reg'.clients[v]
             /\ reg.conns[v] \ reg'.conns[v] \subseteq {c}
             /\ c \in asked[a] /\ c \notin asked'[a]
  <2> DEFINE u  == sock[a].uid
             r1 == [reg EXCEPT !.conns[u] = @ \ {c}]
  <2>1. c \in asked[a] /\ c \notin asked'[a]
    BY <1>t, <1>6 DEF AgentError
  <2>2. u \in Uid /\ reg' = del_connection(reg, u, c)
    BY <1>t, <1>6 DEF AgentError, SocketsOK
  <2>3. /\ r1 \in Registry /\ r1.agents = reg.agents /\ r1.clients = reg.clients
        /\ reg.conns[v] \ r1.conns[v] \subseteq {c}
    BY <1>t, <2>2 DEF Registry
  <2>4. reg' = reclaim(r1, u) \/ reg' = reg
    BY <2>2 DEF del_connection
  <2> HIDE DEF r1, u
  <2>5. Registered(r1, v) # {}
    BY <1>t, <2>3 DEF Registered
  <2>6. reclaim(r1, u).clients[v] = r1.clients[v] /\ reclaim(r1, u).conns[v] = r1.conns[v]
    BY <2>2, <2>3, <2>5, ReclaimKeeps
  <2> QED
    BY <2>1, <2>3, <2>4, <2>6
<1>7. ASSUME NEW s \in Session, ClientDisconnected(s)
      PROVE  /\ reg.clients[v] \ reg'.clients[v] \subseteq {s}
             /\ reg.conns[v] \subseteq reg'.conns[v]
             /\ csock'[s].st = "ended"
  <2> DEFINE u  == csock[s].uid
             r1 == [reg EXCEPT !.clients[u] = @ \ {s}]
  <2>1. csock'[s].st = "ended"
    BY <1>t, <1>7 DEF ClientDisconnected, ClientSocket
  <2>2. u \in Uid /\ reg' = del_client(reg, u, s)
    BY <1>t, <1>7 DEF ClientDisconnected, SessionsOK
  <2>3. /\ r1 \in Registry /\ r1.agents = reg.agents /\ r1.conns = reg.conns
        /\ reg.clients[v] \ r1.clients[v] \subseteq {s}
    BY <1>t, <2>2 DEF Registry
  <2>4. reg' = reclaim(r1, u) \/ reg' = reg
    BY <2>2 DEF del_client
  <2> HIDE DEF r1, u
  <2>5. Registered(r1, v) # {}
    BY <1>t, <2>3 DEF Registered
  <2>6. reclaim(r1, u).clients[v] = r1.clients[v] /\ reclaim(r1, u).conns[v] = r1.conns[v]
    BY <2>2, <2>3, <2>5, ReclaimKeeps
  <2> QED
    BY <2>1, <2>3, <2>4, <2>6
<1>8. ASSUME NEW a \in Addr, AgentDisconnected(a) PROVE Kept
  <2> DEFINE u == sock[a].uid
             n == sock[a].name
  <2>1. u \in Uid /\ n \in Name
    BY <1>t, <1>8 DEF AgentDisconnected, SocketsOK
  <2>2. PICK out \in del_agent(reg, u, n) :
            reg' = add_agent(out.reg, u, n, out.agent, sock[out.agent].pub) \/ reg' = out.reg
    BY <1>8 DEF AgentDisconnected
  <2> HIDE DEF u, n
  <2>3. out.reg \in Registry
    BY <1>t, <2>1, DelAgentFacts
  <2>4. out.reg.clients[v] = reg.clients[v] /\ out.reg.conns[v] = reg.conns[v]
    BY <1>t, <2>1, DelAgentKeeps
  <2>5. reg'.clients = out.reg.clients /\ reg'.conns = out.reg.conns
    BY <2>2, <2>3 DEF add_agent, Registry
  <2> QED
    BY <2>4, <2>5
<1>9. CASE UNCHANGED reg
  BY <1>9
<1>10. \/ UNCHANGED reg
       \/ ClientStream \/ AgentStream
       \/ \E s \in Session, n \in Name : ClientData(s, n)
       \/ \E d \in Domain, p \in Port : HttpTransparent(d, p) \/ TlsTransparent(d, p)
       \/ \E a \in Addr, c \in Conn, ok \in BOOLEAN : AgentData(a, c, ok)
       \/ \E a \in Addr, c \in Conn : AgentError(a, c)
       \/ \E a \in Addr : AgentDisconnected(a)
       \/ \E s \in Session : ClientDisconnected(s)
  BY DEF Next, vars, ClientEvent, AgentEvent, StreamFails, AgentBreaks, AgentCloses,
         AgentSilent, AgentTasksEnd, AgentExits, ClientBreaks, ClientCloses
<1> QED
  BY <1>1, <1>2, <1>3, <1>4, <1>5, <1>6, <1>7, <1>8, <1>9, <1>10

\* A client or a waiting connection is forgotten only with a user that had at
\* most one agent.
THEOREM NoneForgottenEarly == Spec => ForgottenOnlyWithLastAgent
<1> DEFINE Step == \A u \in Uid :
        \/ \E s \in reg.clients[u] \ reg'.clients[u] : csock'[s].st # "ended"
        \/ \E c \in reg.conns[u] \ reg'.conns[u] :
              conn'[c].st = "lost" /\ \A a \in Addr : c \in asked[a] => c \in asked'[a]
        => \A n, k \in Name : reg.agents[u][n] # None /\ reg.agents[u][k] # None => n = k
<1>1. IInv /\ [Next]_vars => Step
  BY ForgetStep DEF TwoAgents
<1>2. Spec => [][Step]_vars
  BY <1>1, Inductive, PTL DEF Spec
<1> QED
  BY <1>2 DEF ForgottenOnlyWithLastAgent

-----------------------------------------------------------------------------
(* The gateway of the fleet is that of GatewayState.                       *)

\* Whatever a process, the network or the gateway does in the fleet is a step of
\* the gateway, or none it notices.
LEMMA FleetStepIsStep == IInv /\ FleetTypeOK /\ [FleetNext]_all => [Next]_vars
<1> SUFFICES ASSUME IInv, FleetTypeOK, [FleetNext]_all PROVE [Next]_vars
  OBVIOUS
<1>1. ASSUME NEW p \in Proc, NEW a \in Addr, Dial(p, a) PROVE Next
  <2>1. AgentEvent(Config[p].uid, Config[p].name, a, Config[p].pub)
    BY <1>1 DEF Dial
  <2> QED
    BY <2>1, ConfigAssumption DEF Next
<1>2. ASSUME NEW p \in Proc, ReadShutdown(p) PROVE Next
  <2>1. at[p] \in Addr /\ AgentExits(at[p])
    BY <1>2 DEF ReadShutdown, IInv, TypeOK
  <2> QED
    BY <2>1 DEF Next
<1>3. ASSUME NEW a \in Addr, GatewayEndFails(a) \/ GatewayNotices(a) PROVE Next
  BY <1>3 DEF GatewayEndFails, GatewayNotices, GatewayEndGoes, Next
<1>4. CASE Upgraded
  BY <1>4 DEF Upgraded, Next
<1>5. CASE UpgradeFails
  BY <1>5 DEF UpgradeFails, Next
<1>6. ASSUME NEW a \in Addr, Disconnected(a) PROVE Next
  BY <1>6 DEF Disconnected, Next
<1>7. ASSUME NEW p \in Proc,
             \/ Start(p) \/ Accepted(p) \/ UpgradeLost(p) \/ Unauthorized(p) \/ Unreachable(p)
             \/ Wake(p) \/ ReadError(p) \/ ReadEnd(p) \/ ReadPending(p) \/ Sent(p) \/ SendFails(p)
             \/ WireFails(p) \/ ProcessNotices(p)
      PROVE  UNCHANGED vars
  BY <1>7 DEF Start, Accepted, UpgradeLost, Unauthorized, Unreachable, Wake, ReadError,
              ReadEnd, ReadPending, Sent, SendFails, WireFails, ProcessNotices, ProcessEndGoes
<1>8. CASE UNCHANGED all
  BY <1>8 DEF all
<1> QED
  BY <1>1, <1>2, <1>3, <1>4, <1>5, <1>6, <1>7, <1>8 DEF FleetNext

-----------------------------------------------------------------------------
(* The types of the processes.                                             *)

\* A process starts without a socket.
LEMMA FleetInitType == FleetInit => FleetTypeOK
BY FaultsAssumption DEF FleetInit, FleetTypeOK

\* Every step of a process, of the network and of the gateway keeps the types,
\* and two processes never hold one socket.
LEMMA FleetTypeStep == IInv /\ FleetTypeOK /\ [FleetNext]_all => FleetTypeOK'
<1> SUFFICES ASSUME IInv, FleetTypeOK, [FleetNext]_all PROVE FleetTypeOK'
  OBVIOUS
<1> USE DEF FleetTypeOK
<1>0. faults' \in 0..MaxFaults
  <2>1. Fault \/ faults' = faults => faults' \in 0..MaxFaults
    BY FaultsAssumption DEF Fault
  <2> QED
    BY <2>1 DEF FleetNext, all, Start, Dial, Accepted, UpgradeLost, Unauthorized, Unreachable,
                Wake, ReadShutdown, ReadError, ReadEnd, ReadPending, Sent, SendFails, WireFails,
                GatewayEndFails, GatewayNotices, ProcessNotices, Upgraded, UpgradeFails,
                Disconnected
<1>1. ASSUME NEW p \in Proc, NEW a \in Addr, Dial(p, a) PROVE FleetTypeOK'
  BY <1>1, NoneAssumption DEF Dial, Goes
<1>2. ASSUME NEW p \in Proc, ReadShutdown(p) PROVE FleetTypeOK'
  BY <1>2 DEF ReadShutdown, Exit, Goes
<1>3. ASSUME NEW p \in Proc, Unauthorized(p) \/ SendFails(p) \/ ReadEnd(p) PROVE FleetTypeOK'
  <2>1. Exit(p, "401") \/ Exit(p, "ended")
    BY <1>3 DEF Unauthorized, SendFails, ReadEnd
  <2>2. ASSUME Exit(p, "401") PROVE FleetTypeOK'
    BY <1>0, <2>2 DEF Exit, Goes
  <2>3. ASSUME Exit(p, "ended") PROVE FleetTypeOK'
    BY <1>0, <2>3 DEF Exit, Goes
  <2> QED
    BY <2>1, <2>2, <2>3
<1>4. ASSUME NEW p \in Proc, UpgradeLost(p) \/ ReadError(p) PROVE FleetTypeOK'
  BY <1>4 DEF UpgradeLost, ReadError, Drop, Goes
<1>5. ASSUME NEW p \in Proc, Start(p) \/ Accepted(p) \/ Unreachable(p) \/ Wake(p)
      PROVE  FleetTypeOK'
  BY <1>5, FaultsAssumption DEF Start, Accepted, Unreachable, Wake, Goes, Fault
<1>6. ASSUME NEW p \in Proc, ReadPending(p) \/ Sent(p) \/ WireFails(p) \/ ProcessNotices(p)
      PROVE  FleetTypeOK'
  <2>1. /\ phase' = phase /\ at' = at /\ why' = why
        /\ \/ wire' = wire /\ sending' \in [Proc -> BOOLEAN]
           \/ /\ \E how \in {"failed", "closed"} : wire' = [wire EXCEPT ![p] = how]
              /\ sending' = sending
    <3> HIDE DEF FleetTypeOK
    <3>1. sending \in [Proc -> BOOLEAN]
      BY DEF FleetTypeOK
    <3>2. CASE ReadPending(p)
      BY <3>1, <3>2 DEF ReadPending
    <3>3. CASE Sent(p)
      BY <3>1, <3>3 DEF Sent
    <3>4. CASE WireFails(p) \/ ProcessNotices(p)
      BY <3>4 DEF WireFails, ProcessNotices, ProcessEndGoes
    <3> QED
      BY <1>6, <3>2, <3>3, <3>4
  <2> QED
    BY <1>0, <2>1
<1>7. ASSUME UNCHANGED processes PROVE FleetTypeOK'
  BY <1>0, <1>7 DEF processes
<1> QED
  BY <1>1, <1>2, <1>3, <1>4, <1>5, <1>6, <1>7
  DEF FleetNext, all, GatewayEndFails, GatewayNotices, Upgraded, UpgradeFails, Disconnected

-----------------------------------------------------------------------------
(* Who is left of a name.                                                  *)

\* A socket that is held is reused by nobody, and a process takes only one that
\* the gateway knows under its name.
LEMMA HeldStep ==
    IInv /\ FleetTypeOK /\ HeldByName /\ [FleetNext]_all => HeldByName'
<1> SUFFICES ASSUME IInv, FleetTypeOK, HeldByName, [FleetNext]_all, NEW q \in Proc,
                    at'[q] # None
             PROVE  /\ sock'[at'[q]].st # "free"
                    /\ SameAgent(q, sock'[at'[q]].uid, sock'[at'[q]].name)
  BY DEF HeldByName, SameAgent
<1>t. sock \in [Addr -> AgentSocket] /\ at \in [Proc -> Addr \cup {None}]
  BY DEF FleetTypeOK, IInv, TypeOK, SocketsOK
<1>1. ASSUME NEW p \in Proc, NEW a \in Addr, Dial(p, a)
      PROVE  /\ sock'[at'[q]].st # "free"
             /\ SameAgent(q, sock'[at'[q]].uid, sock'[at'[q]].name)
  <2>1. /\ sock' = [sock EXCEPT ![a] = [st |-> "upgrading", uid |-> Config[p].uid,
                                        name |-> Config[p].name, pub |-> Config[p].pub]]
        /\ at' = [at EXCEPT ![p] = a]
        /\ \A r \in Proc : at[r] # a
    BY <1>1 DEF Dial, AgentEvent
  <2>2. CASE q = p
    BY <1>t, <2>1, <2>2 DEF SameAgent
  <2>3. CASE q # p
    <3>1. at'[q] = at[q] /\ at[q] # None /\ at[q] # a
      BY <1>t, <2>1, <2>3
    <3>2. sock'[at[q]] = sock[at[q]]
      BY <1>t, <2>1, <3>1
    <3> QED
      BY <3>1, <3>2 DEF HeldByName
  <2> QED
    BY <2>2, <2>3
<1>2. ASSUME at'[q] = at[q], \A p \in Proc, a \in Addr : ~Dial(p, a)
      PROVE  /\ sock'[at'[q]].st # "free"
             /\ SameAgent(q, sock'[at'[q]].uid, sock'[at'[q]].name)
  <2> DEFINE b == at[q]
  <2>1. b \in Addr /\ sock[b].st # "free" /\ SameAgent(q, sock[b].uid, sock[b].name)
    BY <1>t, <1>2 DEF HeldByName
  <2>2. \A st : LET r == [sock EXCEPT ![b].st = st]
                IN  r[b].st = st /\ r[b].uid = sock[b].uid /\ r[b].name = sock[b].name
    BY <1>t, <2>1 DEF AgentSocket
  <2>3. \/ sock'[b] = sock[b]
        \/ \E st \in {"open", "broken", "closed", "ended"} : sock'[b] = [sock EXCEPT ![b].st = st][b]
    <3> HIDE DEF b
    <3>1. ASSUME NEW a \in Addr, NEW st \in {"open", "broken", "closed", "ended"},
                 sock' = [sock EXCEPT ![a].st = st]
          PROVE  sock'[b] = sock[b] \/ sock'[b] = [sock EXCEPT ![b].st = st][b]
      BY <1>t, <2>1, <3>1
    <3>2. CASE Upgraded
      <4>1. sock' = [sock EXCEPT ![admitting.addr].st = "open"] /\ admitting.addr \in Addr
        BY <3>2, AgentStreamFacts DEF Upgraded, AgentStream
      <4> QED
        BY <3>1, <4>1
    <3>3. CASE UpgradeFails
      <4>1. \/ sock' = sock
            \/ sock' = [sock EXCEPT ![admitting.addr].st = "ended"] /\ admitting.addr \in Addr
        BY <3>3 DEF UpgradeFails, StreamFails, IInv, TypeOK, AdmissionOK
      <4> QED
        BY <3>1, <4>1
    <3>4. ASSUME NEW a \in Addr, GatewayEndGoes(a) \/ AgentDisconnected(a)
          PROVE  \/ sock'[b] = sock[b]
                 \/ \E st \in {"open", "broken", "closed", "ended"} :
                        sock'[b] = [sock EXCEPT ![b].st = st][b]
      <4>1. \E st \in {"broken", "closed", "ended"} : sock' = [sock EXCEPT ![a].st = st]
        BY <3>4 DEF GatewayEndGoes, AgentBreaks, AgentCloses, AgentDisconnected
      <4> QED
        BY <3>1, <4>1
    <3>5. ASSUME NEW p \in Proc, ReadShutdown(p)
          PROVE  \/ sock'[b] = sock[b]
                 \/ \E st \in {"open", "broken", "closed", "ended"} :
                        sock'[b] = [sock EXCEPT ![b].st = st][b]
      <4> DEFINE a == at[p]
      <4>1. a \in Addr /\ sock' = [sock EXCEPT ![a].st = IF @ = "open" THEN "broken" ELSE @]
        BY <3>5 DEF ReadShutdown, AgentExits, IInv, TypeOK
      <4> HIDE DEF a
      <4>2. CASE sock[a].st = "open"
        <5>1. sock' = [sock EXCEPT ![a].st = "broken"]
          BY <1>t, <4>1, <4>2
        <5> QED
          BY <3>1, <4>1, <5>1
      <4>3. CASE sock[a].st # "open"
        BY <1>t, <4>1, <4>3 DEF AgentSocket
      <4> QED
        BY <4>2, <4>3
    <3>6. CASE UNCHANGED vars
      BY <3>6 DEF vars
    <3> QED
      BY <1>2, <3>2, <3>3, <3>4, <3>5, <3>6
      DEF FleetNext, all, Start, Accepted, UpgradeLost, Unauthorized, Unreachable, Wake,
          ReadError, ReadEnd, ReadPending, Sent, SendFails, WireFails, ProcessNotices,
          ProcessEndGoes, GatewayEndFails, GatewayNotices, Disconnected
  <2>4. sock'[b].st # "free" /\ sock'[b].uid = sock[b].uid /\ sock'[b].name = sock[b].name
    <3>1. CASE sock'[b] = sock[b]
      BY <2>1, <3>1
    <3>2. ASSUME NEW st \in {"open", "broken", "closed", "ended"}, sock'[b] = [sock EXCEPT ![b].st = st][b]
          PROVE  sock'[b].st # "free" /\ sock'[b].uid = sock[b].uid /\ sock'[b].name = sock[b].name
      BY <2>2, <3>2
    <3> QED
      BY <2>3, <3>1, <3>2
  <2> QED
    BY <1>2, <2>1, <2>4
<1>3. (\E p \in Proc, a \in Addr : Dial(p, a)) \/ at'[q] = at[q]
  BY <1>t DEF FleetNext, all, processes, Start, Accepted, UpgradeLost, Unauthorized, Unreachable,
         Wake, ReadShutdown, ReadError, ReadEnd, ReadPending, Sent, SendFails, WireFails,
         ProcessNotices, ProcessEndGoes, GatewayEndFails, GatewayNotices, Upgraded, UpgradeFails, Disconnected, Exit, Drop
<1> QED
  BY <1>1, <1>2, <1>3

\* Apart from the four steps about sockets and Shutdowns, nobody who is left stops
\* being so, nobody gets a socket, and no Shutdown is sent.
LEMMA QuietStep ==
    ASSUME IInv, FleetTypeOK, [FleetNext]_all
    PROVE  \/ \E p \in Proc, a \in Addr : Dial(p, a)
           \/ \E p \in Proc : ReadShutdown(p)
           \/ Upgraded
           \/ /\ shutdown' = shutdown
              /\ admitting' \in {admitting, NoAdmission}
              /\ \A q \in Proc : /\ at'[q] \in {at[q], None}
                                 /\ Left(q) => Left(q)'
                                 /\ why'[q] = "shutdown" => why[q] = "shutdown"
<1> DEFINE Keeps == /\ shutdown' = shutdown
                    /\ admitting' \in {admitting, NoAdmission}
                    /\ \A q \in Proc : /\ at'[q] \in {at[q], None}
                                       /\ Left(q) => Left(q)'
                                       /\ why'[q] = "shutdown" => why[q] = "shutdown"
<1>t. /\ at \in [Proc -> Addr \cup {None}] /\ why \in [Proc -> {"running", "401", "shutdown", "ended"}]
      /\ phase \in [Proc -> {"off", "connecting", "upgrading", "serving", "sleeping", "exited"}]
  BY DEF FleetTypeOK
<1> USE DEF Left
<1>1. ASSUME NEW p \in Proc, UNCHANGED vars,
             Exit(p, "401") \/ Exit(p, "ended") \/ Drop(p, "sleeping") \/ Drop(p, "connecting")
      PROVE  Keeps
  <2>1. shutdown' = shutdown /\ admitting' = admitting
    BY <1>1 DEF vars
  <2>2. /\ at' = [at EXCEPT ![p] = None]
        /\ \/ why' = why
           \/ \E r \in {"401", "ended"} : why' = [why EXCEPT ![p] = r]
        /\ \E f \in {"exited", "sleeping", "connecting"} : phase' = [phase EXCEPT ![p] = f]
    BY <1>1 DEF Exit, Drop, Goes
  <2>3. ASSUME NEW q \in Proc
        PROVE  /\ at'[q] \in {at[q], None}
               /\ why'[q] = "shutdown" => why[q] = "shutdown"
               /\ why[q] # "shutdown" => why'[q] # "shutdown"
               /\ phase[q] # "off" => phase'[q] # "off"
    BY <1>t, <2>2
  <2> QED
    BY <2>1, <2>3
<1>2. ASSUME NEW p \in Proc, Start(p) \/ Accepted(p) \/ Unreachable(p) \/ Wake(p)
      PROVE  Keeps
  <2>1. /\ shutdown' = shutdown /\ admitting' = admitting /\ at' = at /\ why' = why
        /\ \E f \in {"connecting", "serving", "sleeping"} : phase' = [phase EXCEPT ![p] = f]
    BY <1>2 DEF Start, Accepted, Unreachable, Wake, Goes, vars
  <2> QED
    BY <1>t, <2>1
<1>3. ASSUME shutdown' = shutdown, admitting' \in {admitting, NoAdmission},
             UNCHANGED <<phase, at, why>>
      PROVE  Keeps
  BY <1>3
<1>4. ASSUME NEW p \in Proc,
             \/ ReadPending(p) \/ Sent(p) \/ WireFails(p) \/ ProcessNotices(p)
      PROVE  Keeps
  BY <1>3, <1>4 DEF ReadPending, Sent, WireFails, ProcessNotices, ProcessEndGoes, vars
<1>5. ASSUME NEW a \in Addr, GatewayEndFails(a) \/ GatewayNotices(a) \/ Disconnected(a)
      PROVE  Keeps
  BY <1>3, <1>5 DEF GatewayEndFails, GatewayNotices, GatewayEndGoes, Disconnected,
                    AgentBreaks, AgentCloses, AgentDisconnected, processes
<1>6. CASE UpgradeFails
  BY <1>3, <1>6 DEF UpgradeFails, StreamFails, processes
<1>7. CASE UNCHANGED all
  BY <1>3, <1>7 DEF all, vars, processes
<1>8. ASSUME NEW p \in Proc,
             Unauthorized(p) \/ SendFails(p) \/ ReadEnd(p) \/ UpgradeLost(p) \/ ReadError(p)
      PROVE  Keeps
  BY <1>1, <1>8 DEF Unauthorized, SendFails, ReadEnd, UpgradeLost, ReadError
<1> QED
  BY <1>2, <1>4, <1>5, <1>6, <1>7, <1>8 DEF FleetNext

\* Whoever dialled the socket the loop waits for is left until it is registered.
LEMMA DiallerStep ==
    IInv /\ FleetTypeOK /\ DiallerLeft /\ [FleetNext]_all => DiallerLeft'
<1> SUFFICES ASSUME IInv, FleetTypeOK, DiallerLeft, [FleetNext]_all, admitting'.kind = "agent"
             PROVE  /\ admitting'.addr \notin shutdown'
                    /\ \E q \in Proc : /\ SameAgent(q, admitting'.uid, admitting'.name)
                                       /\ Left(q)'
                                       /\ at'[q] \in {None, admitting'.addr}
  BY DEF DiallerLeft, SameAgent
<1>t. /\ at \in [Proc -> Addr \cup {None}] /\ why \in [Proc -> {"running", "401", "shutdown", "ended"}]
      /\ phase \in [Proc -> {"off", "connecting", "upgrading", "serving", "sleeping", "exited"}]
      /\ admitting \in Admission /\ shutdown \subseteq Addr
  BY DEF FleetTypeOK, IInv, TypeOK, AdmissionOK
<1>n. NoAdmission.kind # "agent"
  BY DEF NoAdmission
<1>1. ASSUME NEW p \in Proc, NEW a \in Addr, Dial(p, a)
      PROVE  /\ admitting'.addr \notin shutdown'
             /\ \E q \in Proc : /\ SameAgent(q, admitting'.uid, admitting'.name)
                                /\ Left(q)'
                                /\ at'[q] \in {None, admitting'.addr}
  <2>1. /\ admitting'.uid = Config[p].uid /\ admitting'.name = Config[p].name
        /\ admitting'.addr = a
        /\ shutdown' = shutdown \ {a} /\ at'[p] = a
    BY <1>t, <1>1 DEF Dial, AgentEvent, NoAdmission
  <2>2. Left(p)'
    <3>1. phase[p] = "connecting" /\ phase' = [phase EXCEPT ![p] = "upgrading"] /\ why' = why
      BY <1>1 DEF Dial, Goes
    <3>2. why[p] # "shutdown"
      BY <3>1 DEF FleetTypeOK
    <3> QED
      BY <1>t, <3>1, <3>2 DEF Left
  <2> QED
    BY <2>1, <2>2 DEF SameAgent
<1>2. ASSUME NEW p \in Proc, ReadShutdown(p)
      PROVE  /\ admitting'.addr \notin shutdown'
             /\ \E q \in Proc : /\ SameAgent(q, admitting'.uid, admitting'.name)
                                /\ Left(q)'
                                /\ at'[q] \in {None, admitting'.addr}
  <2>1. /\ admitting' = admitting /\ shutdown' \subseteq shutdown
        /\ at' = [at EXCEPT ![p] = None]
        /\ why' = [why EXCEPT ![p] = "shutdown"]
        /\ phase' = [phase EXCEPT ![p] = "exited"]
        /\ at[p] \in shutdown
    BY <1>2 DEF ReadShutdown, AgentExits, Exit, Goes
  <2>2. PICK q \in Proc : /\ SameAgent(q, admitting.uid, admitting.name)
                          /\ Left(q)
                          /\ at[q] \in {None, admitting.addr}
    BY <2>1 DEF DiallerLeft
  <2>3. q # p
    BY <1>t, <2>1, <2>2, NoneAssumption DEF DiallerLeft
  <2> QED
    BY <1>t, <2>1, <2>2, <2>3 DEF DiallerLeft, Left
<1>3. CASE Upgraded
  BY <1>3, <1>n DEF Upgraded, AgentStream
<1>4. ASSUME shutdown' = shutdown, admitting' \in {admitting, NoAdmission},
             \A q \in Proc : at'[q] \in {at[q], None} /\ (Left(q) => Left(q)')
      PROVE  /\ admitting'.addr \notin shutdown'
             /\ \E q \in Proc : /\ SameAgent(q, admitting'.uid, admitting'.name)
                                /\ Left(q)'
                                /\ at'[q] \in {None, admitting'.addr}
  BY <1>4, <1>n DEF DiallerLeft
<1> QED
  BY <1>1, <1>2, <1>3, <1>4, QuietStep

\* When somebody of a name obeys a Shutdown or is sent one, somebody else of the
\* name is left: the one that took the name over.
LEMMA SomeoneStep ==
    ASSUME IInv, FleetTypeOK, HeldByName, DiallerLeft, SomeoneLeft, [FleetNext]_all
    PROVE  SomeoneLeft'
<1> DEFINE Doomed(p) == why[p] = "shutdown" \/ at[p] \in shutdown
           Safe(q, p) == /\ SameAgent(q, Config[p].uid, Config[p].name)
                         /\ Left(q)
                         /\ at[q] \notin shutdown
<1>t. /\ at \in [Proc -> Addr \cup {None}] /\ why \in [Proc -> {"running", "401", "shutdown", "ended"}]
      /\ phase \in [Proc -> {"off", "connecting", "upgrading", "serving", "sleeping", "exited"}]
      /\ admitting \in Admission /\ shutdown \subseteq Addr /\ None \notin shutdown
      /\ reg \in Registry
  BY NoneAssumption DEF FleetTypeOK, IInv, TypeOK, AdmissionOK
<1>s. \A p \in Proc : Doomed(p) => \E q \in Proc : Safe(q, p)
  BY DEF SomeoneLeft
<1> SUFFICES ASSUME NEW p \in Proc, Doomed(p)'
             PROVE  \E q \in Proc : Safe(q, p)'
  BY DEF SomeoneLeft, SameAgent
<1>1. ASSUME NEW r \in Proc, NEW a \in Addr, Dial(r, a) PROVE \E q \in Proc : Safe(q, p)'
  <2>1. /\ phase[r] = "connecting" /\ phase' = [phase EXCEPT ![r] = "upgrading"] /\ why' = why
        /\ shutdown' = shutdown \ {a} /\ at' = [at EXCEPT ![r] = a]
    BY <1>1 DEF Dial, Goes, AgentEvent
  <2>2. Doomed(p)
    BY <1>t, <2>1
  <2>3. PICK q \in Proc : Safe(q, p)
    BY <1>s, <2>2
  <2>4. Left(q)' /\ at'[q] \notin shutdown'
    BY <1>t, <2>1, <2>3 DEF Left
  <2> QED
    BY <2>3, <2>4 DEF SameAgent
<1>2. ASSUME NEW r \in Proc, ReadShutdown(r) PROVE \E q \in Proc : Safe(q, p)'
  <2>1. /\ at[r] \in shutdown
        /\ phase' = [phase EXCEPT ![r] = "exited"] /\ why' = [why EXCEPT ![r] = "shutdown"]
        /\ shutdown' = shutdown \ {at[r]} /\ at' = [at EXCEPT ![r] = None]
    BY <1>2 DEF ReadShutdown, AgentExits, Exit, Goes
  <2>2. Doomed(p)
    BY <1>t, <2>1
  <2>3. PICK q \in Proc : Safe(q, p)
    BY <1>s, <2>2
  <2>4. q # r
    BY <2>1, <2>3
  <2>5. Left(q)' /\ at'[q] \notin shutdown'
    BY <1>t, <2>1, <2>3, <2>4 DEF Left
  <2> QED
    BY <2>3, <2>5 DEF SameAgent
<1>3. ASSUME Upgraded PROVE \E q \in Proc : Safe(q, p)'
  <2> DEFINE u == admitting.uid
             n == admitting.name
             a == admitting.addr
             previous == reg.agents[u][n]
  <2>1. /\ admitting.kind = "agent"
        /\ shutdown' = shutdown \cup {b \in {previous} \ {None} : sock[b].st = "open"}
        /\ phase' = phase /\ why' = why /\ at' = at
    BY <1>3 DEF Upgraded, AgentStream, processes
  <2>2. /\ u \in Uid /\ n \in Name /\ a \in Addr /\ sock[a].st = "upgrading"
    BY <1>3, AgentStreamFacts DEF Upgraded
  <2>3. previous # None =>
            /\ sock[previous].st \in {"open", "broken", "closed"}
            /\ sock[previous].uid = u /\ sock[previous].name = n
    BY <2>2 DEF IInv, GhostsWereClosed
  <2>4. a \notin shutdown
    BY <2>1 DEF DiallerLeft
  <2>5. \E q \in Proc : SameAgent(q, u, n) /\ Left(q) /\ at[q] \in {None, a}
    BY <2>1 DEF DiallerLeft
  <2> HIDE DEF u, n, a, previous
  <2>6. shutdown' \subseteq shutdown \cup {previous} /\ None \notin shutdown' /\ a \notin shutdown'
    BY <1>t, <2>1, <2>2, <2>3, <2>4
  <2>7. CASE SameAgent(p, u, n)
    BY <2>1, <2>5, <2>6, <2>7 DEF SameAgent, Left
  <2>8. CASE ~SameAgent(p, u, n)
    <3>1. \A r \in Proc : ~SameAgent(r, u, n) => at[r] \notin shutdown' \ shutdown
      BY <2>1, <2>3, <1>t DEF HeldByName
    <3>2. Doomed(p)
      BY <2>1, <2>8, <3>1
    <3>3. PICK q \in Proc : Safe(q, p)
      BY <1>s, <3>2
    <3>4. ~SameAgent(q, u, n)
      BY <2>8, <3>3 DEF SameAgent
    <3> QED
      BY <2>1, <3>1, <3>3, <3>4 DEF SameAgent, Left
  <2> QED
    BY <2>7, <2>8
<1>4. ASSUME shutdown' = shutdown,
             \A q \in Proc : /\ at'[q] \in {at[q], None}
                             /\ Left(q) => Left(q)'
                             /\ why'[q] = "shutdown" => why[q] = "shutdown"
      PROVE  \E q \in Proc : Safe(q, p)'
  <2>1. Doomed(p)
    BY <1>t, <1>4
  <2>2. PICK q \in Proc : Safe(q, p)
    BY <1>s, <2>1
  <2> QED
    BY <1>t, <1>4, <2>2 DEF SameAgent
<1> QED
  BY <1>1, <1>2, <1>3, <1>4, QuietStep

-----------------------------------------------------------------------------
(* The theorems.                                                           *)

\* The inductive invariant of gateway and processes holds in every behaviour.
THEOREM FleetInductive == FleetSpec => []FleetInv
<1>1. FleetInit => FleetInv
  <2> SUFFICES ASSUME FleetInit PROVE FleetInv
    OBVIOUS
  <2>1. IInv
    BY InitType, InitLinked DEF FleetInit, IInv, Linked
  <2>2. HeldByName /\ DiallerLeft /\ SomeoneLeft
    BY DEF FleetInit, Init, NoAdmission, HeldByName, DiallerLeft, SomeoneLeft
  <2> QED
    BY <2>1, <2>2, FleetInitType DEF FleetInv
<1>2. FleetInv /\ [FleetNext]_all => FleetInv'
  <2> SUFFICES ASSUME FleetInv, [FleetNext]_all PROVE FleetInv'
    OBVIOUS
  <2>1. IInv'
    BY FleetStepIsStep, TypeStep, LinkedStep DEF FleetInv, IInv, Linked
  <2> QED
    BY <2>1, FleetTypeStep, HeldStep, DiallerStep, SomeoneStep DEF FleetInv
<1> QED
  BY <1>1, <1>2, PTL DEF FleetSpec

\* What the gateway does while agent processes come, fail, return and shut one
\* another down is a behaviour of GatewayState, so that all that is proved of
\* every such behaviour holds of the fleet's gateway.
THEOREM FleetRunsTheGateway == FleetSpec => Spec
<1>1. FleetInit => Init
  BY DEF FleetInit
<1>2. FleetInv /\ [FleetNext]_all => [Next]_vars
  BY FleetStepIsStep DEF FleetInv
<1> QED
  BY <1>1, <1>2, FleetInductive, PTL DEF FleetSpec, Spec

\* A process holds a socket exactly while it upgrades or serves it, and no two
\* hold the same, for any number of processes, names and addresses.
THEOREM FleetTypeCorrect == FleetSpec => []FleetTypeOK
<1>1. FleetInv => FleetTypeOK
  BY DEF FleetInv
<1> QED
  BY <1>1, FleetInductive, PTL

\* Processes of one name never shut all of themselves down.
THEOREM OneIsLeft == FleetSpec => []NeverAllShutDown
<1>1. FleetInv => NeverAllShutDown
  BY DEF FleetInv, SomeoneLeft, NeverAllShutDown, SameAgent, Left
<1> QED
  BY <1>1, FleetInductive, PTL

=============================================================================
