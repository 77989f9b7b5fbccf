----------------------------- MODULE HolePunch -----------------------------
(***************************************************************************)
(* A direct channel is made: the client and the agent run                  *)
(* udp_punched_socket (p2p.rs) with the instructions of the gateway, then   *)
(* the client dials by QUIC (create_direct, new_client) and the agent waits *)
(* to be dialled (main.rs, new_server).  Between them are UDP, which loses, *)
(* repeats and reorders, and a NAT on each side, which lets in what answers *)
(* to something that was sent.                                             *)
(*                                                                         *)
(* A run is `timely' when datagrams and instructions take less than the     *)
(* second that one end waits for the other, so that a timeout only strikes  *)
(* when nothing is under way; otherwise a timeout may strike at any moment. *)
(***************************************************************************)
EXTENDS PeerToPeer, FiniteSets

CONSTANTS
    Meetings,   \* [client, agent, req, hard]: two ends as the gateway knows them, what the client
                \* asks for, and the ends whose NAT in fact gives every peer a port of its own
    MaxFaults   \* bound: datagrams lost or repeated, ports that cannot be bound, sockets that fail

End == {"client", "agent"}
Other(e) == IF e = "client" THEN "agent" ELSE "client"

ASSUME MeetingsAssumption ==
    /\ Meetings \subseteq [client : Peer, agent : Peer, req : PortRequest, hard : SUBSET End]
    /\ MaxFaults \in Nat

(* The gateway's answer; the two ends meet when it is Ok. *)
answer(m) == peer2peer(TRUE, {m.client}, {m.agent}, m.req)

Settings ==
    {[client |-> answer(m).client, agent |-> answer(m).agent, hard |-> m.hard,
      lan |-> m.client.ip = m.agent.ip] : m \in {x \in Meetings : answer(x).reply = "ok"}}

VARIABLES
    setting,    \* the instructions of both ends and their network
    timely,     \* see above
    st,         \* st[e]: where an end is
    left,       \* left[e]: its side, which changes when it tries again
    inner,      \* inner[e]: it tries again
    socks,      \* socks[e]: the ports whose sockets it waits on
    buf,        \* buf[e]: the first that each of these sockets has received: no more is read
    chan,       \* chan[e]: the socket and the peer it settled for
    maps,       \* maps[e]: what its NAT remembers: own port, port outside, peer's port
    net,        \* datagrams under way
    faults

end == <<st, left, inner, socks, buf, chan>>
punch == <<setting, timely, end, maps, net, faults>>

SomePort == 2 * Word    \* a free port that the system chose
NoChannel == [own |-> -1, peer |-> -1]
final == {"connected", "closed", "failed", "timeout"}

PunchInit ==
    /\ setting \in Settings /\ timely \in BOOLEAN
    /\ st = [e \in End |-> "start"]
    /\ left = [e \in End |-> e = "client"] /\ inner = [e \in End |-> FALSE]
    /\ socks = [e \in End |-> {}] /\ buf = [e \in End |-> {}]
    /\ chan = [e \in End |-> NoChannel]
    /\ maps = [e \in End |-> {}] /\ net = {} /\ faults = 0

instr(e) == IF e = "client" THEN setting.client ELSE setting.agent
punches(e) == puncher(instr(e).nat, instr(e).peer_nat, left[e])

----------------------------------------------------------------------------
(* The two ends.                                                           *)

\* Mutant of waits: nobody gives the puncher time.
waits_not(e) == FALSE

waits(e) == ~punches(e)

Begins(e) ==
    /\ st[e] = "start"
    /\ timely /\ inner[e] => inner[Other(e)] \/ st[Other(e)] # "waiting"
    /\ st' = [st EXCEPT ![e] = IF waits(e) THEN "asleep" ELSE "ready"]
    /\ UNCHANGED <<setting, timely, left, inner, socks, buf, chan, maps, net, faults>>

(* The second is over: if it was enough, the other end has sent its row and *)
(* nothing of that is under way.                                           *)
Wakes(e) ==
    /\ st[e] = "asleep"
    /\ timely => net = {} /\ st[Other(e)] \notin {"start", "ready", "asleep"}
    /\ st' = [st EXCEPT ![e] = "ready"]
    /\ UNCHANGED <<setting, timely, left, inner, socks, buf, chan, maps, net, faults>>

(* A row that wraps around has a port 0: binding it gives some other port,  *)
(* and nothing can be sent to it.                                          *)
bound_to(p) == IF p = 0 THEN SomePort ELSE p

(* Ports outside: as inside, or, behind a hard NAT, a port (here above Word) *)
(* that the other end does not know of.                                    *)
outside(e, ports) ==
    LET own(s) == bound_to(my_port(instr(e), left[e], s))
    IN IF setting.lan \/ e \notin setting.hard THEN {[s \in ports |-> own(s)]}
       ELSE {[s \in ports |-> IF s \in kept THEN own(s) ELSE Word + own(s)] : kept \in SUBSET ports}

(* A row of sends, punches or calls; a port that cannot be bound is skipped. *)
SendsRow(e) ==
    /\ st[e] = "ready"
    /\ \E bound \in {1..instr(e).seq, 2..instr(e).seq, {}} :
       \E ext \in outside(e, bound) :
          LET own(s) == bound_to(my_port(instr(e), left[e], s))
              to(s) == peer_port(instr(e), left[e], s)
              sent == {s \in bound : to(s) # 0}
          IN /\ bound # 1..instr(e).seq => faults < MaxFaults
             /\ faults' = IF bound = 1..instr(e).seq THEN faults ELSE faults + 1
             /\ socks' = [socks EXCEPT ![e] = {own(s) : s \in bound}]
             /\ maps' = [maps EXCEPT ![e] = @ \cup {[own |-> own(s), ext |-> ext[s], to |-> to(s)] : s \in sent}]
             /\ net' = net \cup {[to |-> Other(e), from |-> ext[s], dst |-> to(s),
                                  what |-> IF punches(e) THEN "punch" ELSE "key"] : s \in sent}
             /\ st' = [st EXCEPT ![e] = IF bound = {} THEN "failed" ELSE "waiting"]
    /\ buf' = [buf EXCEPT ![e] = {}]
    /\ UNCHANGED <<setting, timely, left, inner, chan>>

(* The socket that received something is taken out of those that are waited *)
(* on; it goes on only with the right half of the key.                      *)
replies(e, d) == punches(e) /\ d.what = "key"

\* Mutant of accepts: whatever comes from the peer will do.
accepts_any(e, d) == TRUE

accepts(e, d) == replies(e, d) \/ d.what = "confirm"

translated(e, own, to) ==
    IF setting.lan \/ e \notin setting.hard THEN {own}
    ELSE {m.ext : m \in {x \in maps[e] : x.own = own /\ x.to = to}}

discards(e, p) ==
    /\ socks' = [socks EXCEPT ![e] = @ \ {p}]
    /\ st' = [st EXCEPT ![e] = IF socks[e] \subseteq {p} THEN "failed" ELSE @]
    /\ UNCHANGED <<chan, net>>

Reads(e) ==
    /\ st[e] = "waiting"
    /\ \E d \in buf[e] :
       IF accepts(e, d)
       THEN /\ st' = [st EXCEPT ![e] = "ok"]
            /\ chan' = [chan EXCEPT ![e] = [own |-> d.dst, peer |-> d.from]]
            /\ socks' = [socks EXCEPT ![e] = {d.dst}]
            /\ net' = IF replies(e, d)
                      THEN net \cup {[to |-> Other(e), from |-> x, dst |-> d.from, what |-> "confirm"]
                                        : x \in translated(e, d.dst, d.from)}
                      ELSE net
       ELSE discards(e, d.dst)
    /\ buf' = [buf EXCEPT ![e] = {x \in @ : x.dst \in socks'[e] /\ st'[e] = "waiting"}]
    /\ UNCHANGED <<setting, timely, left, inner, maps, faults>>

(* A socket cannot be read, or the confirmation cannot be sent from it: an  *)
(* error the host reports, for which the socket is given up as well.        *)
SocketFails(e) ==
    /\ st[e] = "waiting" /\ faults < MaxFaults
    /\ \E p \in socks[e] : discards(e, p)
    /\ buf' = [buf EXCEPT ![e] = {x \in @ : x.dst \in socks'[e] /\ st'[e] = "waiting"}]
    /\ faults' = faults + 1
    /\ UNCHANGED <<setting, timely, left, inner, maps>>

(* Nothing is under way to e: the other end has done its part of the round. *)
quiet(e) ==
    /\ net = {} /\ buf = [x \in End |-> {}]
    /\ st[Other(e)] \in {"start", "asleep", "ready"} => inner[Other(e)] /\ ~inner[e]

closes(e) == socks' = [socks EXCEPT ![e] = {}] /\ buf' = [buf EXCEPT ![e] = {}]

changesSide(e) ==
    left' = [left EXCEPT ![e] = ~@] /\ inner' = [inner EXCEPT ![e] = TRUE]

(* Two ends behind the same kind of NAT try once more, from the other side. *)
TimesOut(e) ==
    /\ st[e] = "waiting" /\ buf[e] = {}
    /\ timely => quiet(e)
    /\ IF ~inner[e] /\ instr(e).nat = instr(e).peer_nat
       THEN changesSide(e) /\ st' = [st EXCEPT ![e] = "start"]
       ELSE st' = [st EXCEPT ![e] = "timeout"] /\ UNCHANGED <<left, inner>>
    /\ closes(e)
    /\ UNCHANGED <<setting, timely, chan, maps, net, faults>>

(* The client dials the peer it found: the first packet. *)
Dials ==
    /\ st["client"] = "ok"
    /\ st' = [st EXCEPT !["client"] = "dialing"]
    /\ net' = net \cup {[to |-> "agent", from |-> x, dst |-> chan["client"].peer, what |-> "quic"]
                            : x \in translated("client", chan["client"].own, chan["client"].peer)}
    /\ UNCHANGED <<setting, timely, left, inner, socks, buf, chan, maps, faults>>

(* Each end reaches the other at the socket it settled for. *)
linked ==
    /\ chan["client"].peer \in translated("agent", chan["agent"].own, chan["agent"].peer)
    /\ chan["agent"].peer \in translated("client", chan["client"].own, chan["client"].peer)

Connects ==
    /\ st["client"] = "dialing" /\ st["agent"] = "ok" /\ linked
    /\ st' = [e \in End |-> "connected"]
    /\ UNCHANGED <<setting, timely, left, inner, socks, buf, chan, maps, net, faults>>

DialFails ==
    /\ st["client"] = "dialing"
    /\ timely => quiet("agent") /\ ~(st["agent"] = "ok" /\ linked) /\ st["agent"] # "waiting"
    /\ st' = [st EXCEPT !["client"] = "closed"]
    /\ UNCHANGED <<setting, timely, left, inner, socks, buf, chan, maps, net, faults>>

----------------------------------------------------------------------------
(* The network.  A NAT finds the socket inside by the port outside and the  *)
(* peer; on a shared network there is none.                                 *)

inside(d) ==
    IF setting.lan THEN {d.dst}
    ELSE {m.own : m \in {x \in maps[d.to] : x.ext = d.dst /\ x.to = d.from}}

overtakes(d) == d.what = "quic" /\ \E x \in net : x.what = "confirm" /\ x.to = d.to

Arrives ==
    \E d \in net, again \in BOOLEAN :
        /\ again => faults < MaxFaults
        /\ timely => ~overtakes(d)
        /\ net' = IF again THEN net ELSE net \ {d}
        /\ faults' = IF again THEN faults + 1 ELSE faults
        /\ buf' = [buf EXCEPT ![d.to] = @ \cup
                     {[dst |-> o, from |-> d.from, what |-> d.what]
                          : o \in IF st[d.to] = "waiting"
                                  THEN (inside(d) \cap socks[d.to]) \ {x.dst : x \in buf[d.to]}
                                  ELSE {}}]
        /\ UNCHANGED <<setting, timely, st, left, inner, socks, chan, maps>>

Loses ==
    /\ faults < MaxFaults
    /\ \E d \in net : net' = net \ {d}
    /\ faults' = faults + 1
    /\ UNCHANGED <<setting, timely, end, maps>>
----------------------------------------------------------------------------
PunchNext ==
    \/ \E e \in End : Begins(e) \/ Wakes(e) \/ SendsRow(e) \/ Reads(e) \/ TimesOut(e)
    \/ \E e \in End : SocketFails(e)
    \/ Dials \/ Connects \/ DialFails
    \/ Arrives \/ Loses

(* The runtime runs both tasks and their timers; the network delivers or    *)
(* loses what is under way; a QUIC handshake ends, one way or the other.    *)
PunchFairness ==
    /\ \A e \in End : WF_punch(Begins(e)) /\ WF_punch(Wakes(e)) /\ WF_punch(SendsRow(e))
                     /\ WF_punch(Reads(e)) /\ WF_punch(TimesOut(e))
    /\ WF_punch(Dials) /\ WF_punch(Connects) /\ WF_punch(DialFails)
    /\ WF_punch(Arrives)

PunchSpec == PunchInit /\ [][PunchNext]_punch
FairPunchSpec == PunchSpec /\ PunchFairness

----------------------------------------------------------------------------
(* Properties.                                                             *)

Datagram == [to : End, from : Int, dst : Int, what : {"punch", "key", "confirm", "quic"}]

ofRow(e, p) == \E s \in 1..instr(e).seq : p = bound_to(my_port(instr(e), left[e], s))

(* What an end waits on are sockets of its row, each with the first that   *)
(* it received, and an end that gave up or is to try again has closed them  *)
(* all (udp_punched_socket).                                                *)
PunchTypeOK ==
    /\ setting \in Settings /\ timely \in BOOLEAN
    /\ st \in [End -> {"start", "asleep", "ready", "waiting", "ok", "dialing"} \cup final]
    /\ left \in [End -> BOOLEAN] /\ inner \in [End -> BOOLEAN]
    /\ net \subseteq Datagram /\ faults \in 0..MaxFaults
    /\ \A e \in End :
          /\ \A d, x \in buf[e] : d.dst = x.dst => d = x
          /\ st[e] \in {"start", "asleep", "ready", "failed", "timeout"} => socks[e] = {}
          /\ \A p \in socks[e] : ofRow(e, p)
          /\ \A d \in buf[e] : st[e] = "waiting" /\ d.dst \in socks[e]

(* Two ends that both settled for a socket settled for one channel: each    *)
(* reaches the other at the socket the other settled for, whatever was      *)
(* lost, repeated, late or given another port (udp_punched_socket returns   *)
(* Ok on both ends).                                                        *)
settled(e) == st[e] \in {"ok", "dialing", "connected"}
SameChannel == settled("client") /\ settled("agent") => linked

(* The waiting end goes on only once the punching end has: it never calls a *)
(* peer that has not settled for it (udp_punched_socket).                   *)
ConfirmedByPeer ==
    \A e \in End : settled(e) /\ ~punches(e) => settled(Other(e)) \/ st[Other(e)] = "closed"

(* What the two ends have of each other at every moment: the three above.   *)
PunchInv == PunchTypeOK /\ SameChannel /\ ConfirmedByPeer

(* A client's attempt ends, whatever the network does (create_direct always *)
(* returns); and an agent that found its peer is called by it when nothing   *)
(* is lost, repeated or late.  Otherwise it waits for the call for ever      *)
(* (main.rs, QuicStream::new_server).                                       *)
EndsSettle ==
    /\ <>(st["client"] \in final)
    /\ timely /\ st["agent"] = "ok" ~> st["agent"] = "connected" \/ faults > 0

(* When nothing is lost or late and no NAT gives every peer a port of its    *)
(* own, the two ends connect, in one round or the other.                    *)
PunchesThrough ==
    timely /\ (setting.hard = {} \/ setting.lan) => <>(st["client"] = "connected" \/ faults > 0)

(* What the argument rests on.  An end changes its side once, if both are   *)
(* behind the same kind of NAT, so that it punches in one round and calls   *)
(* in the other.                                                            *)
first(e) == puncher(instr(e).nat, instr(e).peer_nat, e = "client")
Sides ==
    \A e \in End : /\ left[e] = (e = "client") <=> ~inner[e]
                   /\ inner[e] => instr(e).nat = instr(e).peer_nat

(* What is under way are ports, and a NAT that is not hard changes none.    *)
Numbers ==
    /\ socks \in [End -> SUBSET Int] /\ chan \in [End -> [own : Int, peer : Int]]
    /\ buf \in [End -> SUBSET [dst : Int, from : Int, what : {"punch", "key", "confirm", "quic"}]]
    /\ maps \in [End -> SUBSET [own : Int, ext : Int, to : Int]]
    /\ \A e \in End \ setting.hard : \A m \in maps[e] : m.ext = m.own

(* Who has called is not the first to punch, or has changed its side; who   *)
(* has confirmed is done, and can be reached where the confirmation is from. *)
done(e) == settled(e) \/ st[e] = "closed"
hasCalled(e) == first(e) => inner[e]
isReached(e, p) == p \in translated(e, chan[e].own, chan[e].peer)
sentBy(e, d) ==
    /\ d.what = "key" => hasCalled(e)
    /\ d.what = "confirm" => done(e) /\ isReached(e, d.from) /\ chan[e].peer = d.dst
receivedFrom(e, d) ==
    /\ d.what = "key" => hasCalled(e)
    /\ d.what = "confirm" =>
          done(e) /\ isReached(e, d.from) /\ chan[e].peer \in translated(Other(e), d.dst, d.from)
Messages ==
    /\ \A d \in net : sentBy(Other(d.to), d)
    /\ \A e \in End : \A d \in buf[Other(e)] : receivedFrom(e, d)

(* Of two ends the first to be done was punching when the other called.     *)
Partners ==
    /\ \A e \in End : done(e) => done(Other(e)) \/ (punches(e) /\ hasCalled(Other(e)))
    /\ done("client") /\ done("agent") => linked

PunchIInv == PunchTypeOK /\ Sides /\ Numbers /\ Messages /\ Partners
=============================================================================
