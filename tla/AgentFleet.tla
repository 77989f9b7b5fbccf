----------------------------- MODULE AgentFleet -----------------------------
(***************************************************************************)
(* Agent processes and the gateway: the event loop of start() in           *)
(* sra-agent/src/main.rs, run by every process of Proc against the gateway *)
(* of GatewayState.                                                        *)
(*                                                                         *)
(* A process dials the gateway, serves one event socket at a time, and     *)
(* dials again when the socket's stream yields an error.  It leaves the    *)
(* loop on a 401, on Shutdown, and when the stream ends.  Its stream is a  *)
(* NarrowEvent: one poll of it reads first and, when nothing can be read,  *)
(* sends what is queued; an error of the sending half ends the stream.     *)
(*                                                                         *)
(* The two ends of a socket notice its failure independently, so a process *)
(* may be back while the gateway still holds its former socket.  How long  *)
(* a process sleeps between two attempts is left open.                     *)
(***************************************************************************)
EXTENDS GatewayState

CONSTANTS
    Proc,       \* agent processes
    Config,     \* Config[p]: the user, the name and the publish map of p
    MaxFaults   \* bound: failures of the network and refusals

ASSUME ConfigAssumption ==
    \A p \in Proc : /\ Config[p].uid \in Uid /\ Config[p].name \in Name
                    /\ Config[p].pub \in Publishes[Config[p].uid]
ASSUME FaultsAssumption == MaxFaults \in Nat

VARIABLES
    phase,      \* where each process is in its loop
    at,         \* at[p]: the address of p's event socket (event_connection)
    wire,       \* wire[p]: p's end of that socket: "up", "failed" or "closed"
    sending,    \* sending[p]: the poll under way found nothing to read and sends
    why,        \* why[p]: what made p leave the loop
    faults      \* failures so far

processes == <<phase, at, wire, sending, why>>
all == <<vars, processes, faults>>

Goes(p, to) == phase' = [phase EXCEPT ![p] = to]
Fault == faults < MaxFaults /\ faults' = faults + 1

\* The process leaves the loop and ends, with its sockets and tasks.
Exit(p, reason) ==
    /\ Goes(p, "exited")
    /\ why' = [why EXCEPT ![p] = reason]
    /\ at' = [at EXCEPT ![p] = None]
    /\ sending' = [sending EXCEPT ![p] = FALSE]
    /\ UNCHANGED wire

\* Mutant of Drop: event_connection keeps the socket.
Drop_not(p, to) == Goes(p, to) /\ UNCHANGED <<at, wire, sending, why>>

\* event_connection = None: the socket is dropped.
Drop(p, to) ==
    /\ Goes(p, to)
    /\ at' = [at EXCEPT ![p] = None]
    /\ UNCHANGED <<wire, sending, why>>

FleetInit ==
    /\ Init
    /\ phase = [p \in Proc |-> "off"]
    /\ at = [p \in Proc |-> None]
    /\ wire = [p \in Proc |-> "up"]
    /\ sending = [p \in Proc |-> FALSE]
    /\ why = [p \in Proc |-> "running"]
    /\ faults = 0

-----------------------------------------------------------------------------
(* Connecting: WsConnection::new and its result.                           *)

Start(p) ==
    /\ phase[p] = "off"
    /\ Goes(p, "connecting")
    /\ UNCHANGED <<vars, at, wire, sending, why, faults>>

\* The request with its token reaches the gateway, from an address nobody uses.
Dial(p, a) ==
    /\ phase[p] = "connecting"
    /\ \A q \in Proc : at[q] # a
    /\ AgentEvent(Config[p].uid, Config[p].name, a, Config[p].pub)
    /\ Goes(p, "upgrading")
    /\ at' = [at EXCEPT ![p] = a]
    /\ wire' = [wire EXCEPT ![p] = "up"]
    /\ UNCHANGED <<sending, why, faults>>

\* 101 Switching Protocols arrives, or the connection fails before it does.
Accepted(p) ==
    /\ phase[p] = "upgrading" /\ wire[p] = "up"
    /\ Goes(p, "serving")
    /\ UNCHANGED <<vars, at, wire, sending, why, faults>>
UpgradeLost(p) ==
    /\ phase[p] = "upgrading" /\ wire[p] # "up"
    /\ Drop(p, "sleeping")
    /\ UNCHANGED <<vars, faults>>

\* The gateway cannot be reached or answers with another status than 101.
Unauthorized(p) ==
    /\ phase[p] = "connecting"
    /\ Fault
    /\ Exit(p, "401")
    /\ UNCHANGED vars
Unreachable(p) ==
    /\ phase[p] = "connecting"
    /\ Fault
    /\ Goes(p, "sleeping")
    /\ UNCHANGED <<vars, at, wire, sending, why>>

Wake(p) ==
    /\ phase[p] = "sleeping"
    /\ Goes(p, "connecting")
    /\ UNCHANGED <<vars, at, wire, sending, why, faults>>

-----------------------------------------------------------------------------
(* Serving: the polls of the event stream and what comes of them.          *)

\* Mutant of ReadShutdown: a Shutdown sent on a former socket of p is obeyed too.
ReadShutdown_any_socket(p) ==
    /\ phase[p] = "serving" /\ ~sending[p]
    /\ \E a \in shutdown :
          /\ sock[a].uid = Config[p].uid /\ sock[a].name = Config[p].name
          /\ AgentExits(a)
    /\ Exit(p, "shutdown")
    /\ UNCHANGED faults

\* Shutdown is read from the current socket, also when it arrived before the
\* socket failed.
ReadShutdown(p) ==
    /\ phase[p] = "serving" /\ ~sending[p]
    /\ at[p] \in shutdown
    /\ AgentExits(at[p])
    /\ Exit(p, "shutdown")
    /\ UNCHANGED faults

\* Reading yields an error: the process goes back to connecting.
ReadError(p) ==
    /\ phase[p] = "serving" /\ ~sending[p]
    /\ wire[p] = "failed"
    /\ Drop(p, "connecting")
    /\ UNCHANGED <<vars, faults>>

\* The socket was closed: the stream ends, and the loop with it.
ReadEnd(p) ==
    /\ phase[p] = "serving" /\ ~sending[p]
    /\ wire[p] = "closed"
    /\ Exit(p, "ended")
    /\ UNCHANGED <<vars, faults>>

\* Nothing can be read; a request, a Pong or an Error is queued.
ReadPending(p) ==
    /\ phase[p] = "serving" /\ ~sending[p]
    /\ wire[p] = "up"
    /\ sending' = [sending EXCEPT ![p] = TRUE]
    /\ UNCHANGED <<vars, phase, at, wire, why, faults>>

\* The queued message is sent, or the stream ends because it cannot be.
Sent(p) ==
    /\ sending[p] /\ wire[p] = "up"
    /\ sending' = [sending EXCEPT ![p] = FALSE]
    /\ UNCHANGED <<vars, phase, at, wire, why, faults>>
SendFails(p) ==
    /\ sending[p] /\ wire[p] # "up"
    /\ Exit(p, "ended")
    /\ UNCHANGED <<vars, faults>>

-----------------------------------------------------------------------------
(* The network and the gateway.                                            *)

\* An end of a socket goes down with an error, or because something on the way
\* (a proxy in front of the gateway) closes it.
GatewayEndGoes(a) == AgentBreaks(a) \/ AgentCloses(a)
ProcessEndGoes(p) ==
    /\ at[p] # None /\ wire[p] = "up"
    /\ \E how \in {"failed", "closed"} : wire' = [wire EXCEPT ![p] = how]
    /\ UNCHANGED <<vars, phase, at, sending, why>>

\* The process's end of its socket goes down first.
WireFails(p) == Fault /\ ProcessEndGoes(p)

\* The gateway's end of a socket goes down first.
GatewayEndFails(a) ==
    /\ Fault
    /\ GatewayEndGoes(a)
    /\ UNCHANGED processes

\* Each end learns in the end that the other is gone: the gateway pings.
GatewayNotices(a) ==
    /\ \A p \in Proc : at[p] = a => wire[p] # "up"
    /\ GatewayEndGoes(a)
    /\ UNCHANGED <<processes, faults>>
ProcessNotices(p) ==
    /\ at[p] # None /\ sock[at[p]].st \in {"broken", "closed", "ended"}
    /\ ProcessEndGoes(p)
    /\ UNCHANGED faults

Upgraded == AgentStream /\ UNCHANGED <<processes, faults>>
UpgradeFails ==
    /\ StreamFails
    /\ IF \E p \in Proc : at[p] = admitting.addr /\ wire[p] = "up"
       THEN Fault ELSE UNCHANGED faults
    /\ UNCHANGED processes
Disconnected(a) == AgentDisconnected(a) /\ UNCHANGED <<processes, faults>>

-----------------------------------------------------------------------------
FleetNext ==
    \/ \E p \in Proc : Start(p)
    \/ \E p \in Proc, a \in Addr : Dial(p, a)
    \/ \E p \in Proc : Accepted(p)
    \/ \E p \in Proc : UpgradeLost(p)
    \/ \E p \in Proc : Unauthorized(p)
    \/ \E p \in Proc : Unreachable(p)
    \/ \E p \in Proc : Wake(p)
    \/ \E p \in Proc : ReadShutdown(p)
    \/ \E p \in Proc : ReadError(p)
    \/ \E p \in Proc : ReadEnd(p)
    \/ \E p \in Proc : ReadPending(p)
    \/ \E p \in Proc : Sent(p)
    \/ \E p \in Proc : SendFails(p)
    \/ \E p \in Proc : WireFails(p)
    \/ \E a \in Addr : GatewayEndFails(a)
    \/ \E a \in Addr : GatewayNotices(a)
    \/ \E p \in Proc : ProcessNotices(p)
    \/ Upgraded
    \/ UpgradeFails
    \/ \E a \in Addr : Disconnected(a)

FleetSpec == FleetInit /\ [][FleetNext]_all

\* A process that is scheduled goes on; every poll reads before it sends, so
\* what can be read is read although sends come in between.  A dial gets
\* through when the gateway's loop is idle again and again.  Nothing is assumed
\* of faults and of processes being started.
FleetFairness ==
    /\ \A p \in Proc :
          /\ WF_all(Wake(p))
          /\ WF_all(Accepted(p) \/ UpgradeLost(p))
          /\ WF_all(Sent(p) \/ SendFails(p))
          /\ WF_all(ProcessNotices(p))
          /\ SF_all(ReadShutdown(p))
          /\ SF_all(ReadError(p) \/ ReadEnd(p))
          /\ SF_all(\E a \in Addr : Dial(p, a))
    /\ \A a \in Addr : WF_all(GatewayNotices(a)) /\ SF_all(Disconnected(a))
    /\ WF_all(Upgraded)

FairFleetSpec == FleetSpec /\ FleetFairness

-----------------------------------------------------------------------------
(* Properties.                                                             *)

\* A process is in one phase of its loop, holds a socket exactly while it
\* upgrades or serves it, and has a reason to have left exactly when it did; no
\* two processes hold the same socket.
FleetTypeOK ==
    /\ phase \in [Proc -> {"off", "connecting", "upgrading", "serving", "sleeping", "exited"}]
    /\ at \in [Proc -> Addr \cup {None}]
    /\ wire \in [Proc -> {"up", "failed", "closed"}]
    /\ sending \in [Proc -> BOOLEAN]
    /\ why \in [Proc -> {"running", "401", "shutdown", "ended"}]
    /\ faults \in 0..MaxFaults
    /\ \A p \in Proc : at[p] # None <=> phase[p] \in {"upgrading", "serving"}
    /\ \A p \in Proc : why[p] # "running" <=> phase[p] = "exited"
    /\ \A p, q \in Proc : at[p] = at[q] /\ at[p] # None => p = q

\* Processes that share a name shut one another down, but never all of them:
\* whatever is lost, late or half open, and however often they come back, one
\* of those that were started is left, unless it left for another reason (the
\* Shutdown of AgentEvent and of the event loop).
NeverAllShutDown ==
    \A p \in Proc : why[p] = "shutdown" =>
        \E q \in Proc : /\ Config[q].uid = Config[p].uid /\ Config[q].name = Config[p].name
                        /\ why[q] # "shutdown" /\ phase[q] # "off"

\* Once faults stop, the process that is left of a name is the one the gateway
\* has registered, on the socket the process is reading: no half open former
\* socket of it, and no other process, takes its place for good.
FleetSettles ==
    <>[](\A p \in Proc : phase[p] \in {"serving", "upgrading"} =>
            reg.agents[Config[p].uid][Config[p].name] = at[p])
    /\ \A p \in Proc : <>[](phase[p] \in {"off", "serving", "exited"})

\* Network errors never end an agent: it leaves its loop only when the gateway
\* rejects its token or tells it to shut down.
RetriesOnNetworkErrors ==
    \A p \in Proc : why[p] \in {"running", "401", "shutdown"}

-----------------------------------------------------------------------------
(* The inductive invariant behind NeverAllShutDown.                        *)

SameAgent(q, u, n) == Config[q].uid = u /\ Config[q].name = n

\* A process that was started and has not obeyed a Shutdown.
Left(q) == phase[q] # "off" /\ why[q] # "shutdown"

\* The socket a process holds is known to the gateway under the process's name.
HeldByName ==
    \A q \in Proc : at[q] # None =>
        /\ sock[at[q]].st # "free"
        /\ SameAgent(q, sock[at[q]].uid, sock[at[q]].name)

\* The socket about to be registered has not been sent Shutdown, and whoever
\* dialled it is left, if on a socket then on that one.
DiallerLeft ==
    admitting.kind = "agent" =>
        /\ admitting.addr \notin shutdown
        /\ \E q \in Proc : /\ SameAgent(q, admitting.uid, admitting.name)
                           /\ Left(q)
                           /\ at[q] \in {None, admitting.addr}

\* While a process of a name has obeyed a Shutdown, or is about to, another one
\* of the name is left that has not been sent any.
SomeoneLeft ==
    \A p \in Proc : why[p] = "shutdown" \/ at[p] \in shutdown =>
        \E q \in Proc : /\ SameAgent(q, Config[p].uid, Config[p].name)
                        /\ Left(q)
                        /\ at[q] \notin shutdown

FleetInv == IInv /\ FleetTypeOK /\ HeldByName /\ DiallerLeft /\ SomeoneLeft

=============================================================================
