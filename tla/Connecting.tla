----------------------------- MODULE Connecting -----------------------------
(***************************************************************************)
(* From the command line to the agent's answer: a command that was parsed  *)
(* (CommandLine) opens its tunnel (sra-client/src/tunnel/mod.rs), and each *)
(* connection of the tunnel is asked for and admitted (Admission).  The    *)
(* client keeps of its command line what it is to do.                      *)
(***************************************************************************)
EXTENDS CommandLine, Admission

CONSTANT Targets    \* [host, port]: what the programs behind a proxy or a tun device ask for

connecting == <<cmdline, admission>>

NoAsk == [mode |-> "mixed", agent |-> Nothing, host |-> Nothing, port |-> 0,
          protocol |-> Nothing, key |-> Nothing]

NoEnv == [pids |-> <<>>, presented |-> <<>>, phrase |-> Nothing, strict |-> FALSE,
          address |-> Nothing, answers |-> FALSE, channel |-> FALSE]

ConnectingInit ==
    /\ CommandInit
    /\ ask = NoAsk /\ env = NoEnv
    /\ stage = "idle" /\ policies = {} /\ msg = NoMsg
    /\ sealed = [client |-> Nothing, agent |-> Nothing] /\ result = "none"

(* A map replaces one host by another: by its text in a proxy, whose        *)
(* replacement is used as it was typed, and as an address in a tun device.  *)
mapped(cmd, m, host) ==
    IF cmd = "tun"
    THEN IF m # NoText /\ canonical[m.host] = host THEN canonical[m.to] ELSE host
    ELSE IF m # NoText /\ m.host = host THEN m.to ELSE host

\* What tells a name or a key from another.
spelled(v) == IF "host" \in DOMAIN v THEN v.host ELSE v.is

(* TunnelFactory::accept: the connections a tunnel may ask for. *)
connections(cmd, s) ==
    LET i == instruction(cmd, s)
        asks(h, p, protocols) ==
            {[mode |-> i.mode, agent |-> spelled(s.name), host |-> h, port |-> p, protocol |-> x,
              key |-> IF s.key = NoText THEN Nothing ELSE spelled(s.key)] : x \in protocols}
        own == {IF "udp" \in s.on THEN "UDP" ELSE "TCP"}
    IN IF cmd \in {"forward", "connect"} THEN asks(s.remote.host, s.remote.port, own)
       ELSE UNION {asks(mapped(cmd, s.map, t.host), t.port, {"TCP", "UDP"}) :
                      t \in {x \in Targets : cmd = "tun" => isIp(x.host)}}

Connects ==
    /\ stage = "idle" /\ outcome = "ok" /\ phase \in Commands /\ carries(phase)
    /\ \E a \in connections(phase, sub), e \in Envs :
          /\ ask' = a
          /\ env' = IF isIp(a.host) THEN [e EXCEPT !.address = written[a.host]] ELSE e
    /\ stage' = "registers"
    /\ line' = <<>> /\ at' = 0 /\ begun' = 0 /\ phase' = "started" /\ conf' = NoText /\ sub' = Untold
    /\ UNCHANGED <<outcome, policies, msg, sealed, result>>

ConnectingNext ==
    \/ CommandNext /\ UNCHANGED admission
    \/ Connects
    \/ AdmissionNext /\ UNCHANGED cmdline

ConnectingSpec == ConnectingInit /\ [][ConnectingNext]_connecting
=============================================================================
