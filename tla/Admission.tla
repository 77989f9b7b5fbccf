----------------------------- MODULE Admission -----------------------------
(***************************************************************************)
(* One connection is admitted, or is not: the gateway registers the client *)
(* with its policies (state/mod.rs, state/client.rs), the client asks for  *)
(* a connection on the direct channel or through the gateway               *)
(* (TransportFactory in transport.rs, Request and Response in p2p.rs), and *)
(* the agent looks at policies, encryption and signature before it opens   *)
(* it (sra-agent/src/main.rs).                                             *)
(***************************************************************************)
EXTENDS Integers, Sequences, FiniteSets

CONSTANTS
    Asks,       \* [mode, agent, host, port, protocol, key]: the connections that are asked for
    Envs        \* what they meet, see Env

Nothing == "nothing"

(* Items name an agent, or any, a host, or a network of hosts; "*" is any    *)
(* name, and port 0 any port.                                              *)
Item == [target : STRING, host : STRING, net : SUBSET STRING, port : Nat, protocol : STRING]
Policy == [white : BOOLEAN, items : SUBSET Item]

(* The client's token lists policies by number, and the client presents     *)
(* policy tokens; the agent has a pass phrase, or none, and may insist on   *)
(* it; the name may not resolve and the host may not answer; there is a     *)
(* direct channel, or none.                                                *)
Env == [pids : Seq(Nat), presented : Seq([pid : Nat, policy : Policy]), phrase : STRING,
        strict : BOOLEAN, address : STRING, answers : BOOLEAN, channel : BOOLEAN]

ASSUME EnvsAssumption == Envs \subseteq Env

VARIABLES
    ask, env,
    stage,      \* where the request is
    policies,   \* the policies that apply to it
    msg,        \* the request as it is sent to the agent
    sealed,     \* what each end encrypts the connection with
    result      \* what the client learns

admission == <<ask, env, stage, policies, msg, sealed, result>>

Unsigned == [phrase |-> Nothing]
NoMsg == [host |-> Nothing, port |-> 0, protocol |-> Nothing, sign |-> Unsigned]

AdmissionInit ==
    /\ ask \in Asks /\ env \in Envs /\ stage = "registers" /\ policies = {} /\ msg = NoMsg
    /\ sealed = [client |-> Nothing, agent |-> Nothing] /\ result = "none"

----------------------------------------------------------------------------
(* Policies (sra-core/src/policy.rs).                                      *)

isIp(host) == host \in {"127.0.0.1", "::1", "0::1"}
written == [h \in {"127.0.0.1", "::1", "0::1"} |-> IF h = "0::1" THEN "::1" ELSE h]

contains(item, con) ==
    /\ IF item.net = {} THEN item.host \in {"*", con.host}
       ELSE isIp(con.host) /\ written[con.host] \in item.net
    /\ item.port \in {0, con.port}
    /\ item.protocol = con.protocol

permit(policy, con) == policy.white = \E i \in policy.items : contains(i, con)

agent_policies(policy, agent) ==
    [policy EXCEPT !.items = {i \in @ : i.target \in {"any", agent}}]

(* Only the policies without an item for the agent are kept. *)
get_agent_policy(P, agent) ==
    {p \in {agent_policies(q, agent) : q \in P} : p.items = {}}

permitted(P, con) == P = {} \/ \E p \in P : permit(p, con)

(* Registration: a policy for each number of the token, by their count. *)
matches(e) ==
    {m \in (DOMAIN e.pids) \X (DOMAIN e.presented) : e.pids[m[1]] = e.presented[m[2]].pid}

Registers ==
    /\ stage = "registers"
    /\ IF Cardinality(matches(env)) # Len(env.pids)
       THEN stage' = "done" /\ result' = "AuthRequired" /\ UNCHANGED policies
       ELSE /\ policies' = {env.presented[m[2]].policy : m \in matches(env)}
            /\ stage' = IF ask.mode = "relay" THEN "relay" ELSE "direct"
            /\ UNCHANGED result
    /\ UNCHANGED <<ask, env, msg, sealed>>

----------------------------------------------------------------------------
(* The client signs what it asks for; the agent verifies what it receives.  *)

mac(phrase, con) ==
    [host |-> con.host, port |-> con.port, protocol |-> con.protocol, phrase |-> phrase]

signed(a) ==
    LET con == [host |-> a.host, port |-> a.port, protocol |-> a.protocol]
    IN [host |-> a.host, port |-> a.port, protocol |-> a.protocol,
        sign |-> IF a.key = Nothing THEN Unsigned ELSE mac(a.key, con)]

(* The request on the direct channel has an address or a name, and says TCP *)
(* or UDP.                                                                 *)
datagrams == {"UDP", "DTLS", "QUIC"}

\* Mutant of overDirect: every request says TCP.
overDirect_tcp(con) ==
    [con EXCEPT !.host = IF isIp(@) THEN written[@] ELSE @, !.protocol = "TCP"]

overDirect(con) ==
    [con EXCEPT !.host = IF isIp(@) THEN written[@] ELSE @,
                !.protocol = IF @ \in datagrams THEN "UDP" ELSE "TCP"]

(* What the agent finds wrong with a request, in the order of its checks.   *)
keyRefusal(e, m) ==
    IF m.sign # Unsigned /\ e.phrase = Nothing THEN "KeyNotFound"
    ELSE IF m.sign = Unsigned /\ e.phrase # Nothing /\ e.strict THEN "AccessDenied"
    ELSE IF m.sign # Unsigned /\ m.sign # mac(e.phrase, m) THEN "AccessDenied"
    ELSE "none"

\* The agent's end is encrypted if the request is signed.
seals(m) == IF m.sign = Unsigned THEN Nothing ELSE env.phrase

----------------------------------------------------------------------------
(* The direct channel: connect_direct and the agent's answer.              *)

(* Mixed falls back to the gateway on any error. *)
DirectFails(e) ==
    IF ask.mode = "direct" THEN stage' = "done" /\ result' = e
    ELSE stage' = "relay" /\ UNCHANGED result

AsksDirectly ==
    /\ stage = "direct"
    /\ IF env.channel
       THEN /\ msg' = overDirect(signed(ask))
            /\ stage' = "asked" /\ UNCHANGED result
       ELSE DirectFails("DirectChannelNotAvailable") /\ UNCHANGED msg
    /\ UNCHANGED <<ask, env, policies, sealed>>

verdict(e, P, m) ==
    IF ~permitted(P, m) \/ keyRefusal(e, m) # "none" THEN "AccessDenied"
    ELSE IF e.address = Nothing THEN "UnableToResolve"
    ELSE IF ~e.answers THEN "Failed" ELSE "Success"

(* Response::read and what connect_direct makes of it: it does not know     *)
(* the code that stands for UnableToResolve.                               *)
read(r) ==
    CASE r = "Success" -> "ok" [] r = "AccessDenied" -> "ACLDenied"
      [] r = "Failed" -> "DirectConnectionFailed" [] OTHER -> "InvalidDirectResponse"

AnswersDirectly ==
    /\ stage = "asked"
    /\ LET v == verdict(env, get_agent_policy(policies, ask.agent), msg)
       IN IF v = "Success"
          THEN /\ stage' = "done" /\ result' = read(v)
               /\ sealed' = [client |-> ask.key, agent |-> seals(msg)]
          ELSE DirectFails(read(v)) /\ UNCHANGED sealed
    /\ UNCHANGED <<ask, env, policies, msg>>

----------------------------------------------------------------------------
(* Through the gateway.                                                    *)

AsksGateway ==
    /\ stage = "relay"
    /\ msg' = signed(ask)
    /\ IF permitted(get_agent_policy(policies, ask.agent), msg')
       THEN stage' = "dials" /\ UNCHANGED result
       ELSE stage' = "done" /\ result' = "AccessDenied"
    /\ UNCHANGED <<ask, env, policies, sealed>>

\* Mutant of refusal: the agent looks at the key on the direct channel only.
refusal_keyless(e, P, m) ==
    IF e.address = Nothing THEN "UnableToResolve"
    ELSE IF ~permitted(P, [m EXCEPT !.host = e.address]) THEN "AccessDenied"
    ELSE IF ~e.answers THEN "IoError" ELSE "none"

(* data_connect: the name is resolved first, and the policies are asked     *)
(* about the address.                                                      *)
refusal(e, P, m) ==
    IF e.address = Nothing THEN "UnableToResolve"
    ELSE IF ~permitted(P, [m EXCEPT !.host = e.address]) THEN "AccessDenied"
    ELSE IF keyRefusal(e, m) # "none" THEN keyRefusal(e, m)
    ELSE IF ~e.answers THEN "IoError" ELSE "none"

(* An agent that refuses tells the gateway, and the client's connection is  *)
(* closed without a reason.                                                *)
AgentDials ==
    /\ stage = "dials"
    /\ stage' = "done"
    /\ IF refusal(env, get_agent_policy(policies, ask.agent), msg) = "none"
       THEN result' = "ok" /\ sealed' = [client |-> ask.key, agent |-> seals(msg)]
       ELSE result' = "closed" /\ UNCHANGED sealed
    /\ UNCHANGED <<ask, env, policies, msg>>

AdmissionNext ==
    \/ Registers \/ AsksDirectly \/ AnswersDirectly \/ AsksGateway \/ AgentDials

AdmissionSpec == AdmissionInit /\ [][AdmissionNext]_admission

----------------------------------------------------------------------------
(* Properties.                                                             *)

done == stage = "done"
learnt == {"none", "ok", "closed", "AuthRequired", "AccessDenied", "DirectChannelNotAvailable",
           "ACLDenied", "DirectConnectionFailed", "InvalidDirectResponse"}

AdmissionTypeOK ==
    /\ stage \in {"idle", "registers", "direct", "asked", "relay", "dials", "done"}
    /\ result \in learnt /\ (done <=> result # "none")
    /\ policies \subseteq {env.presented[j].policy : j \in DOMAIN env.presented}

(* The two ends of an admitted connection encrypt it with the same phrase,  *)
(* or neither does (connect_direct, connect_relay, data_connect).           *)
EndsAgreeOnKey == result = "ok" => sealed.client = sealed.agent

(* An agent that insists on its phrase carries nothing without it.          *)
StrictIsEncrypted ==
    result = "ok" /\ env.strict /\ env.phrase # Nothing => sealed.agent = env.phrase

(* With the same phrase on both ends a signature is verified on either      *)
(* path, but for an address that was not written the usual way and is       *)
(* asked for on the direct channel: it is signed as it was written and      *)
(* verified as the agent writes it.                                         *)
SignedIsVerified ==
    ask.key # Nothing /\ ask.key = env.phrase /\ msg # NoMsg =>
        \/ keyRefusal(env, msg) = "none"
        \/ msg.host # ask.host

(* The reason why a direct connection failed reaches the client as it is,   *)
(* but for a name that the agent cannot resolve (Response::read).           *)
told == [AccessDenied |-> "ACLDenied", Failed |-> "DirectConnectionFailed",
         UnableToResolve |-> "InvalidDirectResponse", Success |-> "ok"]
ReasonReachesClient ==
    done /\ ask.mode = "direct" /\ msg # NoMsg =>
        result = told[verdict(env, get_agent_policy(policies, ask.agent), msg)]

(* What is agreed on, and told, at every moment: the five above. *)
AdmissionInv ==
    /\ AdmissionTypeOK /\ EndsAgreeOnKey /\ StrictIsEncrypted /\ SignedIsVerified
    /\ ReasonReachesClient

(* What the code makes of policies: a refusal does not depend on the        *)
(* connection, for only the policies without an item for the agent count    *)
(* (Client::get_agent_policy), of which a black list permits everything and *)
(* a white list nothing.  The repository's sample of a token says another   *)
(* thing (MCConnecting!PoliciesSatisfied).                                  *)
PoliciesIgnoreTheConnection ==
    LET empty == {p \in policies : \A i \in p.items : i.target \notin {"any", ask.agent}}
    IN stage \notin {"idle", "registers"} /\ result # "AuthRequired" =>
          (permitted(get_agent_policy(policies, ask.agent), msg)
              <=> empty = {} \/ \E p \in empty : ~p.white)

(* The direct channel and the gateway admit the same connections.           *)
SameOnBothPaths ==
    done /\ result # "AuthRequired" /\ ~(isIp(ask.host) /\ written[ask.host] # ask.host) =>
        LET P == get_agent_policy(policies, ask.agent)
            m == signed(ask)
        IN (verdict(env, P, overDirect(m)) = "Success")
              <=> (permitted(P, m) /\ refusal(env, P, m) = "none")
=============================================================================
