-------------------------- MODULE Connecting_proofs --------------------------
(***************************************************************************)
(* Proofs about Connecting, for every set of command lines, of targets and *)
(* of environments: what the agent and the client agree on of a connection *)
(* (AdmissionInv), which connections policies refuse, that the direct       *)
(* channel and the gateway admit the same, and that the client is told      *)
(* what its command line says (CommandInv).                                *)
(***************************************************************************)
EXTENDS Connecting, SequenceTheorems, WellFoundedInduction, TLAPS

(* The strengthening: where the request is says what was sent of it; a      *)
(* client that wants the direct channel only never goes through the         *)
(* gateway; and policies are those of a token that was presented.           *)
Protocol == stage # "idle" => ask.protocol \in {"TCP", "UDP"}
Sent ==
    /\ stage \in {"idle", "registers", "direct"} => msg = NoMsg
    /\ stage = "asked" => msg = overDirect(signed(ask))
    /\ stage = "dials" => msg = signed(ask)
    /\ msg \in {NoMsg, signed(ask), overDirect(signed(ask))}
    /\ ask.mode = "direct" =>
          stage \notin {"relay", "dials"} /\ msg \in {NoMsg, overDirect(signed(ask))}
Presents ==
    /\ policies \subseteq Policy
    /\ stage \in {"idle", "registers"} => policies = {}
    /\ \A j \in DOMAIN env.presented : env.presented[j].policy \in Policy
ConnectingInv == Protocol /\ Sent /\ Presents /\ AdmissionInv

----------------------------------------------------------------------------
(* A policy without items admits a connection exactly if it is a black list. *)
LEMMA EmptyPermits ==
    ASSUME NEW p \in Policy, p.items = {}, NEW con
    PROVE  permit(p, con) <=> ~p.white
BY DEF permit, Policy

\* What a policy says of one agent is a policy of the same colour.
LEMMA OfAgent ==
    ASSUME NEW p \in Policy, NEW agent
    PROVE  /\ agent_policies(p, agent) \in Policy
           /\ agent_policies(p, agent).white = p.white
           /\ agent_policies(p, agent).items = {i \in p.items : i.target \in {"any", agent}}
BY DEF agent_policies, Policy

(* What is permitted: all that counts is which policies say nothing of the  *)
(* agent, and whether one of those is a black list.                         *)
empties(P, agent) == {p \in P : \A i \in p.items : i.target \notin {"any", agent}}

\* Of an agent's policies only those without an item for it are kept, and one
\* black list among them permits everything.
LEMMA WhatIsPermitted ==
    ASSUME NEW P \in SUBSET Policy, NEW agent, NEW con
    PROVE  permitted(get_agent_policy(P, agent), con)
              <=> empties(P, agent) = {} \/ \E p \in empties(P, agent) : ~p.white
<1>. DEFINE G == get_agent_policy(P, agent)
<1>1. \A p \in P : p \in empties(P, agent) <=> agent_policies(p, agent).items = {}
  BY OfAgent DEF empties
<1>2. \A q : q \in G <=> \E p \in empties(P, agent) : q = agent_policies(p, agent)
  BY <1>1 DEF get_agent_policy, empties
<1>3. G = {} <=> empties(P, agent) = {}
  BY <1>2
<1>4. \A p \in empties(P, agent) : permit(agent_policies(p, agent), con) <=> ~p.white
  <2>. TAKE p \in empties(P, agent)
  <2>1. p \in Policy /\ agent_policies(p, agent).items = {}
    BY <1>1 DEF empties
  <2>2. agent_policies(p, agent) \in Policy /\ agent_policies(p, agent).white = p.white
    BY <2>1, OfAgent
  <2>. QED BY <2>1, <2>2, EmptyPermits
<1>5. (\E q \in G : permit(q, con)) <=> \E p \in empties(P, agent) : ~p.white
  BY <1>2, <1>4
<1>. QED BY <1>3, <1>5 DEF permitted

\* What is permitted does not depend on the connection.
LEMMA AnyConnection ==
    ASSUME NEW P \in SUBSET Policy, NEW agent, NEW con1, NEW con2
    PROVE  permitted(get_agent_policy(P, agent), con1)
              <=> permitted(get_agent_policy(P, agent), con2)
BY WhatIsPermitted

----------------------------------------------------------------------------
(* What is sent: the direct channel keeps port and signature, and, of TCP   *)
(* and UDP, the protocol.                                                  *)
LEMMA WhatIsSent ==
    ASSUME NEW m \in {signed(ask), overDirect(signed(ask))}
    PROVE  /\ m.port = ask.port /\ m.sign = signed(ask).sign
           /\ ask.protocol \in {"TCP", "UDP"} => m.protocol = ask.protocol /\ m # NoMsg
           /\ m = signed(ask) => m.host = ask.host
<1>1. "TCP" \notin datagrams /\ "UDP" \in datagrams
  BY DEF datagrams
<1>2. CASE m = signed(ask)
  BY <1>2 DEF signed, NoMsg, Nothing
<1>3. CASE m = overDirect(signed(ask))
  BY <1>1, <1>3 DEF overDirect, signed, NoMsg, Nothing
<1>. QED BY <1>2, <1>3

\* A request is signed exactly if there is a key.
LEMMA SignatureOf ==
    /\ ask.key = Nothing => signed(ask).sign = Unsigned
    /\ ask.key # Nothing =>
          /\ signed(ask).sign # Unsigned /\ signed(ask).sign.phrase = ask.key
          /\ signed(ask).sign = [host |-> ask.host, port |-> ask.port,
                                protocol |-> ask.protocol, phrase |-> ask.key]
BY DEF signed, mac, Unsigned

(* A request without a refusal is sealed on the agent's side with the key    *)
(* it was signed with on the client's.                                      *)
LEMMA SealedAlike ==
    ASSUME NEW m, m.sign = signed(ask).sign, keyRefusal(env, m) = "none"
    PROVE  /\ seals(m) = ask.key
           /\ env.strict /\ env.phrase # Nothing => seals(m) = env.phrase
<1>1. CASE ask.key = Nothing
  <2>1. m.sign = Unsigned
    BY <1>1, SignatureOf
  <2>. QED BY <1>1, <2>1 DEF seals, keyRefusal
<1>2. CASE ask.key # Nothing
  <2>1. m.sign # Unsigned /\ m.sign.phrase = ask.key
    BY <1>2, SignatureOf
  <2>2. m.sign = mac(env.phrase, m)
    BY <2>1 DEF keyRefusal
  <2>. QED BY <2>1, <2>2 DEF seals, mac
<1>. QED BY <1>1, <1>2

\* A signature made with the agent's phrase is verified, whatever path it took.
LEMMA Verified ==
    ASSUME NEW m \in {signed(ask), overDirect(signed(ask))}, m.host = ask.host,
           ask.protocol \in {"TCP", "UDP"}, ask.key # Nothing, ask.key = env.phrase
    PROVE  keyRefusal(env, m) = "none"
<1>1. m.sign = mac(env.phrase, m) /\ m.sign # Unsigned
  BY WhatIsSent, SignatureOf DEF mac
<1>. QED BY <1>1 DEF keyRefusal

----------------------------------------------------------------------------
(* The steps of a connection.                                              *)
LEMMA ConnectingStarts == ConnectingInit => ConnectingInv
<1>. SUFFICES ASSUME ConnectingInit PROVE ConnectingInv
  OBVIOUS
<1>1. Protocol /\ Sent
  BY DEF ConnectingInit, Protocol, Sent, NoAsk
<1>2. Presents
  BY DEF ConnectingInit, Presents, NoEnv
<1>3. AdmissionInv
  BY DEF ConnectingInit, AdmissionInv, AdmissionTypeOK, EndsAgreeOnKey, StrictIsEncrypted,
         SignedIsVerified, ReasonReachesClient, done, learnt
<1>. QED BY <1>1, <1>2, <1>3 DEF ConnectingInv

(* A tunnel's connection is TCP or UDP, and nothing of it is sent yet.      *)
LEMMA ConnectsSteps == ASSUME ConnectingInv, Connects PROVE ConnectingInv'
<1>1. PICK a \in connections(phase, sub), e \in Envs :
         /\ ask' = a
         /\ env' = IF isIp(a.host) THEN [e EXCEPT !.address = written[a.host]] ELSE e
  BY DEF Connects
<1>2. /\ stage = "idle" /\ stage' = "registers"
      /\ UNCHANGED <<policies, msg, sealed, result>>
  BY DEF Connects
<1>3. a.protocol \in {"TCP", "UDP"}
  BY <1>1 DEF connections
<1>4. Protocol' /\ Sent'
  BY <1>1, <1>2, <1>3 DEF ConnectingInv, Protocol, Sent
<1>5. env'.presented = e.presented /\ e \in Env
  BY <1>1, EnvsAssumption DEF Env
<1>6. Presents'
  <2>1. e.presented \in Seq([pid : Nat, policy : Policy])
    BY <1>5 DEF Env
  <2>2. \A j \in DOMAIN e.presented : e.presented[j] \in [pid : Nat, policy : Policy]
    BY <2>1, LenProperties, ElementOfSeq
  <2>3. \A j \in DOMAIN env'.presented : env'.presented[j].policy \in Policy
    BY <1>5, <2>2
  <2>. QED BY <1>2, <2>3 DEF ConnectingInv, Presents
<1>7. AdmissionInv'
  <2>1. msg' = NoMsg /\ result' = "none" /\ policies' = {}
    BY <1>2 DEF ConnectingInv, Sent, Presents, AdmissionInv, AdmissionTypeOK, done
  <2>. QED BY <1>2, <2>1 DEF AdmissionInv, AdmissionTypeOK, EndsAgreeOnKey, StrictIsEncrypted,
                SignedIsVerified, ReasonReachesClient, done, learnt
<1>. QED BY <1>4, <1>6, <1>7 DEF ConnectingInv

(* The gateway registers the client, or does not.                          *)
LEMMA RegistersSteps == ASSUME ConnectingInv, Registers PROVE ConnectingInv'
<1>1. /\ stage = "registers" /\ UNCHANGED <<ask, env, msg, sealed>> /\ msg = NoMsg
      /\ result = "none" /\ policies = {}
  BY DEF Registers, ConnectingInv, Sent, Presents, AdmissionInv, AdmissionTypeOK, done
<1>2. \/ stage' = "done" /\ result' = "AuthRequired" /\ policies' = {}
      \/ /\ stage' = (IF ask.mode = "relay" THEN "relay" ELSE "direct") /\ result' = "none"
         /\ policies' = {env.presented[m[2]].policy : m \in matches(env)}
  BY <1>1 DEF Registers
<1>3. policies' \subseteq {env.presented[j].policy : j \in DOMAIN env.presented}
  BY <1>2 DEF matches
<1>4. Protocol' /\ Sent'
  BY <1>1, <1>2 DEF ConnectingInv, Protocol, Sent, signed, overDirect
<1>5. Presents'
  BY <1>1, <1>2, <1>3 DEF ConnectingInv, Presents
<1>6. AdmissionInv'
  BY <1>1, <1>2, <1>3 DEF AdmissionInv, AdmissionTypeOK, EndsAgreeOnKey, StrictIsEncrypted,
     SignedIsVerified, ReasonReachesClient, done, learnt
<1>. QED BY <1>4, <1>5, <1>6 DEF ConnectingInv

(* Nothing is agreed on by a step that leaves the connection where it was   *)
(* sealed before, or not at all: what is left is what is sent and told.     *)
LEMMA Refused ==
    ASSUME ConnectingInv, stage \in {"direct", "asked", "relay", "dials"},
           UNCHANGED <<ask, env, policies, sealed>>,
           stage' \in {"asked", "relay", "dials", "done"}, Sent',
           result' \in learnt \ {"ok"}, stage' = "done" <=> result' # "none",
           ReasonReachesClient'
    PROVE  ConnectingInv'
<1>1. Protocol' /\ Presents'
  BY DEF ConnectingInv, Protocol, Presents
<1>2. SignedIsVerified'
  <2>. SUFFICES ASSUME ask.key # Nothing, ask.key = env.phrase, msg' # NoMsg, msg'.host = ask.host
                PROVE  keyRefusal(env, msg') = "none"
    BY DEF SignedIsVerified
  <2>1. msg' \in {signed(ask), overDirect(signed(ask))}
    BY DEF Sent, signed, overDirect
  <2>. QED BY <2>1, Verified DEF ConnectingInv, Protocol
<1>. QED BY <1>1, <1>2 DEF ConnectingInv, AdmissionInv, AdmissionTypeOK, EndsAgreeOnKey,
            StrictIsEncrypted, done

(* An end that admits the connection has sealed it as the client has.       *)
LEMMA Admitted ==
    ASSUME ConnectingInv, stage \in {"asked", "dials"}, keyRefusal(env, msg) = "none",
           UNCHANGED <<ask, env, policies, msg>>, stage' = "done", result' = "ok",
           sealed' = [client |-> ask.key, agent |-> seals(msg)],
           ReasonReachesClient'
    PROVE  ConnectingInv'
<1>1. Protocol' /\ Presents'
  BY DEF ConnectingInv, Protocol, Presents
<1>2. Sent'
  BY DEF ConnectingInv, Sent, signed, overDirect
<1>3. msg.sign = signed(ask).sign
  BY WhatIsSent DEF ConnectingInv, Sent
<1>4. EndsAgreeOnKey' /\ StrictIsEncrypted'
  BY <1>3, SealedAlike DEF EndsAgreeOnKey, StrictIsEncrypted
<1>5. SignedIsVerified'
  BY DEF SignedIsVerified, keyRefusal
<1>. QED BY <1>1, <1>2, <1>4, <1>5 DEF ConnectingInv, AdmissionInv, AdmissionTypeOK, done, learnt

(* The direct channel: the client asks, the agent answers.                  *)
LEMMA DirectSteps ==
    ASSUME ConnectingInv, AsksDirectly \/ AnswersDirectly
    PROVE  ConnectingInv'
<1>1. CASE AsksDirectly
  <2>1. /\ stage = "direct" /\ UNCHANGED <<ask, env, policies, sealed>>
        /\ msg = NoMsg /\ result = "none"
    BY <1>1 DEF AsksDirectly, ConnectingInv, Sent, AdmissionInv, AdmissionTypeOK, done
  <2>2. \/ stage' = "asked" /\ msg' = overDirect(signed(ask)) /\ result' = "none"
        \/ stage' = "done" /\ msg' = NoMsg /\ result' = "DirectChannelNotAvailable"
        \/ stage' = "relay" /\ msg' = NoMsg /\ result' = "none" /\ ask.mode # "direct"
    BY <1>1, <2>1 DEF AsksDirectly, DirectFails
  <2>3. Sent'
    BY <2>1, <2>2 DEF Sent, signed, overDirect
  <2>4. ReasonReachesClient'
    BY <2>2 DEF ReasonReachesClient, done
  <2>. QED BY <2>1, <2>2, <2>3, <2>4, Refused DEF learnt
<1>2. CASE AnswersDirectly
  <2>. DEFINE v == verdict(env, get_agent_policy(policies, ask.agent), msg)
  <2>1. /\ stage = "asked" /\ UNCHANGED <<ask, env, policies, msg>>
        /\ msg = overDirect(signed(ask))
    BY <1>2 DEF AnswersDirectly, ConnectingInv, Sent
  <2>2. v \in DOMAIN told /\ read(v) = told[v] /\ (v = "Success" => keyRefusal(env, msg) = "none")
    BY DEF verdict, read, told
  <2>3. CASE v = "Success"
    <3>1. /\ stage' = "done" /\ result' = read(v) /\ read(v) = "ok"
          /\ sealed' = [client |-> ask.key, agent |-> seals(msg)]
      BY <1>2, <2>3 DEF AnswersDirectly, read
    <3>2. ReasonReachesClient'
      BY <2>1, <2>2, <3>1 DEF ReasonReachesClient
    <3>. QED BY <2>1, <2>2, <2>3, <3>1, <3>2, Admitted
  <2>4. CASE v # "Success"
    <3>1. /\ UNCHANGED sealed
          /\ \/ stage' = "done" /\ result' = read(v)
             \/ stage' = "relay" /\ result' = result /\ result = "none" /\ ask.mode # "direct"
      BY <1>2, <2>1, <2>4 DEF AnswersDirectly, DirectFails, ConnectingInv, AdmissionInv,
                              AdmissionTypeOK, done
    <3>2. read(v) \in learnt \ {"ok", "none"}
      BY <2>2, <2>4 DEF told, learnt
    <3>3. Sent'
      BY <2>1, <3>1 DEF Sent, signed, overDirect
    <3>4. ReasonReachesClient'
      BY <2>1, <2>2, <3>1 DEF ReasonReachesClient, done
    <3>. QED BY <2>1, <3>1, <3>2, <3>3, <3>4, Refused DEF learnt
  <2>. QED BY <2>3, <2>4
<1>. QED BY <1>1, <1>2

(* The gateway: it is asked, then the agent dials.                          *)
LEMMA RelayedSteps ==
    ASSUME ConnectingInv, AsksGateway \/ AgentDials
    PROVE  ConnectingInv'
<1>1. CASE AsksGateway
  <2>1. /\ stage = "relay" /\ UNCHANGED <<ask, env, policies, sealed>> /\ msg' = signed(ask)
        /\ ask.mode # "direct" /\ result = "none"
        /\ \/ stage' = "dials" /\ result' = result
           \/ stage' = "done" /\ result' = "AccessDenied"
    BY <1>1 DEF AsksGateway, ConnectingInv, Sent, AdmissionInv, AdmissionTypeOK, done
  <2>2. Sent'
    BY <2>1 DEF Sent, signed, overDirect
  <2>3. ReasonReachesClient'
    BY <2>1 DEF ReasonReachesClient
  <2>. QED BY <2>1, <2>2, <2>3, Refused DEF learnt
<1>2. CASE AgentDials
  <2>1. /\ stage = "dials" /\ stage' = "done" /\ UNCHANGED <<ask, env, policies, msg>>
        /\ ask.mode # "direct"
    BY <1>2 DEF AgentDials, ConnectingInv, Sent
  <2>2. ReasonReachesClient'
    BY <2>1 DEF ReasonReachesClient
  <2>3. CASE refusal(env, get_agent_policy(policies, ask.agent), msg) = "none"
    <3>1. keyRefusal(env, msg) = "none"
      BY <2>3 DEF refusal
    <3>2. result' = "ok" /\ sealed' = [client |-> ask.key, agent |-> seals(msg)]
      BY <1>2, <2>3 DEF AgentDials
    <3>. QED BY <2>1, <2>2, <3>1, <3>2, Admitted
  <2>4. CASE refusal(env, get_agent_policy(policies, ask.agent), msg) # "none"
    <3>1. result' = "closed" /\ UNCHANGED sealed
      BY <1>2, <2>4 DEF AgentDials
    <3>2. Sent'
      BY <2>1 DEF ConnectingInv, Sent, signed, overDirect
    <3>. QED BY <2>1, <2>2, <3>1, <3>2, Refused DEF learnt
  <2>. QED BY <2>3, <2>4
<1>. QED BY <1>1, <1>2

(* The parser, and steps that change nothing, leave the connection alone.   *)
LEMMA OthersStep ==
    ASSUME ConnectingInv, UNCHANGED admission
    PROVE  ConnectingInv'
<1>. USE DEF admission
<1>1. Protocol' /\ Presents'
  BY DEF ConnectingInv, Protocol, Presents
<1>2. Sent'
  BY DEF ConnectingInv, Sent, signed, overDirect
<1>3. AdmissionInv'
  BY DEF ConnectingInv, AdmissionInv, AdmissionTypeOK, EndsAgreeOnKey, StrictIsEncrypted,
         SignedIsVerified, ReasonReachesClient, keyRefusal, done, learnt
<1>. QED BY <1>1, <1>2, <1>3 DEF ConnectingInv

\* Every step of the client, the gateway and the agent keeps the invariant.
LEMMA ConnectingStep ==
    ASSUME ConnectingInv, [ConnectingNext]_connecting
    PROVE  ConnectingInv'
<1>1. CASE Connects
  BY <1>1, ConnectsSteps
<1>2. CASE AdmissionNext
  BY <1>2, RegistersSteps, DirectSteps, RelayedSteps DEF AdmissionNext
<1>3. CASE UNCHANGED admission
  BY <1>3, OthersStep
<1>. QED BY <1>1, <1>2, <1>3 DEF ConnectingNext, connecting

(* Types; both ends of an admitted connection encrypt it with one phrase, or *)
(* neither does; an agent that insists on its phrase carries nothing without *)
(* it; a signature with that phrase is verified; and a client that wants the *)
(* direct channel learns why it has no connection: for every command line.  *)
THEOREM EndsAgree == ConnectingSpec => [](ConnectingInv /\ AdmissionInv)
<1>1. ConnectingInv => AdmissionInv
  BY DEF ConnectingInv
<1>. QED BY <1>1, ConnectingStarts, ConnectingStep, PTL DEF ConnectingSpec

(* Which connections policies refuse is decided by the agent's name alone   *)
(* (Client::get_agent_policy), whatever the policies and the connection are. *)
THEOREM RefusalIgnoresTheConnection == ConnectingSpec => []PoliciesIgnoreTheConnection
<1>1. ConnectingInv => PoliciesIgnoreTheConnection
  BY WhatIsPermitted DEF ConnectingInv, Presents, PoliciesIgnoreTheConnection, empties
<1>. QED BY <1>1, ConnectingStarts, ConnectingStep, PTL DEF ConnectingSpec

(* The direct channel and the gateway admit the same connections: it makes  *)
(* no difference to what is reached that a client falls back on the gateway. *)
THEOREM PathsAdmitTheSame == ConnectingSpec => []SameOnBothPaths
<1>1. ConnectingInv => SameOnBothPaths
  <2>. SUFFICES ASSUME ConnectingInv, done, result # "AuthRequired",
                       ~(isIp(ask.host) /\ written[ask.host] # ask.host)
                PROVE  LET P == get_agent_policy(policies, ask.agent)
                           m == signed(ask)
                       IN (verdict(env, P, overDirect(m)) = "Success")
                             <=> (permitted(P, m) /\ refusal(env, P, m) = "none")
    BY DEF SameOnBothPaths
  <2>. DEFINE P == get_agent_policy(policies, ask.agent)
              m == signed(ask)
              d == overDirect(m)
              a == [m EXCEPT !.host = env.address]
  <2>1. ask.protocol \in {"TCP", "UDP"} /\ policies \in SUBSET Policy
    BY DEF ConnectingInv, Protocol, Presents, done
  <2>2. keyRefusal(env, d) = keyRefusal(env, m)
    <3>1. d.sign = m.sign /\ d.port = m.port /\ d.protocol = m.protocol
      BY <2>1, WhatIsSent
    <3>2. d.host = m.host
      BY DEF overDirect, signed
    <3>. QED BY <3>1, <3>2 DEF keyRefusal, mac
  <2>3. (permitted(P, d) <=> permitted(P, m)) /\ (permitted(P, a) <=> permitted(P, m))
    BY <2>1, AnyConnection
  <2>4. verdict(env, P, d) = "Success" <=>
          permitted(P, m) /\ keyRefusal(env, m) = "none" /\ env.address # Nothing /\ env.answers
    BY <2>2, <2>3 DEF verdict
  <2>5. refusal(env, P, m) = "none" <=>
          permitted(P, m) /\ keyRefusal(env, m) = "none" /\ env.address # Nothing /\ env.answers
    BY <2>3 DEF refusal, keyRefusal
  <2>. QED BY <2>4, <2>5
<1>. QED BY <1>1, ConnectingStarts, ConnectingStep, PTL DEF ConnectingSpec

----------------------------------------------------------------------------
(* What the client is told (CommandInv), whatever the command line: the    *)
(* least and the greatest of a set of numbers first.                       *)
LEMMA LeastOf ==
    ASSUME NEW S \in SUBSET Nat, S # {}
    PROVE  Min(S) \in S /\ \A y \in S : Min(S) <= y
<1>1. PICK x \in S : \A y \in S : <<y, x>> \notin OpToRel(<, Nat)
  BY NatLessThanWellFounded, WFMin
<1>2. \A y \in S : ~(y < x)
  BY <1>1, Zenon DEF OpToRel
<1>3. \A y \in S : x <= y
  BY <1>2
<1> QED
  BY <1>3 DEF Min

(* A set of numbers that is bounded has a greatest.                        *)
LEMMA GreatestOf ==
    ASSUME NEW S \in SUBSET Nat, S # {}, NEW n \in Nat, \A y \in S : y <= n
    PROVE  Max(S) \in S /\ \A y \in S : y <= Max(S)
<1> DEFINE T == {n - y : y \in S}
<1>1. T \in SUBSET Nat /\ T # {}
  <2>1. \A y \in S : y \in Nat /\ n - y \in Nat
    OBVIOUS
  <2> QED
    BY <2>1
<1>2. Min(T) \in T /\ \A z \in T : Min(T) <= z
  <2> HIDE DEF T
  <2> QED
    BY <1>1, LeastOf
<1>3. PICK x \in S : Min(T) = n - x
  BY <1>2
<1>4. \A y \in S : y <= x
  <2> TAKE y \in S
  <2>1. n - y \in T
    OBVIOUS
  <2>2. n - x <= n - y
    BY <1>2, <1>3, <2>1
  <2> QED
    BY <2>2
<1> QED
  BY <1>4 DEF Max

(* The first option of a cluster that takes a value.                       *)
LEMMA FirstOf ==
    ASSUME NEW a, a.flags \in Seq(STRING), NEW F
    PROVE  /\ firstOf(a, F) \in 1..(Len(a.flags) + 1)
           /\ firstOf(a, F) <= Len(a.flags) => a.flags[firstOf(a, F)] \in F
           /\ \A j \in 1..Len(a.flags) : j < firstOf(a, F) => a.flags[j] \notin F
<1> DEFINE S == {i \in DOMAIN a.flags : a.flags[i] \in F} \cup {Len(a.flags) + 1}
<1>1. Len(a.flags) \in Nat /\ DOMAIN a.flags = 1..Len(a.flags)
  OBVIOUS
<1>2. S \in SUBSET Nat /\ S # {}
  BY <1>1
<1>3. Min(S) \in S /\ \A y \in S : Min(S) <= y
  <2> HIDE DEF S
  <2> QED
    BY <1>2, LeastOf
<1>4. \A y : y \in S <=> y = Len(a.flags) + 1 \/ (y \in 1..Len(a.flags) /\ a.flags[y] \in F)
  BY <1>1
<1>5. firstOf(a, F) = Min(S)
  BY DEF firstOf
<1> DEFINE m == Min(S)
<1> HIDE DEF S, m
<1>6. m \in 1..(Len(a.flags) + 1) /\ (m <= Len(a.flags) => a.flags[m] \in F)
  BY <1>1, <1>3, <1>4 DEF m
<1>7. \A j \in 1..Len(a.flags) : j < m => a.flags[j] \notin F
  <2> TAKE j \in 1..Len(a.flags)
  <2>1. a.flags[j] \in F => m <= j
    BY <1>3, <1>4 DEF m
  <2> QED
    BY <2>1, <1>1, <1>6
<1> QED
  BY <1>5, <1>6, <1>7 DEF m

(* An option that comes before the help is the first that takes a value.   *)
LEMMA FirstButHelp ==
    ASSUME NEW a, a.flags \in Seq(STRING), NEW F, NEW i, i = firstOf(a, F \cup {"help"})
    PROVE  /\ i > Len(a.flags) => firstOf(a, F) > Len(a.flags)
           /\ i <= Len(a.flags) /\ a.flags[i] # "help" => firstOf(a, F) = i
           /\ i \in 1..(Len(a.flags) + 1) /\ Len(a.flags) \in Nat
           /\ i <= Len(a.flags) => a.flags[i] \in F \cup {"help"}
<1> DEFINE j == firstOf(a, F)
<1>1. /\ i \in 1..(Len(a.flags) + 1)
      /\ i <= Len(a.flags) => a.flags[i] \in F \cup {"help"}
      /\ \A k \in 1..Len(a.flags) : k < i => a.flags[k] \notin F \cup {"help"}
  BY FirstOf
<1>2. /\ j \in 1..(Len(a.flags) + 1)
      /\ j <= Len(a.flags) => a.flags[j] \in F
      /\ \A k \in 1..Len(a.flags) : k < j => a.flags[k] \notin F
  BY FirstOf
<1>3. Len(a.flags) \in Nat
  OBVIOUS
<1> HIDE DEF j
<1>4. ASSUME i > Len(a.flags) PROVE j > Len(a.flags)
  <2>1. j \in 1..Len(a.flags) => a.flags[j] \in F /\ j < i
    BY <1>1, <1>2, <1>3, <1>4
  <2>2. j \notin 1..Len(a.flags)
    BY <2>1, <1>1
  <2> QED
    BY <2>2, <1>2, <1>3
<1>5. ASSUME i <= Len(a.flags), a.flags[i] # "help" PROVE j = i
  <2>1. i \in 1..Len(a.flags) /\ a.flags[i] \in F
    BY <1>1, <1>3, <1>5
  <2>2. ~(i < j)
    BY <2>1, <1>2
  <2>3. ~(j < i)
    <3>1. j < i => j \in 1..Len(a.flags) /\ a.flags[j] \in F
      BY <2>1, <1>2, <1>3
    <3> QED
      BY <3>1, <1>1
  <2> QED
    BY <2>2, <2>3, <1>1, <1>2
<1> QED
  BY <1>1, <1>3, <1>4, <1>5 DEF j

----------------------------------------------------------------------------
(* What was told when the next argument is read.                           *)

(* The parser is in the middle of a line.                                  *)
LEMMA NextArgument ==
    ASSUME CommandTypeOK, Progress, more
    PROVE  /\ Len(line) \in Nat /\ at \in Nat /\ at + 1 \in 1..Len(line) /\ DOMAIN line = 1..Len(line)
           /\ isArgument(arg) /\ \A i \in 1..Len(line) : isArgument(line[i])
           /\ begun \in Nat /\ begun <= at
<1>1. Len(line) \in Nat /\ DOMAIN line = 1..Len(line)
  BY DEF Progress
<1>2. at \in 0..Len(line) /\ begun \in 0..at
  BY DEF CommandTypeOK, Progress
<1>3. at < Len(line)
  BY DEF more
<1>4. at \in Nat /\ at + 1 \in 1..Len(line) /\ begun \in Nat /\ begun <= at
  BY <1>1, <1>2, <1>3
<1> QED
  BY <1>1, <1>4 DEF Progress, arg

(* An option that takes the argument after it stays on the line.           *)
LEMMA RoomForOne ==
    ASSUME NEW m \in Nat, NEW n \in Nat, NEW b \in Nat, b <= n, n + 1 \in 1..m, n + 1 # m
    PROVE  n + 2 <= m /\ n + 2 \in 0..m /\ b \in 0..(n + 2)
OBVIOUS

(* Options are told by the line, the command and where that began.         *)
LEMMA GiversStay ==
    ASSUME UNCHANGED <<line, phase, begun>>
    PROVE  /\ \A f : givers(f)' = givers(f) /\ shorts(f)' = shorts(f) /\ says(f)' = says(f)
           /\ \A i : givenValue(i)' = givenValue(i)
BY DEF givers, shorts, says, asked, givenFlag, givenValue

(* An argument that is no option tells nothing new.                        *)
LEMMA NothingAsked ==
    ASSUME Told, outcome = "running", phase \in Commands, UNCHANGED <<line, phase, begun>>,
           at \in Nat, at' \in Nat, at <= at', DOMAIN line \subseteq Nat,
           \A i \in DOMAIN line : at < i /\ i <= at' => ~asked(i),
           \A f \in takes[phase] : sub'[f] = sub[f],
           sub'.name = sub.name
    PROVE  Told'
<1>1. \A f : given(f)' = given(f)
  <2>1. ASSUME NEW f PROVE given(f)' = given(f)
    <3>1. given(f)' = {i \in givers(f) : i <= at'}
      BY GiversStay DEF given
    <3>2. \A i \in givers(f) : i \in DOMAIN line /\ i \in Nat /\ asked(i)
      BY DEF givers
    <3>3. \A i \in givers(f) : i <= at' <=> i <= at
      BY <3>2
    <3> QED
      BY <3>1, <3>3 DEF given
  <2> QED
    BY <2>1
<1>2. ASSUME NEW f \in takes[phase], ToldLast(f) PROVE ToldLast(f)'
  BY <1>1, <1>2, GiversStay DEF ToldLast, latest
<1>3. ASSUME ToldFirst PROVE ToldFirst'
  BY <1>1, <1>3, GiversStay DEF ToldFirst, latest, earliest
<1> QED
  BY <1>2, <1>3 DEF Told

(* What an option that is read adds to what is told of each.               *)
LEMMA OneMore ==
    ASSUME UNCHANGED <<line, phase, begun>>, at \in Nat, begun <= at, begun \in Nat,
           DOMAIN line \subseteq Nat,
           at + 1 \in DOMAIN line, asked(at + 1), at' \in {at + 1, at + 2},
           \A i \in DOMAIN line : at + 1 < i /\ i <= at' => ~asked(i),
           NEW f
    PROVE  /\ given(f) \subseteq 1..at /\ at + 1 \notin given(f)
           /\ given(f)' = given(f) \cup (IF f = givenFlag(at + 1) THEN {at + 1} ELSE {})
<1>1. given(f)' = {i \in givers(f) : i <= at'}
  BY GiversStay DEF given
<1>2. \A i \in givers(f) : i \in DOMAIN line /\ i \in Nat /\ asked(i) /\ i > begun
  BY DEF givers
<1>3. at + 1 \in givers(f) <=> f = givenFlag(at + 1)
  BY DEF givers
<1>4. \A i \in givers(f) : i <= at' <=> i <= at \/ i = at + 1
  BY <1>2
<1>5. \A i \in given(f) : i \in 1..at
  BY <1>2 DEF given
<1>6. at + 1 \notin given(f)
  BY <1>5
<1> QED
  BY <1>1, <1>3, <1>4, <1>5, <1>6 DEF given

(* The last of what is told is the new one.                                *)
LEMMA NewIsLatest ==
    ASSUME NEW n \in Nat, NEW S \in SUBSET (1..n)
    PROVE  /\ latest(S \cup {n + 1}) = {n + 1}
           /\ earliest({n + 1}) = {n + 1}
           /\ S # {} => earliest(S \cup {n + 1}) = earliest(S)
<1>1. \A i \in S : i \in Nat /\ i < n + 1
  OBVIOUS
<1>2. latest(S \cup {n + 1}) = {n + 1}
  <2>1. \A j \in S \cup {n + 1} : j <= n + 1
    BY <1>1
  <2>2. \A i \in S : ~(n + 1 <= i)
    BY <1>1
  <2> QED
    BY <2>1, <2>2 DEF latest
<1>3. earliest({n + 1}) = {n + 1}
  BY DEF earliest
<1>4. ASSUME S # {} PROVE earliest(S \cup {n + 1}) = earliest(S)
  <2>1. \A i \in S : i <= n + 1 /\ ~(n + 1 <= i)
    BY <1>1
  <2> QED
    BY <1>4, <2>1 DEF earliest
<1> QED
  BY <1>2, <1>3, <1>4

(* An option sets what it names.                                           *)
LEMMA SomethingAsked ==
    ASSUME Told, outcome = "running", phase \in Commands, UNCHANGED <<line, phase, begun>>,
           at \in Nat, begun <= at, begun \in Nat, DOMAIN line \subseteq Nat,
           at + 1 \in DOMAIN line, asked(at + 1), at' \in {at + 1, at + 2},
           \A i \in DOMAIN line : at + 1 < i /\ i <= at' => ~asked(i),
           NEW f, f = givenFlag(at + 1), sub'[f] = givenValue(at + 1),
           \A g \in takes[phase] \cup {"name"} : g # f => sub'[g] = sub[g],
           f = "name" /\ keepsFirst(phase) =>
              \/ line[at + 1].kind = "short" /\ givenValue(at + 1).is \notin {"none", "empty"}
              \/ /\ line[at + 1].kind # "short" /\ sub.name.is \in {"none", "empty"}
                 /\ givenValue(at + 1) = line[at + 1].val /\ line[at + 1].val.is # "none"
    PROVE  Told'
<1>1. \A g : /\ given(g) \subseteq 1..at /\ at + 1 \notin given(g)
             /\ given(g)' = given(g) \cup (IF g = f THEN {at + 1} ELSE {})
  BY OneMore
<1>2. ASSUME NEW g \in takes[phase], ToldLast(g) PROVE ToldLast(g)'
  <2>1. CASE g = f
    <3>1. given(g)' = given(g) \cup {at + 1} /\ latest(given(g) \cup {at + 1}) = {at + 1}
      BY <1>1, <2>1, NewIsLatest
    <3> QED
      BY <2>1, <3>1, GiversStay DEF ToldLast, latest
  <2>2. CASE g # f
    <3>1. given(g)' = given(g) /\ sub'[g] = sub[g]
      BY <1>1, <2>2
    <3> QED
      BY <1>2, <3>1, GiversStay DEF ToldLast, latest
  <2> QED
    BY <2>1, <2>2
<1>3. ASSUME ToldFirst, keepsFirst(phase) PROVE ToldFirst'
  <2> DEFINE S == given("name") \cap shorts("name")
             N == given("name") \cap says("name")
             T == given("name")' \cap shorts("name")
             M == given("name")' \cap says("name")
  <2>1. /\ given("name") = {} => sub.name = NoText
        /\ \A i \in latest(S) : sub.name = givenValue(i)
        /\ S = {} => \A i \in earliest(N) : sub.name = givenValue(i)
        /\ S \cup N = {} <=> sub.name.is \in {"none", "empty"}
    BY <1>3 DEF ToldFirst
  <2>2. SUFFICES /\ given("name")' = {} => sub'.name = NoText
                 /\ \A i \in latest(T) : sub'.name = givenValue(i)
                 /\ T = {} => \A i \in earliest(M) : sub'.name = givenValue(i)
                 /\ T \cup M = {} <=> sub'.name.is \in {"none", "empty"}
    BY GiversStay DEF ToldFirst, latest, earliest
  <2>3. CASE f # "name"
    <3>1. given("name")' = given("name") /\ sub'.name = sub.name
      BY <1>1, <2>3
    <3> QED
      BY <2>1, <3>1
  <2>4. CASE f = "name"
    <3>1. given("name")' = given("name") \cup {at + 1} /\ sub'.name = givenValue(at + 1)
      BY <1>1, <2>4
    <3>2. at + 1 \in givers("name")
      BY <3>1, GiversStay DEF given
    <3>3. /\ at + 1 \in shorts("name") <=> line[at + 1].kind = "short"
          /\ at + 1 \in says("name") <=> line[at + 1].val.is \notin {"none", "empty"}
      BY <3>2 DEF shorts, says
    <3>4. S \in SUBSET (1..at) /\ N \in SUBSET (1..at)
      BY <1>1
    <3>5. CASE line[at + 1].kind = "short" /\ givenValue(at + 1).is \notin {"none", "empty"}
      <4>1. T = S \cup {at + 1}
        BY <3>1, <3>3, <3>5
      <4>2. latest(T) = {at + 1}
        BY <3>4, <4>1, NewIsLatest
      <4> HIDE DEF S, N, T, M
      <4> QED
        BY <3>1, <3>5, <4>1, <4>2
    <3>6. CASE /\ line[at + 1].kind # "short" /\ sub.name.is \in {"none", "empty"}
               /\ givenValue(at + 1) = line[at + 1].val /\ line[at + 1].val.is # "none"
      <4>1. S = {} /\ N = {}
        BY <2>1, <3>6
      <4>2. T = {} /\ M = (IF line[at + 1].val.is \notin {"none", "empty"} THEN {at + 1} ELSE {})
        BY <3>1, <3>3, <3>6, <4>1
      <4>3. latest({}) = {} /\ earliest({}) = {} /\ earliest({at + 1}) = {at + 1}
        BY NewIsLatest DEF latest, earliest
      <4> HIDE DEF S, N, T, M
      <4> QED
        BY <3>1, <3>6, <4>1, <4>2, <4>3
    <3> QED
      BY <1>3, <2>4, <3>5, <3>6
  <2> QED
    BY <2>3, <2>4
<1> QED
  BY <1>2, <1>3 DEF Told

(* A name that is kept stays the first that was not empty.                 *)
LEMMA NameIsKept ==
    ASSUME Told, outcome = "running", phase \in Commands, UNCHANGED <<line, phase, begun>>,
           at \in Nat, begun <= at, begun \in Nat, DOMAIN line \subseteq Nat,
           at + 1 \in DOMAIN line, asked(at + 1), at' = at + 1, givenFlag(at + 1) = "name",
           "name" \in takes[phase],
           keepsFirst(phase), line[at + 1].kind # "short", sub.name.is \notin {"none", "empty"},
           sub' = sub
    PROVE  Told'
<1>1. \A i \in DOMAIN line : at + 1 < i /\ i <= at' => ~asked(i)
  OBVIOUS
<1>2. \A g : /\ given(g) \subseteq 1..at /\ at + 1 \notin given(g)
             /\ given(g)' = given(g) \cup (IF g = "name" THEN {at + 1} ELSE {})
  BY <1>1, OneMore
<1>3. ASSUME NEW g \in takes[phase], g # "name", ToldLast(g) PROVE ToldLast(g)'
  <2>1. given(g)' = given(g)
    BY <1>2, <1>3
  <2> QED
    BY <1>3, <2>1, GiversStay DEF ToldLast, latest
<1>4. ASSUME ToldFirst PROVE ToldFirst'
  <2> DEFINE S == given("name") \cap shorts("name")
             N == given("name") \cap says("name")
             M == given("name")' \cap says("name")
  <2>1. /\ \A i \in latest(S) : sub.name = givenValue(i)
        /\ S = {} => \A i \in earliest(N) : sub.name = givenValue(i)
        /\ S \cup N # {}
    BY <1>4 DEF ToldFirst
  <2>2. at + 1 \notin shorts("name")
    BY DEF shorts
  <2>3. given("name")' \cap shorts("name") = S /\ given("name")' # {}
    BY <1>2, <2>2
  <2>4. M = N \/ M = N \cup {at + 1}
    BY <1>2
  <2>5. N \in SUBSET (1..at)
    BY <1>2
  <2>6. N # {} => earliest(M) = earliest(N)
    BY <2>4, <2>5, NewIsLatest
  <2>7. S \cup M # {}
    BY <2>1, <2>4
  <2> QED
    BY <2>1, <2>3, <2>6, <2>7, GiversStay DEF ToldFirst, latest, earliest
<1> QED
  BY <1>3, <1>4 DEF Told

----------------------------------------------------------------------------
(* The steps of the parser.                                                *)

(* What each command takes.                                                *)
LEMMA WhatCommandsTake ==
    ASSUME NEW c \in Commands
    PROVE  /\ c \notin {"global", "started"} /\ takes[c] \subseteq {"name", "key", "local", "map"}
           /\ keepsFirst(c) => "name" \in takes[c]
BY DEF Commands, takes, keepsFirst

(* An option's value is used as it is given, or refused.                   *)
LEMMA Valued ==
    ASSUME NEW c, NEW f, NEW v
    PROVE  valued(c, f, v) = v \/ valued(c, f, v).is \in errors
<1>1. /\ f = "local" /\ c = "forward" => valued(c, f, v) = v \/ valued(c, f, v) = [is |-> "Encoding"]
      /\ f = "local" /\ c = "tun" => valued(c, f, v) = v \/ valued(c, f, v) = [is |-> "InvalidAddress"]
      /\ f = "map" => valued(c, f, v) = v \/ valued(c, f, v) = [is |-> "InvalidMap"]
      /\ f # "map" /\ ~(f = "local" /\ c \in {"forward", "tun"}) => valued(c, f, v) = v
  BY DEF valued
<1>2. \A e \in {"Encoding", "InvalidAddress", "InvalidMap"} : [is |-> e].is \in errors
  BY DEF errors
<1> QED
  BY <1>1, <1>2

(* Before the first argument nothing was told.                             *)
LEMMA ParsingStarts == CommandInit => CommandIInv
<1> SUFFICES ASSUME CommandInit PROVE CommandIInv
  OBVIOUS
<1>1. line \in Lines /\ at = 0 /\ begun = 0 /\ phase = "global" /\ sub = Untold /\ outcome = "running"
  BY DEF CommandInit
<1>2. phase \notin Commands
  BY <1>1, WhatCommandsTake
<1>3. line \in Seq({line[i] : i \in DOMAIN line}) /\ \A i \in DOMAIN line : isArgument(line[i])
  BY <1>1, LinesAssumption
<1>4. Len(line) \in Nat
  BY <1>3
<1>5. CommandTypeOK
  BY <1>1, <1>2, <1>4 DEF CommandTypeOK, Untold
<1>6. Progress /\ RemoteTold /\ Told
  BY <1>1, <1>2, <1>3 DEF Progress, RemoteTold, Told, Untold
<1> QED
  BY <1>5, <1>6 DEF CommandIInv

(* A refusal keeps what was told.                                          *)
LEMMA Refuses ==
    ASSUME CommandIInv, more, NEW e \in errors \cup {"help"}, Fails(e), line' = line,
           at' \in 0..Len(line), begun' \in 0..at'
    PROVE  CommandIInv'
<1>1. outcome = "running" /\ outcome' = e /\ UNCHANGED <<phase, sub>>
  BY DEF Fails, more
<1>2. e \notin {"running", "ok"}
  BY DEF errors
<1>3. phase # "started"
  BY <1>1 DEF CommandIInv, Progress
<1>4. CommandTypeOK'
  BY <1>1 DEF CommandIInv, CommandTypeOK
<1>5. Progress'
  BY <1>1, <1>2, <1>3 DEF CommandIInv, Progress
<1>6. RemoteTold' /\ Told'
  BY <1>1, <1>2 DEF CommandIInv, RemoteTold, Told
<1> QED
  BY <1>4, <1>5, <1>6 DEF CommandIInv

(* What may follow from an argument of a command.                          *)
LEMMA Continues ==
    ASSUME CommandIInv, more, phase \in Commands, UNCHANGED <<line, begun, phase, outcome>>,
           at' \in {at + 1, at + 2}, at' <= Len(line),
           sub' = [on |-> sub'.on, name |-> sub'.name, key |-> sub'.key, local |-> sub'.local,
                   map |-> sub'.map, remote |-> sub'.remote],
           sub'.on \subseteq toggles[phase], RemoteTold',
           \A f \in {"name", "key", "local", "map"} :
              sub'[f] = sub[f] \/ f \in takes[phase] \/ (f = "local" /\ phase = "proxy"),
           Told'
    PROVE  CommandIInv'
<1>1. at \in Nat /\ begun \in Nat /\ begun <= at /\ Len(line) \in Nat /\ outcome = "running"
      /\ phase \notin {"global", "started"}
  BY NextArgument, WhatCommandsTake DEF CommandIInv, more
<1>2. CommandTypeOK'
  BY <1>1 DEF CommandIInv, CommandTypeOK
<1>3. Progress'
  BY <1>1 DEF CommandIInv, Progress
<1> QED
  BY <1>2, <1>3 DEF CommandIInv

(* An argument that the command ignores, or takes as what it is about.      *)
LEMMA PlainSteps == ASSUME CommandIInv, SubPlain PROVE CommandIInv'
<1>1. /\ more /\ outcome = "running" /\ phase \in Commands /\ arg.kind = "plain" /\ at' = at + 1
      /\ UNCHANGED <<line, begun>>
  BY DEF SubPlain, more
<1>2. /\ Len(line) \in Nat /\ at \in Nat /\ at + 1 \in 1..Len(line) /\ DOMAIN line = 1..Len(line)
      /\ isArgument(arg) /\ begun \in Nat /\ begun <= at
  BY <1>1, NextArgument DEF CommandIInv
<1>3. \A i \in DOMAIN line : at < i /\ i <= at' => ~asked(i)
  <2> SUFFICES ASSUME NEW i \in DOMAIN line, at < i, i <= at + 1 PROVE ~asked(i)
    BY <1>1
  <2>1. i = at + 1 /\ line[i] = arg /\ arg.flags = <<>>
    BY <1>1, <1>2 DEF arg, isArgument
  <2>2. firstOf(arg, takes[phase]) \in 1..(Len(arg.flags) + 1) /\ Len(arg.flags) = 0
    BY <1>2, <2>1, FirstOf DEF isArgument
  <2> QED
    BY <2>1, <2>2 DEF asked
<1>4. \/ \E e \in errors : Fails(e)
      \/ /\ phase = "proxy" /\ sub' = [sub EXCEPT !.local = arg.val] /\ UNCHANGED <<phase, outcome>>
      \/ /\ sub' = [sub EXCEPT !.remote = extract_addr(arg.val)] /\ UNCHANGED <<phase, outcome>>
         /\ extract_addr(arg.val).is \notin errors
      \/ UNCHANGED <<phase, sub, outcome>>
  <2>1. CASE phase \in {"forward", "connect"}
    <3> DEFINE x == IF looksLikeValue(arg) THEN extract_addr(arg.val) ELSE [is |-> "Encoding"]
    <3>1. IF x.is \in errors THEN Fails(x.is)
          ELSE sub' = [sub EXCEPT !.remote = x] /\ UNCHANGED <<phase, conf, outcome>>
      BY <2>1 DEF SubPlain
    <3>2. CASE x.is \in errors
      BY <3>1, <3>2
    <3>3. CASE x.is \notin errors
      <4>1. x = extract_addr(arg.val)
        BY <3>3 DEF errors
      <4> QED
        BY <3>1, <3>3, <4>1
    <3> QED
      BY <3>2, <3>3
  <2>2. CASE phase = "proxy"
    BY <2>2 DEF SubPlain, errors
  <2>3. CASE phase \notin {"forward", "connect", "proxy"}
    BY <2>3 DEF SubPlain
  <2> QED
    BY <2>1, <2>2, <2>3
<1>5. CASE \E e \in errors : Fails(e)
  BY <1>1, <1>2, <1>5, Refuses
<1>6. CASE /\ phase = "proxy" /\ sub' = [sub EXCEPT !.local = arg.val] /\ UNCHANGED <<phase, outcome>>
  <2>1. /\ sub' = [on |-> sub.on, name |-> sub.name, key |-> sub.key, local |-> arg.val, map |-> sub.map,
                   remote |-> sub.remote]
    BY <1>6 DEF CommandIInv, Progress
  <2>2. takes[phase] = {"name", "key", "map"}
    BY <1>6 DEF takes
  <2>3. Told'
    BY <1>1, <1>2, <1>3, <1>6, <2>1, <2>2, NothingAsked DEF CommandIInv
  <2>4. RemoteTold' /\ sub'.on \subseteq toggles[phase]
    BY <1>1, <2>1 DEF CommandIInv, RemoteTold, CommandTypeOK
  <2>5. /\ sub' = [on |-> sub'.on, name |-> sub'.name, key |-> sub'.key, local |-> sub'.local,
                   map |-> sub'.map, remote |-> sub'.remote]
        /\ \A f \in {"name", "key", "local", "map"} : sub'[f] = sub[f] \/ (f = "local" /\ phase = "proxy")
    BY <1>6, <2>1
  <2> QED
    BY <1>1, <1>2, <1>6, <2>3, <2>4, <2>5, Continues
<1>7. CASE /\ sub' = [sub EXCEPT !.remote = extract_addr(arg.val)] /\ UNCHANGED <<phase, outcome>>
           /\ extract_addr(arg.val).is \notin errors
  <2> DEFINE x == extract_addr(arg.val)
  <2>1. /\ sub' = [on |-> sub.on, name |-> sub.name, key |-> sub.key, local |-> sub.local, map |-> sub.map,
                   remote |-> x]
    BY <1>7 DEF CommandIInv, Progress
  <2>5. /\ sub' = [on |-> sub'.on, name |-> sub'.name, key |-> sub'.key, local |-> sub'.local,
                   map |-> sub'.map, remote |-> sub'.remote]
        /\ \A f \in {"name", "key", "local", "map"} : sub'[f] = sub[f]
    BY <2>1
  <2>6. \A f \in takes[phase] : sub'[f] = sub[f]
    BY <1>1, <2>5, WhatCommandsTake
  <2>2. Told'
    BY <1>1, <1>2, <1>3, <1>7, <2>5, <2>6, NothingAsked DEF CommandIInv
  <2>3. /\ x.is = "addr"
        /\ x.port = 0 => x.host \in DOMAIN canonical
        /\ x.host \in DOMAIN canonical => x.host = canonical[x.host]
    <3>1. CASE arg.val.is = "sock"
      <4>1. arg.val.host \in DOMAIN canonical /\ x = [is |-> "addr", host |-> canonical[arg.val.host], port |-> arg.val.port]
        BY <1>2, <3>1 DEF isArgument, extract_addr
      <4>2. \A h \in DOMAIN canonical : canonical[h] \in DOMAIN canonical /\ canonical[canonical[h]] = canonical[h]
        BY DEF canonical
      <4> QED
        BY <4>1, <4>2
    <3>2. CASE arg.val.is = "name_port" /\ arg.val.port # 0
      <4>1. arg.val.host \notin DOMAIN canonical /\ x = [is |-> "addr", host |-> arg.val.host, port |-> arg.val.port]
        BY <1>2, <3>2 DEF isArgument, extract_addr
      <4> QED
        BY <3>2, <4>1
    <3>3. CASE ~(arg.val.is = "sock") /\ ~(arg.val.is = "name_port" /\ arg.val.port # 0)
      BY <1>7, <3>3 DEF extract_addr, errors
    <3> QED
      BY <3>1, <3>2, <3>3
  <2> HIDE DEF x
  <2>4. RemoteTold' /\ sub'.on \subseteq toggles[phase]
    BY <1>1, <2>1, <2>3 DEF CommandIInv, RemoteTold, CommandTypeOK
  <2> QED
    BY <1>1, <1>2, <1>7, <2>2, <2>4, <2>5, Continues
<1>8. CASE UNCHANGED <<phase, sub, outcome>>
  <2>1. Told'
    BY <1>1, <1>2, <1>3, <1>8, NothingAsked DEF CommandIInv
  <2>2. RemoteTold' /\ sub'.on \subseteq toggles[phase]
    BY <1>1, <1>8 DEF CommandIInv, RemoteTold, CommandTypeOK
  <2>3. sub' = [on |-> sub'.on, name |-> sub'.name, key |-> sub'.key, local |-> sub'.local,
                   map |-> sub'.map, remote |-> sub'.remote]
    BY <1>8 DEF CommandIInv, Progress
  <2> QED
    BY <1>1, <1>2, <1>8, <2>1, <2>2, <2>3, Continues
<1> QED
  BY <1>4, <1>5, <1>6, <1>7, <1>8

(* A value that is set: all else stays as it was.                          *)
LEMMA SetsOne ==
    ASSUME CommandIInv, NEW f \in {"name", "key", "local", "map"}, NEW v,
           sub' = [sub EXCEPT ![f] = v] \/ \E on : sub' = [sub EXCEPT ![f] = v, !.on = on]
    PROVE  /\ sub' = [on |-> sub'.on, name |-> sub'.name, key |-> sub'.key, local |-> sub'.local,
                      map |-> sub'.map, remote |-> sub'.remote]
           /\ sub'[f] = v /\ sub'.remote = sub.remote
           /\ \A g \in {"name", "key", "local", "map"} : g # f => sub'[g] = sub[g]
<1>1. sub = [on |-> sub.on, name |-> sub.name, key |-> sub.key, local |-> sub.local, map |-> sub.map,
             remote |-> sub.remote]
  BY DEF CommandIInv, Progress
<1>2. CASE f = "name"
  BY <1>1, <1>2
<1>3. CASE f = "key"
  BY <1>1, <1>3
<1>4. CASE f = "local"
  BY <1>1, <1>4
<1>5. CASE f = "map"
  BY <1>1, <1>5
<1> QED
  BY <1>2, <1>3, <1>4, <1>5

(* A long option of a command.                                             *)
LEMMA LongSteps == ASSUME CommandIInv, SubLong PROVE CommandIInv'
<1> DEFINE f == arg.flags[1]
<1>1. /\ more /\ outcome = "running" /\ phase \in Commands /\ arg.kind = "long" /\ at' = at + 1
      /\ UNCHANGED <<line, begun>>
  BY DEF SubLong, more
<1>2. /\ Len(line) \in Nat /\ at \in Nat /\ at + 1 \in 1..Len(line) /\ DOMAIN line = 1..Len(line)
      /\ isArgument(arg) /\ begun \in Nat /\ begun <= at /\ line[at + 1] = arg
  BY <1>1, NextArgument DEF CommandIInv, arg
<1>3. arg.flags \in Seq(STRING) /\ Len(arg.flags) = 1
  BY <1>1, <1>2 DEF isArgument
<1>4. /\ f \in takes[phase] => firstOf(arg, takes[phase]) = 1
      /\ f \notin takes[phase] => firstOf(arg, takes[phase]) = 2
  <2>1. /\ firstOf(arg, takes[phase]) \in 1..2
        /\ firstOf(arg, takes[phase]) <= 1 => arg.flags[firstOf(arg, takes[phase])] \in takes[phase]
        /\ \A j \in 1..1 : j < firstOf(arg, takes[phase]) => arg.flags[j] \notin takes[phase]
    BY <1>3, FirstOf
  <2> QED
    BY <2>1
<1>5. /\ f \in takes[phase] => asked(at + 1) /\ givenFlag(at + 1) = f
      /\ f \in takes[phase] /\ arg.val # NoText => givenValue(at + 1) = arg.val
      /\ f \notin takes[phase] => ~asked(at + 1)
  BY <1>2, <1>3, <1>4 DEF asked, givenFlag, givenValue
<1>6. \A i \in DOMAIN line : at + 1 < i /\ i <= at' => ~asked(i)
  BY <1>1, <1>2
<1>9. at' \in Nat /\ at <= at' /\ DOMAIN line \subseteq Nat
  BY <1>1, <1>2
<1> HIDE DEF f
<1>7. CASE f \in takes[phase]
  <2>1. f \in {"name", "key", "local", "map"}
    BY <1>1, <1>7, WhatCommandsTake
  <2>2. CASE f = "name" /\ keepsFirst(phase) /\ sub.name.is \notin {"none", "empty"}
    <3>1. UNCHANGED <<phase, sub, outcome>>
      BY <1>7, <2>2 DEF SubLong, f
    <3>2. Told'
      BY <1>1, <1>2, <1>5, <1>7, <2>2, <3>1, NameIsKept DEF CommandIInv
    <3>3. RemoteTold' /\ sub'.on \subseteq toggles[phase]
      BY <1>1, <3>1 DEF CommandIInv, RemoteTold, CommandTypeOK
    <3>4. sub' = [on |-> sub'.on, name |-> sub'.name, key |-> sub'.key, local |-> sub'.local,
                  map |-> sub'.map, remote |-> sub'.remote]
      BY <3>1 DEF CommandIInv, Progress
    <3> QED
      BY <1>1, <1>2, <3>1, <3>2, <3>3, <3>4, Continues
  <2>3. CASE ~(f = "name" /\ keepsFirst(phase) /\ sub.name.is \notin {"none", "empty"}) /\ arg.val = NoText
    <3>1. Fails("RequiredValue") /\ "RequiredValue" \in errors
      BY <1>7, <2>3 DEF SubLong, f, errors
    <3> QED
      BY <1>1, <1>2, <3>1, Refuses
  <2>4. CASE ~(f = "name" /\ keepsFirst(phase) /\ sub.name.is \notin {"none", "empty"}) /\ arg.val # NoText
    <3>1. sets(f, arg.val)
      BY <1>7, <2>4 DEF SubLong, f
    <3>2. CASE valued(phase, f, arg.val).is \in errors
      <4>1. Fails(valued(phase, f, arg.val).is)
        BY <3>1, <3>2 DEF sets
      <4> QED
        BY <1>1, <1>2, <3>2, <4>1, Refuses
    <3>3. CASE valued(phase, f, arg.val).is \notin errors
      <4>1. sub' = [sub EXCEPT ![f] = arg.val] /\ UNCHANGED <<phase, outcome>>
        BY <3>1, <3>3, Valued DEF sets
      <4>2. /\ sub' = [on |-> sub'.on, name |-> sub'.name, key |-> sub'.key, local |-> sub'.local,
                       map |-> sub'.map, remote |-> sub'.remote]
            /\ sub'[f] = arg.val /\ sub'.remote = sub.remote
            /\ \A g \in {"name", "key", "local", "map"} : g # f => sub'[g] = sub[g]
        BY <2>1, <4>1, SetsOne
      <4>3. sub'.on = sub.on
        BY <2>1, <4>1 DEF CommandIInv, Progress
      <4>4. arg.val.is # "none"
        BY <1>2, <2>4 DEF isArgument
      <4>5. \A g \in takes[phase] \cup {"name"} : g # f => sub'[g] = sub[g]
        BY <1>1, <4>2, WhatCommandsTake
      <4>6. Told'
        BY <1>1, <1>2, <1>5, <1>6, <1>7, <2>4, <4>1, <4>2, <4>4, <4>5, SomethingAsked DEF CommandIInv
      <4>7. RemoteTold' /\ sub'.on \subseteq toggles[phase]
        BY <1>1, <4>2, <4>3 DEF CommandIInv, RemoteTold, CommandTypeOK
      <4>8. \A g \in {"name", "key", "local", "map"} : sub'[g] = sub[g] \/ g \in takes[phase]
        BY <1>7, <4>2
      <4> QED
        BY <1>1, <1>2, <4>1, <4>2, <4>6, <4>7, <4>8, Continues
    <3> QED
      BY <3>2, <3>3
  <2> QED
    BY <2>2, <2>3, <2>4
<1>8. CASE f \notin takes[phase]
  <2>1. CASE f = "help"
    <3>1. Fails("help")
      BY <1>8, <2>1 DEF SubLong, f
    <3> QED
      BY <1>1, <1>2, <3>1, Refuses
  <2>2. CASE f # "help"
    <3>1. sub' = [sub EXCEPT !.on = @ \cup toggled(arg, 2)] /\ UNCHANGED <<phase, outcome>>
      BY <1>8, <2>2 DEF SubLong, f
    <3>2. /\ sub' = [on |-> sub'.on, name |-> sub'.name, key |-> sub'.key, local |-> sub'.local,
                     map |-> sub'.map, remote |-> sub'.remote]
          /\ sub'.on = sub.on \cup toggled(arg, 2) /\ sub'.remote = sub.remote
          /\ \A g \in {"name", "key", "local", "map"} : sub'[g] = sub[g]
      BY <3>1 DEF CommandIInv, Progress
    <3>3. \A g \in takes[phase] : sub'[g] = sub[g]
      BY <1>1, <3>2, WhatCommandsTake
    <3>4. \A i \in DOMAIN line : at < i /\ i <= at' => ~asked(i)
      BY <1>1, <1>2, <1>5, <1>8
    <3>5. Told'
      <4>1. Told /\ UNCHANGED <<line, phase, begun>> /\ sub'.name = sub.name
        BY <1>1, <3>1, <3>2 DEF CommandIInv
      <4> QED
        BY <1>1, <1>2, <1>9, <3>3, <3>4, <4>1, NothingAsked
    <3>6. RemoteTold' /\ sub'.on \subseteq toggles[phase]
      BY <1>1, <3>2 DEF CommandIInv, RemoteTold, CommandTypeOK, toggled
    <3> QED
      BY <1>1, <1>2, <3>1, <3>2, <3>5, <3>6, Continues
  <2> QED
    BY <2>1, <2>2
<1> QED
  BY <1>7, <1>8

(* A cluster of short options of a command.                                *)
LEMMA ShortSteps == ASSUME CommandIInv, SubShort PROVE CommandIInv'
<1> DEFINE i == firstOf(arg, takes[phase] \cup {"help"})
           f == arg.flags[i]
           v == found(arg, i)
           on == sub.on \cup toggled(arg, i)
<1>1. /\ more /\ outcome = "running" /\ phase \in Commands /\ arg.kind = "short"
      /\ UNCHANGED <<line, begun>>
  BY DEF SubShort, more
<1>2. /\ Len(line) \in Nat /\ at \in Nat /\ at + 1 \in 1..Len(line) /\ DOMAIN line = 1..Len(line)
      /\ isArgument(arg) /\ begun \in Nat /\ begun <= at /\ line[at + 1] = arg
      /\ \A j \in 1..Len(line) : isArgument(line[j])
  BY <1>1, NextArgument DEF CommandIInv, arg
<1>3. arg.flags \in Seq(STRING) /\ (arg.val # NoText => arg.val.is \notin {"none", "empty"})
  BY <1>1, <1>2 DEF isArgument
<1>4. /\ i > Len(arg.flags) => firstOf(arg, takes[phase]) > Len(arg.flags)
      /\ i <= Len(arg.flags) /\ f # "help" => firstOf(arg, takes[phase]) = i
      /\ i \in 1..(Len(arg.flags) + 1) /\ Len(arg.flags) \in Nat
      /\ i <= Len(arg.flags) => f \in takes[phase] \cup {"help"}
  BY <1>3, FirstButHelp
<1>5. on \subseteq toggles[phase]
  BY <1>1 DEF CommandIInv, CommandTypeOK, toggled
<1>6. CASE i > Len(arg.flags)
  <2>1. at' = at + 1 /\ sub' = [sub EXCEPT !.on = on] /\ UNCHANGED <<phase, outcome>>
    BY <1>6 DEF SubShort
  <2>2. /\ sub' = [on |-> sub'.on, name |-> sub'.name, key |-> sub'.key, local |-> sub'.local,
                   map |-> sub'.map, remote |-> sub'.remote]
        /\ sub'.on = on /\ sub'.remote = sub.remote
        /\ \A g \in {"name", "key", "local", "map"} : sub'[g] = sub[g]
    BY <2>1 DEF CommandIInv, Progress
  <2>3. \A g \in takes[phase] : sub'[g] = sub[g]
    BY <1>1, <2>2, WhatCommandsTake
  <2>4. ~asked(at + 1)
    <3>1. firstOf(arg, takes[phase]) \in 1..(Len(arg.flags) + 1)
      BY <1>3, FirstOf
    <3> QED
      BY <1>2, <1>4, <1>6, <3>1 DEF asked
  <2>5. \A j \in DOMAIN line : at < j /\ j <= at' => ~asked(j)
    BY <1>2, <2>1, <2>4
  <2>6. Told'
    <3>1. Told /\ UNCHANGED <<line, phase, begun>> /\ sub'.name = sub.name
      BY <1>1, <2>1, <2>2 DEF CommandIInv
    <3>2. at' \in Nat /\ at <= at' /\ DOMAIN line \subseteq Nat
      BY <1>2, <2>1
    <3> HIDE DEF i, f, v, on
    <3> QED
      BY <1>1, <1>2, <2>3, <2>5, <3>1, <3>2, NothingAsked
  <2>7. RemoteTold' /\ sub'.on \subseteq toggles[phase]
    BY <1>5, <2>2 DEF CommandIInv, RemoteTold
  <2>8. at' \in {at + 1, at + 2} /\ at' <= Len(line)
    BY <1>2, <2>1
  <2> HIDE DEF i, f, v, on
  <2> QED
    BY <1>1, <2>1, <2>2, <2>6, <2>7, <2>8, Continues
<1>7. CASE i <= Len(arg.flags) /\ f = "help"
  <2>1. at' = at + 1 /\ Fails("help")
    BY <1>4, <1>7 DEF SubShort
  <2> QED
    BY <1>1, <1>2, <2>1, Refuses
<1>8. CASE i <= Len(arg.flags) /\ f # "help"
  <2> DEFINE x == valued(phase, f, v.val)
  <2>1. /\ at' = at + v.used
        /\ IF v.val = NoText THEN Fails(IF f = "name" THEN "Encoding" ELSE "RequiredValue")
           ELSE IF x.is \in errors THEN Fails(x.is)
           ELSE sub' = [sub EXCEPT ![f] = x, !.on = on] /\ UNCHANGED <<phase, conf, outcome>>
    <3>1. ~(i > Len(arg.flags))
      BY <1>4, <1>8
    <3> QED
      BY <1>8, <3>1, Zenon DEF SubShort
  <2>9. at' = at + v.used
    BY <2>1
  <2>2. f \in takes[phase] /\ f \in {"name", "key", "local", "map"}
    BY <1>1, <1>4, <1>8, WhatCommandsTake
  <2>3. /\ v.used = 1 \/ (v.used = 2 /\ at + 1 # Len(line))
        /\ v.val # NoText => v.val.is \notin {"none", "empty"}
        /\ v.used = 2 /\ v.val # NoText => line[at + 2].kind = "plain" /\ v.val = line[at + 2].val
        /\ v.used = 1 => v.val = (IF i < Len(arg.flags) THEN Letters ELSE arg.val)
        /\ v.used = 2 => i >= Len(arg.flags) /\ arg.val = NoText
    <3>1. CASE i < Len(arg.flags)
      BY <3>1 DEF found, Letters
    <3>2. CASE ~(i < Len(arg.flags)) /\ arg.val # NoText
      BY <1>3, <3>2 DEF found
    <3>3. CASE ~(i < Len(arg.flags)) /\ arg.val = NoText /\ at + 1 = Len(line)
      BY <3>3 DEF found
    <3>4. CASE ~(i < Len(arg.flags)) /\ arg.val = NoText /\ at + 1 # Len(line)
      <4>1. at + 2 \in 1..Len(line)
        BY <1>2, <3>4
      <4>2. line[at + 2].val.is = "none" => line[at + 2].val = NoText
        BY <1>2, <4>1 DEF isArgument
      <4>3. v = [used |-> 2, val |-> IF looksLikeValue(line[at + 2]) THEN line[at + 2].val ELSE NoText]
        BY <3>4 DEF found
      <4> QED
        BY <1>4, <3>4, <4>2, <4>3 DEF looksLikeValue
    <3> QED
      BY <3>1, <3>2, <3>3, <3>4
  <2>4. at' \in {at + 1, at + 2} /\ at' <= Len(line) /\ at' \in 0..Len(line) /\ begun \in 0..at'
    <3>1. v.used = 1 => at' = at + 1
      BY <2>9
    <3>2. v.used = 2 => at' = at + 2
      BY <2>9
    <3>3. \/ at' = at + 1
          \/ at' = at + 2 /\ at + 1 # Len(line)
      BY <2>3, <3>1, <3>2
    <3>4. CASE at' = at + 1
      BY <1>2, <3>4, SMTT(30)
    <3>5. CASE at' = at + 2 /\ at + 1 # Len(line)
      BY <1>2, <3>5, RoomForOne
    <3> QED
      BY <3>3, <3>4, <3>5
  <2> HIDE DEF i, f, v, on
  <2>5. CASE v.val = NoText
    <3>1. \E e \in errors : Fails(e)
      BY <2>1, <2>5 DEF errors
    <3> QED
      BY <1>1, <2>4, <3>1, Refuses
  <2>6. CASE v.val # NoText /\ x.is \in errors
    BY <1>1, <2>1, <2>4, <2>6, Refuses
  <2>7. CASE v.val # NoText /\ x.is \notin errors
    <3>1. sub' = [sub EXCEPT ![f] = v.val, !.on = on] /\ UNCHANGED <<phase, outcome>>
      BY <2>1, <2>7, Valued
    <3>2. /\ sub' = [on |-> sub'.on, name |-> sub'.name, key |-> sub'.key, local |-> sub'.local,
                     map |-> sub'.map, remote |-> sub'.remote]
          /\ sub'[f] = v.val /\ sub'.remote = sub.remote
          /\ \A g \in {"name", "key", "local", "map"} : g # f => sub'[g] = sub[g]
      BY <2>2, <3>1, SetsOne
    <3>3. sub'.on = on
      BY <2>2, <3>1 DEF CommandIInv, Progress
    <3>4. asked(at + 1) /\ givenFlag(at + 1) = f
      BY <1>2, <1>4, <1>8 DEF asked, givenFlag, f
    <3>5. givenValue(at + 1) = v.val
      <4>1. /\ givenValue(at + 1) = IF i < Len(arg.flags) THEN Letters
                                     ELSE IF arg.val # NoText THEN arg.val ELSE line[at + 2].val
            /\ i <= Len(arg.flags) /\ i \in Nat /\ Len(arg.flags) \in Nat
        BY <1>2, <1>4, <1>8 DEF givenValue
      <4>2. CASE v.used = 1
        BY <2>3, <2>7, <4>1, <4>2
      <4>3. CASE v.used = 2
        <5>1. ~(i < Len(arg.flags)) /\ arg.val = NoText /\ v.val = line[at + 2].val
          BY <2>3, <2>7, <4>1, <4>3
        <5> QED
          BY <4>1, <5>1
      <4> QED
        BY <2>3, <4>2, <4>3
    <3>6. \A j \in DOMAIN line : at + 1 < j /\ j <= at' => ~asked(j)
      <4> SUFFICES ASSUME NEW j \in DOMAIN line, at + 1 < j, j <= at' PROVE ~asked(j)
        OBVIOUS
      <4>1. j = at + 2 /\ v.used = 2
        <5>1. j \in Nat /\ at \in Nat
          BY <1>2
        <5>2. v.used = 1 => at' = at + 1
          BY <2>9
        <5>3. v.used = 2 => at' = at + 2
          BY <2>9
        <5>4. at' # at + 1
          BY <5>1, SMTT(30)
        <5> QED
          BY <2>3, <5>1, <5>2, <5>3, <5>4
      <4>2. line[j].flags = <<>> /\ line[j].flags \in Seq(STRING)
        BY <1>2, <2>3, <2>7, <4>1 DEF isArgument
      <4>3. firstOf(line[j], takes[phase]) \in 1..(Len(line[j].flags) + 1) /\ Len(line[j].flags) = 0
        BY <4>2, FirstOf
      <4> QED
        BY <4>3 DEF asked
    <3>7. \A g \in takes[phase] \cup {"name"} : g # f => sub'[g] = sub[g]
      BY <1>1, <3>2, WhatCommandsTake
    <3>8. Told'
      <4>1. Told /\ UNCHANGED <<line, phase, begun>> /\ DOMAIN line \subseteq Nat
        <5>1. UNCHANGED phase
          BY <3>1
        <5>2. DOMAIN line \subseteq Nat
          BY <1>2
        <5> QED
          BY <1>1, <5>1, <5>2 DEF CommandIInv
      <4>2. f = givenFlag(at + 1) /\ sub'[f] = givenValue(at + 1) /\ at + 1 \in DOMAIN line
        BY <1>2, <3>2, <3>4, <3>5
      <4>3. line[at + 1].kind = "short" /\ givenValue(at + 1).is \notin {"none", "empty"}
        BY <1>1, <1>2, <2>3, <2>7, <3>5
      <4> QED
        BY <1>1, <1>2, <2>4, <3>4, <3>6, <3>7, <4>1, <4>2, <4>3, SomethingAsked
    <3>9. RemoteTold' /\ sub'.on \subseteq toggles[phase]
      BY <1>5, <3>2, <3>3 DEF CommandIInv, RemoteTold
    <3>10. \A g \in {"name", "key", "local", "map"} : sub'[g] = sub[g] \/ g \in takes[phase]
      BY <2>2, <3>2
    <3> QED
      BY <1>1, <1>2, <2>4, <3>1, <3>2, <3>8, <3>9, <3>10, Continues
  <2> QED
    BY <2>5, <2>6, <2>7
<1> QED
  BY <1>4, <1>6, <1>7, <1>8

(* The options before the command, and the command.                        *)
LEMMA GlobalSteps ==
    ASSUME CommandIInv, GlobalLong \/ GlobalShort \/ ChoosesCommand
    PROVE  CommandIInv'
<1>1. /\ more /\ outcome = "running" /\ phase = "global" /\ line' = line
      /\ phase \notin Commands
  BY WhatCommandsTake DEF GlobalLong, GlobalShort, ChoosesCommand, more
<1>2. /\ Len(line) \in Nat /\ at \in Nat /\ at + 1 \in 1..Len(line) /\ DOMAIN line = 1..Len(line)
      /\ isArgument(arg) /\ begun \in Nat /\ begun <= at
  BY <1>1, NextArgument DEF CommandIInv
<1>3. /\ at' \in {at + 1, at + 2} /\ at' <= Len(line) /\ at' \in 0..Len(line)
      /\ begun' \in {begun, at'} /\ begun' \in 0..at'
  <2>1. GlobalLong \/ ChoosesCommand => at' = at + 1 /\ begun' \in {begun, at'}
    BY DEF GlobalLong, ChoosesCommand
  <2>2. GlobalShort => at' \in {at + 1, at + 2} /\ at' <= Len(line) /\ begun' = begun
    <3> SUFFICES ASSUME GlobalShort PROVE at' \in {at + 1, at + 2} /\ at' <= Len(line) /\ begun' = begun
      OBVIOUS
    <3> DEFINE i == firstOf(arg, {"config", "help"})
    <3>1. at' = at + 1 \/ at' = at + found(arg, i).used
      BY DEF GlobalShort
    <3>2. found(arg, i).used = 1 \/ (found(arg, i).used = 2 /\ at + 1 # Len(line))
      BY DEF found
    <3>3. begun' = begun
      BY DEF GlobalShort
    <3>4. at' = at + 1 \/ (at' = at + 2 /\ at + 1 # Len(line))
      BY <3>1, <3>2
    <3>5. CASE at' = at + 1
      BY <1>2, <3>3, <3>5, SMTT(30)
    <3>6. CASE at' = at + 2 /\ at + 1 # Len(line)
      BY <1>2, <3>3, <3>6, RoomForOne
    <3> QED
      BY <3>4, <3>5, <3>6
  <2> QED
    BY <1>2, <2>1, <2>2
<1>4. \/ \E e \in errors \cup {"help"} : Fails(e)
      \/ UNCHANGED <<phase, sub, outcome>>
      \/ phase' \in Commands /\ begun' = at' /\ at' = at + 1 /\ UNCHANGED <<sub, outcome>>
  <2>1. CASE GlobalLong
    BY <2>1 DEF GlobalLong, errors
  <2>2. CASE GlobalShort
    BY <2>2 DEF GlobalShort, errors
  <2>3. CASE ChoosesCommand
    BY <2>3 DEF ChoosesCommand, errors
  <2> QED
    BY <2>1, <2>2, <2>3
<1>5. CASE \E e \in errors \cup {"help"} : Fails(e)
  BY <1>1, <1>3, <1>5, Refuses
<1>6. CASE UNCHANGED <<phase, sub, outcome>>
  <2>1. CommandTypeOK' /\ Progress'
    BY <1>1, <1>3, <1>6 DEF CommandIInv, CommandTypeOK, Progress
  <2>2. RemoteTold' /\ Told'
    BY <1>1, <1>6 DEF CommandIInv, RemoteTold, Told
  <2> QED
    BY <2>1, <2>2 DEF CommandIInv
<1>7. CASE phase' \in Commands /\ begun' = at' /\ at' = at + 1 /\ UNCHANGED <<sub, outcome>>
  <2>1. sub = Untold
    BY <1>1 DEF CommandIInv, Progress
  <2>2. phase' \notin {"global", "started"}
    BY <1>7, WhatCommandsTake
  <2>3. CommandTypeOK'
    BY <1>1, <1>3, <1>7, <2>1 DEF CommandIInv, CommandTypeOK, Untold
  <2>4. Progress'
    BY <1>1, <1>3, <1>7, <2>1, <2>2 DEF CommandIInv, Progress
  <2>5. \A f : given(f)' = {}
    BY <1>1, <1>2, <1>7 DEF given, givers
  <2>6. Told'
    <3>1. /\ \A f \in {"name", "key", "local", "map"} : sub'[f] = NoText
          /\ NoText.is = "none"
      BY <1>7, <2>1 DEF Untold, NoText
    <3>2. ToldFirst'
      BY <2>5, <3>1 DEF ToldFirst, latest, earliest
    <3>3. \A f \in {"name", "key", "local", "map"} : ToldLast(f)'
      BY <2>5, <3>1 DEF ToldLast, latest
    <3> QED
      BY <1>7, <3>2, <3>3, WhatCommandsTake DEF Told
  <2>7. RemoteTold'
    BY <1>7 DEF CommandIInv, RemoteTold
  <2> QED
    BY <2>3, <2>4, <2>6, <2>7 DEF CommandIInv
<1> QED
  BY <1>4, <1>5, <1>6, <1>7

(* The end of the line.                                                    *)
LEMMA EndsSteps == ASSUME CommandIInv, Ends PROVE CommandIInv'
<1>1. /\ outcome = "running" /\ at = Len(line) /\ UNCHANGED <<line, at, begun, phase, conf, sub>>
      /\ outcome' = IF phase = "global" THEN "help"
                    ELSE IF complete(phase, sub) THEN "ok" ELSE "RequiredValue"
  BY DEF Ends
<1>2. phase # "started" /\ phase \in {"global"} \cup Commands
  BY <1>1 DEF CommandIInv, Progress, CommandTypeOK
<1>3. CommandTypeOK'
  BY <1>1 DEF CommandIInv, CommandTypeOK, errors
<1>4. Progress'
  BY <1>1, <1>2 DEF CommandIInv, Progress
<1>5. RemoteTold'
  BY <1>1 DEF CommandIInv, RemoteTold
<1>6. Told'
  <2>1. \A f : given(f)' = given(f)
    BY <1>1, GiversStay DEF given
  <2> QED
    BY <1>1, <2>1, GiversStay DEF CommandIInv, Told, ToldFirst, ToldLast, latest, earliest
<1> QED
  BY <1>3, <1>4, <1>5, <1>6 DEF CommandIInv

(* A client that has started has nothing more to read.                     *)
LEMMA StartedSteps == ASSUME CommandIInv, Connects PROVE CommandIInv'
<1>1. /\ outcome = "ok" /\ outcome' = "ok" /\ line' = <<>> /\ at' = 0 /\ begun' = 0
      /\ phase' = "started" /\ sub' = Untold
  BY DEF Connects
<1>2. phase' \notin Commands
  BY <1>1, WhatCommandsTake
<1>3. CommandTypeOK'
  BY <1>1, <1>2 DEF CommandTypeOK, Untold
<1>4. Progress'
  BY <1>1, <1>2 DEF Progress, Untold
<1>5. RemoteTold' /\ Told'
  BY <1>1, <1>2 DEF RemoteTold, Told, Untold
<1> QED
  BY <1>3, <1>4, <1>5 DEF CommandIInv

(* No step of the client or the agent disturbs what was told.              *)
LEMMA ParsingSteps ==
    ASSUME CommandIInv, [ConnectingNext]_connecting
    PROVE  CommandIInv'
<1>1. CASE CommandNext
  BY <1>1, GlobalSteps, LongSteps, ShortSteps, PlainSteps, EndsSteps DEF CommandNext
<1>2. CASE Connects
  BY <1>2, StartedSteps
<1>3. CASE UNCHANGED cmdline
  <2>1. UNCHANGED <<line, at, begun, phase, sub, outcome>>
    BY <1>3 DEF cmdline
  <2>2. CommandTypeOK' /\ Progress' /\ RemoteTold'
    BY <2>1 DEF CommandIInv, CommandTypeOK, Progress, RemoteTold
  <2>3. \A f : given(f)' = given(f)
    BY <2>1, GiversStay DEF given
  <2>4. Told'
    BY <2>1, <2>3, GiversStay DEF CommandIInv, Told, ToldFirst, ToldLast, latest, earliest
  <2> QED
    BY <2>2, <2>4 DEF CommandIInv
<1> QED
  BY <1>1, <1>2, <1>3 DEF ConnectingNext, connecting

----------------------------------------------------------------------------
(* What a client is told.                                                  *)

(* At the end of the line, what was given was given anywhere on it.        *)
LEMMA GivenIsAll ==
    ASSUME CommandIInv, outcome = "ok", phase \in Commands
    PROVE  /\ \A f : given(f) = givers(f) /\ givers(f) \in SUBSET Nat
           /\ Len(line) \in Nat /\ \A f : \A i \in givers(f) : i <= Len(line)
<1>1. at = Len(line) /\ Len(line) \in Nat /\ DOMAIN line = 1..Len(line)
  BY DEF CommandIInv, Progress
<1>2. \A f : \A i \in givers(f) : i \in 1..Len(line)
  BY <1>1 DEF givers
<1> QED
  BY <1>1, <1>2 DEF given

(* The parser's invariant says of a line that was accepted what it gave.   *)
LEMMA ToldAsGiven == CommandIInv => ValuesAsGiven
<1> SUFFICES ASSUME CommandIInv, outcome = "ok", phase \in Commands, NEW f \in takes[phase]
             PROVE  sub[f] = IF givers(f) = {} THEN NoText
                             ELSE IF f = "name" /\ phase \in {"connect", "proxy"}
                             THEN givenValue(IF shorts(f) = {} THEN Min(says(f)) ELSE Max(shorts(f)))
                             ELSE givenValue(Max(givers(f)))
  BY DEF ValuesAsGiven
<1>1. /\ given(f) = givers(f) /\ givers(f) \in SUBSET Nat /\ Len(line) \in Nat
      /\ \A i \in givers(f) : i <= Len(line)
  BY GivenIsAll
<1>2. \A S \in SUBSET givers(f) : S # {} => Max(S) \in latest(S) /\ Min(S) \in earliest(S)
  <2> SUFFICES ASSUME NEW S \in SUBSET givers(f), S # {} PROVE Max(S) \in latest(S) /\ Min(S) \in earliest(S)
    OBVIOUS
  <2>1. S \in SUBSET Nat /\ \A i \in S : i <= Len(line)
    BY <1>1
  <2>2. Max(S) \in S /\ (\A y \in S : y <= Max(S)) /\ Min(S) \in S /\ (\A y \in S : Min(S) <= y)
    BY <1>1, <2>1, GreatestOf, LeastOf
  <2> QED
    BY <2>2 DEF latest, earliest
<1>3. CASE f = "name" /\ phase \in {"connect", "proxy"}
  <2>1. /\ given("name") = {} => sub.name = NoText
        /\ \A i \in latest(given("name") \cap shorts("name")) : sub.name = givenValue(i)
        /\ given("name") \cap shorts("name") = {} =>
              \A i \in earliest(given("name") \cap says("name")) : sub.name = givenValue(i)
        /\ (given("name") \cap shorts("name")) \cup (given("name") \cap says("name")) = {}
              <=> sub.name.is \in {"none", "empty"}
    BY <1>3 DEF CommandIInv, Told, ToldFirst, keepsFirst
  <2>2. shorts("name") \subseteq givers("name") /\ says("name") \subseteq givers("name")
    BY DEF shorts, says
  <2>3. sub.name.is \notin {"none", "empty"}
    BY <1>3 DEF CommandIInv, Progress, complete
  <2>4. shorts("name") # {} => Max(shorts("name")) \in latest(shorts("name"))
    BY <1>2, <1>3, <2>2
  <2>5. says("name") # {} => Min(says("name")) \in earliest(says("name"))
    BY <1>2, <1>3, <2>2
  <2>6. given("name") \cap shorts("name") = shorts("name") /\ given("name") \cap says("name") = says("name")
    BY <1>1, <1>3, <2>2
  <2> QED
    BY <1>1, <1>3, <2>1, <2>3, <2>4, <2>5, <2>6
<1>4. CASE ~(f = "name" /\ phase \in {"connect", "proxy"})
  <2>1. ToldLast(f)
    BY <1>4 DEF CommandIInv, Told, keepsFirst
  <2>2. givers(f) # {} => Max(givers(f)) \in latest(givers(f))
    BY <1>2
  <2> QED
    BY <1>1, <1>4, <2>1, <2>2 DEF ToldLast
<1> QED
  BY <1>3, <1>4

(* Whoever waits for the direct channel asks for it.                       *)
LEMMA WaitersAsk == WaitsForWhatItAsks
BY DEF WaitsForWhatItAsks, instruction, asksDirect, determine

(* The parser's invariant is all that the run checks of it, and more.      *)
LEMMA CommandSafe == CommandIInv => CommandInv
<1> SUFFICES ASSUME CommandIInv PROVE CommandInv
  OBVIOUS
<1>1. RemoteUsable
  <2> SUFFICES ASSUME outcome = "ok", phase \in {"forward", "connect"}
               PROVE  /\ sub.remote.is = "addr"
                      /\ sub.remote.port = 0 => sub.remote.host \in DOMAIN canonical
                      /\ sub.remote.host \in DOMAIN canonical => sub.remote.host = canonical[sub.remote.host]
    BY DEF RemoteUsable
  <2>1. phase \in Commands
    BY DEF Commands, takes
  <2>2. sub.remote # NoText
    BY <2>1 DEF CommandIInv, Progress, complete
  <2> QED
    BY <2>2 DEF CommandIInv, RemoteTold
<1> QED
  BY <1>1, ToldAsGiven, WaitersAsk DEF CommandInv, CommandIInv

(* For every set of command lines: a client that is told to do something    *)
(* has of every option the value it was given, whatever the form and the    *)
(* order of the arguments; it has somewhere to go; and one that is to wait  *)
(* for the direct channel asks for it (Args::parse, Instruction::from).     *)
THEOREM ClientDoesAsTold == ConnectingSpec => []CommandInv
<1>1. ConnectingInit => CommandIInv
  BY ParsingStarts DEF ConnectingInit
<1> QED
  BY <1>1, ParsingSteps, CommandSafe, PTL DEF ConnectingSpec
=============================================================================
