----------------------------- MODULE PeerToPeer -----------------------------
(***************************************************************************)
(* What the gateway and the two ends of a direct channel compute: the kind *)
(* of NAT an end is behind (state/client.rs, state/agent.rs), the gateway's *)
(* decision on a Peer2Peer request (state/mod.rs), and the roles and ports *)
(* of udp_punched_socket (p2p.rs).                                         *)
(***************************************************************************)
EXTENDS Integers

CONSTANT Word   \* 2^16: the number of ports, which are u16

ASSUME WordAssumption == Word \in Nat \ {0}

Port == 0..(Word - 1)
NatType == {"easy", "hard", "unknown"}

\* u16 arithmetic of a release build.
add16(a, b) == (a + b) % Word
sub16(a, b) == (a - b) % Word

----------------------------------------------------------------------------
(* An end as the gateway knows it: whether a proxy forwarded its address,  *)
(* its public address, and what it said of its own address and port once   *)
(* it sent its system information.                                         *)
Peer == [forwarded : BOOLEAN, ip : STRING, port : Port, known : BOOLEAN,
         local_ip : STRING, local_port : Port]

nat_type(p) ==
    IF p.forwarded \/ ~p.known THEN "unknown"
    ELSE IF p.local_port = p.port THEN "easy" ELSE "hard"

(* What a client asks for: where rows of ports start and how long they are  *)
(* when both NATs are easy, and otherwise.                                 *)
PortRequest == [easy_seed_port : Port, easy_seq : Port, hard_seed_port : Port, hard_seq : Port]

valid_ports(req) ==
    /\ ~(req.easy_seed_port < add16(1, req.easy_seq) \/ req.easy_seed_port > (Word - 1) - req.easy_seq)
    /\ ~(req.hard_seed_port < add16(1, req.hard_seq) \/ req.hard_seed_port > (Word - 1) - req.hard_seq)

(* The answer to a client's request, and the instructions for both ends if  *)
(* it is Ok.  Nobody is answered when the client's user was removed or the  *)
(* client is not registered; it fails when the agent is not.               *)
refused(reply) == [reply |-> reply]

seq_of(req, c, a, same_ip) ==
    IF same_ip \/ (nat_type(c) = "easy" /\ nat_type(a) = "easy")
    THEN req.easy_seq ELSE req.hard_seq

instructions(req, c, a) ==
    LET same_ip == c.ip = a.ip
        seq == seq_of(req, c, a, same_ip)
        to(peer, own) ==
            [peer_ip |-> IF same_ip THEN peer.local_ip ELSE peer.ip,
             seed_port |-> req.easy_seed_port, seq |-> seq,
             nat |-> nat_type(own), peer_nat |-> nat_type(peer)]
    IN [reply |-> "ok", client |-> to(a, c), agent |-> to(c, a)]

peer2peer(user, clients, agents, req) ==
    IF ~user THEN refused("none")
    ELSE IF clients = {} THEN refused("none")       \* nobody to answer
    ELSE IF ~valid_ports(req) \/ agents = {} THEN refused("failed")
    ELSE LET c == CHOOSE x \in clients : TRUE
             a == CHOOSE x \in agents : TRUE
         IN IF \/ nat_type(c) = "hard" /\ nat_type(a) = "hard" /\ c.ip # a.ip
               \/ c.ip = a.ip /\ ~(c.known /\ a.known)
            THEN refused("failed")
            ELSE instructions(req, c, a)

----------------------------------------------------------------------------
(* udp_punched_socket: who punches first and who waits and then calls, and  *)
(* whether an end uses a row of ports of its own, and of its peer.  Of two *)
(* different NATs the easier one punches from one port into a row.         *)

ease == [n \in NatType |-> IF n = "easy" THEN 2 ELSE IF n = "unknown" THEN 1 ELSE 0]

puncher(nat, peer_nat, left) ==
    IF nat = peer_nat THEN left ELSE ease[nat] > ease[peer_nat]

dyn_my_port(nat, peer_nat, left) ==
    IF nat = peer_nat THEN nat = "easy" \/ left ELSE ease[nat] < ease[peer_nat]

dyn_peer_port(nat, peer_nat, left) ==
    IF nat = peer_nat THEN nat = "easy" \/ ~left ELSE ease[nat] > ease[peer_nat]

my_port(i, left, s) ==
    IF ~dyn_my_port(i.nat, i.peer_nat, left) THEN i.seed_port
    ELSE IF left THEN sub16(i.seed_port, s) ELSE add16(i.seed_port, s)

peer_port(i, left, s) ==
    IF ~dyn_peer_port(i.nat, i.peer_nat, left) THEN i.seed_port
    ELSE IF left THEN add16(i.seed_port, s) ELSE sub16(i.seed_port, s)
=============================================================================
