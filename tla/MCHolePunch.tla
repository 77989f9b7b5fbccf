--------------------------- MODULE MCHolePunch ---------------------------
(* A direct channel for the kinds of NAT the gateway lets through, with     *)
(* rows of two ports, one of which wraps around, and three meetings that    *)
(* the gateway refuses.  A peer behind a proxy is of unknown NAT, which may *)
(* be of either kind.                                                       *)
EXTENDS HolePunch

peer(kind, addr) ==
    [forwarded |-> kind = "unknown", ip |-> addr, port |-> 3, known |-> TRUE,
     local_ip |-> "local", local_port |-> IF kind = "hard" THEN 4 ELSE 3]

meeting(c, a, addr, hard, seed) ==
    [client |-> peer(c, "here"), agent |-> peer(a, addr), hard |-> hard,
     req |-> [easy_seed_port |-> seed, easy_seq |-> 2, hard_seed_port |-> 8, hard_seq |-> 2]]

MCMeetings ==
    {meeting("easy", "easy", "there", {}, 8),
     meeting("hard", "unknown", "there", {"client"}, 8),
     meeting("unknown", "unknown", "there", {"agent"}, 8),
     [meeting("unknown", "hard", "there", {}, Word - 2) EXCEPT !.req.easy_seq = 1],
     meeting("hard", "hard", "here", End, 8),
     meeting("hard", "hard", "there", End, 8),
     meeting("easy", "easy", "there", {}, 2),
     [meeting("easy", "hard", "here", {}, 8) EXCEPT !.agent.known = FALSE]}
=============================================================================
