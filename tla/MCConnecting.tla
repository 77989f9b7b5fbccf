---------------------------- MODULE MCConnecting ----------------------------
(***************************************************************************)
(* Command lines for TLC: what the help texts and the documents show, and  *)
(* each command with up to three arguments; with what they may meet.       *)
(***************************************************************************)
EXTENDS Connecting

Word(w) == [is |-> "word", host |-> w]
Sock(h, p) == [is |-> "sock", host |-> h, port |-> p]
NamePort(h, p) == [is |-> "name_port", host |-> h, port |-> p]
Ip(h) == [is |-> "ip", host |-> h]
Map(l, r) == [is |-> "map", host |-> l, to |-> r, ips |-> isIp(l) /\ isIp(r)]
Odd(f) == [is |-> f]

F(f) == Short(<<f>>, NoText)
box == Word("box")
named == <<F("name"), Plain(box)>>

(* The line of `sra shell -n box -k k1' for its own `sra connect' (shell.rs). *)
ShellLine ==
    <<Plain(Word("connect"))>> \o named \o <<F("key"), Plain(Word("k1")),
      Plain(Ip("127.0.0.1")), Plain(Word("22222"))>>

Documented ==
    {<<Plain(Word("list"))>>, <<Plain(Word("list")), F("verbose")>>,
     <<Plain(Word("forward"))>> \o named \o <<F("local"), Plain(Sock("127.0.0.1", 80)), Plain(NamePort("db", 80))>>,
     <<Plain(Word("forward")), Short(<<"udp", "name">>, NoText), Plain(box), Plain(NamePort("db", 80))>>,
     <<Plain(Word("connect")), Short(<<"udp", "name">>, NoText), Plain(box), Plain(NamePort("db", 80))>>,
     <<Plain(Word("proxy"))>> \o named \o <<F("map"), Plain(Map("db", "127.0.0.1")), Plain(Sock("127.0.0.1", 80))>>,
     <<Plain(Word("tun")), Short(<<"gateway", "direct", "name">>, NoText), Plain(box), F("key"), Plain(Word("k1")),
       F("map"), Plain(Map("127.0.0.1", "::1"))>>,
     <<Plain(Word("shell"))>> \o named \o <<F("key"), Plain(Word("k1"))>>}

(* Two addresses and a key with every way to choose a path. *)
Asked ==
    {<<Plain(Word(c))>> \o named \o m \o k \o p :
        c \in {"forward", "connect", "proxy"},
        m \in {<<Plain(Sock("0::1", 80))>>, <<F("map"), Plain(Map("db", "0::1")), Plain(Sock("127.0.0.1", 80))>>},
        k \in {<<>>, <<Long("key", Word("k1"))>>, <<Short(<<"key">>, Word("k2"))>>},
        p \in {<<>>, <<F("direct")>>, <<F("relay"), F("direct")>>, <<F("relay")>>, <<F("udp")>>}}

Globals ==
    {g \o <<Plain(Word("list"))>> :
        g \in {<<F("config"), Plain(Word("file"))>>, <<F("config"), F("verbose")>>, <<F("config")>>,
               <<Long("config", Word("file"))>>, <<Long("config", NoText)>>, <<Long("other", NoText)>>,
               <<Short(<<"verbose", "config">>, Word("file"))>>, <<F("help")>>, <<F("verbose")>>}}
    \cup {<<F("config"), Plain(Word("forward")), F("name"), Plain(Word("shell"))>> \o named}
    \cup {<<>>, <<Plain(Word("other"))>>, <<Plain(NamePort("db", 80))>>}

Arguments ==
    {F("name"), Short(<<"name">>, box), Long("name", Word("lab")), Long("name", NoText), Long("name", Odd("empty")),
     F("key"), Long("key", Word("k1")), Short(<<"direct", "key">>, NoText), Short(<<"relay", "name", "udp">>, NoText),
     F("local"), Long("local", Sock("127.0.0.1", 80)), F("map"), Long("map", Map("db", "127.0.0.1")), F("help"), Long("udp", NoText),
     Plain(box), Plain(NamePort("db", 80)), Plain(NamePort("db", 0)), Plain(Sock("127.0.0.1", 0)),
     Plain(Ip("127.0.0.1")), Plain(Odd("port_only")), Plain(Odd("dash"))}

MCLines ==
    Documented \cup Asked \cup Globals \cup {ShellLine}
    \cup {<<Plain(Word(c))>> \o s : c \in Commands, s \in UNION {[1..n -> Arguments] : n \in 0..3}}

----------------------------------------------------------------------------
white(i) == [white |-> TRUE, items |-> i]
black(i) == [white |-> FALSE, items |-> i]
ofDb(t) == {[target |-> t, host |-> "db", net |-> {}, port |-> 80, protocol |-> "TCP"]}
ofNet(t) == {[target |-> t, host |-> "", net |-> {"127.0.0.1", "::1"}, port |-> 0, protocol |-> "TCP"]}

Presented ==
    {[pids |-> <<>>, presented |-> <<>>], [pids |-> <<1>>, presented |-> <<>>],
     [pids |-> <<1>>, presented |-> <<[pid |-> 1, policy |-> white(ofDb("box"))]>>],
     [pids |-> <<1>>, presented |-> <<[pid |-> 1, policy |-> white(ofNet("other"))]>>],
     [pids |-> <<1, 2>>, presented |-> <<[pid |-> 2, policy |-> black(ofDb("any"))],
                                          [pid |-> 1, policy |-> white(ofNet("other"))]>>],
     [pids |-> <<1, 2>>, presented |-> <<[pid |-> 2, policy |-> black(ofNet("other"))],
                                          [pid |-> 1, policy |-> white(ofDb("other"))]>>]}

MCEnvs ==
    {[pids |-> t.pids, presented |-> t.presented, phrase |-> k[1], strict |-> k[2],
      address |-> a, answers |-> b, channel |-> c] :
        t \in Presented, k \in {<<Nothing, FALSE>>, <<"k1", FALSE>>, <<"k1", TRUE>>},
        a \in {Nothing, "127.0.0.1"}, b \in BOOLEAN, c \in BOOLEAN}

MCTargets == {[host |-> "db", port |-> 80], [host |-> "127.0.0.1", port |-> 80]}

(* sra-token/sample_token-generator.yaml: "all the policies must be          *)
(* satisfied" (line 12), and the items of a white list or a black list name *)
(* destinations (lines 20 to 26).  So each policy of the client that says   *)
(* something of the agent permits what is carried, by the name that was     *)
(* asked for or by the address that was dialled.                            *)
PoliciesSatisfied ==
    result = "ok" =>
        \A p \in {agent_policies(q, ask.agent) : q \in policies} :
            \/ p.items = {}
            \/ permit(p, msg) \/ permit(p, [msg EXCEPT !.host = env.address])
=============================================================================
