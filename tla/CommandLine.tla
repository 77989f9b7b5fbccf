---------------------------- MODULE CommandLine ----------------------------
(***************************************************************************)
(* The command line of the client (sra-client/src/args.rs): Args::parse    *)
(* goes through the arguments one by one, options before the command and   *)
(* then its own, and Instruction::from (manage.rs) makes of the result     *)
(* what the client is to do.                                               *)
(*                                                                         *)
(* A text is what the parsers see of an argument: a word, an address with  *)
(* a port, two texts joined by "=".  An argument is a long option, a       *)
(* cluster of short ones (whose last may carry its value), or plain.       *)
(***************************************************************************)
EXTENDS Integers, Sequences, FiniteSetsExt

CONSTANTS
    Lines       \* the command lines that are considered

NoText == [is |-> "none"]
Letters == [is |-> "word", host |-> "letters"]    \* the rest of a cluster as a value

Long(f, v) == [kind |-> "long", flags |-> <<f>>, val |-> v]
Short(fs, v) == [kind |-> "short", flags |-> fs, val |-> v]
Plain(v) == [kind |-> "plain", flags |-> <<>>, val |-> v]

(* What a command is told: options with a value, and options without. *)
takes ==
    [forward |-> {"name", "key", "local"}, connect |-> {"name", "key"},
     proxy |-> {"name", "key", "map"}, tun |-> {"name", "key", "local", "map"},
     shell |-> {"name", "key"}, list |-> {}]
toggles ==
    [forward |-> {"udp", "direct", "relay"}, connect |-> {"udp", "direct", "relay"},
     proxy |-> {"direct", "relay"}, tun |-> {"gateway", "direct", "relay"},
     shell |-> {}, list |-> {"verbose"}]
Commands == DOMAIN takes

VARIABLES
    line,       \* the command line
    at,         \* the arguments that were read
    begun,      \* those that were read when the command was (history)
    phase,      \* "global", or the command
    conf,       \* config_path
    sub,        \* what the command was told so far
    outcome     \* "running", "ok", "help", or the error

cmdline == <<line, at, begun, phase, conf, sub, outcome>>

Untold == [on |-> {}, name |-> NoText, key |-> NoText, local |-> NoText, map |-> NoText,
           remote |-> NoText]

CommandInit ==
    /\ line \in Lines /\ at = 0 /\ begun = 0 /\ phase = "global" /\ conf = NoText
    /\ sub = Untold /\ outcome = "running"

(* The texts that stand for more than a word, as std and the regex read them. *)
canonical == [h \in {"127.0.0.1", "::1", "0::1"} |-> IF h = "0::1" THEN "::1" ELSE h]

(* What can stand on a command line: an option has one name, or the letters *)
(* of a cluster, whose rest is never an empty value; anything else is plain. *)
isArgument(a) ==
    /\ a.flags \in Seq(STRING)
    /\ \/ a.kind = "long" /\ Len(a.flags) = 1
       \/ a.kind = "short" /\ a.val.is # "empty"
       \/ a.kind = "plain" /\ a.flags = <<>>
    /\ a.val.is = "none" => a.val = NoText
    /\ a.val.is = "sock" => a.val.host \in DOMAIN canonical
    /\ a.val.is = "name_port" => a.val.host \notin DOMAIN canonical

ASSUME LinesAssumption ==
    \A l \in Lines : l \in Seq({l[i] : i \in DOMAIN l}) /\ \A i \in DOMAIN l : isArgument(l[i])

extract_addr(v) ==
    IF v.is = "sock" THEN [is |-> "addr", host |-> canonical[v.host], port |-> v.port]
    ELSE IF v.is = "name_port" /\ v.port # 0 THEN [is |-> "addr", host |-> v.host, port |-> v.port]
    ELSE [is |-> IF v.is \in {"map", "port_only"} THEN "InvalidAddress" ELSE "InvalidPort"]

(* An option's value: what it becomes, or the error. *)
valued(cmd, f, v) ==
    CASE f = "local" /\ cmd = "forward" -> IF v.is = "sock" THEN v ELSE [is |-> "Encoding"]
      [] f = "local" /\ cmd = "tun" -> IF v.is = "ip" THEN v ELSE [is |-> "InvalidAddress"]
      [] f = "map" -> IF v.is = "map" /\ (cmd = "tun" => v.ips) THEN v ELSE [is |-> "InvalidMap"]
      [] OTHER -> v

errors == {"Encoding", "RequiredValue", "InvalidAddress", "InvalidPort", "InvalidMap", "CommandNotFound"}

----------------------------------------------------------------------------
(* One argument after the other.                                           *)

more == outcome = "running" /\ at < Len(line)
arg == line[at + 1]
Fails(e) == outcome' = e /\ UNCHANGED <<phase, conf, sub>>

(* The value a short option finds: its own letters, or the next argument if *)
(* that looks like a value; either way the next one is used up.             *)
looksLikeValue(a) == a.kind = "plain" /\ a.val.is \notin {"empty", "dash"}
found(a, i) ==
    IF i < Len(a.flags) THEN [used |-> 1, val |-> Letters]
    ELSE IF a.val # NoText THEN [used |-> 1, val |-> a.val]
    ELSE IF at + 1 = Len(line) THEN [used |-> 1, val |-> NoText]
    ELSE [used |-> 2, val |-> IF looksLikeValue(line[at + 2]) THEN line[at + 2].val ELSE NoText]

(* The first option of a cluster that takes a value ends it. *)
firstOf(a, F) == Min({i \in DOMAIN a.flags : a.flags[i] \in F} \cup {Len(a.flags) + 1})

toggled(a, i) == {a.flags[j] : j \in 1..(i - 1)} \cap toggles[phase]

GlobalLong ==
    /\ more /\ phase = "global" /\ arg.kind = "long" /\ at' = at + 1
    /\ IF arg.flags[1] = "config"
       THEN IF arg.val = NoText THEN Fails("RequiredValue")
            ELSE conf' = arg.val /\ UNCHANGED <<phase, sub, outcome>>
       ELSE Fails(IF arg.flags[1] \in {"help", "version"} THEN "help" ELSE "CommandNotFound")
    /\ UNCHANGED <<line, begun>>

GlobalShort ==
    /\ more /\ phase = "global" /\ arg.kind = "short"
    /\ LET i == firstOf(arg, {"config", "help"})
           v == found(arg, i)
       IN IF i > Len(arg.flags) THEN at' = at + 1 /\ UNCHANGED <<phase, conf, sub, outcome>>
          ELSE IF arg.flags[i] = "help" THEN at' = at + 1 /\ Fails("help")
          ELSE /\ at' = at + v.used
               /\ IF v.used = 1 /\ v.val = NoText THEN Fails("RequiredValue")
                  ELSE conf' = v.val /\ UNCHANGED <<phase, sub, outcome>>
    /\ UNCHANGED <<line, begun>>

(* A command may be cut short: any beginning of its name will do. *)
ChoosesCommand ==
    /\ more /\ phase = "global" /\ arg.kind = "plain" /\ at' = at + 1 /\ begun' = at + 1
    /\ IF arg.val.is = "word" /\ arg.val.host \in Commands
       THEN phase' = arg.val.host /\ UNCHANGED <<conf, sub, outcome>>
       ELSE Fails("CommandNotFound")
    /\ UNCHANGED line

\* Mutant of keepsFirst: every command keeps the first name it is given.
keepsFirst_all(cmd) == TRUE

(* Two commands keep the first --name they see. *)
keepsFirst(cmd) == cmd \in {"connect", "proxy"}

sets(f, v) ==
    LET x == valued(phase, f, v)
    IN IF x.is \in errors THEN Fails(x.is)
       ELSE sub' = [sub EXCEPT ![f] = x] /\ UNCHANGED <<phase, conf, outcome>>

SubLong ==
    /\ more /\ phase \in Commands /\ arg.kind = "long" /\ at' = at + 1
    /\ LET f == arg.flags[1]
       IN IF f \in takes[phase]
          THEN IF f = "name" /\ keepsFirst(phase) /\ sub.name.is \notin {"none", "empty"}
               THEN UNCHANGED <<phase, conf, sub, outcome>>
               ELSE IF arg.val = NoText THEN Fails("RequiredValue") ELSE sets(f, arg.val)
          ELSE IF f = "help" THEN Fails("help")
          ELSE /\ sub' = [sub EXCEPT !.on = @ \cup toggled(arg, 2)]
               /\ UNCHANGED <<phase, conf, outcome>>
    /\ UNCHANGED <<line, begun>>

SubShort ==
    /\ more /\ phase \in Commands /\ arg.kind = "short"
    /\ LET i == firstOf(arg, takes[phase] \cup {"help"})
           on == sub.on \cup toggled(arg, i)
           v == found(arg, i)
       IN IF i > Len(arg.flags)
          THEN at' = at + 1 /\ sub' = [sub EXCEPT !.on = on] /\ UNCHANGED <<phase, conf, outcome>>
          ELSE IF arg.flags[i] = "help" THEN at' = at + 1 /\ Fails("help")
          ELSE LET f == arg.flags[i]
                   x == valued(phase, f, v.val)
               IN /\ at' = at + v.used
                  /\ IF v.val = NoText THEN Fails(IF f = "name" THEN "Encoding" ELSE "RequiredValue")
                     ELSE IF x.is \in errors THEN Fails(x.is)
                     ELSE sub' = [sub EXCEPT ![f] = x, !.on = on] /\ UNCHANGED <<phase, conf, outcome>>
    /\ UNCHANGED <<line, begun>>

SubPlain ==
    /\ more /\ phase \in Commands /\ arg.kind = "plain" /\ at' = at + 1
    /\ IF phase \in {"forward", "connect"}
       THEN LET x == IF looksLikeValue(arg) THEN extract_addr(arg.val) ELSE [is |-> "Encoding"]
            IN IF x.is \in errors THEN Fails(x.is)
               ELSE sub' = [sub EXCEPT !.remote = x] /\ UNCHANGED <<phase, conf, outcome>>
       ELSE IF phase = "proxy"
       THEN IF arg.val.is = "sock"
            THEN sub' = [sub EXCEPT !.local = arg.val] /\ UNCHANGED <<phase, conf, outcome>>
            ELSE Fails("Encoding")
       ELSE UNCHANGED <<phase, conf, sub, outcome>>
    /\ UNCHANGED <<line, begun>>

complete(cmd, s) ==
    /\ cmd = "list" \/ s.name.is \notin {"none", "empty"}
    /\ cmd \in {"forward", "connect"} => s.remote # NoText

Ends ==
    /\ outcome = "running" /\ at = Len(line)
    /\ outcome' = IF phase = "global" THEN "help"
                  ELSE IF complete(phase, sub) THEN "ok" ELSE "RequiredValue"
    /\ UNCHANGED <<line, at, begun, phase, conf, sub>>

CommandNext ==
    \/ GlobalLong \/ GlobalShort \/ ChoosesCommand
    \/ SubLong \/ SubShort \/ SubPlain \/ Ends

CommandSpec == CommandInit /\ [][CommandNext]_cmdline

----------------------------------------------------------------------------
(* What the client is to do (Instruction, in the terms of the module       *)
(* Client).  `list' and `shell' carry no connection of their own.           *)

determine(on) ==
    IF ("direct" \in on) = ("relay" \in on) THEN "mixed"
    ELSE IF "direct" \in on THEN "direct" ELSE "relay"

asksDirect(cmd, on) ==
    "direct" \in on \/ (cmd # "forward" /\ "relay" \notin on)

instruction(cmd, s) ==
    [mode |-> determine(s.on), asks |-> asksDirect(cmd, s.on), once |-> cmd = "connect",
     wait |-> cmd = "connect" \/ determine(s.on) = "direct"]

carries(cmd) == cmd \in {"forward", "connect", "proxy", "tun"}

----------------------------------------------------------------------------
(* Properties.                                                             *)

CommandTypeOK ==
    /\ at \in 0..Len(line)
    /\ phase \in {"global", "started"} \cup Commands
    /\ outcome \in {"running", "ok", "help"} \cup errors
    /\ phase \in Commands => sub.on \subseteq toggles[phase]
    /\ \A f \in {"name", "key", "local", "map"} :
          sub[f] # NoText => f \in takes[phase] \/ (f = "local" /\ phase = "proxy")

(* A connection that is to wait for the direct channel belongs to a client  *)
(* that asks for it, so that there is something to wait for: what Client    *)
(* assumes of its commands (TransportInstruction::determine and the manage  *)
(* part of Instruction::from).                                              *)
WaitsForWhatItAsks ==
    outcome = "ok" /\ carries(phase) =>
        LET i == instruction(phase, sub) IN i.wait /\ i.mode # "relay" => i.asks

(* Options are taken from the line whatever their form and order: each has  *)
(* the value that was given last, but connect and proxy keep the first      *)
(* --name that is not empty unless there is a -n (Args::parse).             *)
asked(i) == i \in DOMAIN line /\ firstOf(line[i], takes[phase]) <= Len(line[i].flags)
givenFlag(i) == line[i].flags[firstOf(line[i], takes[phase])]
givenValue(i) ==
    IF firstOf(line[i], takes[phase]) < Len(line[i].flags) THEN Letters
    ELSE IF line[i].val # NoText THEN line[i].val ELSE line[i + 1].val
givers(f) == {i \in DOMAIN line : i > begun /\ asked(i) /\ givenFlag(i) = f}
shorts(f) == {i \in givers(f) : line[i].kind = "short"}
says(f) == {i \in givers(f) : line[i].val.is \notin {"none", "empty"}}
ValuesAsGiven ==
    outcome = "ok" /\ phase \in Commands =>
        \A f \in takes[phase] :
            sub[f] = IF givers(f) = {} THEN NoText
                     ELSE IF f = "name" /\ phase \in {"connect", "proxy"}
                     THEN givenValue(IF shorts(f) = {} THEN Min(says(f)) ELSE Max(shorts(f)))
                     ELSE givenValue(Max(givers(f)))

(* A forward or a connect has somewhere to go: a port that is not zero, but *)
(* for an address that was typed as one; and the address is written as the  *)
(* agent will write it, so that both sign the same (extract_addr).          *)
RemoteUsable ==
    outcome = "ok" /\ phase \in {"forward", "connect"} =>
        /\ sub.remote.is = "addr"
        /\ sub.remote.port = 0 => sub.remote.host \in DOMAIN canonical
        /\ sub.remote.host \in DOMAIN canonical => sub.remote.host = canonical[sub.remote.host]

(* What a client is told at every moment: the four above. *)
CommandInv == CommandTypeOK /\ WaitsForWhatItAsks /\ ValuesAsGiven /\ RemoteUsable

(* Of the arguments that were read, an option holds the last that names it; *)
(* a name that is kept holds the last of the short options, or else the     *)
(* first that is not empty.                                                 *)
given(f) == {i \in givers(f) : i <= at}
latest(S) == {i \in S : \A j \in S : j <= i}
earliest(S) == {i \in S : \A j \in S : i <= j}
ToldLast(f) ==
    /\ given(f) = {} => sub[f] = NoText
    /\ \A i \in latest(given(f)) : sub[f] = givenValue(i)
ToldFirst ==
    LET short == given("name") \cap shorts("name")
        said == given("name") \cap says("name")
    IN /\ given("name") = {} => sub.name = NoText
       /\ \A i \in latest(short) : sub.name = givenValue(i)
       /\ short = {} => \A i \in earliest(said) : sub.name = givenValue(i)
       /\ short \cup said = {} <=> sub.name.is \in {"none", "empty"}
Told ==
    phase \in Commands /\ outcome \in {"running", "ok"} =>
        \A f \in takes[phase] : IF f = "name" /\ keepsFirst(phase) THEN ToldFirst ELSE ToldLast(f)

(* Where the parser is, and what it has when it is done. *)
Progress ==
    /\ line \in Seq({line[i] : i \in DOMAIN line}) /\ \A i \in DOMAIN line : isArgument(line[i])
    /\ begun \in 0..at
    /\ sub = [on |-> sub.on, name |-> sub.name, key |-> sub.key, local |-> sub.local, map |-> sub.map,
              remote |-> sub.remote]
    /\ phase \notin Commands => sub = Untold
    /\ outcome = "ok" /\ phase \in Commands => at = Len(line) /\ complete(phase, sub)
    /\ phase = "started" => outcome = "ok"
    /\ phase = "global" => outcome # "ok"

RemoteTold ==
    \/ sub.remote = NoText
    \/ /\ sub.remote.is = "addr"
       /\ sub.remote.port = 0 => sub.remote.host \in DOMAIN canonical
       /\ sub.remote.host \in DOMAIN canonical => sub.remote.host = canonical[sub.remote.host]

CommandIInv == CommandTypeOK /\ Progress /\ RemoteTold /\ Told
=============================================================================
