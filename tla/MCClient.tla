------------------------------ MODULE MCClient ------------------------------
(***************************************************************************)
(* Instances of Client for TLC: the command lines of args.rs, as far as    *)
(* they differ here.                                                       *)
(***************************************************************************)
EXTENDS Client, TLC

line(mode, wait, asks, once) == [mode |-> mode, wait |-> wait, asks |-> asks, once |-> once]

Relay == line("relay", FALSE, FALSE, FALSE)
Forward == line("mixed", FALSE, FALSE, FALSE)
Proxy == line("mixed", FALSE, TRUE, FALSE)
Connect == line("mixed", TRUE, TRUE, TRUE)
DirectProxy == line("direct", TRUE, TRUE, FALSE)
DirectConnect == line("direct", TRUE, TRUE, TRUE)

AllCommands == {Relay, Forward, Proxy, Connect, DirectProxy, DirectConnect}
=============================================================================
