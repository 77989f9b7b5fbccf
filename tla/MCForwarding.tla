---------------------------- MODULE MCForwarding ----------------------------
(***************************************************************************)
(* Instances of Forwarding for TLC.                                        *)
(***************************************************************************)
EXTENDS Forwarding

\* Client, gateway and agent of a relayed connection; gateway and agent of a
\* published host, whose answers are longer than its questions.
MCRows == {<<"copy", "bridge", "copy">>, <<"web", "copy">>}

OneAndThree == [user |-> 1, host |-> 3]
=============================================================================
