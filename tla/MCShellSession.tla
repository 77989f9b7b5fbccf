--------------------------- MODULE MCShellSession ---------------------------
(***************************************************************************)
(* A session for TLC: keys to jam the relay and to clog the PTY, and a     *)
(* change of the size among them.                                          *)
(***************************************************************************)
EXTENDS ShellSession

MCEvents == <<"key", "key", "key", "resize", "key", "key">>
=============================================================================
