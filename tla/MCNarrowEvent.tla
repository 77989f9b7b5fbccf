--------------------------- MODULE MCNarrowEvent ---------------------------
(***************************************************************************)
(* Instances of NarrowEvent for TLC.                                       *)
(***************************************************************************)
EXTENDS NarrowEvent, TLC

CONSTANTS t1, t2

\* One task asks again while the other is caught in its first call.
OneAndTwo == (t1 :> 1) @@ (t2 :> 2)
=============================================================================
