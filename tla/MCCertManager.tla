--------------------------- MODULE MCCertManager ---------------------------
(***************************************************************************)
(* Instances of CertManager for TLC.                                       *)
(***************************************************************************)
EXTENDS CertManager

CONSTANTS u1, n1, n2

\* Two agents of one user.
TwoAgents == {<<u1, n1>>, <<u1, n2>>}

=============================================================================
