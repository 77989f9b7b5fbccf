---------------------------- MODULE MCAgentFleet ----------------------------
(***************************************************************************)
(* Instances of AgentFleet for TLC: processes started under one name.      *)
(***************************************************************************)
EXTENDS AgentFleet

CONSTANTS u1, n1

PublishesNothing == [u \in Uid |-> {NothingPublished}]

SameName == [p \in Proc |-> [uid |-> u1, name |-> n1, pub |-> NothingPublished]]

=============================================================================
