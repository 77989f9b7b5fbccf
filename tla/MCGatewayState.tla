--------------------------- MODULE MCGatewayState ---------------------------
(***************************************************************************)
(* Instances of GatewayState for TLC: the publish maps agents may bring.   *)
(***************************************************************************)
EXTENDS GatewayState, TLC

CONSTANTS u1, d1

Publishing(m) == m @@ NothingPublished

\* One user; agents publish nothing, one port of a domain, or the port and
\* the default port.
PublishesOfOne ==
    (u1 :> {NothingPublished,
            Publishing(<<d1, 443>> :> "TCP"),
            Publishing(<<d1, 443>> :> "TCP" @@ <<d1, 0>> :> "HTTP")})

\* A single agent name is enough for the connections of a client.
PublishesNothing == [u \in Uid |-> {NothingPublished}]

\* Agent names, addresses and ids are interchangeable in the safety runs.
Symmetric == Permutations(Name) \cup Permutations(Addr) \cup Permutations(Session)
             \cup Permutations(Conn)

=============================================================================
