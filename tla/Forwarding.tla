----------------------------- MODULE Forwarding -----------------------------
(***************************************************************************)
(* The way of a connection's bytes from the user to the host and back:     *)
(* links (TCP, web sockets, QUIC streams) joined by hops, which are the    *)
(* forwarding tasks of the programs.                                       *)
(*                                                                         *)
(*   "copy"   async_forward (sra-network/src/lib.rs), in the client and in *)
(*            the agent: two copies, each with a buffer, in one select!    *)
(*   "bridge" ConnectionData::serve and stream_forward, in the gateway:    *)
(*            one message at a time, of either direction                   *)
(*   "web"    the same for a published host (TlsTransparent): to its left  *)
(*            is the TCP socket of a browser, which AsyncToStream           *)
(*            (async_tools.rs) makes a sink of messages                    *)
(*                                                                         *)
(* A byte is its number in its direction.  Links keep the order of bytes   *)
(* and hold Cap of them a direction; the boundaries of messages are left   *)
(* open.  Shutting a sink down is immediate.                               *)
(***************************************************************************)
EXTENDS Integers, Sequences, SequencesExt

CONSTANTS
    Rows,       \* rows of hops, each by the kinds of its hops from left to right
    Bytes,      \* how many bytes each end has to send
    Cap,        \* bound: bytes on a link in one direction
    BufCap,     \* bound: bytes in the buffer of a copy
    Chunk,      \* bound: bytes of a message
    MaxWritten  \* bound: bytes written to a browser, those that come again included

Kind == {"copy", "bridge", "web"}
End == {"user", "host"}
Dir == {"right", "left"}

\* A browser is at the head of the row.
ASSUME RowsAssumption ==
    /\ Rows \subseteq Seq(Kind) \ {<<>>}
    /\ \A r \in Rows : \A h \in DOMAIN r : r[h] = "web" => h = 1
ASSUME BoundsAssumption ==
    /\ Bytes \in [End -> Nat]
    /\ Cap \in Nat \ {0} /\ BufCap \in Nat \ {0} /\ Chunk \in 1 .. Cap
    /\ MaxWritten \in Nat

VARIABLES
    row,        \* the kinds of this connection's hops
    wire,       \* wire[l][d]: the bytes on link l in direction d
    ended,      \* ended[l][d]: nothing more is written to it
    deaf,       \* deaf[l][d]: nobody reads it any more
    pc,         \* pc[h]: what a hop does; bridges first await their sockets
    held,       \* held[h][d]: a copy's buffer, or the message being sent
    some,       \* some[h][d]: the copy under way has copied something
    sent, got,  \* of each end
    cut,        \* sockets were lost before the gateway bridged them
    good        \* history: what had been written to the browser when a message met a
                \* socket that did not take it whole, or Whole

Hop == 1 .. Len(row)
Link == 0 .. Len(row)
Whole == -1

links == <<wire, ended, deaf>>
hops == <<pc, held, some>>
ends == <<sent, got, cut, good>>
path == <<row, links, hops, ends>>

Other(d) == CHOOSE o \in Dir : o # d

\* Where hop h reads, and writes, the bytes of direction d.
In(h, d) == IF d = "right" THEN h - 1 ELSE h
Out(h, d) == IF d = "right" THEN h ELSE h - 1

\* The link of an end and the direction in which it sends.
LinkOf(e) == IF e = "user" THEN 0 ELSE Len(row)
Sends(e) == IF e = "user" THEN "right" ELSE "left"

Room(l, d) == Cap - Len(wire[l][d])
Put(l, d, bytes) == wire' = [wire EXCEPT ![l][d] = @ \o bytes]
\* The stream has ended and what was on the way has been read.
Eof(l, d) == wire[l][d] = <<>> /\ ended[l][d]

PathInit ==
    /\ row \in Rows
    /\ wire = [l \in Link |-> [d \in Dir |-> <<>>]]
    /\ ended = [l \in Link |-> [d \in Dir |-> FALSE]]
    /\ deaf = [l \in Link |-> [d \in Dir |-> FALSE]]
    /\ pc = [h \in Hop |-> CASE row[h] = "copy" -> "forward"
                              [] row[h] = "bridge" -> "await_client"
                              [] row[h] = "web" -> "await_agent"]
    /\ held = [h \in Hop |-> [d \in Dir |-> <<>>]]
    /\ some = [h \in Hop |-> [d \in Dir |-> FALSE]]
    /\ sent = [e \in End |-> 0]
    /\ got = [e \in End |-> <<>>]
    /\ cut = FALSE /\ good = Whole

-----------------------------------------------------------------------------
(* The ends.                                                               *)

EndSends(e) ==
    /\ sent[e] < Bytes[e] /\ Room(LinkOf(e), Sends(e)) > 0
    /\ ~ended[LinkOf(e)][Sends(e)] /\ ~deaf[LinkOf(e)][Sends(e)]
    /\ sent' = [sent EXCEPT ![e] = @ + 1]
    /\ Put(LinkOf(e), Sends(e), <<sent[e] + 1>>)
    /\ UNCHANGED <<row, ended, deaf, hops, got, cut, good>>

EndReads(e) ==
    LET l == LinkOf(e)  d == Other(Sends(e))
    IN  /\ wire[l][d] # <<>>
        /\ got' = [got EXCEPT ![e] = Append(@, Head(wire[l][d]))]
        /\ wire' = [wire EXCEPT ![l][d] = Tail(@)]
        /\ UNCHANGED <<row, ended, deaf, hops, sent, cut, good>>

\* The end closes its half and goes on reading.
EndCloses(e) ==
    /\ ~ended[LinkOf(e)][Sends(e)]
    /\ ended' = [ended EXCEPT ![LinkOf(e)][Sends(e)] = TRUE]
    /\ UNCHANGED <<row, wire, deaf, hops, ends>>

\* The end is gone, or its link is broken.
EndGoes(e) ==
    LET l == LinkOf(e)  d == Other(Sends(e))
    IN  /\ ~deaf[l][d]
        /\ ended' = [ended EXCEPT ![l][Sends(e)] = TRUE]
        /\ deaf' = [deaf EXCEPT ![l][d] = TRUE]
        /\ wire' = [wire EXCEPT ![l][d] = <<>>]
        /\ UNCHANGED <<row, hops, ends>>

-----------------------------------------------------------------------------
(* Both kinds of forwarding end by dropping their sockets: nothing more is *)
(* written to either link, and nothing more read.                          *)

\* Mutant of Drops: the stream to the left is not shut down.
Drops_half(h) == ended' = [ended EXCEPT ![h]["right"] = TRUE] /\ UNCHANGED <<wire, deaf>>

Drops(h) ==
    /\ ended' = [l \in Link |-> [d \in Dir |-> ended[l][d] \/ l = Out(h, d)]]
    /\ deaf' = [l \in Link |-> [d \in Dir |-> deaf[l][d] \/ l = In(h, d)]]
    /\ wire' = [l \in Link |-> [d \in Dir |->
                    IF l = In(h, d) THEN <<>> ELSE wire[l][d]]]

Returns(h) ==
    /\ pc' = [pc EXCEPT ![h] = "returned"]
    /\ held' = [held EXCEPT ![h] = [d \in Dir |-> <<>>]]
    /\ some' = [some EXCEPT ![h] = [d \in Dir |-> FALSE]]
    /\ Drops(h)
    /\ UNCHANGED <<row, ends>>

forwards(h) == pc[h] = "forward"
copies(h) == forwards(h) /\ row[h] = "copy"

\* A write to a peer that has gone fails, and `?' returns the error.
WriteFails(h) ==
    \E d \in Dir :
        /\ forwards(h) /\ held[h][d] # <<>> /\ deaf[Out(h, d)][d]
        /\ Returns(h)

\* So does a read, when the peer has gone with bytes unread.
ReadFails(h) ==
    \E d \in Dir :
        /\ forwards(h)
        /\ ended[In(h, d)][d] /\ deaf[In(h, d)][Other(d)]
        /\ Returns(h)

-----------------------------------------------------------------------------
(* async_forward: two tokio::io::copy in a loop around select!.            *)

CopyReads(h, d) ==
    LET l == In(h, d)
    IN  /\ copies(h) /\ wire[l][d] # <<>> /\ Len(held[h][d]) < BufCap
        /\ held' = [held EXCEPT ![h][d] = Append(@, Head(wire[l][d]))]
        /\ wire' = [wire EXCEPT ![l][d] = Tail(@)]
        /\ some' = [some EXCEPT ![h][d] = TRUE]
        /\ UNCHANGED <<row, ended, deaf, pc, ends>>

CopyWrites(h, d) ==
    /\ copies(h) /\ held[h][d] # <<>>
    /\ Room(Out(h, d), d) > 0 /\ ~deaf[Out(h, d)][d]
    /\ Put(Out(h, d), d, <<Head(held[h][d])>>)
    /\ held' = [held EXCEPT ![h][d] = Tail(@)]
    /\ UNCHANGED <<row, ended, deaf, pc, some, ends>>

\* A copy ends when it reads the end of its stream and its buffer is empty.
CopyDone(h, d) == copies(h) /\ held[h][d] = <<>> /\ Eof(In(h, d), d)

\* It had copied something: select! drops the other copy, with what is in its
\* buffer, and the loop starts both again.
CopiedSome(h, d) ==
    /\ CopyDone(h, d) /\ some[h][d]
    /\ held' = [held EXCEPT ![h] = [o \in Dir |-> <<>>]]
    /\ some' = [some EXCEPT ![h] = [o \in Dir |-> FALSE]]
    /\ UNCHANGED <<row, links, pc, ends>>

\* It had copied nothing: both sockets are shut down.
CopiedNothing(h, d) == CopyDone(h, d) /\ ~some[h][d] /\ Returns(h)

-----------------------------------------------------------------------------
(* serve: the upgrades of the two sockets, then stream_forward.            *)

ClientUpgraded(h) ==
    /\ pc[h] = "await_client"
    /\ pc' = [pc EXCEPT ![h] = "await_agent"]
    /\ UNCHANGED <<row, links, held, some, ends>>

AgentUpgraded(h) ==
    /\ pc[h] = "await_agent"
    /\ pc' = [pc EXCEPT ![h] = "forward"]
    /\ UNCHANGED <<row, links, held, some, ends>>

\* "Client Connection gone", "Agent Connection gone": both are dropped.
UpgradeFails(h) ==
    /\ pc[h] \in {"await_client", "await_agent"}
    /\ pc' = [pc EXCEPT ![h] = "returned"]
    /\ cut' = TRUE
    /\ Drops(h)
    /\ UNCHANGED <<row, held, some, sent, got, good>>

\* The loop of stream_forward reads again when the last message is sent.
bridges(h) == forwards(h) /\ row[h] # "copy"
idle(h) == bridges(h) /\ \A d \in Dir : held[h][d] = <<>>

TakesMessage(h, d) ==
    LET l == In(h, d)
    IN  /\ idle(h)
        /\ \E k \in 1 .. Chunk :
              /\ k <= Len(wire[l][d])
              /\ held' = [held EXCEPT ![h][d] = SubSeq(wire[l][d], 1, k)]
              /\ wire' = [wire EXCEPT ![l][d] = SubSeq(@, k + 1, Len(@))]
        /\ UNCHANGED <<row, ended, deaf, pc, some, ends>>

\* Messages to a browser go through AsyncToStream.
pushes(h, d) == bridges(h) /\ row[h] = "web" /\ d = "left"

\* Mutant of SendsMessage: the message is kept until the next one comes.
SendsMessage_again(h, d) ==
    /\ bridges(h) /\ ~pushes(h, d) /\ held[h][d] # <<>>
    /\ Len(held[h][d]) <= Room(Out(h, d), d) /\ ~deaf[Out(h, d)][d]
    /\ Put(Out(h, d), d, held[h][d])
    /\ UNCHANGED <<row, ended, deaf, hops, ends>>

\* The sink is flushed: the message is out.
SendsMessage(h, d) ==
    /\ bridges(h) /\ ~pushes(h, d) /\ held[h][d] # <<>>
    /\ Len(held[h][d]) <= Room(Out(h, d), d) /\ ~deaf[Out(h, d)][d]
    /\ Put(Out(h, d), d, held[h][d])
    /\ held' = [held EXCEPT ![h][d] = <<>>]
    /\ UNCHANGED <<row, ended, deaf, pc, some, ends>>

(* AsyncToStream writes a message until the socket takes the whole of it in *)
(* one write: after a part it writes all of it again, and when the socket   *)
(* is full it has forgotten it.  Either way the message counts as sent.    *)

torn == good # Whole
written == Len(got["user"]) + Len(wire[0]["left"])

PushesAll(h) ==
    /\ pushes(h, "left") /\ held[h]["left"] # <<>> /\ ~deaf[Out(h, "left")]["left"]
    /\ Len(held[h]["left"]) <= Room(Out(h, "left"), "left")
    /\ Put(Out(h, "left"), "left", held[h]["left"])
    /\ held' = [held EXCEPT ![h]["left"] = <<>>]
    /\ UNCHANGED <<row, ended, deaf, pc, some, ends>>

PushesSome(h) ==
    LET room == Room(Out(h, "left"), "left")
    IN  /\ pushes(h, "left") /\ ~deaf[Out(h, "left")]["left"]
        /\ room \in 1 .. Len(held[h]["left"]) - 1 /\ written + room <= MaxWritten
        /\ Put(Out(h, "left"), "left", SubSeq(held[h]["left"], 1, room))
        /\ good' = IF torn THEN good ELSE written + room
        /\ UNCHANGED <<row, ended, deaf, hops, sent, got, cut>>

Forgets(h) ==
    /\ pushes(h, "left") /\ held[h]["left"] # <<>> /\ ~deaf[Out(h, "left")]["left"]
    /\ Room(Out(h, "left"), "left") = 0
    /\ held' = [held EXCEPT ![h]["left"] = <<>>]
    /\ good' = IF torn THEN good ELSE written
    /\ UNCHANGED <<row, links, pc, some, sent, got, cut>>

\* One stream has ended: both sinks are closed.
StreamEnds(h, d) == idle(h) /\ Eof(In(h, d), d) /\ Returns(h)

-----------------------------------------------------------------------------
HopSteps(h) ==
    \/ \E d \in Dir : \/ CopyReads(h, d) \/ CopyWrites(h, d)
                      \/ CopiedSome(h, d) \/ CopiedNothing(h, d)
                      \/ TakesMessage(h, d) \/ SendsMessage(h, d)
                      \/ StreamEnds(h, d)
    \/ PushesAll(h) \/ PushesSome(h) \/ Forgets(h)
    \/ WriteFails(h) \/ ReadFails(h)
    \/ ClientUpgraded(h) \/ AgentUpgraded(h)

PathNext ==
    \/ \E h \in Hop : HopSteps(h) \/ UpgradeFails(h)
    \/ \E e \in End : EndSends(e) \/ EndReads(e) \/ EndCloses(e) \/ EndGoes(e)

PathSpec == PathInit /\ [][PathNext]_path

\* Tasks that are woken run, and the ends read.  Every step uses up a byte, a
\* stream or a task, so it does not matter which branch of a select! is taken
\* first: as long as some step is possible, one is taken.
FairPathSpec ==
    /\ PathSpec
    /\ WF_path(\E h \in Hop : HopSteps(h))
    /\ WF_path(\E e \in End : EndReads(e))

-----------------------------------------------------------------------------
(* The path implements a two-way stream: while neither end has closed or   *)
(* gone, the forwarding tasks lose, repeat and reorder nothing and deliver *)
(* everything, and afterwards they repeat and reorder nothing.  For a      *)
(* browser this holds of what was written before a message first met a      *)
(* socket that did not take it whole: from there on bytes are missing or   *)
(* come twice (AsyncToStream::poll_ready).                                 *)
closedBy(e) == ended[LinkOf(e)][Sends(e)]
isOver == cut \/ torn \/ \E e \in End : closedBy(e)
upTo(s, n) == IF Len(s) > n THEN SubSeq(s, 1, n) ELSE s
intact == [got EXCEPT !["user"] = IF torn THEN upTo(@, good) ELSE @]
Promise == INSTANCE TwoWayStream WITH got <- intact, over <- isOver
TwoWay == Promise!StreamSpec

(* The end of one end reaches the other, and no forwarding task stays      *)
(* behind with half of a connection: each of them drops both its sockets   *)
(* when it returns, for whatever reason, and its neighbours notice.        *)
EndsTogether ==
    \A e \in End : closedBy(e) ~> \A f \in End : ended[LinkOf(f)][Other(Sends(f))]

-----------------------------------------------------------------------------
(* Why the path keeps the promise.  The bytes of a direction are where they *)
(* are still to be sent, on links, in hops, or read; carried(d) is what is  *)
(* in each place.  Of what a browser gets only the intact part counts.      *)

PathTypeOK ==
    /\ row \in Rows
    /\ wire \in [Link -> [Dir -> Seq(Nat)]]
    /\ ended \in [Link -> [Dir -> BOOLEAN]] /\ deaf \in [Link -> [Dir -> BOOLEAN]]
    /\ pc \in [Hop -> {"await_client", "await_agent", "forward", "returned"}]
    /\ held \in [Hop -> [Dir -> Seq(Nat)]] /\ some \in [Hop -> [Dir -> BOOLEAN]]
    /\ sent \in [End -> Nat] /\ \A e \in End : sent[e] <= Bytes[e]
    /\ got \in [End -> Seq(Nat)]
    /\ cut \in BOOLEAN /\ good \in Nat \cup {Whole}

Sender(d) == IF d = "right" THEN "user" ELSE "host"
Receiver(d) == IF d = "right" THEN "host" ELSE "user"

Place == {<<"start", 0>>, <<"end", 0>>} \cup {"link"} \X Link \cup {"hop"} \X Hop

\* How far along the way d a byte in place x is.
far(d, x) ==
    CASE x[1] = "start" -> 0
      [] x[1] = "end" -> 2 * Len(row) + 2
      [] x[1] = "link" -> IF d = "right" THEN 2 * x[2] + 1 ELSE 2 * (Len(row) - x[2]) + 1
      [] x[1] = "hop" -> IF d = "right" THEN 2 * x[2] ELSE 2 * (Len(row) + 1 - x[2])
stage(d) == [x \in Place |-> far(d, x)]

tornWay(d) == torn /\ d = "left"
toSend(m, n) == [i \in 1 .. n - m |-> m + i]
contents(d, x) ==
    CASE x[1] = "start" -> toSend(sent[Sender(d)], Bytes[Sender(d)])
      [] x[1] = "end" -> intact[Receiver(d)]
      [] x[1] = "link" -> IF ~tornWay(d) THEN wire[x[2]][d]
                          ELSE IF x[2] = 0 THEN upTo(wire[0][d], good - Len(got["user"])) ELSE <<>>
      [] x[1] = "hop" -> IF ~tornWay(d) THEN held[x[2]][d] ELSE <<>>
carried(d) == [x \in Place |-> contents(d, x)]

\* What is further along is smaller.
InLine(c, r) ==
    \A x, y \in DOMAIN c : \A i \in DOMAIN c[x], j \in DOMAIN c[y] :
        r[x] > r[y] \/ (x = y /\ i < j) => c[x][i] < c[y][j]
Within(c, n) == \A x \in DOMAIN c : \A i \in DOMAIN c[x] : c[x][i] \in 1 .. n
AllThere(c, n) == \A b \in 1 .. n : \E x \in DOMAIN c : \E i \in DOMAIN c[x] : c[x][i] = b

\* A stream ends, and what nobody reads is lost, only when the connection is over;
\* what was written to a browser does not get less.
Standing ==
    /\ \A l \in Link, d \in Dir : ended[l][d] \/ deaf[l][d] => isOver
    /\ \A l \in Link, d \in Dir : deaf[l][d] => wire[l][d] = <<>>
    /\ torn /\ ~deaf[0]["left"] => written >= good

PathIInv ==
    /\ PathTypeOK /\ Standing
    /\ \A d \in Dir : /\ InLine(carried(d), stage(d))
                      /\ Within(carried(d), Bytes[Sender(d)])
                      /\ ~isOver => AllThere(carried(d), Bytes[Sender(d)])

(* The safety part of TwoWay. *)
TwoWaySafe == Promise!StreamInit /\ [][Promise!StreamNext]_(Promise!stream)

=============================================================================
