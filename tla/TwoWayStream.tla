---------------------------- MODULE TwoWayStream ----------------------------
(***************************************************************************)
(* What a forwarded connection promises its two ends.  While it stands,    *)
(* each end receives the bytes of the other in order, none missing and     *)
(* none twice, and all of them in the end.  Once it is over (an end closed *)
(* its half or went, or the gateway lost a socket before it bridged them)  *)
(* bytes may be missing, but what still arrives is in order and not        *)
(* repeated.                                                               *)
(*                                                                         *)
(* A byte is its number in its direction.                                  *)
(***************************************************************************)
EXTENDS Integers, Sequences

CONSTANTS
    End,        \* the two ends
    Bytes       \* Bytes[e]: how many bytes e has to send, a number

VARIABLES
    sent,       \* sent[e]: the number of bytes e has sent
    got,        \* got[e]: the bytes e has received
    over        \* the connection no longer stands

stream == <<sent, got, over>>

last(e) == IF got[e] = <<>> THEN 0 ELSE got[e][Len(got[e])]

StreamInit ==
    /\ sent = [e \in End |-> 0]
    /\ got = [e \in End |-> <<>>]
    /\ over = FALSE

Send(e) ==
    /\ sent[e] < Bytes[e]
    /\ sent' = [sent EXCEPT ![e] = @ + 1]
    /\ UNCHANGED <<got, over>>

Receive(e, byte) ==
    /\ got' = [got EXCEPT ![e] = Append(@, byte)]
    /\ UNCHANGED <<sent, over>>

\* The next byte of another end arrives.
Deliver(e) ==
    \E f \in End \ {e} : last(e) < sent[f] /\ Receive(e, last(e) + 1)

\* After the end, bytes may have been lost in between.
DeliverLater(e) ==
    /\ over
    /\ \E f \in End \ {e} : \E byte \in last(e) + 1 .. sent[f] : Receive(e, byte)

Finish == ~over /\ over' = TRUE /\ UNCHANGED <<sent, got>>

StreamNext ==
    \/ \E e \in End : Send(e) \/ Deliver(e) \/ DeliverLater(e)
    \/ Finish

StreamSpec ==
    /\ StreamInit /\ [][StreamNext]_stream
    /\ \A e \in End : WF_stream(~over /\ Deliver(e))

=============================================================================
