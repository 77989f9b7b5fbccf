------------------------- MODULE ShellSession_proofs -------------------------
(***************************************************************************)
(* Theorems about ShellSession: for any events and any capacities, nothing *)
(* that was typed is lost or overtaken between the keyboard and the        *)
(* program, and a session that is over has been reaped.                    *)
(***************************************************************************)
EXTENDS ShellSession, SequenceTheorems, TLAPS

----------------------------------------------------------------------------
(* Sequences of frames.                                                    *)

(* What is in a sequence, and where.                                       *)
LEMMA InSeq ==
    ASSUME NEW S, NEW s \in Seq(S)
    PROVE  /\ Len(s) \in Nat /\ DOMAIN s = 1..Len(s) /\ Range(s) \subseteq S
           /\ \A n : n \in Range(s) <=> \E i \in 1..Len(s) : n = s[i]
<1>1. Len(s) \in Nat /\ DOMAIN s = 1..Len(s) /\ \A i \in 1..Len(s) : s[i] \in S
  OBVIOUS
<1> QED
  BY <1>1 DEF Range

(* Nothing is in order.                                                    *)
LEMMA Emptied ==
    /\ \A S : <<>> \in Seq(S)
    /\ Len(<<>>) = 0 /\ Range(<<>>) = {} /\ Ascending(<<>>)
BY DEF Range, Ascending

(* A frame that is later than all the others may be put behind them.       *)
LEMMA PutLast ==
    ASSUME NEW S, NEW s \in Seq(S), NEW e \in S
    PROVE  /\ Append(s, e) \in Seq(S) /\ Len(Append(s, e)) = Len(s) + 1
           /\ Range(Append(s, e)) = Range(s) \cup {e}
           /\ Ascending(s) /\ (e # Close => \A m \in Range(s) : m < e) => Ascending(Append(s, e))
<1>1. /\ Append(s, e) \in Seq(S) /\ Len(Append(s, e)) = Len(s) + 1
      /\ \A i \in 1..Len(s) : Append(s, e)[i] = s[i]
      /\ Append(s, e)[Len(s) + 1] = e
  OBVIOUS
<1>2. /\ Len(s) \in Nat /\ DOMAIN s = 1..Len(s)
      /\ DOMAIN Append(s, e) = 1..(Len(s) + 1)
      /\ \A i \in 1..Len(s) : s[i] \in Range(s)
  BY <1>1, InSeq
<1>3. Range(s) = {s[i] : i \in 1..Len(s)}
  BY <1>2 DEF Range
<1>4. Range(Append(s, e)) = {Append(s, e)[i] : i \in 1..(Len(s) + 1)}
  BY <1>2 DEF Range
<1>5. Range(Append(s, e)) = Range(s) \cup {e}
  BY <1>1, <1>2, <1>3, <1>4, SMTT(30)
<1>6. ASSUME Ascending(s), e # Close => \A m \in Range(s) : m < e
      PROVE  Ascending(Append(s, e))
  BY <1>1, <1>2, <1>6 DEF Ascending
<1> QED
  BY <1>1, <1>5, <1>6

(* The first frame is earlier than all the others.                         *)
LEMMA TakeFirst ==
    ASSUME NEW S, NEW s \in Seq(S), s # <<>>
    PROVE  /\ Tail(s) \in Seq(S) /\ Head(s) \in S /\ Len(Tail(s)) = Len(s) - 1
           /\ Len(s) \in Nat
           /\ Range(s) = {Head(s)} \cup Range(Tail(s))
           /\ Ascending(s) => /\ Ascending(Tail(s))
                              /\ \A n \in Range(Tail(s)) : n # Close => Head(s) < n
<1>1. /\ Tail(s) \in Seq(S) /\ Head(s) \in S /\ Head(s) = s[1] /\ Len(s) \in Nat /\ Len(s) >= 1
      /\ Len(Tail(s)) = Len(s) - 1 /\ DOMAIN s = 1..Len(s) /\ DOMAIN Tail(s) = 1..(Len(s) - 1)
      /\ \A i \in 1..(Len(s) - 1) : Tail(s)[i] = s[i + 1]
  BY HeadTailProperties, EmptySeq
<1>2. /\ \A n : n \in Range(s) <=> \E i \in 1..Len(s) : n = s[i]
      /\ \A n : n \in Range(Tail(s)) <=> \E i \in 1..(Len(s) - 1) : n = Tail(s)[i]
  BY <1>1 DEF Range
<1>3. ASSUME NEW i \in 1..Len(s) PROVE s[i] \in {Head(s)} \cup Range(Tail(s))
  <2>1. CASE i = 1
    BY <2>1, <1>1
  <2>2. CASE i # 1
    <3>1. i - 1 \in 1..(Len(s) - 1) /\ Tail(s)[i - 1] = s[i]
      BY <1>1, <2>2
    <3> QED
      BY <3>1, <1>2
  <2> QED
    BY <2>1, <2>2
<1>4. ASSUME NEW i \in 1..(Len(s) - 1) PROVE i + 1 \in 1..Len(s) /\ Tail(s)[i] = s[i + 1]
  BY <1>1
<1>5. Range(s) \subseteq {Head(s)} \cup Range(Tail(s))
  BY <1>2, <1>3
<1>6. {Head(s)} \cup Range(Tail(s)) \subseteq Range(s)
  BY <1>1, <1>2, <1>4
<1>7. ASSUME Ascending(s) PROVE Ascending(Tail(s))
  BY <1>1, <1>4, <1>7 DEF Ascending
<1>8. ASSUME Ascending(s), NEW n \in Range(Tail(s)), n # Close PROVE Head(s) < n
  <2>1. PICK i \in 1..(Len(s) - 1) : n = Tail(s)[i]
    BY <1>2
  <2> QED
    BY <2>1, <1>1, <1>4, <1>8 DEF Ascending
<1> QED
  BY <1>1, <1>5, <1>6, <1>7, <1>8

(* What is left of a socket whose owner is killed.                         *)
LEMMA CutShort ==
    ASSUME NEW S, NEW s \in Seq(S), NEW n \in 0..Len(s)
    PROVE  /\ SubSeq(s, 1, n) \in Seq(S) /\ Len(SubSeq(s, 1, n)) <= Len(s)
           /\ Range(SubSeq(s, 1, n)) \subseteq Range(s)
           /\ Ascending(s) => Ascending(SubSeq(s, 1, n))
<1>1. /\ SubSeq(s, 1, n) \in Seq(S) /\ Len(SubSeq(s, 1, n)) = n /\ Len(s) \in Nat
      /\ \A i \in 1..n : SubSeq(s, 1, n)[i] = s[i] /\ i \in 1..Len(s)
  OBVIOUS
<1>2. DOMAIN s = 1..Len(s) /\ DOMAIN SubSeq(s, 1, n) = 1..n
  BY <1>1
<1>3. Range(SubSeq(s, 1, n)) \subseteq Range(s)
  BY <1>1, <1>2 DEF Range
<1>4. Ascending(s) => Ascending(SubSeq(s, 1, n))
  BY <1>1, <1>2 DEF Ascending
<1> QED
  BY <1>1, <1>3, <1>4

(* Two sequences one after the other.                                      *)
LEMMA OneAfterTheOther ==
    ASSUME NEW s \in Seq(Int), NEW t \in Seq(Int)
    PROVE  /\ s \o t \in Seq(Int)
           /\ Range(s \o t) = Range(s) \cup Range(t)
           /\ Ascending(s) /\ Ascending(t) /\ Before(Range(s), Range(t) \ {Close})
                 => Ascending(s \o t)
<1>1. /\ s \o t \in Seq(Int) /\ Len(s \o t) = Len(s) + Len(t) /\ Len(s) \in Nat /\ Len(t) \in Nat
      /\ \A i \in 1..(Len(s) + Len(t)) : (s \o t)[i] = IF i <= Len(s) THEN s[i] ELSE t[i - Len(s)]
  BY ConcatProperties
<1>2. /\ \A i \in 1..Len(s) : i \in 1..(Len(s) + Len(t)) /\ (s \o t)[i] = s[i]
      /\ \A i \in 1..Len(t) : i + Len(s) \in 1..(Len(s) + Len(t)) /\ (s \o t)[i + Len(s)] = t[i]
  BY <1>1
<1>3. \A i \in 1..(Len(s) + Len(t)) : i \in 1..Len(s) \/ i - Len(s) \in 1..Len(t)
  BY <1>1
<1>4. /\ DOMAIN s = 1..Len(s) /\ DOMAIN t = 1..Len(t) /\ DOMAIN (s \o t) = 1..(Len(s) + Len(t))
      /\ \A n : n \in Range(s) <=> \E i \in 1..Len(s) : n = s[i]
      /\ \A n : n \in Range(t) <=> \E i \in 1..Len(t) : n = t[i]
      /\ \A n : n \in Range(s \o t) <=> \E i \in 1..(Len(s) + Len(t)) : n = (s \o t)[i]
  <2>1. DOMAIN s = 1..Len(s) /\ DOMAIN t = 1..Len(t) /\ DOMAIN (s \o t) = 1..(Len(s) + Len(t))
    BY <1>1
  <2> QED
    BY <2>1 DEF Range
<1>5. ASSUME NEW n \in Range(s \o t) PROVE n \in Range(s) \cup Range(t)
  <2>1. PICK i \in 1..(Len(s) + Len(t)) : n = (s \o t)[i]
    BY <1>4
  <2>2. CASE i \in 1..Len(s)
    BY <2>1, <2>2, <1>2, <1>4
  <2>3. CASE i \notin 1..Len(s)
    <3>1. i - Len(s) \in 1..Len(t) /\ n = t[i - Len(s)]
      BY <2>1, <2>3, <1>1
    <3> QED
      BY <3>1, <1>4
  <2> QED
    BY <2>2, <2>3
<1>6. ASSUME NEW n \in Range(s) \cup Range(t) PROVE n \in Range(s \o t)
  <2>1. CASE n \in Range(s)
    BY <2>1, <1>2, <1>4
  <2>2. CASE n \in Range(t)
    <3>1. PICK i \in 1..Len(t) : n = t[i]
      BY <2>2, <1>4
    <3>2. i + Len(s) \in 1..(Len(s) + Len(t)) /\ n = (s \o t)[i + Len(s)]
      BY <3>1, <1>2
    <3> QED
      BY <3>2, <1>4
  <2> QED
    BY <1>6, <2>1, <2>2
<1>7. ASSUME Ascending(s), Ascending(t), Before(Range(s), Range(t) \ {Close})
      PROVE  Ascending(s \o t)
  <2> SUFFICES ASSUME NEW i \in 1..(Len(s) + Len(t)), NEW j \in 1..(Len(s) + Len(t)), i < j,
                      (s \o t)[j] # Close
               PROVE  (s \o t)[i] < (s \o t)[j]
    BY <1>4 DEF Ascending
  <2>1. CASE j <= Len(s)
    <3>1. /\ i \in 1..Len(s) /\ j \in 1..Len(s)
          /\ (s \o t)[i] = s[i] /\ (s \o t)[j] = s[j]
      BY <1>1, <2>1
    <3> QED
      BY <3>1, <1>4, <1>7 DEF Ascending
  <2>2. CASE i > Len(s)
    <3>1. /\ i - Len(s) \in 1..Len(t) /\ j - Len(s) \in 1..Len(t) /\ i - Len(s) < j - Len(s)
          /\ (s \o t)[i] = t[i - Len(s)] /\ (s \o t)[j] = t[j - Len(s)]
      BY <1>1, <2>2
    <3> QED
      BY <3>1, <1>4, <1>7 DEF Ascending
  <2>3. CASE i <= Len(s) /\ j > Len(s)
    <3>1. /\ i \in 1..Len(s) /\ j - Len(s) \in 1..Len(t)
          /\ (s \o t)[i] = s[i] /\ (s \o t)[j] = t[j - Len(s)]
      BY <1>1, <2>3
    <3>2. s[i] \in Range(s) /\ t[j - Len(s)] \in Range(t) \ {Close}
      BY <3>1, <1>4
    <3> QED
      BY <3>1, <3>2, <1>7 DEF Before
  <2> QED
    BY <1>1, <2>1, <2>2, <2>3
<1> QED
  BY <1>1, <1>5, <1>6, <1>7

----------------------------------------------------------------------------
(* The order of places is the order of the whole way.                      *)

(* What a task carries is a sequence of at most one frame.                 *)
LEMMA AtMostOne ==
    ASSUME NEW n \in Nat
    PROVE  /\ one(n) \in Seq(Int) /\ Range(one(n)) = carried(n)
           /\ Ascending(one(n)) /\ Close \notin carried(n)
<1>1. Range(<<>>) = {} /\ Range(<<n>>) = {n}
  BY DEF Range
<1>2. one(n) \in Seq(Int) /\ Ascending(one(n)) /\ Close \notin carried(n)
  BY DEF one, None, Close, Ascending, carried
<1> QED
  BY <1>1, <1>2 DEF one, carried, None

(* What holds of the places holds of the whole way.                        *)
LEMMA OrderOfTheWay ==
    ASSUME SessionIInv PROVE NothingTypedIsLost
<1> DEFINE kb == IF loop = "writes" THEN <<typed>> ELSE <<>>
<1> DEFINE L2 == ptyIn \o one(data)
<1> DEFINE L3 == L2 \o chan
<1> DEFINE L4 == L3 \o one(held)
<1> DEFINE L5 == L4 \o one(hold.up)
<1> DEFINE L6 == L5 \o up
<1>1. /\ L2 = ptyIn \o one(data) /\ L3 = L2 \o chan /\ L4 = L3 \o one(held)
      /\ L5 = L4 \o one(hold.up) /\ L6 = L5 \o up /\ onTheWay = L6 \o kb
  BY DEF onTheWay
<1>2. /\ ptyIn \in Seq(Int) /\ chan \in Seq(Int) /\ up \in Seq(Int) /\ typed \in Nat
      /\ data \in Nat /\ held \in Nat /\ hold.up \in Nat
  <2>1. typed \in Nat /\ ptyIn \in Seq(1..typed) /\ up \in Seq(1..Len(Events))
        /\ chan \in Seq({Close} \cup 1..Len(Events))
    BY EventsAssumption DEF SessionIInv, SessionTypeOK
  <2>2. ptyIn \in Seq(Int) /\ up \in Seq(Int) /\ chan \in Seq(Int)
    BY <2>1, EventsAssumption DEF Close
  <2> QED
    BY <2>1, <2>2 DEF SessionIInv, SessionTypeOK
<1>3. /\ Ascending(ptyIn) /\ Ascending(chan) /\ Ascending(up)
      /\ \A m \in Range(ptyIn), n \in fromData : m < n
      /\ \A m \in carried(data), n \in fromChan : m < n
      /\ \A m \in Range(chan) \ {Close}, n \in fromHeld : m < n
      /\ \A m \in carried(held), n \in fromHold : m < n
      /\ \A m \in carried(hold.up), n \in fromUp : m < n
      /\ \A m \in Range(up), n \in keyboard : m < n
  BY DEF SessionIInv, InOrder, Before
<1>4. /\ keyboard \subseteq fromUp /\ Range(up) \subseteq fromUp
      /\ fromUp \subseteq fromHold /\ carried(hold.up) \subseteq fromHold
      /\ fromHold \subseteq fromHeld /\ carried(held) \subseteq fromHeld
      /\ fromHeld \subseteq fromChan /\ Range(chan) \ {Close} \subseteq fromChan
      /\ fromChan \subseteq fromData /\ carried(data) \subseteq fromData
      /\ \A n \in fromData : Close < n
  BY <1>2 DEF fromUp, fromHold, fromHeld, fromChan, fromData, way, Ahead, SessionIInv, Close
<1>5. kb \in Seq(Int) /\ Range(kb) = keyboard /\ Ascending(kb)
  <2>1. CASE loop = "writes"
    BY <1>2, <2>1 DEF keyboard, Ascending, Range
  <2>2. CASE loop # "writes"
    BY <2>2 DEF keyboard, Ascending, Range
  <2> QED
    BY <2>1, <2>2
<1> HIDE DEF kb, L2, L3, L4, L5, L6
<1>6. \A n \in {data, held, hold.up} :
         one(n) \in Seq(Int) /\ Range(one(n)) = carried(n) /\ Ascending(one(n))
  BY <1>2, AtMostOne
<1>7. L2 \in Seq(Int) /\ Range(L2) = Range(ptyIn) \cup carried(data) /\ Ascending(L2)
  <2>1. Before(Range(ptyIn), Range(one(data)) \ {Close})
    BY <1>3, <1>4, <1>6 DEF Before
  <2> QED
    BY <1>1, <1>2, <1>3, <1>6, <2>1, OneAfterTheOther, ptyIn \in Seq(Int), one(data) \in Seq(Int)
<1>8. L3 \in Seq(Int) /\ Range(L3) = Range(L2) \cup Range(chan) /\ Ascending(L3)
  <2>1. Before(Range(L2), Range(chan) \ {Close})
    BY <1>3, <1>4, <1>7 DEF Before
  <2> QED
    BY <1>1, <1>2, <1>3, <1>7, <2>1, OneAfterTheOther
<1>9. L4 \in Seq(Int) /\ Range(L4) = Range(L3) \cup carried(held) /\ Ascending(L4)
  <2>1. Before(Range(L3), Range(one(held)) \ {Close})
    BY <1>3, <1>4, <1>6, <1>7, <1>8 DEF Before
  <2> QED
    BY <1>1, <1>6, <1>8, <2>1, OneAfterTheOther
<1>10. L5 \in Seq(Int) /\ Range(L5) = Range(L4) \cup carried(hold.up) /\ Ascending(L5)
  <2>1. Before(Range(L4), Range(one(hold.up)) \ {Close})
    BY <1>3, <1>4, <1>6, <1>7, <1>8, <1>9 DEF Before
  <2> QED
    BY <1>1, <1>6, <1>9, <2>1, OneAfterTheOther
<1>11. L6 \in Seq(Int) /\ Range(L6) = Range(L5) \cup Range(up) /\ Ascending(L6)
  <2>1. Before(Range(L5), Range(up) \ {Close})
    BY <1>3, <1>4, <1>7, <1>8, <1>9, <1>10 DEF Before
  <2> QED
    BY <1>1, <1>2, <1>3, <1>10, <2>1, OneAfterTheOther
<1>12. onTheWay \in Seq(Int) /\ Range(onTheWay) = Range(L6) \cup keyboard /\ Ascending(onTheWay)
  <2>1. Before(Range(L6), Range(kb) \ {Close})
    BY <1>3, <1>4, <1>5, <1>7, <1>8, <1>9, <1>10, <1>11 DEF Before
  <2> QED
    BY <1>1, <1>5, <1>11, <2>1, OneAfterTheOther
<1>13. \A n \in way : n \in Range(onTheWay)
  BY <1>7, <1>8, <1>9, <1>10, <1>11, <1>12
     DEF way, fromData, fromChan, fromHeld, fromHold, fromUp
<1>14. \A n \in Range(onTheWay) : \E i \in DOMAIN onTheWay : onTheWay[i] = n
  BY DEF Range
<1> QED
  BY <1>12, <1>13, <1>14 DEF NothingTypedIsLost, Ascending, Covered, SessionIInv

(* The inductive invariant implies what holds of a session.                *)
LEMMA SessionSafe == SessionIInv => SessionInv
BY OrderOfTheWay DEF SessionIInv, SessionInv, OverMeansReaped, InPhase

----------------------------------------------------------------------------
(* Types and phases, part by part.                                         *)
Phases ==
    /\ direct \in BOOLEAN
    /\ loop \in {"polls", "writes", "left"} /\ output \in {"reads", "done"}
    /\ link \in {"open", "ended"} /\ reset \in BOOLEAN
    /\ main \in {"starts", "pump", "join", "wait", "over", "failed"}
    /\ pump \in {"off", "reads", "sends", "closes", "done"}
    /\ writer \in {"off", "recv", "writes", "joins", "done"}
    /\ reader \in {"off", "reads", "writes", "done"}
    /\ program \in {"none", "runs", "exited"} /\ answers \in BOOLEAN
Numbers ==
    /\ typed \in 0..Len(Events) /\ said \in Nat
    /\ held \in 0..typed /\ data \in 0..typed /\ size \in 0..typed /\ received \in 0..typed
    /\ hold.up \in 0..typed /\ hold = [up |-> hold.up, down |-> hold.down]
    /\ frame \in 0..said /\ hold.down \in 0..said /\ shown \in 0..said
Sockets ==
    /\ up \in Seq(1..Len(Events)) /\ Len(up) <= Cap
    /\ down \in Seq(1..said) /\ Len(down) <= Cap
Channel == chan \in Seq({Close} \cup 1..Len(Events)) /\ Len(chan) <= ChanCap
Ptys ==
    /\ ptyIn \in Seq(1..typed) /\ Len(ptyIn) <= PtyCap
    /\ ptyOut \in Seq(1..said) /\ Len(ptyOut) <= PtyCap
Sound == Phases /\ Numbers /\ Sockets /\ Channel /\ Ptys /\ InPhase

(* The parts are the whole.                                                *)
LEMMA SoundIsTyped ==
    /\ Phases /\ Numbers /\ Sockets /\ Channel /\ Ptys
          <=> SessionTypeOK /\ said \in Nat /\ hold = [up |-> hold.up, down |-> hold.down]
<1>1. /\ (held \in 0..typed /\ data \in 0..typed /\ size \in 0..typed /\ received \in 0..typed
            /\ hold.up \in 0..typed)
            <=> \A n \in {held, data, hold.up, size, received} : n \in 0..typed
      /\ (frame \in 0..said /\ hold.down \in 0..said /\ shown \in 0..said)
            <=> \A n \in {frame, hold.down, shown} : n \in 0..said
  OBVIOUS
<1> QED
  BY <1>1 DEF Phases, Numbers, Sockets, Channel, Ptys, SessionTypeOK

(* What happens at the terminal is one event more.                         *)
LEMMA ActsSound == ASSUME Sound, Acts PROVE Sound'
<1>1. Phases' /\ InPhase'
  BY EventsAssumption, BoundsAssumption
     DEF Sound, Phases, InPhase, Numbers, Acts, relayVars, pumpVars, threadVars,
         ptyVars
<1>2. Numbers'
  BY EventsAssumption, BoundsAssumption, SMTT(30)
     DEF Sound, Numbers, Phases, Ptys, Acts, relayVars, pumpVars, threadVars,
         ptyVars
<1>3. Sockets'
  BY EventsAssumption, BoundsAssumption
     DEF Sound, Sockets, Phases, Numbers, Acts, relayVars, pumpVars, threadVars,
         ptyVars
<1>4. Channel'
  BY EventsAssumption, BoundsAssumption
     DEF Sound, Channel, Phases, Numbers, Acts, relayVars, pumpVars, threadVars,
         ptyVars
<1>5. Ptys'
  BY EventsAssumption, BoundsAssumption, SMTT(30)
     DEF Sound, Ptys, Phases, Numbers, Acts, relayVars, pumpVars, threadVars,
         ptyVars
<1> QED
  BY <1>1, <1>2, <1>3, <1>4, <1>5 DEF Sound

(* The main loop writes the frame, or leaves.                              *)
LEMMA WritesFrameSound == ASSUME Sound, Ahead, WritesFrame PROVE Sound'
<1>1. Phases' /\ Numbers' /\ Channel' /\ Ptys' /\ InPhase'
  BY EventsAssumption, BoundsAssumption, SMTT(30)
     DEF Sound, Phases, Numbers, Channel, Ptys, InPhase, WritesFrame, Leaves,
         pumpVars, threadVars, ptyVars
<1>2. Sockets'
  <2>1. UNCHANGED <<down, said>> /\ Len(up) \in Nat /\ (loop = "writes" => typed \in 1..Len(Events))
    BY EventsAssumption DEF WritesFrame, ptyVars, Sound, Sockets, Numbers, Ahead,
       way, fromData, fromChan, fromHeld, fromHold, fromUp, keyboard
  <2>2. CASE link = "ended"
    <3>1. \E n \in 0..Len(up) : up' = SubSeq(up, 1, n)
      BY <2>2 DEF WritesFrame, Leaves
    <3> QED
      BY <2>1, <3>1, CutShort, BoundsAssumption DEF Sound, Sockets
  <2>3. CASE link # "ended"
    <3>1. up' = Append(up, typed) /\ Len(up) < Cap /\ typed \in 1..Len(Events)
      BY <2>1, <2>3 DEF WritesFrame
    <3> QED
      BY <2>1, <3>1, PutLast, BoundsAssumption DEF Sound, Sockets
  <2> QED
    BY <2>2, <2>3
<1> QED
  BY <1>1, <1>2 DEF Sound

(* A client that leaves cuts its socket short.                             *)
LEMMA EscapesSound == ASSUME Sound, Escapes PROVE Sound'
<1>1. Phases' /\ Numbers' /\ Channel' /\ Ptys' /\ InPhase'
  BY EventsAssumption, BoundsAssumption
     DEF Sound, Phases, Numbers, Channel, Ptys, InPhase, Escapes, Leaves, pumpVars,
         threadVars, ptyVars
<1>2. Sockets'
  <2>1. /\ UNCHANGED <<down, said>>
        /\ \E n \in 0..Len(up) : up' = SubSeq(up, 1, n)
    BY DEF Escapes, Leaves, ptyVars
  <2>2. Len(up) \in Nat
    BY DEF Sound, Sockets
  <2> QED
    BY <2>1, <2>2, CutShort, BoundsAssumption DEF Sound, Sockets
<1> QED
  BY <1>1, <1>2 DEF Sound

(* So does one that notices that the session ended.                        *)
LEMMA NoticesEndSound == ASSUME Sound, NoticesEnd PROVE Sound'
<1>1. Phases' /\ Numbers' /\ Channel' /\ Ptys' /\ InPhase'
  BY EventsAssumption, BoundsAssumption
     DEF Sound, Phases, Numbers, Channel, Ptys, InPhase, NoticesEnd, Leaves,
         pumpVars, threadVars, ptyVars
<1>2. Sockets'
  <2>1. /\ UNCHANGED <<down, said>>
        /\ \E n \in 0..Len(up) : up' = SubSeq(up, 1, n)
    BY DEF NoticesEnd, Leaves, ptyVars
  <2>2. Len(up) \in Nat
    BY DEF Sound, Sockets
  <2> QED
    BY <2>1, <2>2, CutShort, BoundsAssumption DEF Sound, Sockets
<1> QED
  BY <1>1, <1>2 DEF Sound

(* The output thread ends with the connection.                             *)
LEMMA OutputEndsSound == ASSUME Sound, OutputEnds PROVE Sound'
BY EventsAssumption, BoundsAssumption
   DEF Sound, Phases, Numbers, Sockets, Channel, Ptys, InPhase, OutputEnds,
       relayVars, pumpVars, threadVars, ptyVars

(* The relay takes a frame of the client, which is one of the events.      *)
LEMMA TakesUpSound == ASSUME Sound, Ahead, TakesUp PROVE Sound'
<1>1. Phases' /\ Sockets' /\ Channel' /\ Ptys' /\ InPhase'
  BY EventsAssumption, BoundsAssumption
     DEF Sound, Phases, Sockets, Channel, Ptys, InPhase, Numbers, TakesUp, free,
         carries, clientVars, pumpVars, threadVars, ptyVars, None
<1>2. Numbers'
  <2>1. /\ up # <<>> /\ hold' = [hold EXCEPT !.up = Head(up)]
        /\ UNCHANGED <<typed, said, held, data, size, received, frame, shown>>
    BY DEF TakesUp, clientVars, relayVars, pumpVars, threadVars, ptyVars
  <2>2. Head(up) \in 1..typed
    BY <2>1, TakeFirst DEF Sound, Sockets, Ahead, way, fromData, fromChan, fromHeld, fromHold, fromUp
  <2> QED
    BY <2>1, <2>2 DEF Sound, Numbers
<1> QED
  BY <1>1, <1>2 DEF Sound

(* The relay takes a frame of the agent, which is something it said.       *)
LEMMA TakesDownSound == ASSUME Sound, Ahead, TakesDown PROVE Sound'
<1>1. Phases' /\ Sockets' /\ Channel' /\ Ptys' /\ InPhase'
  BY EventsAssumption, BoundsAssumption
     DEF Sound, Phases, Sockets, Channel, Ptys, InPhase, Numbers, TakesDown, free,
         carries, clientVars, pumpVars, threadVars, ptyVars, None
<1>2. Numbers'
  <2>1. /\ down # <<>> /\ hold' = [hold EXCEPT !.down = Head(down)]
        /\ UNCHANGED <<typed, said, held, data, size, received, frame, shown>>
    BY DEF TakesDown, clientVars, relayVars, pumpVars, threadVars, ptyVars
  <2>2. Head(down) \in 1..said
    BY <2>1, TakeFirst DEF Sound, Sockets, Ahead, way, fromData, fromChan, fromHeld, fromHold, fromUp
  <2> QED
    BY <2>1, <2>2 DEF Sound, Numbers
<1> QED
  BY <1>1, <1>2 DEF Sound

(* A frame is shown, or finds nobody.                                      *)
LEMMA ShowsSound == ASSUME Sound, Shows PROVE Sound'
<1>1. Phases' /\ Numbers' /\ Channel' /\ Ptys' /\ InPhase'
  BY EventsAssumption, BoundsAssumption, SMTT(30)
     DEF Sound, Phases, Numbers, Channel, Ptys, InPhase, Shows, Ends, carries,
         pumpVars, threadVars, ptyVars, None
<1>2. Sockets'
  <2>1. UNCHANGED said /\ (UNCHANGED <<up, down>> \/ (up' = <<>> /\ down' = <<>>))
    BY DEF Shows, Ends, clientVars, relayVars, pumpVars, threadVars, ptyVars
  <2>2. CASE UNCHANGED <<up, down>>
    BY <2>1, <2>2 DEF Sound, Sockets
  <2>3. CASE up' = <<>> /\ down' = <<>>
    <3>1. up' \in Seq(1..Len(Events)) /\ down' \in Seq(1..said') /\ Len(up') = 0 /\ Len(down') = 0
      BY <2>3, Emptied
    <3> QED
      BY <3>1, BoundsAssumption DEF Sockets
  <2> QED
    BY <2>1, <2>2, <2>3
<1> QED
  BY <1>1, <1>2 DEF Sound

(* What a connection drops or lets arrive when it ends is well-formed.     *)
LEMMA EndedSound ==
    ASSUME Sound, link = "open", Ends,
           UNCHANGED <<direct, clientVars, pumpVars, threadVars, ptyVars>>
    PROVE  Sound'
BY EventsAssumption, BoundsAssumption
   DEF Sound, Phases, Numbers, Sockets, Channel, Ptys, InPhase, Ends,
       carries, clientVars, pumpVars, threadVars, ptyVars, None

(* So it is when the connection breaks.                                    *)
LEMMA BreaksSound == ASSUME Sound, Breaks PROVE Sound'
BY EndedSound DEF Breaks

(* So it is when the relay ends it.                                        *)
LEMMA RelayEndsSound == ASSUME Sound, RelayEnds PROVE Sound'
BY EndedSound DEF RelayEnds

(* The shell starts with nothing in the hands of any task.                 *)
LEMMA StartsSound == ASSUME Sound, Starts PROVE Sound'
<1>1. Phases' /\ Numbers' /\ Channel' /\ Ptys' /\ InPhase'
  BY EventsAssumption, BoundsAssumption, SMTT(30)
     DEF Sound, Phases, Numbers, Channel, Ptys, InPhase, Starts, Ends, clientVars,
         relayVars, None
<1>2. Sockets'
  <2>1. UNCHANGED said /\ (UNCHANGED <<up, down>> \/ (up' = <<>> /\ down' = <<>>))
    BY DEF Starts, Ends, clientVars, relayVars, pumpVars, threadVars, ptyVars
  <2>2. CASE UNCHANGED <<up, down>>
    BY <2>1, <2>2 DEF Sound, Sockets
  <2>3. CASE up' = <<>> /\ down' = <<>>
    <3>1. up' \in Seq(1..Len(Events)) /\ down' \in Seq(1..said') /\ Len(up') = 0 /\ Len(down') = 0
      BY <2>3, Emptied
    <3> QED
      BY <3>1, BoundsAssumption DEF Sockets
  <2> QED
    BY <2>1, <2>2, <2>3
<1> QED
  BY <1>1, <1>2 DEF Sound

(* The pump holds what it has read.                                        *)
LEMMA PumpReadsSound == ASSUME Sound, PumpReads PROVE Sound'
<1>1. Phases' /\ Sockets' /\ Channel' /\ Ptys' /\ InPhase'
  BY EventsAssumption, BoundsAssumption
     DEF Sound, Phases, Sockets, Channel, Ptys, InPhase, Numbers, PumpReads,
         carries, clientVars, threadVars, ptyVars, None
<1>2. Numbers'
  <2>1. /\ held' = hold.up /\ hold' = [hold EXCEPT !.up = None]
        /\ UNCHANGED <<typed, said, data, size, received, frame, shown>>
    BY DEF PumpReads, clientVars, relayVars, pumpVars, threadVars, ptyVars
  <2> QED
    BY <2>1, EventsAssumption DEF Sound, Numbers, None
<1> QED
  BY <1>1, <1>2 DEF Sound

(* The pump gives it to the writer, or finds it gone and ends.             *)
LEMMA PumpSendsSound == ASSUME Sound, PumpSends PROVE Sound'
<1>1. Phases' /\ Numbers' /\ Sockets' /\ Ptys'
  BY EventsAssumption, BoundsAssumption
     DEF Sound, Phases, Numbers, Sockets, Ptys, PumpSends, clientVars, relayVars,
         threadVars, ptyVars, None
<1>2. Channel'
  <2>1. held \in 1..Len(Events)
    BY EventsAssumption DEF PumpSends, Sound, InPhase, Numbers, None
  <2>2. UNCHANGED chan \/ (Len(chan) < ChanCap /\ chan' = Append(chan, held))
    BY DEF PumpSends
  <2> QED
    BY <2>1, <2>2, PutLast, BoundsAssumption DEF Sound, Channel
<1>3. InPhase'
  <2>1. /\ pump = "sends" /\ held' = None /\ pump' \in {"closes", "reads"}
        /\ (pump' = "closes" => writer = "done")
        /\ UNCHANGED <<main, data, frame, writer, reader, program, link>>
    BY DEF PumpSends, clientVars, relayVars, pumpVars, threadVars, ptyVars
  <2>2. Close \in Range(chan') => Close \in Range(chan)
    <3>1. held # Close /\ held \in {Close} \cup 1..Len(Events)
      BY EventsAssumption DEF PumpSends, Sound, InPhase, Numbers, None, Close
    <3>2. UNCHANGED chan \/ chan' = Append(chan, held)
      BY DEF PumpSends
    <3>3. chan \in Seq({Close} \cup 1..Len(Events))
      BY DEF Sound, Channel
    <3>4. Range(Append(chan, held)) = Range(chan) \cup {held}
      BY <3>1, <3>3, PutLast
    <3> QED
      BY <3>1, <3>2, <3>4
  <2> QED
    BY <2>1, <2>2 DEF Sound, InPhase
<1> QED
  BY <1>1, <1>2, <1>3 DEF Sound

(* The pump ends with the connection.                                      *)
LEMMA PumpEndsSound == ASSUME Sound, PumpEnds PROVE Sound'
BY EventsAssumption, BoundsAssumption
   DEF Sound, Phases, Numbers, Sockets, Channel, Ptys, InPhase, PumpEnds,
       clientVars, relayVars, threadVars, ptyVars

(* It closes once.                                                         *)
LEMMA PumpClosesSound == ASSUME Sound, PumpCloses PROVE Sound'
<1>1. Phases' /\ Numbers' /\ Sockets' /\ Ptys' /\ InPhase'
  BY EventsAssumption, BoundsAssumption
     DEF Sound, Phases, Numbers, Sockets, Ptys, InPhase, PumpCloses, SendsClose,
         clientVars, relayVars, threadVars, ptyVars, Close
<1>2. Channel'
  <2>1. UNCHANGED chan \/ (Len(chan) < ChanCap /\ chan' = Append(chan, Close))
    BY DEF PumpCloses, SendsClose
  <2> QED
    BY <2>1, PutLast, BoundsAssumption DEF Sound, Channel
<1> QED
  BY <1>1, <1>2 DEF Sound

(* And handle_session once more.                                           *)
LEMMA MainClosesSound == ASSUME Sound, MainCloses PROVE Sound'
<1>1. Phases' /\ Numbers' /\ Sockets' /\ Ptys' /\ InPhase'
  BY EventsAssumption, BoundsAssumption
     DEF Sound, Phases, Numbers, Sockets, Ptys, InPhase, MainCloses, SendsClose,
         clientVars, relayVars, threadVars, ptyVars, Close
<1>2. Channel'
  <2>1. UNCHANGED chan \/ (Len(chan) < ChanCap /\ chan' = Append(chan, Close))
    BY DEF MainCloses, SendsClose
  <2> QED
    BY <2>1, PutLast, BoundsAssumption DEF Sound, Channel
<1> QED
  BY <1>1, <1>2 DEF Sound

(* handle_session joins a writer that is done.                             *)
LEMMA MainJoinsSound == ASSUME Sound, MainJoins PROVE Sound'
BY EventsAssumption, BoundsAssumption
   DEF Sound, Phases, Numbers, Sockets, Channel, Ptys, InPhase, MainJoins,
       clientVars, relayVars, threadVars, ptyVars

(* And reaps a program that has exited.                                    *)
LEMMA MainReapsSound == ASSUME Sound, MainReaps PROVE Sound'
BY EventsAssumption, BoundsAssumption
   DEF Sound, Phases, Numbers, Sockets, Channel, Ptys, InPhase, MainReaps,
       clientVars, relayVars, threadVars, ptyVars

(* The writer takes a frame, or the end that somebody sent it.             *)
LEMMA WriterReceivesSound == ASSUME Sound, Ahead, WriterReceives PROVE Sound'
<1>1. Phases' /\ Sockets' /\ Channel' /\ Ptys'
  BY EventsAssumption, BoundsAssumption, SMTT(30)
     DEF Sound, Phases, Sockets, Channel, Ptys, Numbers, WriterReceives, clientVars,
         relayVars, Close
<1>2. Numbers'
  <2>1. /\ chan # <<>>
        /\ data' = data \/ (data' = Head(chan) /\ Head(chan) # Close)
        /\ size' = size \/ (size' = Head(chan) /\ Head(chan) # Close)
        /\ UNCHANGED <<typed, said, held, hold, received, frame, shown>>
    BY DEF WriterReceives, clientVars, relayVars, pumpVars, threadVars, ptyVars
  <2>2. Head(chan) # Close => Head(chan) \in 1..typed
    BY <2>1, TakeFirst DEF Sound, Channel, Ahead, way, fromData, fromChan
  <2> QED
    BY <2>1, <2>2, EventsAssumption DEF Sound, Numbers
<1>3. InPhase'
  <2>1. /\ chan # <<>> /\ chan' = Tail(chan) /\ writer = "recv"
        /\ UNCHANGED <<main, pump, held, frame, reader, program, link>>
    BY DEF WriterReceives, clientVars, relayVars, pumpVars, threadVars, ptyVars
  <2>2. Head(chan) \in Range(chan) /\ (Close \in Range(chan') => Close \in Range(chan))
    BY <2>1, TakeFirst DEF Sound, Channel
  <2>3. \/ Head(chan) = Close /\ writer' = "joins" /\ UNCHANGED data
        \/ writer' = "recv" /\ UNCHANGED data
        \/ writer' = "writes" /\ data' = Head(chan) /\ Head(chan) # Close
    BY <2>1 DEF WriterReceives
  <2>4. Head(chan) # Close => Head(chan) # None
    BY <2>1, TakeFirst, EventsAssumption DEF Sound, Channel, None
  <2> QED
    BY <2>1, <2>2, <2>3, <2>4 DEF Sound, InPhase
<1> QED
  BY <1>1, <1>2, <1>3 DEF Sound

(* The writer writes to the PTY, or finds that the program is gone.        *)
LEMMA WriterWritesSound == ASSUME Sound, WriterWrites PROVE Sound'
<1>1. Phases' /\ Numbers' /\ Sockets' /\ Channel' /\ InPhase'
  BY EventsAssumption, BoundsAssumption, SMTT(30)
     DEF Sound, Phases, Numbers, Sockets, Channel, InPhase, WriterWrites,
         clientVars, relayVars, pumpVars, None
<1>2. Ptys'
  <2>1. data \in 1..typed /\ ptyIn \in Seq(1..typed)
    BY EventsAssumption DEF WriterWrites, Sound, InPhase, Numbers, Ptys, None
  <2>2. /\ UNCHANGED <<typed, said, ptyOut>>
        /\ UNCHANGED ptyIn \/ (Len(ptyIn) < PtyCap /\ ptyIn' = Append(ptyIn, data))
    BY DEF WriterWrites, clientVars, relayVars, pumpVars, threadVars, ptyVars
  <2>3. Append(ptyIn, data) \in Seq(1..typed) /\ Len(Append(ptyIn, data)) = Len(ptyIn) + 1 /\ Len(ptyIn) \in Nat
    BY <2>1, PutLast, InSeq
  <2>4. ptyIn' \in Seq(1..typed) /\ Len(ptyIn') <= PtyCap
    <3>1. CASE ptyIn' = ptyIn
      BY <3>1, <2>1 DEF Sound, Ptys
    <3>2. CASE Len(ptyIn) < PtyCap /\ ptyIn' = Append(ptyIn, data)
      BY <3>2, <2>3, BoundsAssumption
    <3> QED
      BY <2>2, <3>1, <3>2
  <2> QED
    BY <2>2, <2>4 DEF Sound, Ptys
<1> QED
  BY <1>1, <1>2 DEF Sound

(* The writer joins a reader that is done.                                 *)
LEMMA WriterJoinsSound == ASSUME Sound, WriterJoins PROVE Sound'
BY EventsAssumption, BoundsAssumption
   DEF Sound, Phases, Numbers, Sockets, Channel, Ptys, InPhase, WriterJoins,
       clientVars, relayVars, pumpVars, ptyVars

(* The reader holds what the program wrote.                                *)
LEMMA ReaderReadsSound == ASSUME Sound, ReaderReads PROVE Sound'
<1>1. Phases'
  BY EventsAssumption, BoundsAssumption
     DEF Sound, Phases, Numbers, ReaderReads, clientVars, relayVars, pumpVars
<1>2. Numbers'
  <2>1. /\ ptyOut # <<>> /\ frame' = Head(ptyOut)
        /\ UNCHANGED <<typed, said, held, data, size, received, hold, shown>>
    BY DEF ReaderReads, clientVars, relayVars, pumpVars, threadVars, ptyVars
  <2>2. Head(ptyOut) \in 1..said
    BY <2>1, TakeFirst DEF Sound, Ptys
  <2> QED
    BY <2>1, <2>2, EventsAssumption DEF Sound, Numbers
<1>3. Sockets'
  BY EventsAssumption, BoundsAssumption
     DEF Sound, Sockets, Phases, Numbers, ReaderReads, clientVars, relayVars,
         pumpVars
<1>4. Channel'
  BY EventsAssumption, BoundsAssumption
     DEF Sound, Channel, Phases, Numbers, ReaderReads, clientVars, relayVars,
         pumpVars
<1>5. Ptys'
  BY EventsAssumption, BoundsAssumption
     DEF Sound, Ptys, Phases, Numbers, ReaderReads, clientVars, relayVars, pumpVars
<1>6. InPhase'
  <2>1. Head(ptyOut) \in 1..said
    BY TakeFirst DEF ReaderReads, Sound, Ptys
  <2>2. /\ frame' = Head(ptyOut) /\ reader = "reads" /\ reader' = "writes"
        /\ UNCHANGED <<main, pump, held, chan, data, writer, program, link>>
    BY DEF ReaderReads, clientVars, relayVars, pumpVars, threadVars, ptyVars
  <2>3. frame' # None
    BY <2>1, <2>2 DEF Sound, Numbers, None
  <2> QED
    BY <2>2, <2>3 DEF Sound, InPhase
<1> QED
  BY <1>1, <1>2, <1>3, <1>4, <1>5, <1>6 DEF Sound

(* It writes that to its socket, or notices that nobody is there.          *)
LEMMA ReaderWritesSound == ASSUME Sound, ReaderWrites PROVE Sound'
<1>1. Numbers' /\ Channel' /\ Ptys' /\ InPhase'
  BY EventsAssumption, BoundsAssumption, SMTT(30)
     DEF Sound, Numbers, Channel, Ptys, InPhase, Phases, ReaderWrites, clientVars,
         pumpVars, ptyVars, None
<1>2. Phases'
  <2>1. /\ reader' \in {"reads", "done"}
        /\ UNCHANGED <<direct, loop, output, link, main, pump, writer, program, answers>>
    BY DEF ReaderWrites, clientVars, relayVars, pumpVars, threadVars, ptyVars
  <2>2. reset' \in BOOLEAN
    BY DEF ReaderWrites, Sound, Phases
  <2> QED
    BY <2>1, <2>2 DEF Sound, Phases
<1>3. Sockets'
  <2>1. frame \in 1..said /\ down \in Seq(1..said)
    BY EventsAssumption DEF ReaderWrites, Sound, InPhase, Numbers, Sockets, None
  <2>2. /\ UNCHANGED <<typed, said, up>>
        /\ UNCHANGED down \/ (Len(down) < Cap /\ down' = Append(down, frame))
    BY DEF ReaderWrites, clientVars, relayVars, pumpVars, threadVars, ptyVars
  <2>3. Append(down, frame) \in Seq(1..said) /\ Len(Append(down, frame)) = Len(down) + 1 /\ Len(down) \in Nat
    BY <2>1, PutLast, InSeq
  <2>4. down' \in Seq(1..said) /\ Len(down') <= Cap
    <3>1. CASE down' = down
      BY <3>1, <2>1 DEF Sound, Sockets
    <3>2. CASE Len(down) < Cap /\ down' = Append(down, frame)
      BY <3>2, <2>3, BoundsAssumption
    <3> QED
      BY <2>2, <3>1, <3>2
  <2> QED
    BY <2>2, <2>4 DEF Sound, Sockets
<1> QED
  BY <1>1, <1>2, <1>3 DEF Sound

(* It ends when the program has exited and all was read.                   *)
LEMMA ReaderEndsSound == ASSUME Sound, ReaderEnds PROVE Sound'
BY EventsAssumption, BoundsAssumption
   DEF Sound, Phases, Numbers, Sockets, Channel, Ptys, InPhase, ReaderEnds,
       clientVars, relayVars, pumpVars, ptyVars

(* The program reads one of the events.                                    *)
LEMMA ProgramReadsSound == ASSUME Sound, ProgramReads PROVE Sound'
<1>1. Phases' /\ InPhase'
  BY EventsAssumption, BoundsAssumption
     DEF Sound, Phases, InPhase, Numbers, ProgramReads, clientVars, relayVars,
         pumpVars, threadVars
<1>2. Numbers'
  <2>1. /\ ptyIn # <<>> /\ received' = Head(ptyIn)
        /\ UNCHANGED <<typed, said, held, data, size, frame, hold, shown>>
    BY DEF ProgramReads, clientVars, relayVars, pumpVars, threadVars, ptyVars
  <2>2. Head(ptyIn) \in 1..typed
    BY <2>1, TakeFirst DEF Sound, Ptys
  <2> QED
    BY <2>1, <2>2, EventsAssumption DEF Sound, Numbers
<1>3. Sockets'
  BY EventsAssumption, BoundsAssumption
     DEF Sound, Sockets, Phases, Numbers, ProgramReads, clientVars, relayVars,
         pumpVars, threadVars
<1>4. Channel'
  BY EventsAssumption, BoundsAssumption
     DEF Sound, Channel, Phases, Numbers, ProgramReads, clientVars, relayVars,
         pumpVars, threadVars
<1>5. Ptys'
  BY EventsAssumption, BoundsAssumption
     DEF Sound, Ptys, Phases, Numbers, ProgramReads, clientVars, relayVars,
         pumpVars, threadVars
<1> QED
  BY <1>1, <1>2, <1>3, <1>4, <1>5 DEF Sound

(* It answers.                                                             *)
LEMMA ProgramAnswersSound == ASSUME Sound, ProgramAnswers PROVE Sound'
<1>1. InPhase'
  BY EventsAssumption, BoundsAssumption
     DEF Sound, InPhase, Phases, Numbers, ProgramAnswers, Says, clientVars,
         relayVars, pumpVars, threadVars
<1>2. Numbers'
  BY EventsAssumption, BoundsAssumption, SMTT(30)
     DEF Sound, Numbers, Phases, Ptys, ProgramAnswers, Says, clientVars, relayVars,
         pumpVars, threadVars
<1>3. Sockets'
  BY EventsAssumption, BoundsAssumption, SMTT(30)
     DEF Sound, Sockets, Phases, Numbers, ProgramAnswers, Says, clientVars,
         relayVars, pumpVars, threadVars
<1>4. Channel'
  BY EventsAssumption, BoundsAssumption
     DEF Sound, Channel, Phases, Numbers, ProgramAnswers, Says, clientVars,
         relayVars, pumpVars, threadVars
<1>5. Phases'
  <2>1. UNCHANGED <<direct, loop, output, link, reset, main, pump, writer, reader, program>>
    BY DEF ProgramAnswers, clientVars, relayVars, pumpVars, threadVars, ptyVars
  <2>2. answers' \in BOOLEAN
    BY DEF ProgramAnswers
  <2> QED
    BY <2>1, <2>2 DEF Sound, Phases
<1>6. Ptys'
  <2>1. /\ Len(ptyOut) < PtyCap /\ said' = said + 1 /\ ptyOut' = Append(ptyOut, said + 1)
        /\ UNCHANGED <<ptyIn, typed>>
    BY DEF ProgramAnswers, Says, clientVars, relayVars, pumpVars, threadVars, ptyVars
  <2>2. said \in Nat /\ ptyOut \in Seq(1..(said + 1)) /\ said + 1 \in 1..(said + 1)
    <3>1. said \in Nat /\ ptyOut \in Seq(1..said)
      BY DEF Sound, Ptys, Numbers
    <3> QED
      BY <3>1
  <2>3. ptyOut' \in Seq(1..said') /\ Len(ptyOut') <= PtyCap
    BY <2>1, <2>2, PutLast, BoundsAssumption
  <2> QED
    BY <2>1, <2>3 DEF Sound, Ptys
<1> QED
  BY <1>1, <1>2, <1>3, <1>4, <1>5, <1>6 DEF Sound

(* It writes unasked.                                                      *)
LEMMA ProgramSpeaksSound == ASSUME Sound, ProgramSpeaks PROVE Sound'
<1>1. Phases' /\ InPhase'
  BY EventsAssumption, BoundsAssumption
     DEF Sound, Phases, InPhase, Numbers, ProgramSpeaks, Says, clientVars,
         relayVars, pumpVars, threadVars
<1>2. Numbers'
  BY EventsAssumption, BoundsAssumption, SMTT(30)
     DEF Sound, Numbers, Phases, Ptys, ProgramSpeaks, Says, clientVars, relayVars,
         pumpVars, threadVars
<1>3. Sockets'
  BY EventsAssumption, BoundsAssumption, SMTT(30)
     DEF Sound, Sockets, Phases, Numbers, ProgramSpeaks, Says, clientVars,
         relayVars, pumpVars, threadVars
<1>4. Channel'
  BY EventsAssumption, BoundsAssumption
     DEF Sound, Channel, Phases, Numbers, ProgramSpeaks, Says, clientVars,
         relayVars, pumpVars, threadVars
<1>5. Ptys'
  <2>1. /\ Len(ptyOut) < PtyCap /\ said' = said + 1 /\ ptyOut' = Append(ptyOut, said + 1)
        /\ UNCHANGED <<ptyIn, typed>>
    BY DEF ProgramSpeaks, Says, clientVars, relayVars, pumpVars, threadVars, ptyVars
  <2>2. said \in Nat /\ ptyOut \in Seq(1..(said + 1)) /\ said + 1 \in 1..(said + 1)
    <3>1. said \in Nat /\ ptyOut \in Seq(1..said)
      BY DEF Sound, Ptys, Numbers
    <3> QED
      BY <3>1
  <2>3. ptyOut' \in Seq(1..said') /\ Len(ptyOut') <= PtyCap
    BY <2>1, <2>2, PutLast, BoundsAssumption
  <2> QED
    BY <2>1, <2>3 DEF Sound, Ptys
<1> QED
  BY <1>1, <1>2, <1>3, <1>4, <1>5 DEF Sound

(* It exits.                                                               *)
LEMMA ProgramExitsSound == ASSUME Sound, ProgramExits PROVE Sound'
BY EventsAssumption, BoundsAssumption
   DEF Sound, Phases, Numbers, Sockets, Channel, Ptys, InPhase, ProgramExits,
       clientVars, relayVars, pumpVars, threadVars

(* It exits when its PTY is gone.                                          *)
LEMMA HangsUpSound == ASSUME Sound, HangsUp PROVE Sound'
BY EventsAssumption, BoundsAssumption
   DEF Sound, Phases, Numbers, Sockets, Channel, Ptys, InPhase, HangsUp, clientVars,
       relayVars, pumpVars, threadVars

----------------------------------------------------------------------------
(* The order of the way.                                                   *)
Ordered == InOrder /\ Ahead /\ Covered

(* What comes later in any place is there in all the places before it.      *)
LEMMA Nested ==
    /\ way = Range(ptyIn) \cup carried(data) \cup (Range(chan) \ {Close}) \cup carried(held)
                \cup carried(hold.up) \cup Range(up) \cup keyboard
    /\ fromData = carried(data) \cup (Range(chan) \ {Close}) \cup carried(held)
                \cup carried(hold.up) \cup Range(up) \cup keyboard
    /\ fromChan = (Range(chan) \ {Close}) \cup carried(held)
                \cup carried(hold.up) \cup Range(up) \cup keyboard
    /\ fromHeld = carried(held) \cup carried(hold.up) \cup Range(up) \cup keyboard
    /\ fromHold = carried(hold.up) \cup Range(up) \cup keyboard
    /\ fromUp = Range(up) \cup keyboard
BY DEF way, fromData, fromChan, fromHeld, fromHold, fromUp

(* Whatever is dropped leaves the rest in order.                           *)
LEMMA Shrinks ==
    ASSUME Ordered, typed' = typed, received' = received, size' = size,
           Ascending(ptyIn'), Ascending(chan'), Ascending(up'),
           Range(ptyIn') \subseteq Range(ptyIn), carried(data') \subseteq carried(data),
           Range(chan') \ {Close} \subseteq Range(chan) \ {Close},
           carried(held') \subseteq carried(held), carried(hold'.up) \subseteq carried(hold.up),
           Range(up') \subseteq Range(up), keyboard' \subseteq keyboard,
           link' = "open" /\ loop' # "left" /\ program' # "exited" =>
              way \subseteq way' /\ link = "open" /\ loop # "left" /\ program # "exited"
    PROVE  Ordered'
<1>1. /\ way' \subseteq way /\ fromData' \subseteq fromData /\ fromChan' \subseteq fromChan
      /\ fromHeld' \subseteq fromHeld /\ fromHold' \subseteq fromHold /\ fromUp' \subseteq fromUp
  BY DEF way, fromData, fromChan, fromHeld, fromHold, fromUp
<1>2. InOrder'
  BY <1>1 DEF Ordered, InOrder, Before
<1>3. Ahead'
  BY <1>1 DEF Ordered, Ahead
<1>4. Covered'
  BY DEF Ordered, Covered
<1> QED
  BY <1>2, <1>3, <1>4 DEF Ordered

(* Most steps touch nothing that is on the way.                            *)
LEMMA Stays ==
    ASSUME Ordered,
           UNCHANGED <<typed, received, size, loop, ptyIn, data, chan, held, up>>,
           hold'.up = hold.up,
           link' = "open" => link = "open", program' # "exited" => program # "exited"
    PROVE  Ordered'
<1>1. keyboard' = keyboard /\ way' = way
  BY DEF keyboard, way, fromData, fromChan, fromHeld, fromHold, fromUp
<1>2. Ascending(ptyIn') /\ Ascending(chan') /\ Ascending(up')
  BY DEF Ordered, InOrder
<1> QED
  BY <1>1, <1>2, Shrinks

(* When the connection ends, so does what it carried.                      *)
LEMMA EndsOrdered ==
    ASSUME Ordered, Ends, UNCHANGED <<typed, received, size, loop, ptyIn, data, chan, held>>
    PROVE  Ordered'
<1>1. up' = <<>> /\ hold'.up \in {hold.up, None} /\ link' = "ended"
  BY DEF Ends
<1>2. Range(up') = {} /\ carried(hold'.up) \subseteq carried(hold.up) /\ Ascending(up') /\ keyboard' = keyboard
  BY <1>1, Emptied DEF carried, keyboard
<1>3. Ascending(ptyIn') /\ Ascending(chan')
  BY DEF Ordered, InOrder
<1> QED
  BY <1>1, <1>2, <1>3, Shrinks

(* A client that leaves takes with it what it had not sent.                *)
LEMMA LeavesOrdered ==
    ASSUME Ordered, up \in Seq(1..Len(Events)), Leaves,
           UNCHANGED <<typed, received, size, hold, ptyIn, data, chan, held>>
    PROVE  Ordered'
<1>1. PICK n \in 0..Len(up) : up' = SubSeq(up, 1, n)
  BY DEF Leaves
<1>2. loop' = "left" /\ keyboard' = {}
  BY DEF Leaves, keyboard
<1>3. Range(up') \subseteq Range(up) /\ Ascending(up')
  BY <1>1, CutShort DEF Ordered, InOrder
<1>4. Ascending(ptyIn') /\ Ascending(chan')
  BY DEF Ordered, InOrder
<1> QED
  BY <1>2, <1>3, <1>4, Shrinks


(* The steps that move nothing that was typed.                              *)
Aside ==
    \/ OutputEnds \/ TakesDown \/ PumpEnds \/ MainJoins \/ MainReaps \/ WriterJoins
    \/ ReaderReads \/ ReaderWrites \/ ReaderEnds
    \/ ProgramAnswers \/ ProgramSpeaks \/ ProgramExits \/ HangsUp

(* They leave it where it is.                                              *)
LEMMA AsideOrdered == ASSUME Sound, Ordered, Aside PROVE Ordered'
<1>1. /\ UNCHANGED <<typed, received, size, loop, ptyIn, data, chan, held, up>> /\ hold'.up = hold.up
      /\ (link' = "open" => link = "open") /\ (program' # "exited" => program # "exited")
  BY DEF Aside, OutputEnds, TakesDown, PumpEnds, MainJoins, MainReaps, WriterJoins, ReaderReads,
         ReaderWrites, ReaderEnds, ProgramAnswers, ProgramSpeaks, ProgramExits, HangsUp, Says,
         Sound, Numbers, clientVars, relayVars, pumpVars, threadVars, ptyVars
<1> QED
  BY <1>1, Stays

(* Leaving drops frames from the end.                                      *)
LEMMA EscapesOrdered == ASSUME Sound, Ordered, Escapes PROVE Ordered'
<1>1. Leaves /\ UNCHANGED <<typed, received, size, hold, ptyIn, data, chan, held>>
  BY DEF Escapes, clientVars, relayVars, pumpVars, threadVars, ptyVars
<1> QED
  BY <1>1, LeavesOrdered DEF Sound, Sockets

(* The same when the end is noticed.                                       *)
LEMMA NoticesEndOrdered == ASSUME Sound, Ordered, NoticesEnd PROVE Ordered'
<1>1. Leaves /\ UNCHANGED <<typed, received, size, hold, ptyIn, data, chan, held>>
  BY DEF NoticesEnd, clientVars, relayVars, pumpVars, threadVars, ptyVars
<1> QED
  BY <1>1, LeavesOrdered DEF Sound, Sockets

(* A connection that ends drops a part of what it had, and disturbs        *)
(* nothing else.                                                           *)
LEMMA EndedOrdered ==
    ASSUME Sound, Ordered, Ends,
           UNCHANGED <<direct, clientVars, pumpVars, threadVars, ptyVars>>
    PROVE  Ordered'
<1>1. UNCHANGED <<typed, received, size, loop, ptyIn, data, chan, held>>
  BY DEF clientVars, relayVars, pumpVars, threadVars, ptyVars
<1> QED
  BY <1>1, EndsOrdered

(* So it does when it breaks.                                              *)
LEMMA BreaksOrdered == ASSUME Sound, Ordered, Breaks PROVE Ordered'
BY EndedOrdered DEF Breaks

(* So it does when the relay ends it.                                      *)
LEMMA RelayEndsOrdered == ASSUME Sound, Ordered, RelayEnds PROVE Ordered'
BY EndedOrdered DEF RelayEnds

(* So does a frame that finds nobody.                                      *)
LEMMA ShowsOrdered == ASSUME Sound, Ordered, Shows PROVE Ordered'
<1>1. UNCHANGED <<typed, received, size, loop, ptyIn, data, chan, held, program>>
  BY DEF Shows, clientVars, relayVars, pumpVars, threadVars, ptyVars
<1>2. CASE loop = "left"
  BY <1>1, <1>2, EndsOrdered DEF Shows
<1>3. CASE loop # "left"
  <2>1. hold'.up = hold.up /\ UNCHANGED <<up, link>>
    BY <1>3 DEF Shows, Sound, Numbers
  <2> QED
    BY <1>1, <2>1, Stays
<1> QED
  BY <1>2, <1>3

(* So does a shell that fails to start; one that starts had no program before. *)
LEMMA StartsOrdered == ASSUME Sound, Ordered, Starts PROVE Ordered'
<1>1. UNCHANGED <<typed, received, size, loop, ptyIn, data, chan, held>>
  BY DEF Starts, clientVars, relayVars, pumpVars, threadVars, ptyVars
<1>2. \/ Ends
      \/ UNCHANGED <<up, hold, link>> /\ program = "none"
  BY DEF Starts, relayVars, Sound, InPhase
<1> QED
  BY <1>1, <1>2, EndsOrdered, Stays

(* Close is none of the events.                                            *)
LEMMA PumpClosesOrdered == ASSUME Sound, Ordered, PumpCloses PROVE Ordered'
<1>1. UNCHANGED <<typed, received, size, loop, ptyIn, data, held, up, hold, link, program>>
  BY DEF PumpCloses, clientVars, relayVars, pumpVars, threadVars, ptyVars
<1>2. UNCHANGED chan \/ chan' = Append(chan, Close)
  BY DEF PumpCloses, SendsClose
<1>3. Range(chan') \ {Close} = Range(chan) \ {Close} /\ Ascending(chan')
  <2>1. chan \in Seq({Close} \cup 1..Len(Events)) /\ Ascending(chan)
    BY DEF Sound, Channel, Ordered, InOrder
  <2>2. Range(Append(chan, Close)) = Range(chan) \cup {Close} /\ Ascending(Append(chan, Close))
    BY <2>1, PutLast
  <2> QED
    BY <1>2, <2>1, <2>2
<1>4. Ascending(ptyIn') /\ Ascending(up') /\ keyboard' = keyboard
  BY <1>1 DEF Ordered, InOrder, keyboard
<1>5. way' = way
  BY <1>1, <1>3, <1>4 DEF way, fromData, fromChan, fromHeld, fromHold, fromUp
<1> QED
  BY <1>1, <1>3, <1>4, <1>5, Shrinks

(* The same for the second one.                                            *)
LEMMA MainClosesOrdered == ASSUME Sound, Ordered, MainCloses PROVE Ordered'
<1>1. UNCHANGED <<typed, received, size, loop, ptyIn, data, held, up, hold, link, program>>
  BY DEF MainCloses, clientVars, relayVars, pumpVars, threadVars, ptyVars
<1>2. UNCHANGED chan \/ chan' = Append(chan, Close)
  BY DEF MainCloses, SendsClose
<1>3. Range(chan') \ {Close} = Range(chan) \ {Close} /\ Ascending(chan')
  <2>1. chan \in Seq({Close} \cup 1..Len(Events)) /\ Ascending(chan)
    BY DEF Sound, Channel, Ordered, InOrder
  <2>2. Range(Append(chan, Close)) = Range(chan) \cup {Close} /\ Ascending(Append(chan, Close))
    BY <2>1, PutLast
  <2> QED
    BY <1>2, <2>1, <2>2
<1>4. Ascending(ptyIn') /\ Ascending(up') /\ keyboard' = keyboard
  BY <1>1 DEF Ordered, InOrder, keyboard
<1>5. way' = way
  BY <1>1, <1>3, <1>4 DEF way, fromData, fromChan, fromHeld, fromHold, fromUp
<1> QED
  BY <1>1, <1>3, <1>4, <1>5, Shrinks

(* A new event is later than all the others.                               *)
LEMMA ActsOrdered == ASSUME Sound, Ordered, Acts PROVE Ordered'
<1>1. /\ typed' = typed + 1 /\ loop = "polls" /\ loop' = "writes" /\ typed \in Nat
      /\ UNCHANGED <<received, size, ptyIn, data, chan, held, hold, up, link, program>>
  BY EventsAssumption DEF Acts, Sound, Numbers, clientVars, relayVars, pumpVars, threadVars, ptyVars
<1>2. /\ keyboard = {} /\ keyboard' = {typed + 1} /\ fromUp = Range(up)
      /\ fromUp' = fromUp \cup {typed + 1} /\ fromHold' = fromHold \cup {typed + 1}
      /\ fromHeld' = fromHeld \cup {typed + 1} /\ fromChan' = fromChan \cup {typed + 1}
      /\ fromData' = fromData \cup {typed + 1} /\ way' = way \cup {typed + 1}
  BY <1>1 DEF keyboard, way, fromData, fromChan, fromHeld, fromHold, fromUp
<1>3. \A n \in way : n \in 1..typed /\ n < typed + 1
  BY <1>1 DEF Ordered, Ahead
<1>4. InOrder'
  BY <1>1, <1>2, <1>3, Nested DEF Ordered, InOrder, Before
<1>5. Ahead'
  <2>1. received < typed + 1 /\ size < typed + 1
    BY <1>1 DEF Sound, Numbers
  <2> QED
    BY <1>1, <1>2, <1>3, <2>1 DEF Ordered, Ahead
<1>6. Covered'
  BY <1>1, <1>2 DEF Ordered, Covered
<1> QED
  BY <1>4, <1>5, <1>6 DEF Ordered

(* The newest event goes behind what is in the socket.                     *)
LEMMA WritesFrameOrdered == ASSUME Sound, Ordered, WritesFrame PROVE Ordered'
<1>1. UNCHANGED <<typed, received, size, hold, ptyIn, data, chan, held, link, program>>
  BY DEF WritesFrame, clientVars, relayVars, pumpVars, threadVars, ptyVars
<1>2. CASE link = "ended"
  BY <1>1, <1>2, LeavesOrdered DEF WritesFrame, Sound, Sockets
<1>3. CASE link # "ended"
  <2>1. loop = "writes" /\ up' = Append(up, typed) /\ loop' = "polls"
    BY <1>3 DEF WritesFrame
  <2>2. keyboard = {typed} /\ keyboard' = {}
    BY <2>1 DEF keyboard
  <2>3. typed \in 1..Len(Events) /\ \A m \in Range(up) : m < typed
    BY <2>2, Nested, EventsAssumption DEF Sound, Numbers, Ordered, InOrder, Before, Ahead
  <2>4. Range(up') = Range(up) \cup {typed} /\ Ascending(up')
    <3>1. up \in Seq(1..Len(Events)) /\ Ascending(up)
      BY DEF Sound, Sockets, Ordered, InOrder
    <3>2. /\ Range(Append(up, typed)) = Range(up) \cup {typed}
          /\ Ascending(Append(up, typed))
      BY <3>1, <2>3, PutLast
    <3> QED
      BY <2>1, <3>2
  <2>5. /\ fromUp' = fromUp /\ fromHold' = fromHold /\ fromHeld' = fromHeld
        /\ fromChan' = fromChan /\ fromData' = fromData /\ way' = way
    BY <1>1, <2>2, <2>4 DEF way, fromData, fromChan, fromHeld, fromHold, fromUp
  <2>6. InOrder'
    BY <1>1, <2>2, <2>4, <2>5 DEF Ordered, InOrder, Before
  <2>7. Ahead' /\ Covered'
    BY <1>1, <2>1, <2>5 DEF Ordered, Ahead, Covered
  <2> QED
    BY <2>6, <2>7 DEF Ordered
<1> QED
  BY <1>2, <1>3

(* The first of the socket is before the rest of it, and the relay's hands are free. *)
LEMMA TakesUpOrdered == ASSUME Sound, Ordered, TakesUp PROVE Ordered'
<1>1. /\ up # <<>> /\ hold.up = None /\ hold'.up = Head(up) /\ up' = Tail(up)
      /\ UNCHANGED <<typed, received, size, loop, ptyIn, data, chan, held, link, program>>
  BY DEF TakesUp, free, carries, Sound, Numbers, clientVars, relayVars, pumpVars, threadVars, ptyVars
<1>2. /\ Head(up) \in 1..Len(Events) /\ Range(up) = {Head(up)} \cup Range(up')
      /\ Ascending(up') /\ \A n \in Range(up') : n # Close => Head(up) < n
  BY <1>1, TakeFirst DEF Sound, Sockets, Ordered, InOrder
<1>3. keyboard' = keyboard /\ carried(hold.up) = {} /\ carried(hold'.up) = {Head(up)}
  BY <1>1, <1>2, EventsAssumption DEF keyboard, carried, None
<1>4. /\ fromUp' \subseteq fromUp /\ fromHold' = fromHold /\ fromHeld' = fromHeld
      /\ fromChan' = fromChan /\ fromData' = fromData /\ way' = way
  BY <1>1, <1>2, <1>3 DEF way, fromData, fromChan, fromHeld, fromHold, fromUp
<1>5. \A n \in fromUp' : Head(up) < n
  <2>1. \A n \in Range(up') : n \in 1..Len(Events) /\ n # Close
    BY <1>1, TakeFirst, InSeq, EventsAssumption DEF Sound, Sockets, Close
  <2> QED
    BY <1>2, <1>3, <2>1 DEF fromUp, Ordered, InOrder, Before
<1>6. InOrder'
  BY <1>1, <1>2, <1>3, <1>4, <1>5 DEF Ordered, InOrder, Before
<1>7. Ahead' /\ Covered'
  BY <1>1, <1>4 DEF Ordered, Ahead, Covered
<1> QED
  BY <1>6, <1>7 DEF Ordered

(* The pump's hands are free when it reads.                                *)
LEMMA PumpReadsOrdered == ASSUME Sound, Ordered, PumpReads PROVE Ordered'
<1>1. /\ held = None /\ held' = hold.up /\ hold'.up = None
      /\ UNCHANGED <<typed, received, size, loop, ptyIn, data, chan, up, link, program>>
  BY DEF PumpReads, Sound, Numbers, InPhase, clientVars, relayVars, pumpVars, threadVars, ptyVars
<1>2. /\ keyboard' = keyboard /\ carried(hold'.up) = {} /\ carried(held) = {}
      /\ carried(held') = carried(hold.up)
  BY <1>1 DEF keyboard, carried
<1>3. /\ fromUp' = fromUp /\ fromHold' = fromUp /\ fromHeld' = fromHeld
      /\ fromChan' = fromChan /\ fromData' = fromData /\ way' = way
  BY <1>1, <1>2 DEF way, fromData, fromChan, fromHeld, fromHold, fromUp
<1>4. InOrder'
  BY <1>1, <1>2, <1>3 DEF Ordered, InOrder, Before
<1>5. Ahead' /\ Covered'
  BY <1>1, <1>3 DEF Ordered, Ahead, Covered
<1> QED
  BY <1>4, <1>5 DEF Ordered

(* What it holds goes behind what is in the channel.                       *)
LEMMA PumpSendsOrdered == ASSUME Sound, Ordered, PumpSends PROVE Ordered'
<1>1. /\ held' = None /\ held # None
      /\ UNCHANGED <<typed, received, size, loop, ptyIn, data, up, hold, link, program>>
  BY DEF PumpSends, Sound, InPhase, clientVars, relayVars, pumpVars, threadVars, ptyVars
<1>2. keyboard' = keyboard /\ carried(held') = {} /\ carried(held) = {held}
  BY <1>1 DEF keyboard, carried
<1>3. CASE writer = "done"
  <2>1. UNCHANGED chan /\ (link = "ended" \/ program = "exited")
    BY <1>3 DEF PumpSends, Sound, Phases, InPhase
  <2>2. Ascending(ptyIn') /\ Ascending(chan') /\ Ascending(up')
    BY <1>1, <2>1 DEF Ordered, InOrder
  <2> QED
    BY <1>1, <1>2, <2>1, <2>2, Shrinks
<1>4. CASE writer # "done"
  <2>1. chan' = Append(chan, held)
    BY <1>4 DEF PumpSends
  <2>2. /\ held \in 1..Len(Events) /\ held # Close
        /\ \A m \in Range(chan) : m < held
    <3>1. held \in 1..Len(Events)
      BY <1>1, EventsAssumption DEF Sound, Numbers, None
    <3>2. \A m \in Range(chan) \ {Close} : m < held
      BY <1>2, Nested DEF Ordered, InOrder, Before
    <3> QED
      BY <3>1, <3>2, EventsAssumption DEF Close
  <2>3. Range(chan') = Range(chan) \cup {held} /\ Ascending(chan')
    BY <2>1, <2>2, PutLast DEF Sound, Channel, Ordered, InOrder
  <2>4. /\ fromUp' = fromUp /\ fromHold' = fromHold /\ fromHeld' = fromHold
        /\ fromChan' = fromChan /\ fromData' = fromData /\ way' = way
    BY <1>1, <1>2, <2>2, <2>3 DEF way, fromData, fromChan, fromHeld, fromHold, fromUp
  <2>5. Before(Range(chan') \ {Close}, fromHold)
    BY <1>2, <2>3, Nested DEF Ordered, InOrder, Before
  <2>6. InOrder'
    BY <1>1, <1>2, <2>3, <2>4, <2>5 DEF Ordered, InOrder, Before
  <2>7. Ahead' /\ Covered'
    BY <1>1, <2>4 DEF Ordered, Ahead, Covered
  <2> QED
    BY <2>6, <2>7 DEF Ordered
<1> QED
  BY <1>3, <1>4

(* A size arrives; a key is in the writer's hands, which are free.         *)
LEMMA WriterReceivesOrdered == ASSUME Sound, Ordered, WriterReceives PROVE Ordered'
<1> DEFINE m == Head(chan)
<1>1. /\ chan # <<>> /\ chan' = Tail(chan) /\ data = None
      /\ UNCHANGED <<typed, received, loop, ptyIn, held, hold, up, link, program>>
  BY DEF WriterReceives, Sound, InPhase, clientVars, relayVars, pumpVars, threadVars, ptyVars
<1>2. /\ m \in {Close} \cup 1..Len(Events) /\ Range(chan) = {m} \cup Range(chan')
      /\ Ascending(chan') /\ \A n \in Range(chan') : n # Close => m < n
  BY <1>1, TakeFirst DEF Sound, Channel, Ordered, InOrder
<1>3. \/ m = Close /\ UNCHANGED <<data, size>>
      \/ m # Close /\ Events[m] = "resize" /\ size' = m /\ UNCHANGED data
      \/ m # Close /\ Events[m] # "resize" /\ data' = m /\ UNCHANGED size
  BY DEF WriterReceives
<1>4. keyboard' = keyboard /\ carried(data) = {} /\ fromData = fromChan
  BY <1>1 DEF keyboard, carried, fromData
<1>5. /\ fromUp' = fromUp /\ fromHold' = fromHold /\ fromHeld' = fromHeld
      /\ fromChan' \subseteq fromChan
      /\ fromChan = fromChan' \cup ({m} \ {Close})
  BY <1>1, <1>2, <1>4 DEF fromChan, fromHeld, fromHold, fromUp
<1>6. m # Close => /\ m \in way /\ m \in 1..typed /\ m # None /\ m \in 1..Len(Events)
                   /\ \A n \in Range(ptyIn) : n < m
                   /\ \A n \in fromChan' : m < n
  <2> SUFFICES ASSUME m # Close
               PROVE  /\ m \in way /\ m \in 1..typed /\ m # None /\ m \in 1..Len(Events)
                      /\ \A n \in Range(ptyIn) : n < m
                      /\ \A n \in fromChan' : m < n
    OBVIOUS
  <2>1. m \in way /\ m \in 1..typed /\ m \in 1..Len(Events)
    BY <1>2 DEF way, fromData, fromChan, Ordered, Ahead
  <2>2. \A n \in Range(ptyIn) : n < m
    BY <1>2, Nested DEF Ordered, InOrder, Before
  <2>3. \A n \in fromHeld : m < n
    BY <1>2 DEF Ordered, InOrder, Before
  <2>4. \A n \in fromChan' : m < n
    BY <1>2, <1>5, <2>3 DEF fromChan
  <2>5. m # None
    BY <2>1, EventsAssumption DEF None
  <2> QED
    BY <2>1, <2>2, <2>4, <2>5
<1>7. Range(chan') \ {Close} \subseteq Range(chan) \ {Close}
  BY <1>2
<1> HIDE DEF m
<1>8. CASE m # Close /\ Events[m] # "resize"
  <2>1. data' = m /\ size' = size /\ carried(data') = {m}
    BY <1>3, <1>6, <1>8 DEF carried
  <2>2. fromData' = fromData /\ way' = way
    BY <1>1, <1>4, <1>5, <1>8, <2>1 DEF way, fromData
  <2>3. InOrder'
    BY <1>1, <1>2, <1>4, <1>5, <1>6, <1>7, <1>8, <2>1, <2>2 DEF Ordered, InOrder, Before
  <2>4. Events[m] = "key"
    BY <1>6, <1>8, EventsAssumption
  <2>5. Ahead' /\ Covered'
    BY <1>1, <1>4, <2>1, <2>2, <2>4 DEF Ordered, Ahead, Covered
  <2> QED
    BY <2>3, <2>5 DEF Ordered
<1>9. CASE m = Close \/ Events[m] = "resize"
  <2>1. data' = data /\ carried(data') = {} /\ (m # Close => size' = m) /\ (m = Close => size' = size)
    BY <1>3, <1>4, <1>9
  <2>2. fromData' = fromChan' /\ way' \subseteq way /\ way = way' \cup ({m} \ {Close})
    BY <1>1, <1>4, <1>5, <2>1 DEF way, fromData
  <2>3. InOrder'
    BY <1>1, <1>2, <1>4, <1>5, <1>7, <2>1, <2>2 DEF Ordered, InOrder, Before
  <2>4. m # Close => \A n \in way' : Events[n] # "key" => m < n
    BY <1>1, <1>6, <2>2 DEF way, Ordered, Ahead
  <2>5. Ahead'
    BY <1>1, <1>4, <2>1, <2>2, <2>4 DEF Ordered, Ahead
  <2>6. Covered'
    <3>1. typed \in Nat /\ size \in Nat
      BY EventsAssumption DEF Sound, Numbers
    <3>2. m # Close => size < m
      BY <1>6, <1>9 DEF Ordered, Ahead
    <3>3. m # Close => m <= m /\ \A n \in 1..typed : n <= size => n <= m
      BY <1>6, <3>1, <3>2
    <3> QED
      BY <1>1, <1>9, <2>1, <2>2, <3>3 DEF Ordered, Covered
  <2> QED
    BY <2>3, <2>5, <2>6 DEF Ordered
<1> QED
  BY <1>8, <1>9

(* The key goes behind those the PTY holds.                                *)
LEMMA WriterWritesOrdered == ASSUME Sound, Ordered, WriterWrites PROVE Ordered'
<1>1. /\ data' = None /\ data # None
      /\ UNCHANGED <<typed, received, size, loop, chan, held, up, hold, link, program>>
  BY DEF WriterWrites, Sound, InPhase, clientVars, relayVars, pumpVars, threadVars, ptyVars
<1>2. keyboard' = keyboard /\ carried(data') = {} /\ carried(data) = {data}
  BY <1>1 DEF keyboard, carried
<1>3. CASE program = "exited"
  <2>1. UNCHANGED ptyIn
    BY <1>3 DEF WriterWrites
  <2>2. Ascending(ptyIn') /\ Ascending(chan') /\ Ascending(up')
    BY <1>1, <2>1 DEF Ordered, InOrder
  <2> QED
    BY <1>1, <1>2, <1>3, <2>1, <2>2, Shrinks
<1>4. CASE program # "exited"
  <2>1. ptyIn' = Append(ptyIn, data)
    BY <1>4 DEF WriterWrites
  <2>2. data \in 1..typed /\ \A m \in Range(ptyIn) : m < data
    BY <1>2, Nested DEF Ordered, InOrder, Before, Ahead
  <2>3. Range(ptyIn') = Range(ptyIn) \cup {data} /\ Ascending(ptyIn')
    <3>1. ptyIn \in Seq(1..typed) /\ Ascending(ptyIn)
      BY DEF Sound, Ptys, Ordered, InOrder
    <3>2. /\ Range(Append(ptyIn, data)) = Range(ptyIn) \cup {data}
          /\ Ascending(Append(ptyIn, data))
      <4> DEFINE S == 1..typed
      <4>1. ptyIn \in Seq(S) /\ data \in S /\ (data # Close => \A m \in Range(ptyIn) : m < data)
        BY <3>1, <2>2
      <4> HIDE DEF S
      <4> QED
        BY <3>1, <4>1, PutLast
    <3> QED
      BY <2>1, <3>2
  <2>4. /\ fromUp' = fromUp /\ fromHold' = fromHold /\ fromHeld' = fromHeld
        /\ fromChan' = fromChan /\ fromData' = fromChan /\ way' = way
    BY <1>1, <1>2, <2>3 DEF way, fromData, fromChan, fromHeld, fromHold, fromUp
  <2>5. Before(Range(ptyIn'), fromChan)
    BY <1>2, <2>3, Nested DEF Ordered, InOrder, Before
  <2>6. InOrder'
    BY <1>1, <1>2, <2>3, <2>4, <2>5 DEF Ordered, InOrder, Before
  <2>7. Ahead' /\ Covered'
    BY <1>1, <1>2, <2>3, <2>4 DEF Ordered, Ahead, Covered
  <2> QED
    BY <2>6, <2>7 DEF Ordered
<1> QED
  BY <1>3, <1>4

(* The first key of the PTY arrives.                                       *)
LEMMA ProgramReadsOrdered == ASSUME Sound, Ordered, ProgramReads PROVE Ordered'
<1> DEFINE m == Head(ptyIn)
<1>1. /\ ptyIn # <<>> /\ ptyIn' = Tail(ptyIn) /\ received' = m
      /\ UNCHANGED <<typed, size, loop, data, chan, held, hold, up, link, program>>
  BY DEF ProgramReads, clientVars, relayVars, pumpVars, threadVars, ptyVars
<1>2. /\ m \in 1..typed /\ Range(ptyIn) = {m} \cup Range(ptyIn')
      /\ Ascending(ptyIn') /\ \A n \in Range(ptyIn') : n # Close => m < n
  BY <1>1, TakeFirst DEF Sound, Ptys, Ordered, InOrder
<1> HIDE DEF m
<1>3. /\ keyboard' = keyboard /\ fromUp' = fromUp /\ fromHold' = fromHold /\ fromHeld' = fromHeld
      /\ fromChan' = fromChan /\ fromData' = fromData /\ way = way' \cup {m}
  BY <1>1, <1>2 DEF keyboard, way, fromData, fromChan, fromHeld, fromHold, fromUp
<1>4. InOrder'
  BY <1>1, <1>2, <1>3 DEF Ordered, InOrder, Before
<1>5. \A n \in way' : m < n
  <2>1. \A n \in fromData : m < n
    BY <1>2 DEF Ordered, InOrder, Before
  <2>2. \A n \in Range(ptyIn') : n \in 1..typed /\ n # Close
    BY <1>2, Nested DEF Ordered, Ahead, Close
  <2> QED
    BY <1>2, <1>3, <2>1, <2>2 DEF way
<1>6. Ahead'
  BY <1>1, <1>2, <1>3, <1>5 DEF Ordered, Ahead
<1>7. Covered'
  <2>1. typed \in Nat /\ received \in Nat /\ received < m
    <3>1. Events[m] = "key" /\ m \in way
      BY <1>2, <1>3 DEF Ordered, Ahead
    <3> QED
      BY <3>1, EventsAssumption DEF Sound, Numbers, Ordered, Ahead
  <2>2. Events[m] = "key" /\ m <= m /\ \A n \in 1..typed : n <= received => n <= m
    BY <1>2, <2>1 DEF Ordered, Ahead
  <2> QED
    BY <1>1, <1>3, <2>2 DEF Ordered, Covered
<1> QED
  BY <1>4, <1>6, <1>7 DEF Ordered

----------------------------------------------------------------------------
(* The invariant.                                                          *)

(* The two halves of the inductive invariant.                              *)
LEMMA Halves == SessionIInv <=> Sound /\ Ordered
BY SoundIsTyped DEF SessionIInv, Sound, Ordered

(* Nothing was typed yet.                                                  *)
LEMMA SessionStarts == SessionInit => SessionIInv
<1> SUFFICES ASSUME SessionInit PROVE Sound /\ Ordered
  BY Halves
<1>1. typed = 0 /\ Len(Events) \in Nat /\ said = 0
  BY EventsAssumption DEF SessionInit
<1>2. Phases
  <2>1. direct \in BOOLEAN /\ reset \in BOOLEAN /\ answers \in BOOLEAN
    BY DEF SessionInit
  <2> QED
    BY <2>1 DEF SessionInit, Phases
<1>8. Numbers
  BY <1>1 DEF SessionInit, Numbers, None
<1>3. Sockets /\ Channel /\ Ptys
  BY <1>1, Emptied, BoundsAssumption DEF SessionInit, Sockets, Channel, Ptys
<1>4. InPhase
  BY Emptied DEF SessionInit, InPhase, None
<1>5. keyboard = {} /\ way = {}
  BY Emptied DEF SessionInit, keyboard, way, fromData, fromChan, fromHeld, fromHold, fromUp, carried, None
<1>6. InOrder
  BY <1>5, Nested, Emptied DEF SessionInit, InOrder, Before
<1>7. Ahead /\ Covered
  BY <1>1, <1>5, Nested, Emptied DEF SessionInit, Ahead, Covered
<1> QED
  BY <1>2, <1>3, <1>4, <1>6, <1>7, <1>8 DEF Sound, Ordered

(* Every step keeps the invariant.                                         *)
LEMMA SessionSteps == SessionIInv /\ [SessionNext]_session => SessionIInv'
<1> SUFFICES ASSUME Sound, Ordered, [SessionNext]_session PROVE Sound' /\ Ordered'
  <2>1. SessionIInv' <=> Sound' /\ Ordered'
    BY Halves, PTL
  <2> QED
    BY <2>1, Halves
<1>1. Ahead
  BY DEF Ordered
<1>2. CASE SessionNext
  <2>1. Sound'
    BY <1>1, <1>2,
     ActsSound, WritesFrameSound, EscapesSound, NoticesEndSound, OutputEndsSound,
     TakesUpSound, TakesDownSound, ShowsSound, RelayEndsSound, BreaksSound, StartsSound,
     PumpReadsSound, PumpSendsSound, PumpEndsSound, PumpClosesSound,
     MainClosesSound, MainJoinsSound, MainReapsSound, WriterReceivesSound,
     WriterWritesSound, WriterJoinsSound, ReaderReadsSound, ReaderWritesSound,
     ReaderEndsSound, ProgramReadsSound, ProgramAnswersSound, ProgramSpeaksSound,
     ProgramExitsSound, HangsUpSound
       DEF SessionNext
  <2>2. Ordered'
    BY <1>2, AsideOrdered,
       ActsOrdered, WritesFrameOrdered, EscapesOrdered, NoticesEndOrdered,
       TakesUpOrdered, ShowsOrdered, RelayEndsOrdered, BreaksOrdered, StartsOrdered,
       PumpReadsOrdered, PumpSendsOrdered, PumpClosesOrdered, MainClosesOrdered,
       WriterReceivesOrdered, WriterWritesOrdered, ProgramReadsOrdered
       DEF SessionNext, Aside
  <2> QED
    BY <2>1, <2>2
<1>3. CASE UNCHANGED session
  <2>1. Sound'
    BY <1>3 DEF session, clientVars, relayVars, pumpVars, threadVars, ptyVars,
                Sound, Phases, Numbers, Sockets, Channel, Ptys, InPhase
  <2>2. Ordered'
    BY <1>3, Stays DEF session, clientVars, relayVars, pumpVars, threadVars, ptyVars
  <2> QED
    BY <2>1, <2>2
<1> QED
  BY <1>2, <1>3

(* What the session keeps at every step: SessionIInv is inductive.         *)
THEOREM SessionInductive == SessionSpec => []SessionIInv
BY SessionStarts, SessionSteps, PTL DEF SessionSpec

(* For any events and any capacities, at every moment of a session: all     *)
(* that was typed is on its way to the program, in order, or has arrived,   *)
(* as long as the connection stands and the program runs, and a session     *)
(* that is over has had its child and its threads reaped (run_session,      *)
(* tcp_to_pty, pty_thread, handle_session).                                 *)
THEOREM NothingIsLost == SessionSpec => []SessionInv
BY SessionInductive, SessionSafe, PTL
=============================================================================
