-------------------------- MODULE HolePunch_proofs --------------------------
(***************************************************************************)
(* Proofs about HolePunch, for every set of meetings, every number of ports *)
(* and of faults: what the two ends have of each other (PunchInv).  The     *)
(* argument is that a confirmation stays true, because an end that is done  *)
(* keeps its socket and a NAT what it remembers; and that at most one end   *)
(* goes on without one, because who punches in one round calls in the other *)
(* and stops once it is done.                                               *)
(***************************************************************************)
EXTENDS HolePunch, TLAPS

----------------------------------------------------------------------------
(* The instructions.                                                       *)

(* What the gateway tells the two ends of each other's NAT fits together.   *)
LEMMA SettingFacts ==
    ASSUME setting \in Settings
    PROVE  /\ setting.client.nat \in NatType /\ setting.agent.nat \in NatType
           /\ setting.client.peer_nat = setting.agent.nat /\ setting.agent.peer_nat = setting.client.nat
           /\ setting.client.seed_port \in Int /\ setting.agent.seed_port \in Int
           /\ setting.client.seq \in Int /\ setting.agent.seq \in Int
<1>1. PICK m \in Meetings :
          /\ answer(m).reply = "ok"
          /\ setting = [client |-> answer(m).client, agent |-> answer(m).agent, hard |-> m.hard,
                        lan |-> m.client.ip = m.agent.ip]
  BY DEF Settings
<1>2. m.client \in Peer /\ m.agent \in Peer /\ m.req \in PortRequest
  BY MeetingsAssumption
<1>3. answer(m) = instructions(m.req, m.client, m.agent)
  <2>1. (CHOOSE x \in {m.client} : TRUE) = m.client /\ (CHOOSE x \in {m.agent} : TRUE) = m.agent
    OBVIOUS
  <2> QED
    BY <1>1, <2>1 DEF answer, peer2peer, refused
<1>4. /\ setting.client = answer(m).client /\ setting.agent = answer(m).agent
  BY <1>1
<1>5. nat_type(m.client) \in NatType /\ nat_type(m.agent) \in NatType
  BY DEF nat_type, NatType
<1>6. /\ m.req.easy_seed_port \in Int
      /\ seq_of(m.req, m.client, m.agent, m.client.ip = m.agent.ip) \in Int
  BY <1>2, WordAssumption DEF PortRequest, Port, seq_of
<1> QED
  BY <1>3, <1>4, <1>5, <1>6 DEF instructions

(* The two ends are each other's.                                          *)
LEMMA Ends ==
    ASSUME NEW e \in End
    PROVE  Other(e) \in End /\ Other(e) # e /\ Other(Other(e)) = e /\ End = {e, Other(e)}
BY DEF End, Other

(* One end punches first.                                                  *)
LEMMA OneIsFirst ==
    ASSUME setting \in Settings, NEW e \in End
    PROVE  first(Other(e)) <=> ~first(e)
<1>1. first("client") <=> ~first("agent")
  <2>1. ease["easy"] = 2 /\ ease["unknown"] = 1 /\ ease["hard"] = 0
    BY DEF ease, NatType
  <2>2. CASE setting.client.nat = setting.agent.nat
    BY <2>2, SettingFacts DEF first, puncher, instr
  <2>3. CASE setting.client.nat # setting.agent.nat
    BY <2>1, <2>3, SettingFacts DEF first, puncher, instr, NatType
  <2> QED
    BY <2>2, <2>3
<1> QED
  BY <1>1 DEF End, Other

(* Who punches: the first, until it changes its side.                      *)
LEMMA WhoPunches ==
    ASSUME PunchTypeOK, Sides, NEW e \in End
    PROVE  punches(e) <=> (first(e) <=> ~inner[e])
<1>1. left[e] \in BOOLEAN /\ inner[e] \in BOOLEAN
  BY DEF PunchTypeOK
<1>2. (left[e] = (e = "client")) <=> ~inner[e]
  BY DEF Sides
<1>3. CASE inner[e]
  <2>1. instr(e).nat = instr(e).peer_nat
    BY <1>3 DEF Sides
  <2> QED
    BY <1>1, <1>2, <1>3, <2>1 DEF punches, first, puncher
<1>4. CASE ~inner[e]
  BY <1>1, <1>2, <1>4 DEF punches, first, puncher
<1> QED
  BY <1>3, <1>4

(* Ports are numbers.                                                      *)
LEMMA PortsAreNumbers ==
    ASSUME setting \in Settings, NEW e \in End, NEW side \in BOOLEAN, NEW s \in 1..instr(e).seq
    PROVE  /\ bound_to(my_port(instr(e), side, s)) \in Int
           /\ peer_port(instr(e), side, s) \in Int
<1>1. instr(e).seed_port \in Int /\ instr(e).seq \in Int /\ s \in Int
  BY SettingFacts DEF instr
<1>2. \A a, b \in Int : add16(a, b) \in Int /\ sub16(a, b) \in Int
  BY WordAssumption DEF add16, sub16
<1>3. my_port(instr(e), side, s) \in Int /\ peer_port(instr(e), side, s) \in Int
  BY <1>1, <1>2 DEF my_port, peer_port
<1> QED
  BY <1>3, WordAssumption DEF bound_to, SomePort

----------------------------------------------------------------------------
(* What stays true.                                                        *)

(* Who is done keeps its socket, and a NAT what it remembers.              *)
Keeps(e) ==
    /\ setting' = setting /\ maps[e] \subseteq maps'[e]
    /\ inner[e] => inner'[e]
    /\ done(e) => done(e)' /\ chan'[e] = chan[e] /\ left'[e] = left[e]

(* A port that a socket has outside, it keeps.                             *)
LEMMA PortsStay ==
    ASSUME NEW e \in End, setting' = setting, maps[e] \subseteq maps'[e], NEW o, NEW p
    PROVE  translated(e, o, p) \subseteq translated(e, o, p)'
BY DEF translated

(* What is said of a datagram under way stays true, and of one received.   *)
LEMMA SentStays ==
    ASSUME NEW e \in End, Keeps(e), NEW d, sentBy(e, d)
    PROVE  sentBy(e, d)'
<1>1. first(e)' = first(e)
  BY DEF Keeps, first, instr
<1>2. hasCalled(e) => hasCalled(e)'
  BY <1>1 DEF hasCalled, Keeps
<1>3. done(e) /\ isReached(e, d.from) => isReached(e, d.from)'
  <2> SUFFICES ASSUME done(e), isReached(e, d.from) PROVE isReached(e, d.from)'
    OBVIOUS
  <2>1. chan'[e] = chan[e] /\ setting' = setting /\ maps[e] \subseteq maps'[e]
    BY DEF Keeps
  <2> QED
    BY <2>1 DEF isReached, translated
<1> QED
  BY <1>2, <1>3 DEF sentBy, Keeps

\* What is said of a datagram that was received stays true.
LEMMA ReceivedStays ==
    ASSUME NEW e \in End, Keeps(e), Keeps(Other(e)), NEW d, receivedFrom(e, d)
    PROVE  receivedFrom(e, d)'
<1>1. first(e)' = first(e)
  BY DEF Keeps, first, instr
<1>2. hasCalled(e) => hasCalled(e)'
  BY <1>1 DEF hasCalled, Keeps
<1>3. setting' = setting /\ maps[e] \subseteq maps'[e] /\ maps[Other(e)] \subseteq maps'[Other(e)]
  BY DEF Keeps
<1>4. done(e) => chan'[e] = chan[e] /\ done(e)'
  BY DEF Keeps
<1>5. done(e) /\ isReached(e, d.from) => isReached(e, d.from)'
  BY <1>3, <1>4 DEF isReached, translated
<1>6. done(e) /\ chan[e].peer \in translated(Other(e), d.dst, d.from)
        => chan'[e].peer \in translated(Other(e), d.dst, d.from)'
  BY <1>3, <1>4 DEF translated
<1> QED
  BY <1>2, <1>4, <1>5, <1>6 DEF receivedFrom

(* Partners stay partners as long as nobody else is done.                  *)
LEMMA PartnersStay ==
    ASSUME Partners, \A e \in End : Keeps(e) /\ (done(e)' => done(e))
    PROVE  Partners'
<1>1. \A e \in End : done(e)' = done(e)
  BY DEF Keeps, done, settled
<1>2. ASSUME NEW e \in End, done(e)' PROVE done(Other(e))' \/ (punches(e)' /\ hasCalled(Other(e))')
  <2>1. done(e) /\ Other(e) \in End
    BY <1>1, <1>2, Ends
  <2>2. done(Other(e)) \/ (punches(e) /\ hasCalled(Other(e)))
    BY <2>1 DEF Partners
  <2>3. done(Other(e)) => done(Other(e))'
    BY <2>1, <1>1
  <2>4. punches(e) => punches(e)'
    BY <2>1 DEF Keeps, punches, instr
  <2>5. hasCalled(Other(e)) => hasCalled(Other(e))'
    BY <2>1 DEF Keeps, hasCalled, first, instr
  <2> QED
    BY <2>2, <2>3, <2>4, <2>5
<1>3. ASSUME done("client")', done("agent")' PROVE linked'
  <2>1. done("client") /\ done("agent") /\ linked
    BY <1>1, <1>3 DEF Partners, End
  <2>2. \A e \in End : chan'[e] = chan[e] /\ setting' = setting /\ maps[e] \subseteq maps'[e]
    BY <2>1 DEF Keeps, End
  <2>3. "client" \in End /\ "agent" \in End
    BY DEF End
  <2> QED
    BY <2>1, <2>2, <2>3 DEF linked, translated
<1> QED
  BY <1>2, <1>3 DEF Partners

(* Nothing of the settings changes sides.                                  *)
LEMMA SidesStay == ASSUME Sides, UNCHANGED <<setting, left, inner>> PROVE Sides'
BY DEF Sides, instr
\* An end that does not change its side keeps its row.
LEMMA RowsStay == ASSUME UNCHANGED setting, NEW e \in End, left'[e] = left[e], NEW p PROVE ofRow(e, p)' = ofRow(e, p)
BY DEF ofRow, instr

----------------------------------------------------------------------------
(* The steps.                                                              *)

(* Nothing is under way at first.                                          *)
LEMMA PunchStarts == PunchInit => PunchIInv
<1> SUFFICES ASSUME PunchInit PROVE PunchIInv
  OBVIOUS
<1>1. /\ setting \in Settings /\ timely \in BOOLEAN
      /\ st = [e \in End |-> "start"]
      /\ left = [e \in End |-> e = "client"] /\ inner = [e \in End |-> FALSE]
      /\ socks = [e \in End |-> {}] /\ buf = [e \in End |-> {}]
      /\ chan = [e \in End |-> NoChannel]
      /\ maps = [e \in End |-> {}] /\ net = {} /\ faults = 0
  BY DEF PunchInit
<1>2. \A e \in End : st[e] = "start" /\ ~done(e)
  BY <1>1 DEF done, settled
<1>3. PunchTypeOK
  BY <1>1, MeetingsAssumption DEF PunchTypeOK, final
<1>4. Sides
  BY <1>1 DEF Sides
<1>5. Numbers
  BY <1>1 DEF Numbers, NoChannel
<1>6. Messages
  BY <1>1, Ends DEF Messages
<1>7. Partners
  BY <1>2 DEF Partners, End
<1> QED
  BY <1>3, <1>4, <1>5, <1>6, <1>7 DEF PunchIInv

(* Who changes its state only, and sends at most what nobody waits for.    *)
LEMMA Untouched ==
    ASSUME PunchIInv, UNCHANGED <<setting, left, inner, socks, buf, chan, maps>>,
           \A e \in End : done(e)' = done(e),
           \A d \in net' : d \in net \/ d.what \in {"punch", "quic"}
    PROVE  Sides' /\ Numbers' /\ Messages' /\ Partners'
<1>1. \A e \in End : Keeps(e)
  BY DEF Keeps
<1>2. Sides'
  BY SidesStay DEF PunchIInv
<1>3. Numbers'
  BY DEF PunchIInv, Numbers
<1>4. Partners'
  BY <1>1, PartnersStay DEF PunchIInv
<1>5. ASSUME NEW d \in net' PROVE sentBy(Other(d.to), d)'
  <2>1. Other(d.to) \in End
    BY DEF Other, End
  <2>2. CASE d \in net
    BY <1>1, <2>1, <2>2, SentStays DEF PunchIInv, Messages
  <2>3. CASE d.what \in {"punch", "quic"}
    BY <2>3 DEF sentBy
  <2> QED
    BY <1>5, <2>2, <2>3
<1>6. ASSUME NEW e \in End, NEW d \in buf'[Other(e)] PROVE receivedFrom(e, d)'
  BY <1>1, <1>6, Ends, ReceivedStays DEF PunchIInv, Messages
<1> QED
  BY <1>2, <1>3, <1>4, <1>5, <1>6 DEF Messages

(* An end begins a round.                                                  *)
LEMMA BeginsSteps == ASSUME PunchIInv, NEW e \in End, Begins(e) PROVE PunchIInv'
<1>1. /\ st[e] = "start" /\ UNCHANGED <<setting, timely, left, inner, socks, buf, chan, maps, net, faults>>
      /\ \E s \in {"asleep", "ready"} : st' = [st EXCEPT ![e] = s]
  BY DEF Begins
<1>2. \A x \in End : st'[x] = st[x] \/ (x = e /\ st'[x] \in {"asleep", "ready"})
  BY <1>1 DEF PunchIInv, PunchTypeOK
<1>3. PunchTypeOK'
  <2>1. \A x \in End : \A p : ofRow(x, p)' = ofRow(x, p)
    BY <1>1, RowsStay
  <2> QED
    BY <1>1, <1>2, <2>1 DEF PunchIInv, PunchTypeOK
<1>4. \A x \in End : done(x)' = done(x)
  BY <1>1, <1>2 DEF done, settled
<1> QED
  BY <1>1, <1>3, <1>4, Untouched DEF PunchIInv

(* An end has slept long enough.                                           *)
LEMMA WakesSteps == ASSUME PunchIInv, NEW e \in End, Wakes(e) PROVE PunchIInv'
<1>1. /\ st[e] = "asleep" /\ UNCHANGED <<setting, timely, left, inner, socks, buf, chan, maps, net, faults>>
      /\ st' = [st EXCEPT ![e] = "ready"]
  BY DEF Wakes
<1>2. \A x \in End : st'[x] = st[x] \/ (x = e /\ st'[x] = "ready")
  BY <1>1 DEF PunchIInv, PunchTypeOK
<1>3. PunchTypeOK'
  <2>1. \A x \in End : \A p : ofRow(x, p)' = ofRow(x, p)
    BY <1>1, RowsStay
  <2> QED
    BY <1>1, <1>2, <2>1 DEF PunchIInv, PunchTypeOK
<1>4. \A x \in End : done(x)' = done(x)
  BY <1>1, <1>2 DEF done, settled
<1> QED
  BY <1>1, <1>3, <1>4, Untouched DEF PunchIInv

(* The dial succeeds, or does not.                                         *)
LEMMA DialEnds == ASSUME PunchIInv, Connects \/ DialFails PROVE PunchIInv'
<1>1. /\ UNCHANGED <<setting, timely, left, inner, socks, buf, chan, maps, net, faults>>
      /\ st["client"] = "dialing"
      /\ \/ st' = [e \in End |-> "connected"] /\ st["agent"] = "ok"
         \/ st' = [st EXCEPT !["client"] = "closed"]
  BY DEF Connects, DialFails
<1>2. /\ st \in [End -> {"start", "asleep", "ready", "waiting", "ok", "dialing"} \cup final]
      /\ "client" \in End /\ "agent" \in End /\ \A x \in End : x = "client" \/ x = "agent"
  BY DEF PunchIInv, PunchTypeOK, End
<1>3. \A x \in End : st'[x] = st[x] \/ (st[x] \in {"ok", "dialing"} /\ st'[x] \in {"connected", "closed"})
  BY <1>1, <1>2
<1>4. PunchTypeOK'
  <2>1. \A x \in End : \A p : ofRow(x, p)' = ofRow(x, p)
    BY <1>1, RowsStay
  <2>2. st' \in [End -> {"start", "asleep", "ready", "waiting", "ok", "dialing"} \cup final]
    BY <1>1, <1>2 DEF final
  <2> QED
    BY <1>1, <1>3, <2>1, <2>2 DEF PunchIInv, PunchTypeOK
<1>5. \A x \in End : done(x)' = done(x)
  BY <1>1, <1>3 DEF done, settled
<1> QED
  BY <1>1, <1>4, <1>5, Untouched DEF PunchIInv

(* The client dials.                                                       *)
LEMMA DialsSteps == ASSUME PunchIInv, Dials PROVE PunchIInv'
<1>1. /\ st["client"] = "ok" /\ st' = [st EXCEPT !["client"] = "dialing"]
      /\ net' = net \cup {[to |-> "agent", from |-> x, dst |-> chan["client"].peer, what |-> "quic"]
                              : x \in translated("client", chan["client"].own, chan["client"].peer)}
      /\ UNCHANGED <<setting, timely, left, inner, socks, buf, chan, maps, faults>>
  BY DEF Dials
<1>2. "client" \in End /\ "agent" \in End
  BY DEF End
<1>3. \A x \in End : st'[x] = st[x] \/ (st[x] = "ok" /\ st'[x] = "dialing")
  BY <1>1, <1>2 DEF PunchIInv, PunchTypeOK
<1>4. \A x \in translated("client", chan["client"].own, chan["client"].peer) : x \in Int
  BY <1>2 DEF translated, PunchIInv, Numbers
<1>5. chan["client"].peer \in Int
  BY <1>2 DEF PunchIInv, Numbers
<1>6. PunchTypeOK'
  <2>1. \A x \in End : \A p : ofRow(x, p)' = ofRow(x, p)
    BY <1>1, RowsStay
  <2>2. net' \subseteq Datagram
    BY <1>1, <1>2, <1>4, <1>5 DEF PunchIInv, PunchTypeOK, Datagram
  <2>3. st' \in [End -> {"start", "asleep", "ready", "waiting", "ok", "dialing"} \cup final]
    BY <1>1, <1>2 DEF PunchIInv, PunchTypeOK
  <2> QED
    BY <1>1, <1>3, <2>1, <2>2, <2>3 DEF PunchIInv, PunchTypeOK
<1>7. \A x \in End : done(x)' = done(x)
  BY <1>1, <1>3 DEF done, settled
<1>8. \A d \in net' : d \in net \/ d.what \in {"punch", "quic"}
  BY <1>1
<1> QED
  BY <1>1, <1>6, <1>7, <1>8, Untouched DEF PunchIInv

(* A datagram is lost.                                                     *)
LEMMA LosesSteps == ASSUME PunchIInv, Loses PROVE PunchIInv'
<1>1. /\ UNCHANGED <<setting, timely, st, left, inner, socks, buf, chan, maps>>
      /\ net' \subseteq net /\ faults' = faults + 1 /\ faults < MaxFaults
  BY DEF Loses, end
<1>2. PunchTypeOK'
  <2>1. \A x \in End : \A p : ofRow(x, p)' = ofRow(x, p)
    BY <1>1, RowsStay
  <2>2. faults' \in 0..MaxFaults
    BY <1>1, MeetingsAssumption DEF PunchIInv, PunchTypeOK
  <2> QED
    BY <1>1, <2>1, <2>2 DEF PunchIInv, PunchTypeOK
<1>3. \A x \in End : done(x)' = done(x)
  BY <1>1 DEF done, settled
<1> QED
  BY <1>1, <1>2, <1>3, Untouched DEF PunchIInv

(* An end has waited long enough.                                          *)
LEMMA TimesOutSteps == ASSUME PunchIInv, NEW e \in End, TimesOut(e) PROVE PunchIInv'
<1>1. /\ st[e] = "waiting" /\ UNCHANGED <<setting, timely, chan, maps, net, faults>>
      /\ socks' = [socks EXCEPT ![e] = {}] /\ buf' = [buf EXCEPT ![e] = {}]
      /\ \/ /\ left' = [left EXCEPT ![e] = ~@] /\ inner' = [inner EXCEPT ![e] = TRUE]
            /\ st' = [st EXCEPT ![e] = "start"] /\ ~inner[e] /\ instr(e).nat = instr(e).peer_nat
         \/ st' = [st EXCEPT ![e] = "timeout"] /\ UNCHANGED <<left, inner>>
  BY DEF TimesOut, closes, changesSide
<1>2. /\ st \in [End -> {"start", "asleep", "ready", "waiting", "ok", "dialing"} \cup final]
      /\ left \in [End -> BOOLEAN] /\ inner \in [End -> BOOLEAN]
  BY DEF PunchIInv, PunchTypeOK
<1>3. \A x \in End : \/ x # e /\ st'[x] = st[x] /\ left'[x] = left[x] /\ inner'[x] = inner[x]
                     \/ x = e /\ st'[x] \in {"start", "timeout"} /\ (inner[x] => inner'[x])
  BY <1>1, <1>2
<1>4. \A x \in End : x # e => socks'[x] = socks[x] /\ buf'[x] = buf[x]
  BY <1>1 DEF PunchIInv, Numbers
<1>5. \A x \in End : buf'[x] \subseteq buf[x] /\ (x = e => buf'[x] \subseteq {} /\ socks'[x] \subseteq {})
  BY <1>1, <1>4 DEF PunchIInv, Numbers
<1>6. PunchTypeOK'
  <2>1. \A x \in End : x # e => \A p : ofRow(x, p)' = ofRow(x, p)
    BY <1>1, <1>3, RowsStay
  <2>2. /\ st' \in [End -> {"start", "asleep", "ready", "waiting", "ok", "dialing"} \cup final]
        /\ left' \in [End -> BOOLEAN] /\ inner' \in [End -> BOOLEAN]
    BY <1>1, <1>2 DEF final
  <2>3. ASSUME NEW x \in End
        PROVE  /\ \A d, y \in buf'[x] : d.dst = y.dst => d = y
               /\ st'[x] \in {"start", "asleep", "ready", "failed", "timeout"} => socks'[x] = {}
               /\ \A p \in socks'[x] : ofRow(x, p)'
               /\ \A d \in buf'[x] : st'[x] = "waiting" /\ d.dst \in socks'[x]
    <3>1. CASE x = e
      BY <1>5, <3>1
    <3>2. CASE x # e
      BY <1>3, <1>4, <2>1, <3>2 DEF PunchIInv, PunchTypeOK
    <3> QED
      BY <3>1, <3>2
  <2> QED
    BY <1>1, <2>2, <2>3 DEF PunchIInv, PunchTypeOK
<1>7. Sides'
  <2> SUFFICES ASSUME NEW x \in End
               PROVE  /\ (left'[x] = (x = "client")) <=> ~inner'[x]
                      /\ inner'[x] => instr(x).nat = instr(x).peer_nat
    BY <1>1 DEF Sides, instr
  <2>1. /\ (left[x] = (x = "client")) <=> ~inner[x]
        /\ inner[x] => instr(x).nat = instr(x).peer_nat
    BY DEF PunchIInv, Sides
  <2>2. CASE x = e /\ left' = [left EXCEPT ![e] = ~@] /\ inner' = [inner EXCEPT ![e] = TRUE]
                   /\ ~inner[e] /\ instr(e).nat = instr(e).peer_nat
    <3>1. left'[x] = ~left[x] /\ inner'[x] = TRUE /\ left[x] \in BOOLEAN
      BY <1>2, <2>2
    <3> QED
      BY <2>1, <2>2, <3>1
  <2>3. CASE left'[x] = left[x] /\ inner'[x] = inner[x]
    BY <2>1, <2>3
  <2> QED
    BY <1>1, <1>2, <2>2, <2>3
<1>8. ~done(e) /\ ~done(e)' /\ \A x \in End : x # e => done(x)' = done(x)
  BY <1>1, <1>3 DEF done, settled
<1>9. \A x \in End : Keeps(x)
  BY <1>1, <1>3, <1>8 DEF Keeps
<1>10. Numbers'
  <2>1. /\ socks' \in [End -> SUBSET Int]
        /\ buf' \in [End -> SUBSET [dst : Int, from : Int, what : {"punch", "key", "confirm", "quic"}]]
    BY <1>1 DEF PunchIInv, Numbers
  <2> QED
    BY <1>1, <2>1 DEF PunchIInv, Numbers
<1>11. Partners'
  BY <1>8, <1>9, PartnersStay DEF PunchIInv
<1>12. Messages'
  <2>1. \A d \in net' : Other(d.to) \in End /\ sentBy(Other(d.to), d)'
    BY <1>1, <1>9, SentStays DEF PunchIInv, Messages, Other, End
  <2>2. \A x \in End : \A d \in buf'[Other(x)] : receivedFrom(x, d)'
    BY <1>5, <1>9, Ends, ReceivedStays DEF PunchIInv, Messages
  <2> QED
    BY <2>1, <2>2 DEF Messages
<1> QED
  BY <1>6, <1>7, <1>10, <1>11, <1>12 DEF PunchIInv

(* A datagram arrives; the NAT finds the socket it is for.                 *)
LEMMA ArrivesSteps == ASSUME PunchIInv, Arrives PROVE PunchIInv'
<1>1. PICK d \in net, again \in BOOLEAN :
        /\ again => faults < MaxFaults
        /\ net' = IF again THEN net ELSE net \ {d}
        /\ faults' = IF again THEN faults + 1 ELSE faults
        /\ buf' = [buf EXCEPT ![d.to] = @ \cup
                     {[dst |-> o, from |-> d.from, what |-> d.what]
                          : o \in IF st[d.to] = "waiting"
                                  THEN (inside(d) \cap socks[d.to]) \ {x.dst : x \in buf[d.to]}
                                  ELSE {}}]
        /\ UNCHANGED <<setting, timely, st, left, inner, socks, chan, maps>>
  BY DEF Arrives
<1>2. d.to \in End /\ d.from \in Int /\ d.dst \in Int /\ d.what \in {"punch", "key", "confirm", "quic"}
  BY DEF PunchIInv, PunchTypeOK, Datagram
<1> DEFINE In == IF st[d.to] = "waiting" THEN (inside(d) \cap socks[d.to]) \ {x.dst : x \in buf[d.to]} ELSE {}
           new(o) == [dst |-> o, from |-> d.from, what |-> d.what]
<1>3. /\ \A x \in End : x # d.to => buf'[x] = buf[x]
      /\ \A y \in buf'[d.to] : y \in buf[d.to] \/ \E o \in In : y = new(o)
  BY <1>1, <1>2 DEF PunchIInv, Numbers
<1>4. \A o \in In : /\ st[d.to] = "waiting" /\ o \in socks[d.to] /\ o \in inside(d)
                    /\ \A x \in buf[d.to] : x.dst # o
  OBVIOUS
<1>5. \A o \in In : o \in Int /\ d.dst \in translated(d.to, o, d.from)
  <2> SUFFICES ASSUME NEW o \in In PROVE o \in Int /\ d.dst \in translated(d.to, o, d.from)
    OBVIOUS
  <2>1. o \in inside(d)
    BY <1>4
  <2>2. CASE setting.lan
    BY <1>2, <2>1, <2>2 DEF inside, translated
  <2>3. CASE ~setting.lan
    <3>1. PICK m \in maps[d.to] : m.own = o /\ m.ext = d.dst /\ m.to = d.from
      BY <2>1, <2>3 DEF inside
    <3>2. m.own \in Int /\ (d.to \notin setting.hard => m.ext = m.own)
      BY <1>2, <3>1 DEF PunchIInv, Numbers
    <3> QED
      BY <2>3, <3>1, <3>2 DEF translated
  <2> QED
    BY <2>2, <2>3
<1> HIDE DEF In
<1>6. PunchTypeOK'
  <2>1. \A x \in End : \A p : ofRow(x, p)' = ofRow(x, p)
    BY <1>1, RowsStay
  <2>2. faults' \in 0..MaxFaults /\ net' \subseteq Datagram
    BY <1>1, MeetingsAssumption DEF PunchIInv, PunchTypeOK
  <2>3. ASSUME NEW x \in End
        PROVE  /\ \A y, z \in buf'[x] : y.dst = z.dst => y = z
               /\ \A y \in buf'[x] : st[x] = "waiting" /\ y.dst \in socks[x]
    <3>1. /\ \A y, z \in buf[x] : y.dst = z.dst => y = z
          /\ \A y \in buf[x] : st[x] = "waiting" /\ y.dst \in socks[x]
      BY DEF PunchIInv, PunchTypeOK
    <3>2. CASE x # d.to
      BY <1>3, <3>1, <3>2
    <3>3. CASE x = d.to
      <4>1. \A o \in In : new(o).dst = o
        OBVIOUS
      <4> HIDE DEF new
      <4>2. \A y \in buf'[x] : st[x] = "waiting" /\ y.dst \in socks[x]
        BY <1>3, <1>4, <3>1, <3>3, <4>1
      <4>3. ASSUME NEW y \in buf'[x], NEW z \in buf'[x], y.dst = z.dst PROVE y = z
        <5>1. y \in buf[x] \/ \E o \in In : y = new(o)
          BY <1>3, <3>3
        <5>2. z \in buf[x] \/ \E o \in In : z = new(o)
          BY <1>3, <3>3
        <5> QED
          BY <1>4, <3>1, <3>3, <4>1, <4>3, <5>1, <5>2
      <4> QED
        BY <4>2, <4>3
    <3> QED
      BY <3>2, <3>3
  <2> QED
    BY <1>1, <2>1, <2>2, <2>3 DEF PunchIInv, PunchTypeOK
<1>7. \A x \in End : Keeps(x) /\ done(x)' = done(x)
  BY <1>1 DEF Keeps, done, settled
<1>8. Sides' /\ Partners'
  BY <1>1, <1>7, SidesStay, PartnersStay DEF PunchIInv
<1>9. Numbers'
  <2>1. \A o \in In : new(o) \in [dst : Int, from : Int, what : {"punch", "key", "confirm", "quic"}]
    BY <1>2, <1>5
  <2> HIDE DEF new
  <2>2. buf' \in [End -> SUBSET [dst : Int, from : Int, what : {"punch", "key", "confirm", "quic"}]]
    <3>1. buf' = [buf EXCEPT ![d.to] = @ \cup {new(o) : o \in In}]
      BY <1>1 DEF In, new
    <3>2. /\ {new(o) : o \in In} \subseteq [dst : Int, from : Int, what : {"punch", "key", "confirm", "quic"}]
          /\ buf \in [End -> SUBSET [dst : Int, from : Int, what : {"punch", "key", "confirm", "quic"}]]
      BY <2>1 DEF PunchIInv, Numbers
    <3> QED
      BY <1>2, <3>1, <3>2
  <2> QED
    BY <1>1, <2>2 DEF PunchIInv, Numbers
<1>10. Messages'
  <2>1. \A x \in net' : Other(x.to) \in End /\ sentBy(Other(x.to), x)'
    BY <1>1, <1>7, SentStays DEF PunchIInv, Messages, Other, End
  <2>2. ASSUME NEW x \in End, NEW y \in buf'[Other(x)] PROVE receivedFrom(x, y)'
    <3>1. Other(x) \in End /\ Other(Other(x)) = x
      BY Ends
    <3>2. CASE y \in buf[Other(x)]
      BY <1>7, <3>1, <3>2, ReceivedStays DEF PunchIInv, Messages
    <3>3. CASE Other(x) = d.to /\ \E o \in In : y = new(o)
      <4>1. PICK o \in In : y = new(o)
        BY <3>3
      <4>2. y.dst = o /\ y.from = d.from /\ y.what = d.what
        BY <4>1
      <4>3. sentBy(x, d)
        BY <3>1, <3>3 DEF PunchIInv, Messages
      <4>4. d.dst \in translated(Other(x), y.dst, y.from)
        BY <1>5, <3>3, <4>2
      <4>5. receivedFrom(x, y)
        BY <4>2, <4>3, <4>4 DEF receivedFrom, sentBy
      <4> QED
        BY <1>7, <3>1, <4>5, ReceivedStays
    <3> QED
      BY <1>3, <2>2, <3>1, <3>2, <3>3
  <2> QED
    BY <2>1, <2>2 DEF Messages
<1> QED
  BY <1>6, <1>8, <1>9, <1>10 DEF PunchIInv

(* An end sends its row: a key only from one that does not punch.          *)
LEMMA SendsSteps == ASSUME PunchIInv, NEW e \in End, SendsRow(e) PROVE PunchIInv'
<1> DEFINE own(s) == bound_to(my_port(instr(e), left[e], s))
           to(s) == peer_port(instr(e), left[e], s)
           sent(B) == {s \in B : to(s) # 0}
           what == IF punches(e) THEN "punch" ELSE "key"
<1>1. /\ st[e] = "ready" /\ buf' = [buf EXCEPT ![e] = {}]
      /\ UNCHANGED <<setting, timely, left, inner, chan>>
  BY DEF SendsRow
<1>2. PICK bound \in {1..instr(e).seq, 2..instr(e).seq, {}} : \E ext \in outside(e, bound) :
          /\ bound # 1..instr(e).seq => faults < MaxFaults
          /\ faults' = IF bound = 1..instr(e).seq THEN faults ELSE faults + 1
          /\ socks' = [socks EXCEPT ![e] = {own(s) : s \in bound}]
          /\ maps' = [maps EXCEPT ![e] = @ \cup {[own |-> own(s), ext |-> ext[s], to |-> to(s)] : s \in sent(bound)}]
          /\ net' = net \cup {[to |-> Other(e), from |-> ext[s], dst |-> to(s), what |-> what] : s \in sent(bound)}
          /\ st' = [st EXCEPT ![e] = IF bound = {} THEN "failed" ELSE "waiting"]
  BY Zenon DEF SendsRow
<1>3. PICK ext \in outside(e, bound) :
          /\ bound # 1..instr(e).seq => faults < MaxFaults
          /\ faults' = IF bound = 1..instr(e).seq THEN faults ELSE faults + 1
          /\ socks' = [socks EXCEPT ![e] = {own(s) : s \in bound}]
          /\ maps' = [maps EXCEPT ![e] = @ \cup {[own |-> own(s), ext |-> ext[s], to |-> to(s)] : s \in sent(bound)}]
          /\ net' = net \cup {[to |-> Other(e), from |-> ext[s], dst |-> to(s), what |-> what] : s \in sent(bound)}
          /\ st' = [st EXCEPT ![e] = IF bound = {} THEN "failed" ELSE "waiting"]
  BY <1>2
<1>4. setting \in Settings /\ left[e] \in BOOLEAN /\ instr(e).seq \in Int
  BY SettingFacts DEF PunchIInv, PunchTypeOK, instr
<1>5. \A s \in bound : s \in 1..instr(e).seq
  BY <1>4
<1>6. \A s \in bound : own(s) \in Int /\ to(s) \in Int
  BY <1>4, <1>5, PortsAreNumbers
<1>7. \A s \in bound : ext[s] \in Int /\ (e \notin setting.hard => ext[s] = own(s))
  <2>1. CASE setting.lan \/ e \notin setting.hard
    <3>1. ext = [s \in bound |-> own(s)]
      BY <1>3, <2>1 DEF outside
    <3> HIDE DEF own
    <3> QED
      BY <1>6, <3>1
  <2>2. CASE ~(setting.lan \/ e \notin setting.hard)
    <3>1. PICK kept \in SUBSET bound : ext = [s \in bound |-> IF s \in kept THEN own(s) ELSE Word + own(s)]
      BY <1>3, <2>2 DEF outside
    <3> HIDE DEF own
    <3> QED
      BY <1>6, <2>2, <3>1, WordAssumption
  <2> QED
    BY <2>1, <2>2
<1> DEFINE row == {own(s) : s \in bound}
           kept == {[own |-> own(s), ext |-> ext[s], to |-> to(s)] : s \in sent(bound)}
           gone == {[to |-> Other(e), from |-> ext[s], dst |-> to(s), what |-> what] : s \in sent(bound)}
<1>8. /\ socks' = [socks EXCEPT ![e] = row] /\ maps' = [maps EXCEPT ![e] = @ \cup kept]
      /\ net' = net \cup gone
      /\ bound = {} => row = {}
  BY <1>3
<1>9. \A p \in row : p \in Int /\ ofRow(e, p)
  BY <1>5, <1>6 DEF ofRow
<1>10. \A m \in kept : m \in [own : Int, ext : Int, to : Int] /\ (e \notin setting.hard => m.ext = m.own)
  <2> HIDE DEF own, to
  <2> QED
    BY <1>6, <1>7
<1>11. \A d \in gone : d \in Datagram /\ d.to = Other(e) /\ d.what = what
  <2>1. Other(e) \in End /\ what \in {"punch", "key"}
    BY Ends
  <2> HIDE DEF own, to, what
  <2> QED
    BY <1>6, <1>7, <2>1 DEF Datagram
<1>12. st' = [st EXCEPT ![e] = IF bound = {} THEN "failed" ELSE "waiting"]
  BY <1>3
<1>13. faults' \in 0..MaxFaults
  <2>1. faults \in 0..MaxFaults /\ MaxFaults \in Nat
    BY MeetingsAssumption DEF PunchIInv, PunchTypeOK
  <2>2. faults' = faults \/ (faults' = faults + 1 /\ faults < MaxFaults)
    BY <1>3
  <2> QED
    BY <2>1, <2>2
<1>14. hasCalled(e) \/ what = "punch"
  BY WhoPunches DEF PunchIInv, hasCalled
<1> HIDE DEF own, to, sent, what, row, kept, gone
<1>15. /\ st \in [End -> {"start", "asleep", "ready", "waiting", "ok", "dialing"} \cup final]
       /\ socks \in [End -> SUBSET Int] /\ maps \in [End -> SUBSET [own : Int, ext : Int, to : Int]]
       /\ buf \in [End -> SUBSET [dst : Int, from : Int, what : {"punch", "key", "confirm", "quic"}]]
  BY DEF PunchIInv, PunchTypeOK, Numbers
<1>16. /\ st'[e] \in {"failed", "waiting"} /\ (st'[e] = "failed" => socks'[e] = {}) /\ buf'[e] = {}
       /\ \A p \in socks'[e] : ofRow(e, p)
       /\ \A x \in End : x # e => st'[x] = st[x] /\ socks'[x] = socks[x] /\ buf'[x] = buf[x]
  BY <1>1, <1>8, <1>9, <1>12, <1>15
<1>17. \A x \in End : buf'[x] \subseteq buf[x]
  BY <1>16
<1>18. PunchTypeOK'
  <2>1. \A x \in End : \A p : ofRow(x, p)' = ofRow(x, p)
    BY <1>1, RowsStay
  <2>2. /\ st' \in [End -> {"start", "asleep", "ready", "waiting", "ok", "dialing"} \cup final]
        /\ net' \subseteq Datagram
    BY <1>8, <1>11, <1>12, <1>15 DEF PunchIInv, PunchTypeOK, final
  <2>3. ASSUME NEW x \in End
        PROVE  /\ \A d, y \in buf'[x] : d.dst = y.dst => d = y
               /\ st'[x] \in {"start", "asleep", "ready", "failed", "timeout"} => socks'[x] = {}
               /\ \A p \in socks'[x] : ofRow(x, p)
               /\ \A d \in buf'[x] : st'[x] = "waiting" /\ d.dst \in socks'[x]
    <3>1. CASE x = e
      BY <1>16, <3>1
    <3>2. CASE x # e
      BY <1>16, <3>2 DEF PunchIInv, PunchTypeOK
    <3> QED
      BY <3>1, <3>2
  <2> QED
    BY <1>1, <1>13, <2>1, <2>2, <2>3 DEF PunchIInv, PunchTypeOK
<1>19. \A x \in End : done(x)' = done(x)
  BY <1>1, <1>16 DEF done, settled
<1>20. \A x \in End : maps[x] \subseteq maps'[x]
  BY <1>8, <1>15
<1>21. \A x \in End : Keeps(x)
  BY <1>1, <1>19, <1>20 DEF Keeps
<1>22. Sides' /\ Partners'
  BY <1>1, <1>19, <1>21, SidesStay, PartnersStay DEF PunchIInv
<1>23. Numbers'
  <2>1. socks' \in [End -> SUBSET Int] /\ maps' \in [End -> SUBSET [own : Int, ext : Int, to : Int]]
    BY <1>8, <1>9, <1>10, <1>15
  <2>2. buf' \in [End -> SUBSET [dst : Int, from : Int, what : {"punch", "key", "confirm", "quic"}]]
    BY <1>1, <1>15
  <2>3. \A x \in End \ setting.hard : \A m \in maps'[x] : m.ext = m.own
    <3> SUFFICES ASSUME NEW x \in End, x \notin setting.hard, NEW m \in maps'[x] PROVE m.ext = m.own
      OBVIOUS
    <3>1. m \in maps[x] \/ (x = e /\ m \in kept)
      BY <1>8, <1>15
    <3> QED
      BY <1>10, <3>1 DEF PunchIInv, Numbers
  <2> QED
    BY <1>1, <2>1, <2>2, <2>3 DEF PunchIInv, Numbers
<1>24. Messages'
  <2>1. ASSUME NEW d \in net' PROVE sentBy(Other(d.to), d)'
    <3>1. CASE d \in net
      <4>1. Other(d.to) \in End
        BY DEF Other, End
      <4> QED
        BY <1>21, <3>1, <4>1, SentStays DEF PunchIInv, Messages
    <3>2. CASE d \in gone
      <4>1. Other(d.to) = e /\ d.what = what
        BY <1>11, <3>2, Ends
      <4>2. what \in {"punch", "key"}
        BY DEF what
      <4>3. sentBy(e, d)
        BY <1>14, <4>1, <4>2 DEF sentBy
      <4> QED
        BY <1>21, <4>1, <4>3, SentStays
    <3> QED
      BY <1>8, <2>1, <3>1, <3>2
  <2>2. \A x \in End : \A d \in buf'[Other(x)] : receivedFrom(x, d)'
    BY <1>17, <1>21, Ends, ReceivedStays DEF PunchIInv, Messages
  <2> QED
    BY <2>1, <2>2 DEF Messages
<1> QED
  BY <1>18, <1>22, <1>23, <1>24 DEF PunchIInv

(* An end that punches and is called is the first to be done: the other has *)
(* not punched while this end called.                                      *)
LEMMA CalledIsFirst ==
    ASSUME PunchIInv, NEW e \in End, ~done(e), punches(e), hasCalled(Other(e))
    PROVE  ~done(Other(e))
<1>1. Other(e) \in End /\ Other(Other(e)) = e
  BY Ends
<1>2. SUFFICES ASSUME done(Other(e)) PROVE FALSE
  OBVIOUS
<1>3. punches(Other(e)) /\ hasCalled(e)
  BY <1>1, <1>2 DEF PunchIInv, Partners
<1>4. (first(e) <=> ~inner[e]) /\ (first(Other(e)) <=> ~inner[Other(e)])
  BY <1>1, <1>3, WhoPunches DEF PunchIInv
<1>5. first(Other(e)) <=> ~first(e)
  BY OneIsFirst DEF PunchIInv, PunchTypeOK
<1> QED
  BY <1>3, <1>4, <1>5 DEF hasCalled

(* An end reads what it can go on with: a key while it punches, which it     *)
(* confirms, or a confirmation.                                            *)
LEMMA Settles ==
    ASSUME PunchIInv, NEW e \in End, st[e] = "waiting", NEW d \in buf[e], accepts(e, d),
           st' = [st EXCEPT ![e] = "ok"],
           chan' = [chan EXCEPT ![e] = [own |-> d.dst, peer |-> d.from]],
           socks' = [socks EXCEPT ![e] = {d.dst}],
           net' = IF replies(e, d)
                  THEN net \cup {[to |-> Other(e), from |-> x, dst |-> d.from, what |-> "confirm"]
                                    : x \in translated(e, d.dst, d.from)}
                  ELSE net,
           buf' = [buf EXCEPT ![e] = {x \in @ : x.dst \in socks'[e] /\ st'[e] = "waiting"}],
           UNCHANGED <<setting, timely, left, inner, maps, faults>>
    PROVE  PunchIInv'
<1> DEFINE o == Other(e)
           gone == {[to |-> Other(e), from |-> x, dst |-> d.from, what |-> "confirm"]
                       : x \in translated(e, d.dst, d.from)}
<1>1. o \in End /\ o # e /\ Other(o) = e /\ \A x \in End : x = e \/ x = o
  BY Ends
<1>2. /\ st \in [End -> {"start", "asleep", "ready", "waiting", "ok", "dialing"} \cup final]
      /\ socks \in [End -> SUBSET Int] /\ chan \in [End -> [own : Int, peer : Int]]
      /\ buf \in [End -> SUBSET [dst : Int, from : Int, what : {"punch", "key", "confirm", "quic"}]]
      /\ maps \in [End -> SUBSET [own : Int, ext : Int, to : Int]]
  BY DEF PunchIInv, PunchTypeOK, Numbers
<1>3. d.dst \in Int /\ d.from \in Int /\ d.dst \in socks[e]
  BY <1>2 DEF PunchIInv, PunchTypeOK
<1>4. /\ st'[e] = "ok" /\ chan'[e].own = d.dst /\ chan'[e].peer = d.from /\ socks'[e] = {d.dst}
      /\ buf'[e] = {}
      /\ \A x \in End : x # e => st'[x] = st[x] /\ chan'[x] = chan[x] /\ socks'[x] = socks[x] /\ buf'[x] = buf[x]
  BY <1>2
<1>5. receivedFrom(o, d)
  BY <1>1 DEF PunchIInv, Messages
<1>6. d.what = "confirm" => done(o) /\ isReached(o, d.from) /\ chan[o].peer \in translated(e, d.dst, d.from)
  BY <1>1, <1>5 DEF receivedFrom
<1>7. replies(e, d) => punches(e) /\ hasCalled(o)
  BY <1>5 DEF receivedFrom, replies
<1>8. \A x \in translated(e, d.dst, d.from) : x \in Int
  BY <1>2, <1>3 DEF translated
<1>9. \A y \in gone : /\ y \in Datagram /\ y.to = o /\ y.dst = d.from /\ y.what = "confirm"
                      /\ y.from \in translated(e, d.dst, d.from)
  <2>1. o \in End
    BY <1>1
  <2> QED
    BY <1>3, <1>8, <2>1 DEF Datagram
<1>10. \A y \in net' : y \in net \/ (replies(e, d) /\ y \in gone)
  BY DEF gone
<1>11. ~done(e) /\ done(e)' /\ done(o)' = done(o)
  BY <1>1, <1>4 DEF done, settled
<1>12. Keeps(e) /\ Keeps(o)
  BY <1>1, <1>4, <1>11 DEF Keeps
<1> HIDE DEF o, gone
<1>13. PunchTypeOK'
  <2>1. \A x \in End : \A p : ofRow(x, p)' = ofRow(x, p)
    BY RowsStay
  <2>2. /\ st' \in [End -> {"start", "asleep", "ready", "waiting", "ok", "dialing"} \cup final]
        /\ net' \subseteq Datagram
    <3>1. net \subseteq Datagram
      BY DEF PunchIInv, PunchTypeOK
    <3> QED
      BY <1>2, <1>9, <1>10, <3>1
  <2>3. ASSUME NEW x \in End
        PROVE  /\ \A y, z \in buf'[x] : y.dst = z.dst => y = z
               /\ st'[x] \in {"start", "asleep", "ready", "failed", "timeout"} => socks'[x] = {}
               /\ \A p \in socks'[x] : ofRow(x, p)
               /\ \A y \in buf'[x] : st'[x] = "waiting" /\ y.dst \in socks'[x]
    <3>1. CASE x = e
      <4>1. ofRow(e, d.dst)
        BY <1>3 DEF PunchIInv, PunchTypeOK
      <4> QED
        BY <1>4, <3>1, <4>1
    <3>2. CASE x # e
      BY <1>4, <3>2 DEF PunchIInv, PunchTypeOK
    <3> QED
      BY <3>1, <3>2
  <2> QED
    BY <2>1, <2>2, <2>3 DEF PunchIInv, PunchTypeOK
<1>14. Sides'
  BY SidesStay DEF PunchIInv
<1>15. Numbers'
  <2>1. socks' \in [End -> SUBSET Int] /\ chan' \in [End -> [own : Int, peer : Int]]
    BY <1>2, <1>3
  <2>2. buf' \in [End -> SUBSET [dst : Int, from : Int, what : {"punch", "key", "confirm", "quic"}]]
    BY <1>2
  <2> QED
    BY <2>1, <2>2 DEF PunchIInv, Numbers
<1>16. Messages'
  <2>1. ASSUME NEW y \in net' PROVE sentBy(Other(y.to), y)'
    <3>1. CASE y \in net
      <4>1. Other(y.to) \in End /\ sentBy(Other(y.to), y)
        BY <3>1 DEF Other, End, PunchIInv, Messages
      <4>2. Keeps(Other(y.to))
        BY <1>1, <1>12, <4>1
      <4> QED
        BY <4>1, <4>2, SentStays
    <3>2. CASE y \in gone
      <4>1. Other(y.to) = e /\ y.what = "confirm" /\ y.dst = d.from /\ y.from \in translated(e, d.dst, d.from)
        BY <1>1, <1>9, <3>2
      <4>2. isReached(e, y.from)' /\ chan'[e].peer = y.dst
        BY <1>4, <4>1 DEF isReached, translated
      <4> QED
        BY <1>11, <4>1, <4>2 DEF sentBy
    <3> QED
      BY <1>10, <2>1, <3>1, <3>2
  <2>2. ASSUME NEW x \in End, NEW y \in buf'[Other(x)] PROVE receivedFrom(x, y)'
    <3>1. Other(x) \in End /\ y \in buf[Other(x)] /\ Keeps(x) /\ Keeps(Other(x))
      <4>1. Other(x) \in End
        BY Ends
      <4> QED
        BY <1>1, <1>4, <1>12, <2>2, <4>1
    <3> QED
      BY <3>1, ReceivedStays DEF PunchIInv, Messages
  <2> QED
    BY <2>1, <2>2 DEF Messages
<1>17. Partners'
  <2>1. CASE replies(e, d)
    <3>1. ~done(o) /\ ~done(o)'
      BY <1>7, <1>11, <2>1, CalledIsFirst DEF o
    <3>2. punches(e)' /\ hasCalled(o)'
      <4>1. punches(e)' = punches(e) /\ hasCalled(o)' = hasCalled(o)
        BY DEF punches, hasCalled, first, instr
      <4> QED
        BY <1>7, <2>1, <4>1
    <3>3. ~(done("client")' /\ done("agent")')
      BY <1>1, <3>1 DEF End
    <3>4. ASSUME NEW x \in End, done(x)' PROVE done(Other(x))' \/ (punches(x)' /\ hasCalled(Other(x))')
      <4>1. x = e
        BY <1>1, <3>1, <3>4
      <4> QED
        BY <3>2, <4>1 DEF o
    <3> QED
      BY <3>3, <3>4 DEF Partners
  <2>2. CASE d.what = "confirm"
    <3>1. done(o)' /\ isReached(o, d.from) /\ chan[o].peer \in translated(e, d.dst, d.from)
      BY <1>6, <1>11, <2>2
    <3>2. /\ chan'[e].peer \in translated(o, chan'[o].own, chan'[o].peer)
          /\ chan'[o].peer \in translated(e, chan'[e].own, chan'[e].peer)
      BY <1>1, <1>4, <3>1 DEF isReached
    <3>3. linked'
      <4>1. \A x \in End : \A p, q : translated(x, p, q)' = translated(x, p, q)
        BY DEF translated
      <4>2. (e = "client" /\ o = "agent") \/ (e = "agent" /\ o = "client")
        BY <1>1 DEF End
      <4>3. CASE e = "client" /\ o = "agent"
        BY <3>2, <4>3 DEF linked, translated
      <4>4. CASE e = "agent" /\ o = "client"
        BY <3>2, <4>4 DEF linked, translated
      <4> QED
        BY <4>2, <4>3, <4>4
    <3>4. \A x \in End : done(x)' /\ Other(x) \in End
      BY <1>1, <1>11, <3>1, Ends
    <3> QED
      BY <3>3, <3>4 DEF Partners
  <2> QED
    BY <2>1, <2>2 DEF accepts
<1> QED
  BY <1>13, <1>14, <1>15, <1>16, <1>17 DEF PunchIInv

(* An end gives a socket up, which cannot be read or on which it read what *)
(* it cannot go on with.                                                   *)
LEMMA GivesUp ==
    ASSUME PunchIInv, NEW e \in End, st[e] = "waiting", NEW p0, discards(e, p0),
           buf' = [buf EXCEPT ![e] = {x \in @ : x.dst \in socks'[e] /\ st'[e] = "waiting"}],
           faults' \in 0..MaxFaults,
           UNCHANGED <<setting, timely, left, inner, maps>>
    PROVE  PunchIInv'
<1> USE DEF discards
<1>1. /\ st \in [End -> {"start", "asleep", "ready", "waiting", "ok", "dialing"} \cup final]
      /\ socks \in [End -> SUBSET Int]
      /\ buf \in [End -> SUBSET [dst : Int, from : Int, what : {"punch", "key", "confirm", "quic"}]]
  BY DEF PunchIInv, PunchTypeOK, Numbers
<1>2. /\ st'[e] = (IF socks[e] \subseteq {p0} THEN "failed" ELSE "waiting")
      /\ socks'[e] = socks[e] \ {p0}
      /\ buf'[e] = {x \in buf[e] : x.dst \in socks'[e] /\ st'[e] = "waiting"}
      /\ \A x \in End : x # e => st'[x] = st[x] /\ socks'[x] = socks[x] /\ buf'[x] = buf[x]
  BY <1>1
<1>3. \A x \in End : buf'[x] \subseteq buf[x] /\ done(x)' = done(x) /\ Keeps(x)
  <2>1. \A x \in End : buf'[x] \subseteq buf[x]
    BY <1>2
  <2>2. \A x \in End : done(x)' = done(x)
    BY <1>2 DEF done, settled
  <2> QED
    BY <2>1, <2>2 DEF Keeps
<1>4. PunchTypeOK'
  <2>1. \A x \in End : \A p : ofRow(x, p)' = ofRow(x, p)
    BY RowsStay
  <2>2. st' \in [End -> {"start", "asleep", "ready", "waiting", "ok", "dialing"} \cup final]
    BY <1>1 DEF final
  <2>3. ASSUME NEW x \in End
        PROVE  /\ \A y, z \in buf'[x] : y.dst = z.dst => y = z
               /\ st'[x] \in {"start", "asleep", "ready", "failed", "timeout"} => socks'[x] = {}
               /\ \A p \in socks'[x] : ofRow(x, p)
               /\ \A y \in buf'[x] : st'[x] = "waiting" /\ y.dst \in socks'[x]
    <3>1. CASE x = e
      <4>1. \A y, z \in buf[e] : y.dst = z.dst => y = z
        BY DEF PunchIInv, PunchTypeOK
      <4>2. \A p \in socks[e] : ofRow(e, p)
        BY DEF PunchIInv, PunchTypeOK
      <4> QED
        BY <1>2, <3>1, <4>1, <4>2
    <3>2. CASE x # e
      BY <1>2, <3>2 DEF PunchIInv, PunchTypeOK
    <3> QED
      BY <3>1, <3>2
  <2> QED
    BY <2>1, <2>2, <2>3 DEF PunchIInv, PunchTypeOK
<1>5. Sides' /\ Partners'
  BY <1>3, SidesStay, PartnersStay DEF PunchIInv
<1>6. Numbers'
  <2>1. /\ socks' \in [End -> SUBSET Int]
        /\ buf' \in [End -> SUBSET [dst : Int, from : Int, what : {"punch", "key", "confirm", "quic"}]]
    BY <1>1
  <2> QED
    BY <2>1 DEF PunchIInv, Numbers
<1>7. Messages'
  <2>1. \A y \in net' : Other(y.to) \in End /\ sentBy(Other(y.to), y)'
    BY <1>3, SentStays DEF PunchIInv, Messages, Other, End
  <2>2. \A x \in End : \A y \in buf'[Other(x)] : receivedFrom(x, y)'
    BY <1>3, Ends, ReceivedStays DEF PunchIInv, Messages
  <2> QED
    BY <2>1, <2>2 DEF Messages
<1> QED
  BY <1>4, <1>5, <1>6, <1>7 DEF PunchIInv

(* An end reads what one of its sockets has received.                      *)
LEMMA ReadsSteps == ASSUME PunchIInv, NEW e \in End, Reads(e) PROVE PunchIInv'
<1>1. /\ st[e] = "waiting"
      /\ buf' = [buf EXCEPT ![e] = {x \in @ : x.dst \in socks'[e] /\ st'[e] = "waiting"}]
      /\ UNCHANGED <<setting, timely, left, inner, maps, faults>>
  BY DEF Reads
<1>2. PICK d \in buf[e] :
       IF accepts(e, d)
       THEN /\ st' = [st EXCEPT ![e] = "ok"]
            /\ chan' = [chan EXCEPT ![e] = [own |-> d.dst, peer |-> d.from]]
            /\ socks' = [socks EXCEPT ![e] = {d.dst}]
            /\ net' = IF replies(e, d)
                      THEN net \cup {[to |-> Other(e), from |-> x, dst |-> d.from, what |-> "confirm"]
                                        : x \in translated(e, d.dst, d.from)}
                      ELSE net
       ELSE discards(e, d.dst)
  BY Zenon DEF Reads
<1>3. CASE accepts(e, d)
  BY <1>1, <1>2, <1>3, Settles
<1>4. CASE ~accepts(e, d)
  <2>1. faults' \in 0..MaxFaults
    BY <1>1 DEF PunchIInv, PunchTypeOK
  <2> QED
    BY <1>1, <1>2, <1>4, <2>1, GivesUp
<1> QED
  BY <1>3, <1>4

(* A socket of an end fails.                                               *)
LEMMA FailsSteps == ASSUME PunchIInv, NEW e \in End, SocketFails(e) PROVE PunchIInv'
<1>1. faults' \in 0..MaxFaults
  <2>1. faults \in 0..MaxFaults /\ MaxFaults \in Nat
    BY MeetingsAssumption DEF PunchIInv, PunchTypeOK
  <2> QED
    BY <2>1 DEF SocketFails
<1> QED
  BY <1>1, GivesUp DEF SocketFails

----------------------------------------------------------------------------
(* What the two ends have of each other.                                   *)

(* The invariant says of two ends that settled what the run checks of them. *)
LEMMA PunchSafe == PunchIInv => PunchInv
<1> SUFFICES ASSUME PunchIInv PROVE PunchInv
  OBVIOUS
<1>1. SameChannel
  BY DEF PunchIInv, Partners, SameChannel, done
<1>2. ConfirmedByPeer
  <2> SUFFICES ASSUME NEW e \in End, settled(e), ~punches(e)
               PROVE  settled(Other(e)) \/ st[Other(e)] = "closed"
    BY DEF ConfirmedByPeer
  <2> QED
    BY DEF PunchIInv, Partners, done
<1> QED
  BY <1>1, <1>2 DEF PunchInv, PunchIInv

(* For every set of meetings, every number of ports and of faults, in time  *)
(* or not: the invariant of the two ends is inductive.                     *)
THEOREM PunchInductive == PunchSpec => []PunchIInv
<1>1. ASSUME PunchIInv, [PunchNext]_punch PROVE PunchIInv'
  <2>1. CASE \E e \in End : Begins(e) \/ Wakes(e) \/ SendsRow(e) \/ Reads(e) \/ TimesOut(e)
    BY <1>1, <2>1, BeginsSteps, WakesSteps, SendsSteps, ReadsSteps, TimesOutSteps
  <2>5. CASE \E e \in End : SocketFails(e)
    BY <1>1, <2>5, FailsSteps
  <2>2. CASE Dials \/ Connects \/ DialFails
    BY <1>1, <2>2, DialsSteps, DialEnds
  <2>3. CASE Arrives \/ Loses
    BY <1>1, <2>3, ArrivesSteps, LosesSteps
  <2>4. CASE UNCHANGED punch
    <3>1. UNCHANGED <<setting, timely, st, left, inner, socks, buf, chan, maps, net, faults>>
      BY <2>4 DEF punch, end
    <3>2. \A x \in End : done(x)' = done(x) /\ \A p : ofRow(x, p)' = ofRow(x, p)
      BY <3>1, RowsStay DEF done, settled
    <3>3. PunchTypeOK'
      BY <1>1, <3>1, <3>2 DEF PunchIInv, PunchTypeOK
    <3> QED
      BY <1>1, <3>1, <3>2, <3>3, Untouched DEF PunchIInv
  <2> QED
    BY <1>1, <2>1, <2>2, <2>3, <2>4, <2>5 DEF PunchNext
<1> QED
  BY <1>1, PunchStarts, PTL DEF PunchSpec

(* Whatever the network loses, repeats or delays, and whatever ports the    *)
(* NATs give: two ends that both settled have one channel, and the end that *)
(* calls goes on only once the other has settled for it                     *)
(* (udp_punched_socket).                                                   *)
THEOREM OneChannel == PunchSpec => []PunchInv
BY PunchInductive, PunchSafe, PTL
=============================================================================
