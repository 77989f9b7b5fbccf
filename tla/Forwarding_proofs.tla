------------------------- MODULE Forwarding_proofs -------------------------
(***************************************************************************)
(* Theorems about Forwarding: rows of hops of any length, with buffers and *)
(* links of any size, keep the safety part of what TwoWayStream promises.  *)
(***************************************************************************)
EXTENDS Forwarding, SequenceTheorems, TLAPS

-----------------------------------------------------------------------------
(* Bytes that move.                                                        *)

\* The first k bytes of s go behind those of t, which leaves u and v.
Passes(s, t, u, v, k) ==
    /\ k \in 0 .. Len(s) /\ Len(u) = Len(s) - k /\ Len(v) = Len(t) + k
    /\ \A i \in 1 .. Len(u) : u[i] = s[i + k]
    /\ \A i \in 1 .. Len(t) : v[i] = t[i]
    /\ \A i \in 1 .. k : v[Len(t) + i] = s[i]

\* The first k bytes in place p go to place q.
Moved(c, o, p, q, k) ==
    /\ Passes(c[p], c[q], o[p], o[q], k)
    /\ \A x \in DOMAIN c \ {p, q} : o[x] = c[x]

\* Of the places P, p and q are neighbours, p first.
Neighbours(P, r, p, q) ==
    r[p] < r[q] /\ \A z \in P \ {p, q} : r[z] < r[p] \/ r[z] > r[q]

\* The domains of a row of sequences.
LEMMA RowDomains ==
  ASSUME NEW P, NEW c \in [P -> Seq(Nat)]
  PROVE  /\ DOMAIN c = P
         /\ \A x \in P : Len(c[x]) \in Nat /\ DOMAIN c[x] = 1 .. Len(c[x])
OBVIOUS

\* Each byte of o was somewhere in c, not further along, and two bytes were in
\* the order in which they are.
LEMMA MoveKeepsLine ==
  ASSUME NEW P, NEW r \in [P -> Int], NEW c \in [P -> Seq(Nat)], NEW o \in [P -> Seq(Nat)],
         NEW p \in P, NEW q \in P, NEW k, Moved(c, o, p, q, k),
         Neighbours(P, r, p, q), InLine(c, r)
  PROVE  InLine(o, r)
<1> DEFINE was(x, i) == IF x = q /\ i > Len(c[q]) THEN p ELSE x
           nth(x, i) == IF x = p THEN i + k
                        ELSE IF x = q /\ i > Len(c[q]) THEN i - Len(c[q]) ELSE i
<1>0. /\ DOMAIN c = P /\ DOMAIN o = P /\ p # q
      /\ \A x \in P : Len(c[x]) \in Nat /\ DOMAIN c[x] = 1 .. Len(c[x])
      /\ \A x \in P : Len(o[x]) \in Nat /\ DOMAIN o[x] = 1 .. Len(o[x])
  BY RowDomains DEF Neighbours
<1>1. ASSUME NEW x \in P, NEW i \in 1 .. Len(o[x])
      PROVE  /\ was(x, i) \in P /\ nth(x, i) \in 1 .. Len(c[was(x, i)])
             /\ o[x][i] = c[was(x, i)][nth(x, i)]
  <2>1. CASE x = p
    <3>1. /\ k \in 0 .. Len(c[p]) /\ Len(o[p]) = Len(c[p]) - k /\ i \in 1 .. Len(o[p])
          /\ Len(c[p]) \in Nat /\ o[p][i] = c[p][i + k]
      BY <1>0, <1>1, <2>1 DEF Moved, Passes
    <3>2. i + k \in 1 .. Len(c[p])
      BY <3>1
    <3>3. was(x, i) = p /\ nth(x, i) = i + k
      BY <1>0, <2>1
    <3> QED
      BY <2>1, <3>1, <3>2, <3>3
  <2>2. CASE x = q /\ i > Len(c[q])
    <3>1. i - Len(c[q]) \in 1 .. k /\ i = Len(c[q]) + (i - Len(c[q]))
      BY <1>0, <1>1, <2>2, SMTT(30) DEF Moved, Passes
    <3> QED
      BY <1>0, <2>2, <3>1, SMTT(30) DEF Moved, Passes
  <2>3. CASE x = q /\ ~(i > Len(c[q]))
    BY <1>0, <1>1, <2>3, SMTT(30) DEF Moved, Passes
  <2>4. CASE x \notin {p, q}
    BY <1>0, <1>1, <2>4 DEF Moved, Passes
  <2> QED
    BY <2>1, <2>2, <2>3, <2>4
<1>2. ASSUME NEW x \in P, NEW y \in P, NEW i \in 1 .. Len(o[x]), NEW j \in 1 .. Len(o[y]),
             r[x] > r[y] \/ (x = y /\ i < j)
      PROVE  \/ r[was(x, i)] > r[was(y, j)]
             \/ was(x, i) = was(y, j) /\ nth(x, i) < nth(y, j)
  <2>1. k \in Nat /\ Len(o[p]) = Len(c[p]) - k /\ r[p] < r[q]
        /\ \A z \in P \ {p, q} : r[z] < r[p] \/ r[z] > r[q]
    BY <1>0 DEF Moved, Passes, Neighbours
  <2>2. \A z \in P : r[z] \in Int
    OBVIOUS
  <2>3. CASE x = q /\ i > Len(c[q])
    <3>1. was(x, i) = p /\ nth(x, i) = i - Len(c[q]) /\ i - Len(c[q]) <= k
      BY <1>0, <2>1, <2>3 DEF Moved, Passes
    <3>2. CASE y = q
      <4>1. was(y, j) = p /\ nth(y, j) = j - Len(c[q]) /\ i < j
        BY <1>0, <1>2, <2>1, <2>2, <2>3, <3>2
      <4> QED
        BY <1>0, <3>1, <4>1, SMTT(30)
    <3>3. CASE y = p
      <4>1. was(y, j) = p /\ nth(y, j) = j + k
        BY <1>0, <3>3
      <4>2. i - Len(c[q]) <= k /\ k < j + k
        BY <1>0, <2>1, <3>1
      <4>3. i - Len(c[q]) < j + k
        BY <1>0, <2>1, <4>2
      <4> QED
        BY <3>1, <4>1, <4>3
    <3>4. CASE y \notin {p, q}
      BY <1>0, <1>2, <2>1, <2>2, <2>3, <3>1, <3>4
    <3> QED
      BY <3>2, <3>3, <3>4
  <2>4. CASE ~(x = q /\ i > Len(c[q])) /\ y = q /\ j > Len(c[q])
    <3>1. was(x, i) = x /\ was(y, j) = p /\ (x # q => r[x] > r[p])
      BY <1>0, <1>2, <2>1, <2>2, <2>4
    <3> QED
      BY <1>0, <2>1, <2>2, <2>4, <3>1
  <2>5. CASE ~(x = q /\ i > Len(c[q])) /\ ~(y = q /\ j > Len(c[q]))
    BY <1>0, <1>2, <2>1, <2>5, SMTT(30)
  <2> QED
    BY <2>3, <2>4, <2>5
<1>3. ASSUME NEW x \in P, NEW y \in P, NEW i \in 1 .. Len(o[x]), NEW j \in 1 .. Len(o[y]),
             r[x] > r[y] \/ (x = y /\ i < j)
      PROVE  o[x][i] < o[y][j]
  <2>1. /\ was(x, i) \in P /\ nth(x, i) \in DOMAIN c[was(x, i)]
        /\ was(y, j) \in P /\ nth(y, j) \in DOMAIN c[was(y, j)]
        /\ o[x][i] = c[was(x, i)][nth(x, i)] /\ o[y][j] = c[was(y, j)][nth(y, j)]
    BY <1>0, <1>1, ZenonT(30)
  <2>2. r[was(x, i)] > r[was(y, j)] \/ (was(x, i) = was(y, j) /\ nth(x, i) < nth(y, j))
    BY <1>2, <1>3
  <2> HIDE DEF was, nth
  <2> QED
    BY <1>0, <2>1, <2>2 DEF InLine
<1> QED
  BY <1>0, <1>3 DEF InLine

\* No byte is lost or made.
LEMMA MoveKeepsBytes ==
  ASSUME NEW P, NEW c \in [P -> Seq(Nat)], NEW o \in [P -> Seq(Nat)],
         NEW p \in P, NEW q \in P, p # q, NEW k, Moved(c, o, p, q, k), NEW n \in Nat
  PROVE  /\ Within(c, n) => Within(o, n)
         /\ AllThere(c, n) => AllThere(o, n)
<1>0. /\ DOMAIN c = P /\ DOMAIN o = P
      /\ \A x \in P : Len(c[x]) \in Nat /\ DOMAIN c[x] = 1 .. Len(c[x])
      /\ \A x \in P : Len(o[x]) \in Nat /\ DOMAIN o[x] = 1 .. Len(o[x])
  BY RowDomains
<1>1. ASSUME Within(c, n), NEW x \in P, NEW i \in 1 .. Len(o[x]) PROVE o[x][i] \in 1 .. n
  <2>1. \E y \in P : \E j \in 1 .. Len(c[y]) : o[x][i] = c[y][j]
    <3>1. CASE x = p
      <4>1. i + k \in 1 .. Len(c[p]) /\ o[x][i] = c[p][i + k]
        BY <1>0, <1>1, <3>1, SMTT(30) DEF Moved, Passes
      <4> QED
        BY <4>1
    <3>2. CASE x = q /\ i > Len(c[q])
      <4>1. i - Len(c[q]) \in 1 .. k /\ i = Len(c[q]) + (i - Len(c[q]))
        BY <1>0, <1>1, <3>2, SMTT(30) DEF Moved, Passes
      <4>2. i - Len(c[q]) \in 1 .. Len(c[p]) /\ o[x][i] = c[p][i - Len(c[q])]
        BY <1>0, <3>2, <4>1, SMTT(30) DEF Moved, Passes
      <4> QED
        BY <4>2
    <3>3. CASE x = q /\ ~(i > Len(c[q]))
      <4>1. i \in 1 .. Len(c[q]) /\ o[x][i] = c[q][i]
        BY <1>0, <1>1, <3>3 DEF Moved, Passes
      <4> QED
        BY <4>1
    <3>4. CASE x \notin {p, q}
      BY <1>0, <1>1, <3>4 DEF Moved, Passes
    <3> QED
      BY <3>1, <3>2, <3>3, <3>4
  <2> QED
    BY <1>0, <1>1, <2>1 DEF Within
<1>2. ASSUME AllThere(c, n), NEW b \in 1 .. n
      PROVE  \E x \in P : \E i \in 1 .. Len(o[x]) : o[x][i] = b
  <2>1. PICK x \in P : \E i \in 1 .. Len(c[x]) : c[x][i] = b
    BY <1>0, <1>2 DEF AllThere
  <2>2. PICK i \in 1 .. Len(c[x]) : c[x][i] = b
    BY <2>1
  <2>3. CASE x = p /\ i <= k
    <3>1. Len(c[q]) + i \in 1 .. Len(o[q]) /\ o[q][Len(c[q]) + i] = b
      BY <1>0, <2>2, <2>3, SMTT(30) DEF Moved, Passes
    <3> QED
      BY <3>1
  <2>4. CASE x = p /\ ~(i <= k)
    <3>1. i - k \in 1 .. Len(o[p]) /\ i = (i - k) + k
      BY <1>0, <2>2, <2>4 DEF Moved, Passes
    <3>2. o[p][i - k] = b
      BY <2>2, <2>4, <3>1 DEF Moved, Passes
    <3> QED
      BY <3>1, <3>2
  <2>5. CASE x = q
    <3>1. i \in 1 .. Len(o[q]) /\ o[q][i] = b
      BY <1>0, <2>2, <2>5, SMTT(30) DEF Moved, Passes
    <3> QED
      BY <3>1
  <2>6. CASE x \notin {p, q}
    BY <1>0, <2>2, <2>6 DEF Moved, Passes
  <2> QED
    BY <2>3, <2>4, <2>5, <2>6
<1> QED
  BY <1>0, <1>1, <1>2 DEF Within, AllThere

\* Some of the first bytes of s are missing in u.
Remains(s, u) ==
    \E k \in 0 .. Len(s) : Len(u) = Len(s) - k /\ \A i \in 1 .. Len(u) : u[i] = s[i + k]

\* What is left of bytes in line is in line.
LEMMA LossKeepsLine ==
  ASSUME NEW P, NEW r, NEW c \in [P -> Seq(Nat)], NEW o \in [P -> Seq(Nat)], NEW n \in Nat,
         \A x \in P : Remains(c[x], o[x])
  PROVE  /\ InLine(c, r) => InLine(o, r)
         /\ Within(c, n) => Within(o, n)
<1>0. /\ DOMAIN c = P /\ DOMAIN o = P
      /\ \A x \in P : Len(c[x]) \in Nat /\ DOMAIN c[x] = 1 .. Len(c[x])
      /\ \A x \in P : Len(o[x]) \in Nat /\ DOMAIN o[x] = 1 .. Len(o[x])
  BY RowDomains
<1> DEFINE k(x) == Len(c[x]) - Len(o[x])
<1>1. ASSUME NEW x \in P
      PROVE  k(x) \in Nat /\ \A i \in 1 .. Len(o[x]) : i + k(x) \in DOMAIN c[x] /\ o[x][i] = c[x][i + k(x)]
  <2>1. PICK m \in 0 .. Len(c[x]) : /\ Len(o[x]) = Len(c[x]) - m
                                    /\ \A i \in 1 .. Len(o[x]) : o[x][i] = c[x][i + m]
    BY DEF Remains
  <2>2. m \in Nat /\ k(x) = m
    BY <1>0, <2>1
  <2> HIDE DEF k
  <2> QED
    BY <1>0, <2>1, <2>2
<1> HIDE DEF k
<1>2. ASSUME InLine(c, r), NEW x \in P, NEW y \in P, NEW i \in 1 .. Len(o[x]), NEW j \in 1 .. Len(o[y]),
             r[x] > r[y] \/ (x = y /\ i < j)
      PROVE  o[x][i] < o[y][j]
  <2>1. i + k(x) \in DOMAIN c[x] /\ j + k(y) \in DOMAIN c[y]
    BY <1>1
  <2>3. i \in Nat /\ j \in Nat /\ k(x) \in Nat /\ (x = y => k(x) = k(y))
    BY <1>0, <1>1
  <2>4. i < j /\ x = y => i + k(x) < j + k(y)
    BY <2>3
  <2>2. c[x][i + k(x)] < c[y][j + k(y)]
    BY <1>0, <1>2, <2>1, <2>4 DEF InLine
  <2> QED
    BY <1>1, <2>2
<1>3. ASSUME Within(c, n), NEW x \in P, NEW i \in 1 .. Len(o[x]) PROVE o[x][i] \in 1 .. n
  BY <1>0, <1>1, <1>3 DEF Within
<1> QED
  BY <1>0, <1>2, <1>3 DEF InLine, Within

\* All of a sequence remains of it, or nothing.
LEMMA NothingRemains == ASSUME NEW s \in Seq(Nat) PROVE Remains(s, s) /\ Remains(s, <<>>)
<1>1. Len(s) \in Nat
  OBVIOUS
<1> QED
  BY <1>1 DEF Remains

-----------------------------------------------------------------------------
(* Types.                                                                  *)

\* There are two directions, and each end sends in one.
LEMMA Ways == /\ Other("right") = "left" /\ Other("left") = "right"
              /\ \A d \in Dir : d \in {"right", "left"} /\ Other(d) \in Dir /\ Other(d) # d
              /\ \A e \in End : Sends(e) \in Dir
<1>1. \A d \in Dir : Other(d) \in Dir /\ Other(d) # d
  <2> SUFFICES ASSUME NEW d \in Dir PROVE Other(d) \in Dir /\ Other(d) # d
    OBVIOUS
  <2>1. \E o \in Dir : o # d
    BY DEF Dir
  <2> QED
    BY <2>1 DEF Other
<1> QED
  BY <1>1 DEF Dir, Sends

\* A row has a hop at least, hops lie between links, and pushing hops are at its head.
LEMMA Shape == ASSUME PathTypeOK
               PROVE  /\ Len(row) \in Nat \ {0} /\ Hop = 1 .. Len(row) /\ Link = 0 .. Len(row)
                      /\ \A h \in Hop, d \in Dir : In(h, d) \in Link /\ Out(h, d) \in Link
                      /\ \A e \in End : LinkOf(e) \in Link
                      /\ \A h \in Hop : row[h] \in Kind /\ (row[h] = "web" => h = 1)
<1>1. row \in Seq(Kind) /\ row # <<>> /\ \A h \in DOMAIN row : row[h] = "web" => h = 1
  BY RowsAssumption DEF PathTypeOK
<1>2. Len(row) \in Nat \ {0} /\ DOMAIN row = 1 .. Len(row)
  BY <1>1
<1> QED
  BY <1>1, <1>2 DEF Hop, Link, In, Out, LinkOf

\* A sequence in place of another, and the parts of one.
LEMMA Replaced ==
  ASSUME NEW A, NEW f \in [A -> [Dir -> Seq(Nat)]], NEW a \in A, NEW d \in Dir, NEW s \in Seq(Nat)
  PROVE  /\ [f EXCEPT ![a][d] = s] \in [A -> [Dir -> Seq(Nat)]]
         /\ \A b \in A, o \in Dir :
               [f EXCEPT ![a][d] = s][b][o] = IF b = a /\ o = d THEN s ELSE f[b][o]
OBVIOUS

\* A sequence in two parts.
LEMMA Parts ==
  ASSUME NEW s \in Seq(Nat), NEW k \in 1 .. Len(s)
  PROVE  /\ SubSeq(s, 1, k) \in Seq(Nat) /\ Len(SubSeq(s, 1, k)) = k
         /\ \A i \in 1 .. k : SubSeq(s, 1, k)[i] = s[i]
         /\ SubSeq(s, k + 1, Len(s)) \in Seq(Nat) /\ Len(SubSeq(s, k + 1, Len(s))) = Len(s) - k
         /\ \A i \in 1 .. Len(s) - k : SubSeq(s, k + 1, Len(s))[i] = s[i + k]
BY SubSeqProperties

\* The first element and the others.
LEMMA HeadAndTail ==
  ASSUME NEW s \in Seq(Nat), s # <<>>
  PROVE  /\ Head(s) \in Nat /\ Head(s) = s[1] /\ Tail(s) \in Seq(Nat) /\ Len(Tail(s)) = Len(s) - 1
         /\ Len(s) \in Nat \ {0} /\ \A i \in 1 .. Len(s) - 1 : Tail(s)[i] = s[i + 1]
BY HeadTailProperties

\* Two sequences as one.
LEMMA Joined ==
  ASSUME NEW s \in Seq(Nat), NEW t \in Seq(Nat)
  PROVE  /\ s \o t \in Seq(Nat) /\ Len(s \o t) = Len(s) + Len(t)
         /\ \A i \in 1 .. Len(s) : (s \o t)[i] = s[i]
         /\ \A i \in 1 .. Len(t) : (s \o t)[Len(s) + i] = t[i]
BY ConcatProperties

\* At first the variables have their types.
LEMMA PathTypeInit == PathInit => PathTypeOK
<1> SUFFICES ASSUME PathInit PROVE PathTypeOK
  OBVIOUS
<1>1. row \in Rows /\ row \in Seq(Kind) /\ Hop = DOMAIN row
  BY RowsAssumption DEF PathInit, Hop
<1>2. pc \in [Hop -> {"await_client", "await_agent", "forward", "returned"}]
  BY <1>1 DEF PathInit, Kind
<1> QED
  <2>1. /\ wire \in [Link -> [Dir -> Seq(Nat)]] /\ held \in [Hop -> [Dir -> Seq(Nat)]]
        /\ got \in [End -> Seq(Nat)] /\ sent \in [End -> Nat]
    BY DEF PathInit
  <2>2. \A e \in End : sent[e] <= Bytes[e]
    BY BoundsAssumption DEF PathInit
  <2>3. /\ ended \in [Link -> [Dir -> BOOLEAN]] /\ deaf \in [Link -> [Dir -> BOOLEAN]]
        /\ some \in [Hop -> [Dir -> BOOLEAN]] /\ cut \in BOOLEAN /\ good = Whole
    BY DEF PathInit
  <2> QED
    BY <1>1, <1>2, <2>1, <2>2, <2>3 DEF PathTypeOK

\* Dropping both sockets keeps the types of the links.
LEMMA DropsTypes == ASSUME PathTypeOK, NEW h \in Hop, Drops(h)
                    PROVE  /\ wire' \in [Link -> [Dir -> Seq(Nat)]]
                           /\ ended' \in [Link -> [Dir -> BOOLEAN]]
                           /\ deaf' \in [Link -> [Dir -> BOOLEAN]]
BY DEF PathTypeOK, Drops

\* A forwarding task that returns keeps the types.
LEMMA ReturnsTypes == ASSUME PathTypeOK, NEW h \in Hop, Returns(h) PROVE PathTypeOK'
<1>1. Drops(h) /\ UNCHANGED <<row, ends>>
  BY DEF Returns
<1>2. /\ pc' \in [Hop -> {"await_client", "await_agent", "forward", "returned"}]
      /\ held' \in [Hop -> [Dir -> Seq(Nat)]] /\ some' \in [Hop -> [Dir -> BOOLEAN]]
  BY DEF Returns, PathTypeOK
<1> QED
  BY <1>1, <1>2, DropsTypes DEF PathTypeOK, ends, Hop, Link

\* What was written to the browser is a number of bytes.
LEMMA CountsWritten == PathTypeOK => written \in Nat
<1> SUFFICES ASSUME PathTypeOK PROVE written \in Nat
  OBVIOUS
<1>1. 0 \in Link
  BY Shape
<1>2. wire[0]["left"] \in Seq(Nat) /\ got["user"] \in Seq(Nat)
  BY <1>1 DEF PathTypeOK, Dir, End
<1>3. Len(wire[0]["left"]) \in Nat /\ Len(got["user"]) \in Nat
  BY <1>2
<1>4. ASSUME NEW a \in Nat, NEW b \in Nat PROVE a + b \in Nat
  OBVIOUS
<1>5. Len(got["user"]) + Len(wire[0]["left"]) \in Nat
  BY ONLY <1>3, <1>4
<1> QED
  BY <1>5 DEF written

\* Every step of a hop keeps the types.
LEMMA HopTypes == ASSUME PathTypeOK, NEW h \in Hop, HopSteps(h) \/ UpgradeFails(h) PROVE PathTypeOK'
<1> USE Shape
<1>1. CASE UpgradeFails(h)
  <2>1. pc' \in [Hop -> {"await_client", "await_agent", "forward", "returned"}]
    BY <1>1 DEF UpgradeFails, PathTypeOK
  <2> QED
    BY <1>1, <2>1, DropsTypes DEF UpgradeFails, PathTypeOK, Hop, Link
<1>2. ASSUME NEW d \in Dir, CopyReads(h, d) PROVE PathTypeOK'
  <2> DEFINE l == In(h, d)
  <2>1. wire[l][d] \in Seq(Nat) /\ held[h][d] \in Seq(Nat) /\ wire[l][d] # <<>>
    BY <1>2 DEF CopyReads, PathTypeOK
  <2>2. Tail(wire[l][d]) \in Seq(Nat) /\ Append(held[h][d], Head(wire[l][d])) \in Seq(Nat)
    BY <2>1, HeadAndTail
  <2>3. /\ wire' \in [Link -> [Dir -> Seq(Nat)]] /\ held' \in [Hop -> [Dir -> Seq(Nat)]]
        /\ some' \in [Hop -> [Dir -> BOOLEAN]]
    BY <1>2, <2>2 DEF CopyReads, PathTypeOK
  <2> QED
    BY <1>2, <2>3 DEF CopyReads, PathTypeOK, Hop, Link, ends
<1>3. ASSUME NEW d \in Dir, CopyWrites(h, d) PROVE PathTypeOK'
  <2>1. wire[Out(h, d)][d] \in Seq(Nat) /\ held[h][d] \in Seq(Nat) /\ held[h][d] # <<>>
    BY <1>3 DEF CopyWrites, PathTypeOK
  <2>2. Tail(held[h][d]) \in Seq(Nat) /\ wire[Out(h, d)][d] \o <<Head(held[h][d])>> \in Seq(Nat)
    BY <2>1, HeadAndTail
  <2>3. wire' \in [Link -> [Dir -> Seq(Nat)]] /\ held' \in [Hop -> [Dir -> Seq(Nat)]]
    BY <1>3, <2>2 DEF CopyWrites, Put, PathTypeOK
  <2> QED
    BY <1>3, <2>3 DEF CopyWrites, PathTypeOK, Hop, Link, ends
<1>4. ASSUME NEW d \in Dir, CopiedSome(h, d) PROVE PathTypeOK'
  BY <1>4 DEF CopiedSome, PathTypeOK, Hop, Link, ends, links
<1>5. ASSUME NEW d \in Dir, TakesMessage(h, d) PROVE PathTypeOK'
  <2>1. PICK k \in 1 .. Chunk :
              /\ k <= Len(wire[In(h, d)][d])
              /\ held' = [held EXCEPT ![h][d] = SubSeq(wire[In(h, d)][d], 1, k)]
              /\ wire' = [wire EXCEPT ![In(h, d)][d] = SubSeq(@, k + 1, Len(@))]
    BY <1>5 DEF TakesMessage
  <2>2. k \in Nat /\ wire[In(h, d)][d] \in Seq(Nat)
    BY BoundsAssumption DEF PathTypeOK
  <2>3. /\ SubSeq(wire[In(h, d)][d], 1, k) \in Seq(Nat)
        /\ SubSeq(wire[In(h, d)][d], k + 1, Len(wire[In(h, d)][d])) \in Seq(Nat)
    BY <2>1, <2>2, Parts, SMTT(30)
  <2>4. wire' \in [Link -> [Dir -> Seq(Nat)]] /\ held' \in [Hop -> [Dir -> Seq(Nat)]]
    BY <2>1, <2>3 DEF PathTypeOK
  <2> QED
    BY <1>5, <2>4 DEF TakesMessage, PathTypeOK, Hop, Link, ends
<1>6. ASSUME NEW d \in Dir, SendsMessage(h, d) PROVE PathTypeOK'
  <2>1. wire[Out(h, d)][d] \o held[h][d] \in Seq(Nat)
    BY Joined DEF PathTypeOK
  <2>2. wire' \in [Link -> [Dir -> Seq(Nat)]] /\ held' \in [Hop -> [Dir -> Seq(Nat)]]
    BY <1>6, <2>1 DEF SendsMessage, Put, PathTypeOK
  <2> QED
    BY <1>6, <2>2 DEF SendsMessage, PathTypeOK, Hop, Link, ends
<1>7. CASE PushesAll(h)
  <2>1. "left" \in Dir /\ wire[Out(h, "left")]["left"] \o held[h]["left"] \in Seq(Nat)
    BY Joined DEF PathTypeOK, Dir
  <2>2. wire' \in [Link -> [Dir -> Seq(Nat)]] /\ held' \in [Hop -> [Dir -> Seq(Nat)]]
    BY <1>7, <2>1 DEF PushesAll, Put, PathTypeOK
  <2> QED
    BY <1>7, <2>2 DEF PushesAll, PathTypeOK, Hop, Link, ends
<1>8. CASE PushesSome(h)
  <2> DEFINE room == Room(Out(h, "left"), "left")
  <2>1. /\ "left" \in Dir /\ held[h]["left"] \in Seq(Nat) /\ wire[Out(h, "left")]["left"] \in Seq(Nat)
        /\ room \in 1 .. Len(held[h]["left"]) - 1
        /\ wire' = [wire EXCEPT ![Out(h, "left")]["left"] = @ \o SubSeq(held[h]["left"], 1, room)]
        /\ UNCHANGED <<row, ended, deaf, hops, sent, got, cut>>
        /\ good' \in {good, written + room}
    BY <1>8 DEF PushesSome, Put, PathTypeOK, Dir
  <2>2. room \in Nat /\ SubSeq(held[h]["left"], 1, room) \in Seq(Nat)
    <3>1. room \in 1 .. Len(held[h]["left"])
      BY <2>1
    <3>2. room \in Nat
      BY <3>1
    <3> HIDE DEF room
    <3>3. SubSeq(held[h]["left"], 1, room) \in Seq(Nat)
      BY ONLY <2>1, <3>1, Parts
    <3> QED
      BY <3>2, <3>3
  <2>3. wire' \in [Link -> [Dir -> Seq(Nat)]]
    <3>1. wire[Out(h, "left")]["left"] \o SubSeq(held[h]["left"], 1, room) \in Seq(Nat)
      BY <2>1, <2>2, Joined
    <3> QED
      BY <2>1, <3>1 DEF PathTypeOK
  <2>4. written + room \in Nat
    BY <2>2, CountsWritten
  <2> HIDE DEF room
  <2> QED
    BY <2>1, <2>3, <2>4 DEF PathTypeOK, Hop, Link, hops
<1>9. CASE Forgets(h)
  <2>1. held' \in [Hop -> [Dir -> Seq(Nat)]]
    <3>1. held' = [held EXCEPT ![h]["left"] = <<>>] /\ held \in [Hop -> [Dir -> Seq(Nat)]]
      BY <1>9 DEF Forgets, PathTypeOK
    <3>2. <<>> \in Seq(Nat) /\ "left" \in Dir
      BY DEF Dir
    <3> QED
      BY <3>1, <3>2
  <2>2. good' \in Nat \cup {Whole}
    BY <1>9, CountsWritten DEF Forgets, PathTypeOK
  <2> QED
    BY <1>9, <2>1, <2>2 DEF Forgets, PathTypeOK, Hop, Link, links
<1>10. CASE \/ \E d \in Dir : CopiedNothing(h, d) \/ StreamEnds(h, d)
            \/ WriteFails(h) \/ ReadFails(h)
  BY <1>10, ReturnsTypes DEF CopiedNothing, StreamEnds, WriteFails, ReadFails
<1>11. CASE ClientUpgraded(h) \/ AgentUpgraded(h)
  BY <1>11 DEF ClientUpgraded, AgentUpgraded, PathTypeOK, Hop, Link, links, ends
<1> QED
  BY <1>1, <1>2, <1>3, <1>4, <1>5, <1>6, <1>7, <1>8, <1>9, <1>10, <1>11 DEF HopSteps

\* Every step of an end keeps the types.
LEMMA EndTypes == ASSUME PathTypeOK, NEW e \in End,
                         EndSends(e) \/ EndReads(e) \/ EndCloses(e) \/ EndGoes(e)
                  PROVE  PathTypeOK'
<1> USE Shape, Ways
<1>1. CASE EndSends(e)
  <2> DEFINE l == LinkOf(e)  d == Sends(e)
  <2>1. wire[l][d] \in Seq(Nat) /\ sent[e] \in Nat /\ sent[e] < Bytes[e] /\ Bytes[e] \in Nat
    <3>1. sent[e] < Bytes[e]
      BY <1>1 DEF EndSends
    <3> QED
      BY <3>1, BoundsAssumption DEF PathTypeOK
  <2>2. wire[l][d] \o <<sent[e] + 1>> \in Seq(Nat)
    BY <2>1
  <2>3. wire' \in [Link -> [Dir -> Seq(Nat)]]
    BY <1>1, <2>2 DEF EndSends, Put, PathTypeOK
  <2>4. sent' \in [End -> Nat] /\ \A f \in End : sent'[f] <= Bytes[f]
    <3>1. sent' = [sent EXCEPT ![e] = sent[e] + 1]
      BY <1>1 DEF EndSends
    <3>2. sent \in [End -> Nat] /\ \A f \in End : sent[f] <= Bytes[f]
      BY DEF PathTypeOK
    <3> QED
      BY <2>1, <3>1, <3>2
  <2> QED
    BY <1>1, <2>3, <2>4 DEF EndSends, PathTypeOK, Hop, Link, hops
<1>2. CASE EndReads(e)
  BY <1>2, SMTT(30) DEF EndReads, PathTypeOK, Hop, Link, hops
<1>3. CASE EndCloses(e)
  BY <1>3 DEF EndCloses, PathTypeOK, Hop, Link, hops, ends
<1>4. CASE EndGoes(e)
  BY <1>4, SMTT(30) DEF EndGoes, PathTypeOK, Hop, Link, hops, ends
<1> QED
  BY <1>1, <1>2, <1>3, <1>4

\* Every step of the path keeps the types.
LEMMA PathTypeStep == PathTypeOK /\ [PathNext]_path => PathTypeOK'
<1> SUFFICES ASSUME PathTypeOK, [PathNext]_path PROVE PathTypeOK'
  OBVIOUS
<1>1. CASE UNCHANGED path
  BY <1>1 DEF path, links, hops, ends, PathTypeOK, Hop, Link
<1> QED
  BY <1>1, HopTypes, EndTypes DEF PathNext

-----------------------------------------------------------------------------
(* Places.                                                                 *)

\* The four kinds of place.
LEMMA PlacesAre == ASSUME PathTypeOK, NEW d \in Dir
  PROVE  /\ <<"start", 0>> \in Place /\ <<"end", 0>> \in Place
         /\ \A l \in Link : <<"link", l>> \in Place
         /\ \A h \in Hop : <<"hop", h>> \in Place
         /\ \A x \in Place : \/ x = <<"start", 0>> \/ x = <<"end", 0>>
                             \/ \E l \in Link : x = <<"link", l>>
                             \/ \E h \in Hop : x = <<"hop", h>>
BY DEF Place

\* How far along each place is.
LEMMA StagesAre == ASSUME PathTypeOK, NEW d \in Dir
  PROVE  /\ stage(d) \in [Place -> Int]
         /\ stage(d)[<<"start", 0>>] = 0
         /\ stage(d)[<<"end", 0>>] = 2 * Len(row) + 2
         /\ \A l \in Link : stage(d)[<<"link", l>>] =
               IF d = "right" THEN 2 * l + 1 ELSE 2 * (Len(row) - l) + 1
         /\ \A h \in Hop : stage(d)[<<"hop", h>>] =
               IF d = "right" THEN 2 * h ELSE 2 * (Len(row) + 1 - h)
<1>1. /\ stage(d)[<<"start", 0>>] = 0
      /\ stage(d)[<<"end", 0>>] = 2 * Len(row) + 2
      /\ \A l \in Link : stage(d)[<<"link", l>>] =
               IF d = "right" THEN 2 * l + 1 ELSE 2 * (Len(row) - l) + 1
      /\ \A h \in Hop : stage(d)[<<"hop", h>>] =
               IF d = "right" THEN 2 * h ELSE 2 * (Len(row) + 1 - h)
  BY PlacesAre DEF stage, far
<1>2. stage(d) = [x \in Place |-> stage(d)[x]]
  BY DEF stage
<1>3. \A x \in Place : stage(d)[x] \in Int
  BY <1>1, PlacesAre, Shape
<1> QED
  BY <1>1, <1>2, <1>3

\* No place lies between p and q on the way d.
adjacent(d, p, q) ==
    /\ p \in Place /\ q \in Place /\ p # q /\ Neighbours(Place, stage(d), p, q)

\* No two places are equally far.
LEMMA StagesDiffer ==
  ASSUME PathTypeOK, NEW d \in Dir, NEW x \in Place, NEW y \in Place, stage(d)[x] = stage(d)[y]
  PROVE  x = y
<1> DEFINE N == Len(row)
<1>1. N \in Nat \ {0} /\ Hop = 1 .. N /\ Link = 0 .. N
  BY Shape
<1>2. ASSUME NEW z \in Place
      PROVE  \/ z = <<"start", 0>> /\ stage(d)[z] = 0
             \/ z = <<"end", 0>> /\ stage(d)[z] = 2 * N + 2
             \/ \E l \in 0 .. N : /\ z = <<"link", l>>
                                  /\ stage(d)[z] = IF d = "right" THEN 2 * l + 1 ELSE 2 * (N - l) + 1
             \/ \E h \in 1 .. N : /\ z = <<"hop", h>>
                                  /\ stage(d)[z] = IF d = "right" THEN 2 * h ELSE 2 * (N + 1 - h)
  <2>1. CASE z = <<"start", 0>> \/ z = <<"end", 0>>
    BY <2>1, StagesAre
  <2>2. CASE \E l \in Link : z = <<"link", l>>
    <3>1. PICK l \in Link : z = <<"link", l>>
      BY <2>2
    <3>2. stage(d)[z] = IF d = "right" THEN 2 * l + 1 ELSE 2 * (N - l) + 1
      BY <3>1, StagesAre
    <3> QED
      BY <1>1, <3>1, <3>2
  <2>3. CASE \E h \in Hop : z = <<"hop", h>>
    <3>1. PICK h \in Hop : z = <<"hop", h>>
      BY <2>3
    <3>2. stage(d)[z] = IF d = "right" THEN 2 * h ELSE 2 * (N + 1 - h)
      BY <3>1, StagesAre
    <3> QED
      BY <1>1, <3>1, <3>2
  <2> QED
    BY <2>1, <2>2, <2>3, PlacesAre
<1> HIDE DEF N
<1>3. CASE d = "right"
  BY <1>1, <1>2, <1>3
<1>4. CASE d # "right"
  BY <1>1, <1>2, <1>4
<1> QED
  BY <1>3, <1>4

\* The places that bytes move between are neighbours: an end and its link, a link and a
\* hop.
LEMMA Adjacent == ASSUME PathTypeOK, NEW d \in Dir
  PROVE  /\ adjacent(d, <<"start", 0>>, <<"link", LinkOf(Sender(d))>>)
         /\ adjacent(d, <<"link", LinkOf(Receiver(d))>>, <<"end", 0>>)
         /\ \A h \in Hop : /\ adjacent(d, <<"link", In(h, d)>>, <<"hop", h>>)
                           /\ adjacent(d, <<"hop", h>>, <<"link", Out(h, d)>>)
<1>1. /\ Len(row) \in Nat \ {0} /\ Hop = 1 .. Len(row) /\ Link = 0 .. Len(row)
      /\ d = "right" \/ d = "left"
  BY Shape, Ways
<1>2. ASSUME NEW p \in Place, NEW q \in Place, stage(d)[q] = stage(d)[p] + 1
      PROVE  adjacent(d, p, q)
  <2>1. \A z \in Place : stage(d)[z] \in Int
    BY StagesAre
  <2>2. \A z \in Place \ {p, q} : stage(d)[z] # stage(d)[p] /\ stage(d)[z] # stage(d)[q]
    BY StagesDiffer
  <2> QED
    BY <1>2, <2>1, <2>2 DEF adjacent, Neighbours
<1>3. ASSUME NEW h \in Hop PROVE adjacent(d, <<"link", In(h, d)>>, <<"hop", h>>)
  <2>1. In(h, d) \in Link /\ In(h, d) = IF d = "right" THEN h - 1 ELSE h
    BY <1>1 DEF In
  <2>2. stage(d)[<<"link", In(h, d)>>] =
            IF d = "right" THEN 2 * In(h, d) + 1 ELSE 2 * (Len(row) - In(h, d)) + 1
    BY <2>1, StagesAre
  <2>3. stage(d)[<<"hop", h>>] = IF d = "right" THEN 2 * h ELSE 2 * (Len(row) + 1 - h)
    BY StagesAre
  <2>4. stage(d)[<<"hop", h>>] = stage(d)[<<"link", In(h, d)>>] + 1
    BY ONLY <1>1, <2>1, <2>2, <2>3, h \in Hop
  <2>5. <<"link", In(h, d)>> \in Place /\ <<"hop", h>> \in Place
    BY <2>1, PlacesAre
  <2> QED
    BY <1>2, <2>4, <2>5
<1>4. ASSUME NEW h \in Hop PROVE adjacent(d, <<"hop", h>>, <<"link", Out(h, d)>>)
  <2>1. Out(h, d) \in Link /\ Out(h, d) = IF d = "right" THEN h ELSE h - 1
    BY <1>1 DEF Out
  <2>2. stage(d)[<<"link", Out(h, d)>>] =
            IF d = "right" THEN 2 * Out(h, d) + 1 ELSE 2 * (Len(row) - Out(h, d)) + 1
    BY <2>1, StagesAre
  <2>3. stage(d)[<<"hop", h>>] = IF d = "right" THEN 2 * h ELSE 2 * (Len(row) + 1 - h)
    BY StagesAre
  <2>4. stage(d)[<<"link", Out(h, d)>>] = stage(d)[<<"hop", h>>] + 1
    BY ONLY <1>1, <2>1, <2>2, <2>3, h \in Hop
  <2>5. <<"link", Out(h, d)>> \in Place /\ <<"hop", h>> \in Place
    BY <2>1, PlacesAre
  <2> QED
    BY <1>2, <2>4, <2>5
<1>5. adjacent(d, <<"start", 0>>, <<"link", LinkOf(Sender(d))>>)
  <2>1. LinkOf(Sender(d)) \in Link /\ LinkOf(Sender(d)) = IF d = "right" THEN 0 ELSE Len(row)
    BY <1>1 DEF LinkOf, Sender
  <2>2. <<"link", LinkOf(Sender(d))>> \in Place /\ <<"start", 0>> \in Place
    BY <2>1, PlacesAre
  <2>3. stage(d)[<<"link", LinkOf(Sender(d))>>] = stage(d)[<<"start", 0>>] + 1
    BY <1>1, <2>1, StagesAre
  <2> QED
    BY <1>2, <2>2, <2>3
<1>6. adjacent(d, <<"link", LinkOf(Receiver(d))>>, <<"end", 0>>)
  <2>1. LinkOf(Receiver(d)) \in Link /\ LinkOf(Receiver(d)) = IF d = "right" THEN Len(row) ELSE 0
    BY <1>1 DEF LinkOf, Receiver
  <2>2. <<"link", LinkOf(Receiver(d))>> \in Place /\ <<"end", 0>> \in Place
    BY <2>1, PlacesAre
  <2>3. stage(d)[<<"end", 0>>] = stage(d)[<<"link", LinkOf(Receiver(d))>>] + 1
    BY <1>1, <2>1, StagesAre
  <2> QED
    BY <1>2, <2>2, <2>3
<1> QED
  BY <1>3, <1>4, <1>5, <1>6

\* Each direction has a sender and a receiver.
LEMMA Whom == ASSUME NEW d \in Dir
  PROVE  /\ Sender(d) \in End /\ Receiver(d) \in End /\ Sender(d) # Receiver(d)
         /\ Sends(Sender(d)) = d /\ Other(Sends(Receiver(d))) = d
         /\ \A e \in End : e = Sender(d) \/ e = Receiver(d)
         /\ Receiver(d) = "user" <=> d = "left"
BY Ways DEF Sender, Receiver, Sends, End, Dir

\* The first n elements of a sequence.
LEMMA UpTo == ASSUME NEW s \in Seq(Nat), NEW n \in Int
  PROVE  /\ upTo(s, n) \in Seq(Nat)
         /\ Len(upTo(s, n)) = IF n >= Len(s) THEN Len(s) ELSE IF n >= 0 THEN n ELSE 0
         /\ \A i \in 1 .. Len(upTo(s, n)) : upTo(s, n)[i] = s[i]
         /\ n >= Len(s) => upTo(s, n) = s
         /\ n <= 0 => upTo(s, n) = <<>>
<1>1. CASE n >= Len(s)
  BY <1>1 DEF upTo
<1>2. CASE ~(n >= Len(s)) /\ n >= 1
  BY <1>2, Parts DEF upTo
<1>3. CASE ~(n >= Len(s)) /\ n <= 0
  <2>1. upTo(s, n) = SubSeq(s, 1, n)
    BY <1>3 DEF upTo
  <2>2. SubSeq(s, 1, n) = <<>>
    BY <1>3
  <2> QED
    BY <1>3, <2>1, <2>2
<1> QED
  BY <1>1, <1>2, <1>3

\* The intact part of what an end has read is a sequence.
LEMMA IntactIs == ASSUME PathTypeOK, NEW e \in End
  PROVE  /\ intact \in [End -> Seq(Nat)]
         /\ intact[e] = IF e = "user" /\ torn THEN upTo(got[e], good) ELSE got[e]
<1>1. \A f \in End : got[f] \in Seq(Nat)
  BY DEF PathTypeOK
<1>2. torn => good \in Nat
  BY DEF PathTypeOK, torn
<1>3. torn => upTo(got["user"], good) \in Seq(Nat)
  BY <1>1, <1>2, UpTo DEF End
<1> QED
  BY <1>1, <1>3 DEF intact, PathTypeOK, End

\* What the intact part is, before a step ...
LEMMA IntactNow == PathTypeOK => \A e \in End :
                       intact[e] = IF e = "user" /\ torn THEN upTo(got[e], good) ELSE got[e]
BY IntactIs

\* ... and after it.
LEMMA IntactNext == PathTypeOK' => (\A e \in End :
                       intact[e] = IF e = "user" /\ torn THEN upTo(got[e], good) ELSE got[e])'
BY IntactNow, PTL

\* What each place carries.
IsCarried(d) ==
    /\ carried(d) \in [Place -> Seq(Nat)]
    /\ carried(d)[<<"start", 0>>] = toSend(sent[Sender(d)], Bytes[Sender(d)])
    /\ carried(d)[<<"end", 0>>] = intact[Receiver(d)]
    /\ ~tornWay(d) => /\ \A l \in Link : carried(d)[<<"link", l>>] = wire[l][d]
                      /\ \A h \in Hop : carried(d)[<<"hop", h>>] = held[h][d]
    /\ tornWay(d) => /\ carried(d)[<<"link", 0>>] = upTo(wire[0][d], good - Len(got["user"]))
                     /\ \A l \in Link \ {0} : carried(d)[<<"link", l>>] = <<>>
                     /\ \A h \in Hop : carried(d)[<<"hop", h>>] = <<>>

\* Place by place that is what it carries, whatever the types allow.
LEMMA CarriedIs == ASSUME PathTypeOK, NEW d \in Dir PROVE IsCarried(d)
<1>0. 0 \in Link
  BY Shape
<1>1. /\ carried(d)[<<"start", 0>>] = toSend(sent[Sender(d)], Bytes[Sender(d)])
      /\ carried(d)[<<"end", 0>>] = intact[Receiver(d)]
      /\ \A l \in Link : carried(d)[<<"link", l>>] =
               IF ~tornWay(d) THEN wire[l][d]
               ELSE IF l = 0 THEN upTo(wire[0][d], good - Len(got["user"])) ELSE <<>>
      /\ \A h \in Hop : carried(d)[<<"hop", h>>] = IF ~tornWay(d) THEN held[h][d] ELSE <<>>
  BY PlacesAre DEF carried, contents
<1>2. carried(d) = [x \in Place |-> carried(d)[x]]
  BY DEF carried
<1>3. carried(d)[<<"start", 0>>] \in Seq(Nat)
  <2>1. Bytes[Sender(d)] - sent[Sender(d)] \in Nat /\ sent[Sender(d)] \in Nat
    BY Whom, BoundsAssumption DEF PathTypeOK
  <2> QED
    BY <1>1, <2>1 DEF toSend
<1>4. carried(d)[<<"end", 0>>] \in Seq(Nat)
  BY <1>1, IntactIs, Whom
<1>5. \A l \in Link : carried(d)[<<"link", l>>] \in Seq(Nat)
  <2>1. \A l \in Link : wire[l][d] \in Seq(Nat)
    BY DEF PathTypeOK
  <2>2. tornWay(d) => good - Len(got["user"]) \in Int
    BY DEF tornWay, torn, PathTypeOK, End
  <2>3. tornWay(d) => upTo(wire[0][d], good - Len(got["user"])) \in Seq(Nat)
    BY <1>0, <2>1, <2>2, UpTo
  <2>4. <<>> \in Seq(Nat)
    OBVIOUS
  <2> QED
    BY ONLY <1>1, <2>1, <2>3, <2>4
<1>6. \A h \in Hop : carried(d)[<<"hop", h>>] \in Seq(Nat)
  <2>1. \A h \in Hop : held[h][d] \in Seq(Nat)
    BY DEF PathTypeOK
  <2>2. <<>> \in Seq(Nat)
    OBVIOUS
  <2> QED
    BY ONLY <1>1, <2>1, <2>2
<1>7. \A x \in Place : carried(d)[x] \in Seq(Nat)
  BY <1>3, <1>4, <1>5, <1>6, PlacesAre
<1> QED
  BY <1>0, <1>1, <1>2, <1>7 DEF IsCarried

-----------------------------------------------------------------------------
(* What a step does to the bytes of one direction.                         *)

InWay(d) == /\ InLine(carried(d), stage(d)) /\ Within(carried(d), Bytes[Sender(d)])
            /\ ~isOver => AllThere(carried(d), Bytes[Sender(d)])

\* A move to the next place, or none.
Moves(d, m) ==
    m = carried(d) \/ \E p, q \in Place : \E k \in Nat : adjacent(d, p, q) /\ Moved(carried(d), m, p, q, k)

\* That is all, or bytes are lost as well when the connection is over.
Passage(d) ==
    \/ Moves(d, carried(d)')
    \/ /\ isOver'
       /\ \E m \in [Place -> Seq(Nat)] : Moves(d, m) /\ \A x \in Place : Remains(m[x], carried(d)'[x])

\* In both directions, before a step ...
LEMMA Carries == PathTypeOK => \A d \in Dir : IsCarried(d)
BY CarriedIs

\* ... and after it.
LEMMA CarriesNext == PathTypeOK' => (\A d \in Dir : IsCarried(d))'
BY Carries, PTL

\* The places are those of the row.
LEMMA SamePlaces == ASSUME row' = row, NEW d \in Dir
                    PROVE  Place' = Place /\ Link' = Link /\ Hop' = Hop /\ stage(d)' = stage(d)
BY DEF Place, Link, Hop, stage, far

\* What a passage keeps: the order of the bytes, and all of them while the connection stands.
LEMMA PassageKeeps ==
  ASSUME PathTypeOK, PathTypeOK', row' = row, isOver => isOver', NEW d \in Dir, Passage(d), InWay(d)
  PROVE  InWay(d)'
<1> DEFINE c == carried(d)  o == carried(d)'  r == stage(d)  n == Bytes[Sender(d)]
<1>1. /\ c \in [Place -> Seq(Nat)] /\ o \in [Place -> Seq(Nat)] /\ r \in [Place -> Int]
      /\ stage(d)' = r /\ n \in Nat
  BY Carries, CarriesNext, SamePlaces, StagesAre, Whom, BoundsAssumption DEF IsCarried
<1>2. InLine(c, r) /\ Within(c, n) /\ (~isOver => AllThere(c, n))
  BY DEF InWay
<1>3. ASSUME NEW m \in [Place -> Seq(Nat)], Moves(d, m)
      PROVE  InLine(m, r) /\ Within(m, n) /\ (~isOver => AllThere(m, n))
  <2>1. CASE m = c
    BY <1>2, <2>1
  <2>2. CASE \E p, q \in Place : \E k \in Nat : adjacent(d, p, q) /\ Moved(c, m, p, q, k)
    <3>1. PICK p \in Place, q \in Place, k \in Nat : adjacent(d, p, q) /\ Moved(c, m, p, q, k)
      BY <2>2
    <3>2. p # q /\ Neighbours(Place, r, p, q)
      BY <3>1 DEF adjacent
    <3> HIDE DEF c, o, r, n
    <3>3. InLine(m, r)
      BY <1>1, <1>2, <3>1, <3>2, MoveKeepsLine
    <3>4. (Within(c, n) => Within(m, n)) /\ (AllThere(c, n) => AllThere(m, n))
      BY <1>1, <3>1, <3>2, MoveKeepsBytes
    <3> QED
      BY <1>2, <3>3, <3>4
  <2> QED
    BY <1>3, <2>1, <2>2 DEF Moves
<1>4. InLine(o, r) /\ Within(o, n) /\ (~isOver' => AllThere(o, n))
  <2>1. CASE Moves(d, o)
    BY <1>1, <1>3, <2>1
  <2>2. CASE /\ isOver'
             /\ \E m \in [Place -> Seq(Nat)] : Moves(d, m) /\ \A x \in Place : Remains(m[x], o[x])
    <3>1. PICK m \in [Place -> Seq(Nat)] : Moves(d, m) /\ \A x \in Place : Remains(m[x], o[x])
      BY <2>2
    <3>2. InLine(m, r) /\ Within(m, n)
      BY <1>3, <3>1
    <3> HIDE DEF c, o, r, n
    <3>3. (InLine(m, r) => InLine(o, r)) /\ (Within(m, n) => Within(o, n))
      BY <1>1, <3>1, LossKeepsLine
    <3> QED
      BY <2>2, <3>2, <3>3
  <2> QED
    BY <2>1, <2>2 DEF Passage
<1> QED
  BY <1>1, <1>4 DEF InWay

-----------------------------------------------------------------------------
(* What the actions do, seen from the bytes.                               *)

\* Hop h takes k bytes of direction d from the link behind it.
ReadsIn(h, d, k) ==
    /\ UNCHANGED <<row, ended, deaf, sent, got, cut, good>>
    /\ k > 0 /\ Passes(wire[In(h, d)][d], held[h][d], wire'[In(h, d)][d], held'[h][d], k)
    /\ \A l \in Link, o \in Dir : (l = In(h, d) /\ o = d) \/ wire'[l][o] = wire[l][o]
    /\ \A g \in Hop, o \in Dir : (g = h /\ o = d) \/ held'[g][o] = held[g][o]

\* It writes k bytes to the link before it, which is read.
WritesOut(h, d, k) ==
    /\ UNCHANGED <<row, ended, deaf, sent, got, cut, good>>
    /\ ~deaf[Out(h, d)][d]
    /\ Passes(held[h][d], wire[Out(h, d)][d], held'[h][d], wire'[Out(h, d)][d], k)
    /\ \A l \in Link, o \in Dir : (l = Out(h, d) /\ o = d) \/ wire'[l][o] = wire[l][o]
    /\ \A g \in Hop, o \in Dir : (g = h /\ o = d) \/ held'[g][o] = held[g][o]

\* Bytes are lost, if any, with the connection: what nobody reads, and of what was
\* written to a browser nothing as long as it reads.
Loses ==
    /\ UNCHANGED <<row, sent, got, good>> /\ isOver'
    /\ \A l \in Link, d \in Dir : wire'[l][d] = wire[l][d] \/ wire'[l][d] = <<>>
    /\ \A h \in Hop, d \in Dir : held'[h][d] = held[h][d] \/ held'[h][d] = <<>>
    /\ \A l \in Link, d \in Dir : deaf[l][d] => deaf'[l][d]
    /\ \A l \in Link, d \in Dir : deaf'[l][d] => deaf[l][d] \/ wire'[l][d] = <<>>
    /\ deaf'[0]["left"] \/ wire'[0]["left"] = wire[0]["left"]

\* What has ended stays so.
Grows ==
    /\ row' = row /\ (cut => cut') /\ (torn => torn')
    /\ \A l \in Link, d \in Dir : ended[l][d] => ended'[l][d]

\* A connection that is over stays over.
LEMMA GrowsStaysOver == ASSUME PathTypeOK, Grows PROVE isOver => isOver'
<1>1. ASSUME NEW e \in End, closedBy(e) PROVE closedBy(e)'
  BY <1>1, Shape, Ways DEF closedBy, Grows, LinkOf
<1> QED
  BY <1>1 DEF isOver, Grows

\* The first byte of one sequence goes to the end of another.
LEMMA PassOne == ASSUME NEW s \in Seq(Nat), NEW t \in Seq(Nat), s # <<>>
                 PROVE  /\ Passes(s, t, Tail(s), Append(t, Head(s)), 1)
                        /\ Passes(s, t, Tail(s), t \o <<Head(s)>>, 1)
<1>1. /\ Head(s) \in Nat /\ Head(s) = s[1] /\ Len(Tail(s)) = Len(s) - 1
      /\ Len(s) \in Nat \ {0} /\ Len(t) \in Nat /\ \A i \in 1 .. Len(s) - 1 : Tail(s)[i] = s[i + 1]
  BY HeadAndTail
<1>2. /\ Len(Append(t, Head(s))) = Len(t) + 1 /\ Append(t, Head(s))[Len(t) + 1] = Head(s)
      /\ \A i \in 1 .. Len(t) : Append(t, Head(s))[i] = t[i]
  BY <1>1, AppendProperties
<1>3. t \o <<Head(s)>> = Append(t, Head(s))
  BY <1>1, AppendIsConcat
<1> QED
  BY <1>1, <1>2, <1>3 DEF Passes

\* The first bytes of a sequence are taken for a message.
LEMMA PassSome == ASSUME NEW s \in Seq(Nat), NEW k \in 1 .. Len(s)
                  PROVE  Passes(s, <<>>, SubSeq(s, k + 1, Len(s)), SubSeq(s, 1, k), k)
BY Parts DEF Passes

\* All of a sequence goes behind another.
LEMMA PassAll == ASSUME NEW s \in Seq(Nat), NEW t \in Seq(Nat)
                 PROVE  Passes(s, t, <<>>, t \o s, Len(s))
BY Joined DEF Passes

\* A copy reads one byte.
LEMMA CopyReadsIn == ASSUME PathTypeOK, NEW h \in Hop, NEW d \in Dir, CopyReads(h, d)
                     PROVE  ReadsIn(h, d, 1)
<1> DEFINE s == wire[In(h, d)][d]  t == held[h][d]
<1>1. s \in Seq(Nat) /\ t \in Seq(Nat) /\ s # <<>> /\ In(h, d) \in Link
  BY Shape DEF CopyReads, PathTypeOK
<1>2. /\ wire' = [wire EXCEPT ![In(h, d)][d] = Tail(s)]
      /\ held' = [held EXCEPT ![h][d] = Append(t, Head(s))]
      /\ UNCHANGED <<row, ended, deaf, sent, got, cut, good>>
  BY DEF CopyReads, ends
<1>3. Tail(s) \in Seq(Nat) /\ Append(t, Head(s)) \in Seq(Nat)
  BY <1>1, HeadAndTail
<1> HIDE DEF s, t
<1>4. /\ wire'[In(h, d)][d] = Tail(s)
      /\ \A l \in Link, o \in Dir : (l = In(h, d) /\ o = d) \/ wire'[l][o] = wire[l][o]
  BY <1>1, <1>2, <1>3, Replaced DEF PathTypeOK
<1>5. /\ held'[h][d] = Append(t, Head(s))
      /\ \A g \in Hop, o \in Dir : (g = h /\ o = d) \/ held'[g][o] = held[g][o]
  BY <1>2, <1>3, Replaced DEF PathTypeOK
<1>6. Passes(s, t, Tail(s), Append(t, Head(s)), 1)
  BY <1>1, PassOne
<1> QED
  BY <1>2, <1>4, <1>5, <1>6 DEF ReadsIn, s, t

\* A bridge reads the bytes of a message.
LEMMA TakesReadsIn == ASSUME PathTypeOK, NEW h \in Hop, NEW d \in Dir, TakesMessage(h, d)
                      PROVE  \E k \in Nat : ReadsIn(h, d, k)
<1> DEFINE s == wire[In(h, d)][d]
<1>1. s \in Seq(Nat) /\ In(h, d) \in Link /\ held[h][d] = <<>>
  BY Shape DEF TakesMessage, idle, PathTypeOK
<1>2. PICK k \in 1 .. Chunk :
         /\ k <= Len(s)
         /\ held' = [held EXCEPT ![h][d] = SubSeq(s, 1, k)]
         /\ wire' = [wire EXCEPT ![In(h, d)][d] = SubSeq(s, k + 1, Len(s))]
  BY DEF TakesMessage
<1>3. k \in 1 .. Len(s) /\ k \in Nat
  BY <1>1, <1>2, BoundsAssumption
<1>4. SubSeq(s, 1, k) \in Seq(Nat) /\ SubSeq(s, k + 1, Len(s)) \in Seq(Nat)
  BY <1>1, <1>3, Parts
<1>5. UNCHANGED <<row, ended, deaf, sent, got, cut, good>>
  BY DEF TakesMessage, ends
<1> HIDE DEF s
<1>6. /\ wire'[In(h, d)][d] = SubSeq(s, k + 1, Len(s))
      /\ \A l \in Link, o \in Dir : (l = In(h, d) /\ o = d) \/ wire'[l][o] = wire[l][o]
  BY <1>1, <1>2, <1>4, Replaced DEF PathTypeOK
<1>7. /\ held'[h][d] = SubSeq(s, 1, k)
      /\ \A g \in Hop, o \in Dir : (g = h /\ o = d) \/ held'[g][o] = held[g][o]
  BY <1>2, <1>4, Replaced DEF PathTypeOK
<1>8. Passes(s, <<>>, SubSeq(s, k + 1, Len(s)), SubSeq(s, 1, k), k)
  BY <1>1, <1>3, PassSome
<1> QED
  BY <1>1, <1>3, <1>5, <1>6, <1>7, <1>8 DEF ReadsIn, s

\* A copy writes one byte.
LEMMA CopyWritesOut == ASSUME PathTypeOK, NEW h \in Hop, NEW d \in Dir, CopyWrites(h, d)
                       PROVE  WritesOut(h, d, 1)
<1> DEFINE s == held[h][d]  t == wire[Out(h, d)][d]
<1>1. s \in Seq(Nat) /\ t \in Seq(Nat) /\ s # <<>> /\ Out(h, d) \in Link
  BY Shape DEF CopyWrites, PathTypeOK
<1>2. /\ wire' = [wire EXCEPT ![Out(h, d)][d] = t \o <<Head(s)>>]
      /\ held' = [held EXCEPT ![h][d] = Tail(s)]
      /\ UNCHANGED <<row, ended, deaf, sent, got, cut, good>> /\ ~deaf[Out(h, d)][d]
  BY DEF CopyWrites, Put, ends
<1>3. Tail(s) \in Seq(Nat) /\ t \o <<Head(s)>> \in Seq(Nat)
  BY <1>1, HeadAndTail
<1> HIDE DEF s, t
<1>4. /\ wire'[Out(h, d)][d] = t \o <<Head(s)>>
      /\ \A l \in Link, o \in Dir : (l = Out(h, d) /\ o = d) \/ wire'[l][o] = wire[l][o]
  BY <1>1, <1>2, <1>3, Replaced DEF PathTypeOK
<1>5. /\ held'[h][d] = Tail(s)
      /\ \A g \in Hop, o \in Dir : (g = h /\ o = d) \/ held'[g][o] = held[g][o]
  BY <1>2, <1>3, Replaced DEF PathTypeOK
<1>6. Passes(s, t, Tail(s), t \o <<Head(s)>>, 1)
  BY <1>1, PassOne
<1> QED
  BY <1>2, <1>4, <1>5, <1>6 DEF WritesOut, s, t

\* A bridge writes the whole message.
LEMMA SendsWritesOut == ASSUME PathTypeOK, NEW h \in Hop, NEW d \in Dir,
                               SendsMessage(h, d) \/ (PushesAll(h) /\ d = "left")
                        PROVE  WritesOut(h, d, Len(held[h][d]))
<1> DEFINE s == held[h][d]  t == wire[Out(h, d)][d]
<1>1. s \in Seq(Nat) /\ t \in Seq(Nat) /\ Out(h, d) \in Link
  BY Shape DEF PathTypeOK
<1>2. /\ wire' = [wire EXCEPT ![Out(h, d)][d] = t \o s]
      /\ held' = [held EXCEPT ![h][d] = <<>>]
      /\ UNCHANGED <<row, ended, deaf, sent, got, cut, good>> /\ ~deaf[Out(h, d)][d]
  BY DEF SendsMessage, PushesAll, Put, ends
<1>3. <<>> \in Seq(Nat) /\ t \o s \in Seq(Nat)
  BY <1>1
<1> HIDE DEF s, t
<1>4. /\ wire'[Out(h, d)][d] = t \o s
      /\ \A l \in Link, o \in Dir : (l = Out(h, d) /\ o = d) \/ wire'[l][o] = wire[l][o]
  BY <1>1, <1>2, <1>3, Replaced DEF PathTypeOK
<1>5. /\ held'[h][d] = <<>>
      /\ \A g \in Hop, o \in Dir : (g = h /\ o = d) \/ held'[g][o] = held[g][o]
  BY <1>2, <1>3, Replaced DEF PathTypeOK
<1>6. Passes(s, t, <<>>, t \o s, Len(s))
  BY <1>1, PassAll
<1> QED
  BY <1>2, <1>4, <1>5, <1>6 DEF WritesOut, s, t

-----------------------------------------------------------------------------
(* What they do to the bytes of a direction.                               *)

\* Links and hops carry what they carried.
LEMMA Alike ==
  ASSUME PathTypeOK, PathTypeOK', row' = row, NEW d \in Dir,
         sent'[Sender(d)] = sent[Sender(d)], intact'[Receiver(d)] = intact[Receiver(d)],
         \A l \in Link : carried(d)'[<<"link", l>>] = carried(d)[<<"link", l>>],
         \A h \in Hop : carried(d)'[<<"hop", h>>] = carried(d)[<<"hop", h>>]
  PROVE  carried(d)' = carried(d)
<1> DEFINE c == carried(d)  o == carried(d)'
<1>0. /\ IsCarried(d) /\ IsCarried(d)'
      /\ Place' = Place /\ Link' = Link /\ Hop' = Hop
  BY Carries, CarriesNext, SamePlaces
<1>1. c \in [Place -> Seq(Nat)] /\ o \in [Place -> Seq(Nat)]
  BY <1>0 DEF IsCarried
<1>2. o[<<"start", 0>>] = c[<<"start", 0>>] /\ o[<<"end", 0>>] = c[<<"end", 0>>]
  BY <1>0 DEF IsCarried
<1>3. \A x \in Place : o[x] = c[x]
  BY <1>2, PlacesAre
<1> HIDE DEF c, o
<1>4. o = c
  BY <1>1, <1>3
<1> QED
  BY <1>4 DEF c, o

\* Nothing changed in this direction.
LEMMA Untouched ==
  ASSUME PathTypeOK, PathTypeOK', row' = row, NEW d \in Dir,
         sent'[Sender(d)] = sent[Sender(d)], got'[Receiver(d)] = got[Receiver(d)],
         d = "left" => good' = good,
         \A l \in Link : wire'[l][d] = wire[l][d], \A h \in Hop : held'[h][d] = held[h][d]
  PROVE  Passage(d)
<1>0. /\ IsCarried(d) /\ IsCarried(d)'
      /\ Place' = Place /\ Link' = Link /\ Hop' = Hop
  BY Carries, CarriesNext, SamePlaces
<1>1. tornWay(d)' <=> tornWay(d)
  BY DEF tornWay, torn
<1>2. intact'[Receiver(d)] = intact[Receiver(d)]
  <2>1. /\ intact[Receiver(d)] = IF Receiver(d) = "user" /\ torn THEN upTo(got[Receiver(d)], good)
                                  ELSE got[Receiver(d)]
        /\ intact'[Receiver(d)] = IF Receiver(d) = "user" /\ torn' THEN upTo(got'[Receiver(d)], good')
                                   ELSE got'[Receiver(d)]
    BY IntactIs, IntactNext, Whom
  <2>3. CASE d = "left"
    BY <2>1, <2>3, Whom DEF torn
  <2>4. CASE d # "left"
    BY <2>1, <2>4, Whom
  <2> QED
    BY <2>3, <2>4
<1>3. ASSUME NEW l \in Link PROVE carried(d)'[<<"link", l>>] = carried(d)[<<"link", l>>]
  <2>1. tornWay(d) => got'["user"] = got["user"] /\ good' = good
    BY Whom DEF tornWay
  <2> QED
    BY <1>1, <2>1, <1>0, ZenonT(30) DEF IsCarried
<1>4. \A h \in Hop : carried(d)'[<<"hop", h>>] = carried(d)[<<"hop", h>>]
  BY <1>1, <1>0 DEF IsCarried
<1> QED
  BY <1>2, <1>3, <1>4, Alike DEF Passage, Moves

\* The intact part depends on what was read and on where it was torn.
LEMMA IntactSame == ASSUME UNCHANGED <<got, good>> PROVE intact' = intact
BY DEF intact, torn

\* A hop that reads moves bytes from its link, of which a torn way counts none.
LEMMA ReadsInPassage ==
  ASSUME PathTypeOK, PathTypeOK', NEW h \in Hop, NEW d \in Dir, NEW k \in Nat, ReadsIn(h, d, k),
         NEW w \in Dir
  PROVE  Passage(w)
<1>1. UNCHANGED <<row, sent, got, good>> /\ (tornWay(d)' <=> tornWay(d)) /\ intact' = intact
  BY IntactSame DEF ReadsIn, tornWay, torn
<1>0. /\ IsCarried(d) /\ IsCarried(d)'
      /\ Place' = Place /\ Link' = Link /\ Hop' = Hop
  BY <1>1, Carries, CarriesNext, SamePlaces
<1>2. CASE w # d
  <2>1. /\ \A l \in Link : wire'[l][w] = wire[l][w]
        /\ \A g \in Hop : held'[g][w] = held[g][w]
    BY <1>2 DEF ReadsIn
  <2> QED
    BY <1>1, <2>1, Untouched
<1> DEFINE p == <<"link", In(h, d)>>  q == <<"hop", h>>  c == carried(d)  o == carried(d)'
<1>3. CASE w = d /\ ~tornWay(d)
  <2>1. adjacent(d, p, q) /\ p \in Place /\ q \in Place /\ In(h, d) \in Link
    BY Adjacent, PlacesAre, Shape
  <2>2. c[p] = wire[In(h, d)][d] /\ o[p] = wire'[In(h, d)][d]
    BY <1>1, <1>3, <2>1, <1>0 DEF IsCarried
  <2>3. c[q] = held[h][d] /\ o[q] = held'[h][d]
    BY <1>1, <1>3, <1>0 DEF IsCarried
  <2>4. ASSUME NEW x \in Place \ {p, q} PROVE o[x] = c[x]
    <3>1. CASE x = <<"start", 0>> \/ x = <<"end", 0>>
      BY <1>1, <3>1, <1>0 DEF IsCarried
    <3>2. CASE \E l \in Link : x = <<"link", l>>
      <4>1. PICK l \in Link : x = <<"link", l>>
        BY <3>2
      <4>2. wire'[l][d] = wire[l][d]
        BY <2>4, <4>1 DEF ReadsIn
      <4> QED
        BY <1>1, <1>3, <4>1, <4>2, <1>0 DEF IsCarried
    <3>3. CASE \E g \in Hop : x = <<"hop", g>>
      <4>1. PICK g \in Hop : x = <<"hop", g>>
        BY <3>3
      <4>2. held'[g][d] = held[g][d]
        BY <2>4, <4>1 DEF ReadsIn
      <4> QED
        BY <1>1, <1>3, <4>1, <4>2, <1>0 DEF IsCarried
    <3> QED
      BY <3>1, <3>2, <3>3, PlacesAre
  <2>5. Moved(c, o, p, q, k)
    BY <2>2, <2>3, <2>4, <1>0 DEF IsCarried, Moved, ReadsIn
  <2> HIDE DEF p, q
  <2>6. \E a, b \in Place : \E j \in Nat : adjacent(d, a, b) /\ Moved(c, o, a, b, j)
    BY <2>1, <2>5
  <2> QED
    BY <1>3, <2>6 DEF Passage, Moves
<1>4. CASE w = d /\ tornWay(d)
  <2>1. In(h, d) # 0
    BY <1>4, Shape DEF tornWay, In
  <2>2. \A l \in Link : l = 0 => wire'[l][d] = wire[l][d]
    BY <2>1 DEF ReadsIn
  <2>3. \A l \in Link : o[<<"link", l>>] = c[<<"link", l>>]
    BY <1>1, <1>4, <2>2, <1>0 DEF IsCarried
  <2>4. \A g \in Hop : o[<<"hop", g>>] = c[<<"hop", g>>]
    BY <1>1, <1>4, <1>0 DEF IsCarried
  <2> QED
    BY <1>1, <1>4, <2>3, <2>4, Alike DEF Passage, Moves
<1> QED
  BY <1>2, <1>3, <1>4

\* What comes after the intact part does not count.
LEMMA BeyondIntact ==
  ASSUME NEW s \in Seq(Nat), NEW t \in Seq(Nat), NEW n \in Int, n <= Len(s),
         Len(t) >= Len(s), \A i \in 1 .. Len(s) : t[i] = s[i]
  PROVE  upTo(t, n) = upTo(s, n)
<1> DEFINE a == upTo(s, n)  b == upTo(t, n)
<1>1. a \in Seq(Nat) /\ b \in Seq(Nat) /\ Len(a) = Len(b) /\ Len(a) <= Len(s)
  BY UpTo
<1>2. \A i \in 1 .. Len(a) : a[i] = b[i]
  BY <1>1, UpTo, SMTT(30)
<1> HIDE DEF a, b
<1>3. a = b
  BY <1>1, <1>2, SeqEqual
<1> QED
  BY <1>3 DEF a, b

\* A hop that writes moves bytes to its link, on a torn way beyond the intact part.
LEMMA WritesOutPassage ==
  ASSUME PathTypeOK, PathTypeOK', Standing, NEW h \in Hop, NEW d \in Dir, NEW k \in Nat,
         WritesOut(h, d, k), NEW w \in Dir
  PROVE  Passage(w)
<1>1. UNCHANGED <<row, sent, got, good>> /\ (tornWay(d)' <=> tornWay(d)) /\ intact' = intact
  BY IntactSame DEF WritesOut, tornWay, torn
<1>0. /\ IsCarried(d) /\ IsCarried(d)'
      /\ Place' = Place /\ Link' = Link /\ Hop' = Hop
  BY <1>1, Carries, CarriesNext, SamePlaces
<1>2. CASE w # d
  <2>1. /\ \A l \in Link : wire'[l][w] = wire[l][w]
        /\ \A g \in Hop : held'[g][w] = held[g][w]
    BY <1>2 DEF WritesOut
  <2> QED
    BY <1>1, <2>1, Untouched
<1> DEFINE p == <<"hop", h>>  q == <<"link", Out(h, d)>>  c == carried(d)  o == carried(d)'
<1>3. CASE w = d /\ ~tornWay(d)
  <2>1. adjacent(d, p, q) /\ p \in Place /\ q \in Place /\ Out(h, d) \in Link
    BY Adjacent, PlacesAre, Shape
  <2>2. c[q] = wire[Out(h, d)][d] /\ o[q] = wire'[Out(h, d)][d]
    BY <1>1, <1>3, <2>1, <1>0 DEF IsCarried
  <2>3. c[p] = held[h][d] /\ o[p] = held'[h][d]
    BY <1>1, <1>3, <1>0 DEF IsCarried
  <2>4. ASSUME NEW x \in Place \ {p, q} PROVE o[x] = c[x]
    <3>1. CASE x = <<"start", 0>> \/ x = <<"end", 0>>
      BY <1>1, <3>1, <1>0 DEF IsCarried
    <3>2. CASE \E l \in Link : x = <<"link", l>>
      <4>1. PICK l \in Link : x = <<"link", l>>
        BY <3>2
      <4>2. wire'[l][d] = wire[l][d]
        BY <2>4, <4>1 DEF WritesOut
      <4> QED
        BY <1>1, <1>3, <4>1, <4>2, <1>0 DEF IsCarried
    <3>3. CASE \E g \in Hop : x = <<"hop", g>>
      <4>1. PICK g \in Hop : x = <<"hop", g>>
        BY <3>3
      <4>2. held'[g][d] = held[g][d]
        BY <2>4, <4>1 DEF WritesOut
      <4> QED
        BY <1>1, <1>3, <4>1, <4>2, <1>0 DEF IsCarried
    <3> QED
      BY <3>1, <3>2, <3>3, PlacesAre
  <2>5. Moved(c, o, p, q, k)
    BY <2>2, <2>3, <2>4, <1>0 DEF IsCarried, Moved, WritesOut
  <2> HIDE DEF p, q
  <2>6. \E a, b \in Place : \E j \in Nat : adjacent(d, a, b) /\ Moved(c, o, a, b, j)
    BY <2>1, <2>5
  <2> QED
    BY <1>3, <2>6 DEF Passage, Moves
<1>4. CASE w = d /\ tornWay(d)
  <2>1. ASSUME NEW l \in Link PROVE o[<<"link", l>>] = c[<<"link", l>>]
    <3>1. CASE l # 0 \/ Out(h, d) # 0
      <4>1. l = 0 => wire'[l][d] = wire[l][d]
        BY <3>1 DEF WritesOut
      <4> QED
        BY <1>1, <1>4, <4>1, <1>0 DEF IsCarried
    <3>2. CASE l = 0 /\ Out(h, d) = 0
      <4> DEFINE s == wire[0][d]  t == wire'[0][d]  n == good - Len(got["user"])
      <4>1. s \in Seq(Nat) /\ t \in Seq(Nat)
        BY <1>0, <3>2 DEF PathTypeOK
      <4>2. Len(t) = Len(s) + k /\ \A i \in 1 .. Len(s) : t[i] = s[i]
        BY <3>2 DEF WritesOut, Passes
      <4>3. d = "left" /\ torn /\ ~deaf[0]["left"]
        BY <1>4, <3>2 DEF tornWay, WritesOut
      <4>4. good \in Nat /\ Len(got["user"]) \in Nat /\ written >= good /\ written = Len(got["user"]) + Len(s)
        BY <4>3 DEF written, Standing, torn, PathTypeOK, End
      <4>5. n \in Int /\ n <= Len(s)
        <5>1. Len(s) \in Nat
          BY <4>1
        <5> HIDE DEF s
        <5> QED
          BY <4>4, <5>1
      <4> HIDE DEF s, t, n
      <4>6. upTo(t, n) = upTo(s, n)
        <5>1. Len(s) \in Nat /\ Len(t) >= Len(s)
          BY <4>1, <4>2
        <5>2. \A i \in 1 .. Len(s) : t[i] = s[i]
          BY <4>2
        <5> QED
          BY ONLY <4>1, <4>5, <5>1, <5>2, BeyondIntact
      <4> QED
        BY <1>1, <1>4, <3>2, <4>6, <1>0 DEF IsCarried, s, t, n
    <3> QED
      BY <3>1, <3>2
  <2>2. \A g \in Hop : o[<<"hop", g>>] = c[<<"hop", g>>]
    BY <1>1, <1>4, <1>0 DEF IsCarried
  <2> QED
    BY <1>1, <1>4, <2>1, <2>2, Alike DEF Passage, Moves
<1> QED
  BY <1>2, <1>3, <1>4

\* What is lost is lost as a whole, with the connection.
LEMMA LosesPassage ==
  ASSUME PathTypeOK, PathTypeOK', Loses, NEW d \in Dir
  PROVE  Passage(d)
<1> DEFINE c == carried(d)  o == carried(d)'
<1>1. UNCHANGED <<row, sent, got, good>> /\ (tornWay(d)' <=> tornWay(d)) /\ isOver' /\ intact' = intact
  BY IntactSame DEF Loses, tornWay, torn
<1>0. /\ IsCarried(d) /\ IsCarried(d)'
      /\ Place' = Place /\ Link' = Link /\ Hop' = Hop
  BY <1>1, Carries, CarriesNext, SamePlaces
<1>2. ASSUME NEW x \in Place PROVE o[x] = c[x] \/ o[x] = <<>>
  <2>1. CASE x = <<"start", 0>> \/ x = <<"end", 0>>
    BY <1>1, <2>1, <1>0 DEF IsCarried
  <2>2. CASE \E l \in Link : x = <<"link", l>>
    <3>1. PICK l \in Link : x = <<"link", l>>
      BY <2>2
    <3>2. wire'[l][d] = wire[l][d] \/ wire'[l][d] = <<>>
      BY DEF Loses
    <3>3. \A n \in Int : upTo(<<>>, n) = <<>>
      BY DEF upTo
    <3>4. tornWay(d) => good - Len(got["user"]) \in Int
      BY DEF tornWay, torn, PathTypeOK, End
    <3> QED
      BY <1>1, <3>1, <3>2, <3>3, <3>4, <1>0 DEF IsCarried
  <2>3. CASE \E h \in Hop : x = <<"hop", h>>
    <3>1. PICK h \in Hop : x = <<"hop", h>>
      BY <2>3
    <3>2. held'[h][d] = held[h][d] \/ held'[h][d] = <<>>
      BY DEF Loses
    <3> QED
      BY <1>1, <3>1, <3>2, <1>0 DEF IsCarried
  <2> QED
    BY <2>1, <2>2, <2>3, PlacesAre
<1>3. c \in [Place -> Seq(Nat)]
  BY <1>0 DEF IsCarried
<1>4. \A x \in Place : Remains(c[x], o[x])
  BY <1>2, <1>3, NothingRemains
<1> QED
  BY <1>1, <1>3, <1>4 DEF Passage, Moves

\* An end that sends moves the next byte to its link.
LEMMA EndSendsPassage ==
  ASSUME PathTypeOK, PathTypeOK', NEW e \in End, EndSends(e), isOver => isOver', NEW w \in Dir
  PROVE  Passage(w)
<1> DEFINE d == Sends(e)  b == LinkOf(e)  p == <<"start", 0>>  q == <<"link", b>>
           c == carried(d)  o == carried(d)'
<1>1. /\ UNCHANGED <<row, held, got, good>> /\ intact' = intact
      /\ tornWay(d)' <=> tornWay(d)
  BY IntactSame DEF EndSends, hops, tornWay, torn
<1>2. /\ d \in Dir /\ b \in Link /\ wire[b][d] \in Seq(Nat) /\ sent[e] \in Nat /\ Bytes[e] \in Nat
      /\ sent[e] < Bytes[e] /\ Sender(d) = e /\ Receiver(d) \in End
  <2>1. d \in Dir /\ b \in Link /\ Sender(d) = e /\ Receiver(d) \in End
    BY Ways, Shape, Whom DEF Sends, Sender, End
  <2>2. sent[e] < Bytes[e]
    BY DEF EndSends
  <2>3. sent[e] \in Nat /\ Bytes[e] \in Nat
    BY BoundsAssumption DEF PathTypeOK
  <2>4. wire[b][d] \in Seq(Nat)
    BY <2>1 DEF PathTypeOK
  <2> QED
    BY <2>1, <2>2, <2>3, <2>4
<1>3. /\ IsCarried(d) /\ IsCarried(d)'
      /\ Place' = Place /\ Link' = Link /\ Hop' = Hop
  BY <1>1, <1>2, Carries, CarriesNext, SamePlaces
<1>4. /\ wire'[b][d] = wire[b][d] \o <<sent[e] + 1>> /\ sent'[e] = sent[e] + 1
      /\ \A l \in Link, v \in Dir : (l = b /\ v = d) \/ wire'[l][v] = wire[l][v]
      /\ \A f \in End : f = e \/ sent'[f] = sent[f]
  <2>1. wire[b][d] \o <<sent[e] + 1>> \in Seq(Nat)
    BY <1>2
  <2>2. /\ wire' = [wire EXCEPT ![b][d] = wire[b][d] \o <<sent[e] + 1>>]
        /\ sent' = [sent EXCEPT ![e] = sent[e] + 1]
    BY DEF EndSends, Put
  <2> HIDE DEF b, d
  <2> QED
    BY <1>2, <2>1, <2>2, Replaced DEF PathTypeOK
<1>5. CASE w # d
  <2>1. sent'[Sender(w)] = sent[Sender(w)]
    BY <1>2, <1>4, <1>5, Whom
  <2>2. \A l \in Link : wire'[l][w] = wire[l][w]
    BY <1>4, <1>5
  <2> QED
    BY <1>1, <2>1, <2>2, Untouched
<1> DEFINE s == toSend(sent[e], Bytes[e])  u == toSend(sent'[e], Bytes[e])
<1>6. /\ s \in Seq(Nat) /\ Len(s) = Bytes[e] - sent[e] /\ \A i \in 1 .. Len(s) : s[i] = sent[e] + i
      /\ u \in Seq(Nat) /\ Len(u) = Len(s) - 1 /\ \A i \in 1 .. Len(u) : u[i] = s[i + 1]
  <2>1. Bytes[e] - sent[e] \in Nat \ {0}
    BY <1>2
  <2>2. s \in Seq(Nat) /\ Len(s) = Bytes[e] - sent[e] /\ \A i \in 1 .. Len(s) : s[i] = sent[e] + i
    BY <1>2, <2>1 DEF toSend
  <2>3. /\ u \in Seq(Nat) /\ Len(u) = Bytes[e] - (sent[e] + 1)
        /\ \A i \in 1 .. Len(u) : u[i] = (sent[e] + 1) + i
    <3>1. u = [i \in 1 .. Bytes[e] - (sent[e] + 1) |-> (sent[e] + 1) + i]
      BY <1>4 DEF toSend
    <3>2. Bytes[e] - (sent[e] + 1) \in Nat /\ sent[e] + 1 \in Nat
      BY <1>2
    <3> HIDE DEF u
    <3> QED
      BY <3>1, <3>2
  <2> HIDE DEF s, u
  <2> QED
    BY <1>2, <2>1, <2>2, <2>3, SMTT(30)
<1>7. c[p] = s /\ o[p] = u
  BY <1>2, <1>3 DEF IsCarried
<1>8. CASE w = d /\ ~tornWay(d)
  <2>1. adjacent(d, p, q) /\ p \in Place /\ q \in Place
    BY <1>2, Adjacent, PlacesAre
  <2>2. c[q] = wire[b][d] /\ o[q] = wire[b][d] \o <<sent[e] + 1>>
    BY <1>1, <1>2, <1>3, <1>4, <1>8 DEF IsCarried
  <2>3. ASSUME NEW x \in Place \ {p, q} PROVE o[x] = c[x]
    <3>1. CASE x = <<"end", 0>>
      BY <1>1, <1>3, <3>1 DEF IsCarried
    <3>2. CASE \E l \in Link : x = <<"link", l>>
      <4>1. PICK l \in Link : x = <<"link", l>>
        BY <3>2
      <4>2. wire'[l][d] = wire[l][d]
        BY <1>2, <1>4, <2>3, <4>1
      <4> QED
        BY <1>1, <1>3, <1>8, <4>1, <4>2 DEF IsCarried
    <3>3. CASE \E g \in Hop : x = <<"hop", g>>
      BY <1>1, <1>3, <1>8, <3>3 DEF IsCarried
    <3> QED
      BY <2>3, <3>1, <3>2, <3>3, <1>2, PlacesAre
  <2>4. Passes(s, wire[b][d], u, wire[b][d] \o <<sent[e] + 1>>, 1)
    <3> DEFINE t == wire[b][d]
    <3>1. t \o <<sent[e] + 1>> = Append(t, sent[e] + 1)
      BY <1>2, AppendIsConcat
    <3>2. /\ Len(Append(t, sent[e] + 1)) = Len(t) + 1 /\ Append(t, sent[e] + 1)[Len(t) + 1] = sent[e] + 1
          /\ \A i \in 1 .. Len(t) : Append(t, sent[e] + 1)[i] = t[i]
      BY <1>2, AppendProperties
    <3>3. s[1] = sent[e] + 1 /\ 1 \in 0 .. Len(s)
      BY <1>2, <1>6
    <3> HIDE DEF t, s, u
    <3> QED
      BY <1>2, <1>6, <3>1, <3>2, <3>3 DEF Passes, t
  <2>5. Moved(c, o, p, q, 1)
    BY <1>3, <1>7, <2>2, <2>3, <2>4 DEF Moved, IsCarried
  <2> HIDE DEF p, q
  <2>6. \E a, z \in Place : \E j \in Nat : adjacent(d, a, z) /\ Moved(c, o, a, z, j)
    BY <2>1, <2>5
  <2> QED
    BY <1>8, <2>6 DEF Passage, Moves
<1>9. CASE w = d /\ tornWay(d)
  <2>1. isOver' /\ b # 0
    BY <1>9, <1>2, Shape DEF tornWay, isOver, Sends, LinkOf, End
  <2>2. ASSUME NEW x \in Place PROVE Remains(c[x], o[x])
    <3>0. c[x] \in Seq(Nat)
      BY <1>3 DEF IsCarried
    <3>1. CASE x = p
      <4>1. 1 \in 0 .. Len(s)
        BY <1>2, <1>6
      <4> HIDE DEF s, u
      <4>2. Remains(s, u)
        BY <1>6, <4>1 DEF Remains
      <4> QED
        BY <1>7, <3>1, <4>2
    <3>2. CASE x = <<"end", 0>>
      BY <1>1, <1>3, <3>0, <3>2, NothingRemains DEF IsCarried
    <3>3. CASE \E l \in Link : x = <<"link", l>>
      <4>1. PICK l \in Link : x = <<"link", l>>
        BY <3>3
      <4>2. l = 0 => wire'[l][d] = wire[l][d]
        BY <1>2, <1>4, <2>1
      <4>3. CASE l = 0
        <5>1. /\ c[x] = upTo(wire[0][d], good - Len(got["user"]))
              /\ o[x] = upTo(wire'[0][d], good - Len(got["user"]))
          <6>1. c[<<"link", 0>>] = upTo(wire[0][d], good - Len(got["user"]))
            BY <1>3, <1>9 DEF IsCarried
          <6>2. o[<<"link", 0>>] = upTo(wire'[0][d], good' - Len(got'["user"]))
            BY <1>1, <1>3, <1>9 DEF IsCarried
          <6> QED
            BY <1>1, <4>1, <4>3, <6>1, <6>2
        <5> QED
          BY <3>0, <4>2, <4>3, <5>1, NothingRemains
      <4>4. CASE l # 0
        <5>1. c[x] = <<>> /\ o[x] = <<>>
          <6>1. \A m \in Link \ {0} : c[<<"link", m>>] = <<>> /\ o[<<"link", m>>] = <<>>
            BY <1>1, <1>3, <1>9 DEF IsCarried
          <6> QED
            BY <4>1, <4>4, <6>1
        <5> QED
          BY <3>0, <5>1, NothingRemains
      <4> QED
        BY <4>3, <4>4
    <3>4. CASE \E g \in Hop : x = <<"hop", g>>
      <4>1. o[x] = c[x]
        BY <1>1, <1>3, <1>9, <3>4 DEF IsCarried
      <4> QED
        BY <3>0, <4>1, NothingRemains
    <3> QED
      BY <3>1, <3>2, <3>3, <3>4, <1>2, PlacesAre
  <2>3. c \in [Place -> Seq(Nat)]
    BY <1>3 DEF IsCarried
  <2> QED
    BY <1>9, <2>1, <2>2, <2>3 DEF Passage, Moves
<1> QED
  BY <1>5, <1>8, <1>9

\* A browser that reads moves the first of the bytes that count.
LEMMA UpToShrinks ==
  ASSUME NEW s \in Seq(Nat), NEW t \in Seq(Nat), s # <<>>, NEW n \in Int, n >= 1
  PROVE  Passes(upTo(s, n), t, upTo(Tail(s), n - 1), Append(t, Head(s)), 1)
<1> DEFINE a == upTo(s, n)  b == upTo(Tail(s), n - 1)
<1>1. /\ Head(s) \in Nat /\ Head(s) = s[1] /\ Tail(s) \in Seq(Nat) /\ Len(Tail(s)) = Len(s) - 1
      /\ Len(s) \in Nat \ {0} /\ Len(t) \in Nat /\ \A i \in 1 .. Len(s) - 1 : Tail(s)[i] = s[i + 1]
  BY HeadAndTail
<1>2. /\ Len(Append(t, Head(s))) = Len(t) + 1 /\ Append(t, Head(s))[Len(t) + 1] = Head(s)
      /\ \A i \in 1 .. Len(t) : Append(t, Head(s))[i] = t[i]
  BY <1>1, AppendProperties
<1>3. Len(a) = (IF n >= Len(s) THEN Len(s) ELSE n) /\ \A i \in 1 .. Len(a) : a[i] = s[i]
  BY <1>1, UpTo
<1>4. /\ Len(b) = IF n - 1 >= Len(s) - 1 THEN Len(s) - 1 ELSE n - 1
      /\ \A i \in 1 .. Len(b) : b[i] = Tail(s)[i]
  <2> DEFINE v == Tail(s)  m == n - 1
  <2>1. v \in Seq(Nat) /\ m \in Int /\ Len(v) = Len(s) - 1 /\ m >= 0
    BY <1>1
  <2>2. Len(upTo(v, m)) = (IF m >= Len(v) THEN Len(v) ELSE m) /\ \A i \in 1 .. Len(upTo(v, m)) : upTo(v, m)[i] = v[i]
    <3> HIDE DEF v, m
    <3> QED
      BY <2>1, UpTo
  <2> QED
    BY <2>1, <2>2
<1> HIDE DEF a, b
<1>8. Len(a) \in Nat \ {0} /\ Len(a) <= Len(s)
  BY <1>1, <1>3
<1>5. Len(b) = Len(a) - 1 /\ 1 \in 1 .. Len(a) /\ a[1] = s[1]
  <2>1. /\ Len(s) \in Nat \ {0}
        /\ Len(a) = IF n >= Len(s) THEN Len(s) ELSE n
        /\ Len(b) = IF n - 1 >= Len(s) - 1 THEN Len(s) - 1 ELSE n - 1
    BY <1>1, <1>3, <1>4
  <2>2. n \in Int /\ n >= 1
    OBVIOUS
  <2>3. Len(b) = Len(a) - 1
    BY ONLY <2>1, <2>2
  <2> QED
    BY <1>3, <1>8, <2>3
<1>6. \A i \in 1 .. Len(b) : b[i] = a[i + 1]
  <2> SUFFICES ASSUME NEW i \in 1 .. Len(b) PROVE b[i] = a[i + 1]
    OBVIOUS
  <2>1. i \in 1 .. Len(s) - 1 /\ i + 1 \in 1 .. Len(a)
    BY <1>1, <1>5, <1>8
  <2>2. b[i] = Tail(s)[i] /\ a[i + 1] = s[i + 1]
    BY <1>3, <1>4, <2>1
  <2> QED
    BY <1>1, <2>1, <2>2
<1>7. Passes(a, t, b, Append(t, Head(s)), 1)
  BY <1>1, <1>2, <1>5, <1>6 DEF Passes
<1> QED
  BY <1>7 DEF a, b

\* An end reads the next byte; what a browser reads beyond the intact part does not count.
LEMMA EndReadsPassage ==
  ASSUME PathTypeOK, PathTypeOK', NEW e \in End, EndReads(e), NEW w \in Dir
  PROVE  Passage(w)
<1> DEFINE d == Other(Sends(e))  b == LinkOf(e)  p == <<"link", b>>  q == <<"end", 0>>
           c == carried(d)  o == carried(d)'  s == wire[b][d]  t == got[e]  n == good - Len(t)
<1>1. /\ UNCHANGED <<row, held, sent, good>> /\ (tornWay(d)' <=> tornWay(d)) /\ s # <<>>
      /\ wire' = [wire EXCEPT ![b][d] = Tail(s)]
      /\ got' = [got EXCEPT ![e] = Append(t, Head(s))]
  BY DEF EndReads, hops, tornWay, torn
<1>2. /\ d \in Dir /\ b \in Link /\ Receiver(d) = e /\ s \in Seq(Nat) /\ t \in Seq(Nat)
      /\ \A v \in Dir : v # d => Receiver(v) # e
  <2>1. d \in Dir /\ b \in Link /\ Receiver(d) = e /\ \A v \in Dir : v # d => Receiver(v) # e
    BY Ways, Shape DEF Sends, Receiver, End
  <2> QED
    BY <2>1 DEF PathTypeOK
<1>3. /\ IsCarried(d) /\ IsCarried(d)'
      /\ Place' = Place /\ Link' = Link /\ Hop' = Hop
  BY <1>1, <1>2, Carries, CarriesNext, SamePlaces
<1>4. Tail(s) \in Seq(Nat) /\ Append(t, Head(s)) \in Seq(Nat)
  BY <1>1, <1>2, HeadAndTail
<1>5. /\ wire'[b][d] = Tail(s)
      /\ \A l \in Link, v \in Dir : (l = b /\ v = d) \/ wire'[l][v] = wire[l][v]
      /\ got'[e] = Append(t, Head(s))
      /\ \A f \in End : f = e \/ got'[f] = got[f]
  <2> HIDE DEF s, t, b, d
  <2>1. /\ wire'[b][d] = Tail(s)
        /\ \A l \in Link, v \in Dir : (l = b /\ v = d) \/ wire'[l][v] = wire[l][v]
    BY <1>1, <1>2, <1>4, Replaced DEF PathTypeOK
  <2>2. got'[e] = Append(t, Head(s)) /\ \A f \in End : f = e \/ got'[f] = got[f]
    BY <1>1 DEF PathTypeOK
  <2> QED
    BY <2>1, <2>2
<1>6. CASE w # d
  <2>1. got'[Receiver(w)] = got[Receiver(w)]
    BY <1>2, <1>5, <1>6, Whom
  <2>2. \A l \in Link : wire'[l][w] = wire[l][w]
    BY <1>5, <1>6
  <2> QED
    BY <1>1, <2>1, <2>2, Untouched
<1>7. /\ intact[e] = IF tornWay(d) THEN upTo(t, good) ELSE t
      /\ intact'[e] = IF tornWay(d) THEN upTo(Append(t, Head(s)), good) ELSE Append(t, Head(s))
  <2>1. e = "user" <=> d = "left"
    BY <1>2, Whom
  <2>2. /\ intact[e] = IF e = "user" /\ torn THEN upTo(got[e], good) ELSE got[e]
        /\ intact'[e] = IF e = "user" /\ torn' THEN upTo(got'[e], good') ELSE got'[e]
    BY IntactNow, IntactNext
  <2> HIDE DEF s, t, d, b
  <2>3. intact[e] = IF tornWay(d) THEN upTo(t, good) ELSE t
    BY <2>1, <2>2 DEF tornWay, t
  <2>4. intact'[e] = IF tornWay(d) THEN upTo(got'[e], good') ELSE got'[e]
    BY <1>1, <2>1, <2>2 DEF tornWay, torn
  <2> QED
    BY <1>1, <1>5, <2>3, <2>4
<1>8. adjacent(d, p, q) /\ p \in Place /\ q \in Place
  BY <1>2, Adjacent, PlacesAre
<1>9. CASE w = d /\ ~tornWay(d)
  <2>1. c[p] = s /\ o[p] = Tail(s) /\ c[q] = t /\ o[q] = Append(t, Head(s))
    BY <1>1, <1>2, <1>3, <1>5, <1>7, <1>9 DEF IsCarried
  <2>2. ASSUME NEW x \in Place \ {p, q} PROVE o[x] = c[x]
    <3>1. CASE x = <<"start", 0>>
      BY <1>1, <1>3, <3>1 DEF IsCarried
    <3>2. CASE \E l \in Link : x = <<"link", l>>
      <4>1. PICK l \in Link : x = <<"link", l>>
        BY <3>2
      <4>2. wire'[l][d] = wire[l][d]
        BY <1>2, <1>5, <2>2, <4>1
      <4> QED
        BY <1>1, <1>3, <1>9, <4>1, <4>2 DEF IsCarried
    <3>3. CASE \E g \in Hop : x = <<"hop", g>>
      BY <1>1, <1>3, <1>9, <3>3 DEF IsCarried
    <3> QED
      BY <2>2, <3>1, <3>2, <3>3, <1>2, PlacesAre
  <2>3. Passes(s, t, Tail(s), Append(t, Head(s)), 1)
    BY <1>1, <1>2, PassOne
  <2>4. Moved(c, o, p, q, 1)
    BY <1>3, <2>1, <2>2, <2>3 DEF Moved, IsCarried
  <2> HIDE DEF p, q
  <2>5. \E a, z \in Place : \E j \in Nat : adjacent(d, a, z) /\ Moved(c, o, a, z, j)
    BY <1>8, <2>4
  <2> QED
    BY <1>9, <2>5 DEF Passage, Moves
<1>10. ASSUME w = d, tornWay(d) PROVE Passage(w)
  <2>1. e = "user" /\ b = 0 /\ good \in Nat /\ Len(t) \in Nat /\ n \in Int
    BY <1>2, <1>10, Whom DEF tornWay, torn, LinkOf, PathTypeOK
  <2>2. c[p] = upTo(s, n) /\ o[p] = upTo(Tail(s), n - 1)
    <3>1. c[<<"link", 0>>] = upTo(wire[0][d], good - Len(got["user"]))
      BY <1>3, <1>10 DEF IsCarried
    <3>2. o[<<"link", 0>>] = upTo(wire'[0][d], good' - Len(got'["user"]))
      BY <1>1, <1>3, <1>10 DEF IsCarried
    <3>3. good - Len(got'[e]) = n - 1
      <4>1. Len(Append(t, Head(s))) = Len(t) + 1
        BY <1>1, <1>2, HeadAndTail, AppendProperties
      <4> HIDE DEF t
      <4>2. good - (Len(t) + 1) = (good - Len(t)) - 1
        BY <2>1
      <4> QED
        BY <1>5, <4>1, <4>2
    <3> QED
      BY <1>1, <1>5, <2>1, <3>1, <3>2, <3>3
  <2>3. \A x \in Place : (x # p /\ x # q) => o[x] = c[x]
    <3> SUFFICES ASSUME NEW x \in Place, x # p, x # q PROVE o[x] = c[x]
      OBVIOUS
    <3>1. CASE x = <<"start", 0>>
      BY <1>1, <1>3, <3>1 DEF IsCarried
    <3>2. CASE \E l \in Link : x = <<"link", l>>
      <4>1. PICK l \in Link \ {0} : x = <<"link", l>>
        BY <2>1, <3>2
      <4>2. \A m \in Link \ {0} : c[<<"link", m>>] = <<>> /\ o[<<"link", m>>] = <<>>
        BY <1>1, <1>3, <1>10 DEF IsCarried
      <4> QED
        BY <4>1, <4>2
    <3>3. CASE \E g \in Hop : x = <<"hop", g>>
      BY <1>1, <1>3, <1>10, <3>3 DEF IsCarried
    <3> QED
      BY <3>1, <3>2, <3>3, <1>2, PlacesAre
  <2>4. c[q] = upTo(t, good) /\ o[q] = upTo(Append(t, Head(s)), good)
    BY <1>1, <1>2, <1>3, <1>7, <1>10 DEF IsCarried
  <2>5. Len(Append(t, Head(s))) = Len(t) + 1 /\ \A i \in 1 .. Len(t) : Append(t, Head(s))[i] = t[i]
    BY <1>1, <1>2, HeadAndTail, AppendProperties
  <2>6. CASE n >= 1
    <3>1. Passes(upTo(s, n), t, upTo(Tail(s), n - 1), Append(t, Head(s)), 1)
      <4> HIDE DEF s, t, n
      <4> QED
        BY <1>1, <1>2, <2>1, <2>6, UpToShrinks
    <3>2. c[q] = t /\ o[q] = Append(t, Head(s))
      <4> DEFINE r == Append(t, Head(s))
      <4>1. good \in Int /\ good >= Len(t) /\ good >= Len(t) + 1
        BY <2>1, <2>6
      <4>2. r \in Seq(Nat) /\ good >= Len(r)
        BY <1>4, <2>5, <4>1
      <4> HIDE DEF s, t, n, r
      <4>3. upTo(t, good) = t
        BY <1>2, <4>1, UpTo
      <4>4. upTo(r, good) = r
        BY <4>1, <4>2, UpTo
      <4> QED
        BY <2>4, <4>3, <4>4 DEF r
    <3>3. Moved(c, o, p, q, 1)
      BY <1>3, <2>2, <2>3, <3>1, <3>2 DEF Moved, IsCarried
    <3> HIDE DEF p, q
    <3>4. \E a, z \in Place : \E j \in Nat : adjacent(d, a, z) /\ Moved(c, o, a, z, j)
      BY <1>8, <3>3
    <3> QED
      BY <1>10, <3>4 DEF Passage, Moves
  <2>7. CASE ~(n >= 1)
    <3>1. upTo(s, n) = <<>> /\ upTo(Tail(s), n - 1) = <<>>
      <4> HIDE DEF s, t, n
      <4>1. n <= 0 /\ n - 1 \in Int /\ n - 1 <= 0
        BY <2>1, <2>7
      <4> QED
        BY <1>2, <1>4, <2>1, <4>1, UpTo
    <3>2. upTo(Append(t, Head(s)), good) = upTo(t, good)
      <4>1. good <= Len(t) /\ good \in Int
        BY <2>1, <2>7
      <4> HIDE DEF s, t, n
      <4>2. Len(Append(t, Head(s))) >= Len(t)
        BY <2>1, <2>5
      <4> QED
        BY <1>2, <1>4, <2>5, <4>1, <4>2, BeyondIntact
    <3>3. \A x \in Place : o[x] = c[x]
      BY <2>2, <2>3, <2>4, <3>1, <3>2
    <3>4. o = c
      <4>1. c \in [Place -> Seq(Nat)] /\ o \in [Place -> Seq(Nat)]
        BY <1>3 DEF IsCarried
      <4> HIDE DEF c, o
      <4> QED
        BY <3>3, <4>1
    <3> QED
      BY <1>10, <3>4 DEF Passage, Moves
  <2> QED
    BY <2>6, <2>7
<1> QED
  BY <1>6, <1>9, <1>10

\* A message meets a socket that does not take it whole for the first time: of what
\* m has, only what the browser read and what is on its link counts from now on.
LEMMA TearsPassage ==
  ASSUME PathTypeOK, PathTypeOK', UNCHANGED <<row, sent, got>>, ~torn, torn',
         NEW m \in [Place -> Seq(Nat)], Moves("left", m),
         m[<<"start", 0>>] = carried("left")[<<"start", 0>>],
         m[<<"end", 0>>] = carried("left")[<<"end", 0>>],
         m[<<"link", 0>>] = wire'[0]["left"],
         good' = Len(got["user"]) + Len(wire'[0]["left"])
  PROVE  Passage("left")
<1> DEFINE d == "left"  c == carried(d)  o == carried(d)'  t == wire'[0][d]  g == got["user"]
<1>1. d \in Dir /\ 0 \in Link /\ ~tornWay(d) /\ tornWay(d)' /\ isOver' /\ "user" \in End
  BY Shape DEF Dir, End, tornWay, isOver
<1>2. /\ IsCarried(d) /\ IsCarried(d)'
      /\ Place' = Place /\ Link' = Link /\ Hop' = Hop
  BY <1>1, Carries, CarriesNext, SamePlaces
<1>3. g \in Seq(Nat) /\ Len(g) \in Nat /\ t \in Seq(Nat) /\ Len(t) \in Nat
  BY <1>1, <1>2 DEF PathTypeOK
<1>4. good' \in Int /\ good' >= Len(g) /\ good' - Len(g) = Len(t)
  <2> HIDE DEF t, g
  <2>1. good' = Len(g) + Len(t)
    BY DEF t, g
  <2>2. Len(g) \in Nat /\ Len(t) \in Nat
    BY <1>3
  <2> QED
    BY ONLY <2>1, <2>2
<1>5. upTo(g, good') = g /\ upTo(t, good' - Len(g)) = t
  <2> HIDE DEF t, g
  <2>1. upTo(g, good') = g
    BY <1>3, <1>4, UpTo
  <2>2. upTo(t, Len(t)) = t
    <3>1. Len(t) \in Int /\ Len(t) >= Len(t)
      BY <1>3
    <3> QED
      BY <1>3, <3>1, UpTo
  <2> QED
    BY <1>4, <2>1, <2>2
<1>6. o[<<"end", 0>>] = c[<<"end", 0>>]
  <2>1. /\ intact["user"] = g /\ intact'["user"] = upTo(got'["user"], good')
    BY <1>1, IntactNow, IntactNext DEF tornWay, torn
  <2>2. Receiver(d) = "user"
    BY DEF Receiver
  <2> HIDE DEF d
  <2> QED
    BY <1>2, <1>5, <2>1, <2>2 DEF IsCarried
<1>7. o[<<"link", 0>>] = t
  <2>1. o[<<"link", 0>>] = upTo(wire'[0][d], good' - Len(got'["user"]))
    BY <1>1, <1>2 DEF IsCarried
  <2> QED
    BY <1>5, <2>1
<1>8. ASSUME NEW x \in Place PROVE Remains(m[x], o[x])
  <2>1. m[x] \in Seq(Nat)
    OBVIOUS
  <2>2. CASE x = <<"start", 0>>
    <3>1. o[x] = m[x]
      BY <1>2, <2>2 DEF IsCarried
    <3> QED
      BY <2>1, <3>1, NothingRemains
  <2>3. CASE x = <<"end", 0>>
    BY <1>6, <2>1, <2>3, NothingRemains
  <2>4. CASE \E l \in Link : x = <<"link", l>>
    <3>1. PICK l \in Link : x = <<"link", l>>
      BY <2>4
    <3>2. CASE l = 0
      BY <1>7, <2>1, <3>1, <3>2, NothingRemains
    <3>3. CASE l # 0
      <4>1. o[x] = <<>>
        BY <1>1, <1>2, <3>1, <3>3 DEF IsCarried
      <4> QED
        BY <2>1, <4>1, NothingRemains
    <3> QED
      BY <3>2, <3>3
  <2>5. CASE \E h \in Hop : x = <<"hop", h>>
    <3>1. o[x] = <<>>
      BY <1>1, <1>2, <2>5 DEF IsCarried
    <3> QED
      BY <2>1, <3>1, NothingRemains
  <2> QED
    BY <1>1, <2>2, <2>3, <2>4, <2>5, PlacesAre
<1> QED
  BY <1>1, <1>8 DEF Passage

\* Only a hop at the head of the row pushes.
LEMMA PushesFirst == ASSUME PathTypeOK, NEW h \in Hop, pushes(h, "left")
                     PROVE  h = 1 /\ Out(h, "left") = 0
BY Shape DEF pushes, Out

\* The message that meets a full socket is lost, and nothing after it counts.
LEMMA ForgetsPassage ==
  ASSUME PathTypeOK, PathTypeOK', NEW h \in Hop, Forgets(h), NEW w \in Dir
  PROVE  Passage(w)
<1>1. UNCHANGED <<row, sent, got, wire>>
  BY DEF Forgets, links
<1>2. /\ \A g \in Hop : held'[g]["right"] = held[g]["right"]
      /\ good' = IF torn THEN good ELSE written
  <2>1. held' = [held EXCEPT ![h]["left"] = <<>>]
    BY DEF Forgets
  <2> QED
    BY <2>1 DEF Forgets, PathTypeOK, Dir
<1>3. CASE w = "right"
  BY <1>1, <1>2, <1>3, Untouched
<1>4. CASE w = "left" /\ torn
  <2>1. good' = good /\ intact' = intact /\ tornWay(w) /\ tornWay(w)'
    BY <1>1, <1>2, <1>4, IntactSame DEF tornWay, torn
  <2>2. /\ IsCarried(w) /\ IsCarried(w)'
        /\ Place' = Place /\ Link' = Link /\ Hop' = Hop
    BY <1>1, Carries, CarriesNext, SamePlaces
  <2>3. \A l \in Link : carried(w)'[<<"link", l>>] = carried(w)[<<"link", l>>]
    BY <1>1, <2>1, <2>2 DEF IsCarried
  <2>4. \A g \in Hop : carried(w)'[<<"hop", g>>] = carried(w)[<<"hop", g>>]
    BY <2>1, <2>2 DEF IsCarried
  <2> QED
    BY <1>1, <2>1, <2>3, <2>4, Alike DEF Passage, Moves
<1>5. CASE w = "left" /\ ~torn
  <2>1. written \in Nat /\ torn'
    BY <1>2, <1>5, CountsWritten DEF torn, Whole
  <2>2. IsCarried(w) /\ ~tornWay(w) /\ 0 \in Link
    BY <1>5, Carries, Shape DEF tornWay
  <2>3. carried(w)[<<"link", 0>>] = wire'[0]["left"]
    BY <1>1, <1>5, <2>2 DEF IsCarried
  <2>4. good' = Len(got["user"]) + Len(wire'[0]["left"])
    BY <1>1, <1>2, <1>5 DEF written
  <2>5. carried(w) \in [Place -> Seq(Nat)] /\ Moves(w, carried(w))
    BY <2>2 DEF IsCarried, Moves
  <2> QED
    BY <1>1, <1>5, <2>1, <2>3, <2>4, <2>5, TearsPassage
<1> QED
  BY <1>3, <1>4, <1>5, Ways

\* A part of the message goes to the browser, and all of it stays to be written again.
LEMMA PushesSomePassage ==
  ASSUME PathTypeOK, PathTypeOK', Standing, NEW h \in Hop, PushesSome(h), NEW w \in Dir
  PROVE  Passage(w)
<1> DEFINE d == "left"  p == <<"hop", h>>  q == <<"link", 0>>  c == carried(d)
           s == held[h][d]  t == wire[0][d]  k == Room(0, d)
           u == SubSeq(s, k + 1, Len(s))  v == t \o SubSeq(s, 1, k)
<1>1. h = 1 /\ Out(h, d) = 0 /\ 0 \in Link /\ d \in Dir
  BY PushesFirst, Shape DEF PushesSome, Dir
<1>2. /\ UNCHANGED <<row, sent, got, held>> /\ ~deaf[0][d]
      /\ k \in 1 .. Len(s) - 1 /\ wire' = [wire EXCEPT ![0][d] = v]
      /\ good' = IF torn THEN good ELSE written + k
  BY <1>1 DEF PushesSome, Put, hops
<1>3. s \in Seq(Nat) /\ t \in Seq(Nat) /\ k \in 1 .. Len(s) /\ k \in Nat /\ Len(t) \in Nat
  <2>1. s \in Seq(Nat) /\ t \in Seq(Nat)
    BY <1>1 DEF PathTypeOK
  <2> HIDE DEF s, t, k
  <2> QED
    BY <1>2, <2>1
<1>4. /\ SubSeq(s, 1, k) \in Seq(Nat) /\ Len(SubSeq(s, 1, k)) = k
      /\ \A i \in 1 .. k : SubSeq(s, 1, k)[i] = s[i]
      /\ u \in Seq(Nat) /\ Len(u) = Len(s) - k
      /\ \A i \in 1 .. Len(s) - k : u[i] = s[i + k]
  <2> HIDE DEF s, t, k
  <2> QED
    BY <1>3, Parts
<1>5. /\ v \in Seq(Nat) /\ Len(v) = Len(t) + k
      /\ \A i \in 1 .. Len(t) : v[i] = t[i]
      /\ \A i \in 1 .. k : v[Len(t) + i] = s[i]
  <2> DEFINE r == SubSeq(s, 1, k)
  <2>1. r \in Seq(Nat) /\ Len(r) = k /\ \A i \in 1 .. k : r[i] = s[i]
    BY <1>4
  <2> HIDE DEF s, t, k, r
  <2>2. /\ t \o r \in Seq(Nat) /\ Len(t \o r) = Len(t) + Len(r)
        /\ \A i \in 1 .. Len(t) : (t \o r)[i] = t[i]
        /\ \A i \in 1 .. Len(r) : (t \o r)[Len(t) + i] = r[i]
    BY <1>3, <2>1, Joined
  <2> QED
    BY <2>1, <2>2 DEF r
<1> HIDE DEF k, u, v
<1>6. /\ wire'[0][d] = v
      /\ \A l \in Link, o \in Dir : (l = 0 /\ o = d) \/ wire'[l][o] = wire[l][o]
  <2> HIDE DEF d
  <2> QED
    BY <1>1, <1>2, <1>5, Replaced DEF PathTypeOK
<1>7. CASE w = "right"
  BY <1>2, <1>6, <1>7, Untouched
<1>8. CASE w = "left" /\ torn
  <2>1. good' = good /\ intact' = intact /\ tornWay(w) /\ tornWay(w)'
    BY <1>2, <1>8, IntactSame DEF tornWay, torn
  <2>2. /\ IsCarried(w) /\ IsCarried(w)'
        /\ Place' = Place /\ Link' = Link /\ Hop' = Hop
    BY <1>2, Carries, CarriesNext, SamePlaces
  <2> DEFINE n == good - Len(got["user"])
  <2>3. n \in Int /\ n <= Len(t)
    <3>1. good \in Nat /\ Len(got["user"]) \in Nat
      BY <1>8 DEF torn, PathTypeOK, End
    <3>2. Len(got["user"]) + Len(t) >= good
      BY <1>2, <1>8 DEF Standing, written
    <3> HIDE DEF t
    <3> QED
      BY <1>3, <3>1, <3>2
  <2>4. upTo(v, n) = upTo(t, n)
    <3>1. Len(v) >= Len(t)
      BY <1>3, <1>5
    <3> HIDE DEF n, t
    <3> QED
      BY <1>3, <1>5, <2>3, <3>1, BeyondIntact
  <2>5. ASSUME NEW l \in Link PROVE carried(w)'[<<"link", l>>] = carried(w)[<<"link", l>>]
    <3>1. CASE l = 0
      <4>1. /\ carried(w)'[<<"link", 0>>] = upTo(wire'[0][w], good' - Len(got'["user"]))
            /\ carried(w)[<<"link", 0>>] = upTo(wire[0][w], good - Len(got["user"]))
        BY <2>1, <2>2 DEF IsCarried
      <4> QED
        BY <1>2, <1>6, <1>8, <2>1, <2>4, <3>1, <4>1
    <3>2. CASE l # 0
      BY <2>1, <2>2, <3>2 DEF IsCarried
    <3> QED
      BY <3>1, <3>2
  <2>6. \A g \in Hop : carried(w)'[<<"hop", g>>] = carried(w)[<<"hop", g>>]
    BY <2>1, <2>2 DEF IsCarried
  <2> QED
    BY <1>2, <2>1, <2>5, <2>6, Alike DEF Passage, Moves
<1>9. CASE w = "left" /\ ~torn
  <2>1. IsCarried(d) /\ ~tornWay(d)
    BY <1>1, <1>9, Carries DEF tornWay
  <2>2. c \in [Place -> Seq(Nat)] /\ c[p] = s /\ c[q] = t
    BY <1>1, <2>1 DEF IsCarried
  <2>3. adjacent(d, p, q) /\ p \in Place /\ q \in Place /\ p # q
    BY <1>1, Adjacent, PlacesAre
  <2> DEFINE m == [c EXCEPT ![p] = u, ![q] = v]
  <2>4. m \in [Place -> Seq(Nat)] /\ m[p] = u /\ m[q] = v /\ \A x \in Place \ {p, q} : m[x] = c[x]
    <3> HIDE DEF p, q, c
    <3> QED
      BY <1>4, <1>5, <2>2, <2>3
  <2>5. Passes(s, t, u, v, k)
    <3>1. k \in 0 .. Len(s)
      BY <1>3
    <3> HIDE DEF s, t
    <3> QED
      BY <1>4, <1>5, <3>1 DEF Passes
  <2>6. Moved(c, m, p, q, k)
    <3> HIDE DEF m, c
    <3> QED
      BY <2>2, <2>4, <2>5 DEF Moved
  <2>7. Moves(d, m)
    <3> HIDE DEF m, p, q
    <3> QED
      BY <1>3, <2>3, <2>6 DEF Moves
  <2>8. m[<<"start", 0>>] = c[<<"start", 0>>] /\ m[<<"end", 0>>] = c[<<"end", 0>>]
    BY <1>1, <2>4, PlacesAre
  <2>9. good' = Len(got["user"]) + Len(wire'[0]["left"]) /\ torn'
    <3>1. written \in Nat /\ written = Len(got["user"]) + Len(t) /\ Len(got["user"]) \in Nat
      BY CountsWritten DEF written, PathTypeOK, End
    <3>2. good' = written + k
      BY <1>2, <1>9
    <3> HIDE DEF t
    <3>3. good' = Len(got["user"]) + Len(v) /\ good' \in Nat
      <4>1. k \in Nat /\ Len(t) \in Nat /\ Len(v) = Len(t) + k
        BY <1>3, <1>5
      <4> DEFINE a == Len(got["user"])  b == Len(t)  z == Len(v)
      <4>2. a \in Nat /\ b \in Nat /\ z = b + k /\ good' = (a + b) + k
        BY <3>1, <3>2, <4>1
      <4> HIDE DEF a, b, z
      <4>3. good' = a + z /\ good' \in Nat
        BY ONLY <4>1, <4>2
      <4> QED
        BY <4>3 DEF a, z
    <3> QED
      BY <1>6, <3>3 DEF torn, Whole
  <2> HIDE DEF m
  <2> QED
    BY <1>2, <1>6, <1>9, <2>4, <2>7, <2>8, <2>9, TearsPassage
<1> QED
  BY <1>7, <1>8, <1>9, Ways

-----------------------------------------------------------------------------
(* What each action does.                                                  *)

\* Dropping both sockets ends their streams and loses what they have not read.
LEMMA DropsSo == ASSUME PathTypeOK, NEW h \in Hop, Drops(h)
  PROVE  /\ \A l \in Link, d \in Dir :
               /\ ended[l][d] => ended'[l][d]
               /\ deaf[l][d] => deaf'[l][d]
               /\ deaf'[l][d] => deaf[l][d] \/ wire'[l][d] = <<>>
               /\ wire'[l][d] = wire[l][d] \/ wire'[l][d] = <<>>
         /\ wire'[0]["left"] = wire[0]["left"]
<1>1. \A l \in Link, d \in Dir :
         /\ ended'[l][d] = (ended[l][d] \/ l = Out(h, d))
         /\ deaf'[l][d] = (deaf[l][d] \/ l = In(h, d))
         /\ wire'[l][d] = IF l = In(h, d) THEN <<>> ELSE wire[l][d]
  BY DEF Drops
<1>2. 0 \in Link /\ "left" \in Dir /\ In(h, "left") # 0
  BY Shape DEF In, Dir
<1> QED
  BY <1>1, <1>2

\* So does a forwarding task that returns, and it loses its buffers.
LEMMA ReturnsSo == ASSUME PathTypeOK, NEW h \in Hop, Returns(h)
                   PROVE  Grows /\ (isOver' => Loses)
<1>1. \A g \in Hop, d \in Dir : held'[g][d] = held[g][d] \/ held'[g][d] = <<>>
  <2>1. held' = [held EXCEPT ![h] = [d \in Dir |-> <<>>]]
    BY DEF Returns
  <2> QED
    BY <2>1 DEF PathTypeOK
<1> QED
  BY <1>1, DropsSo DEF Returns, ends, Grows, Loses, torn

\* A socket that never came cuts the connection.
LEMMA UpgradeFailsSo == ASSUME PathTypeOK, NEW h \in Hop, UpgradeFails(h)
                        PROVE  Grows /\ Loses
BY DropsSo DEF UpgradeFails, Grows, Loses, torn, isOver

\* A copy, or a message, that ends or fails: the stream has ended, or the peer has gone.
LEMMA EndsLose ==
  ASSUME PathTypeOK, Standing, NEW h \in Hop,
         \/ WriteFails(h) \/ ReadFails(h)
         \/ \E d \in Dir : CopiedSome(h, d) \/ CopiedNothing(h, d) \/ StreamEnds(h, d)
  PROVE  Grows /\ Loses
<1>1. isOver
  <2>1. \E l \in Link, d \in Dir : ended[l][d] \/ deaf[l][d]
    BY Shape DEF WriteFails, ReadFails, CopiedSome, CopiedNothing, StreamEnds, CopyDone, Eof
  <2> QED
    BY <2>1 DEF Standing
<1>2. CASE Returns(h)
  BY <1>1, <1>2, ReturnsSo, GrowsStaysOver
<1>3. CASE \E d \in Dir : CopiedSome(h, d)
  <2>1. /\ UNCHANGED <<row, wire, ended, deaf, sent, got, cut, good>>
        /\ held' = [held EXCEPT ![h] = [o \in Dir |-> <<>>]]
    BY <1>3 DEF CopiedSome, links, ends
  <2>2. \A g \in Hop, d \in Dir : held'[g][d] = held[g][d] \/ held'[g][d] = <<>>
    BY <2>1 DEF PathTypeOK
  <2>3. Grows
    BY <2>1 DEF Grows, torn
  <2> QED
    BY <1>1, <2>1, <2>2, <2>3, GrowsStaysOver DEF Loses
<1> QED
  BY <1>2, <1>3 DEF WriteFails, ReadFails, CopiedNothing, StreamEnds

\* An end that closes, or goes, ends the connection.
LEMMA EndGoesSo == ASSUME PathTypeOK, NEW e \in End, EndCloses(e) \/ EndGoes(e)
                   PROVE  Grows /\ Loses
<1> DEFINE l == LinkOf(e)  d == Sends(e)  o == Other(d)
<1>1. l \in Link /\ 0 \in Link /\ d \in Dir /\ o \in Dir /\ (o = "left" => l = 0) /\ "left" \in Dir
      /\ (o # "left" => l # 0)
  BY Shape, Ways DEF LinkOf, Sends, End, Dir
<1>2. UNCHANGED <<row, held, sent, got, cut, good>> /\ ended' = [ended EXCEPT ![l][d] = TRUE]
  BY DEF EndCloses, EndGoes, hops, ends
<1>3. ended'[l][d] /\ \A m \in Link, v \in Dir : ended[m][v] => ended'[m][v]
  <2> HIDE DEF l, d
  <2> QED
    BY <1>1, <1>2 DEF PathTypeOK
<1>4. isOver' /\ Grows
  <2>1. closedBy(e)'
    BY <1>2, <1>3 DEF closedBy, LinkOf
  <2> QED
    BY <1>2, <1>3, <2>1 DEF isOver, Grows, torn
<1>5. CASE EndCloses(e)
  BY <1>2, <1>4, <1>5 DEF EndCloses, Loses
<1>6. CASE EndGoes(e)
  <2>1. deaf' = [deaf EXCEPT ![l][o] = TRUE] /\ wire' = [wire EXCEPT ![l][o] = <<>>]
    BY <1>6 DEF EndGoes
  <2> HIDE DEF l, o, d
  <2>2. \A m \in Link, v \in Dir :
           /\ deaf'[m][v] = IF m = l /\ v = o THEN TRUE ELSE deaf[m][v]
           /\ wire'[m][v] = IF m = l /\ v = o THEN <<>> ELSE wire[m][v]
    <3>1. \A m \in Link, v \in Dir : wire'[m][v] = IF m = l /\ v = o THEN <<>> ELSE wire[m][v]
      BY <1>1, <2>1, Replaced DEF PathTypeOK
    <3>2. \A m \in Link, v \in Dir : deaf'[m][v] = IF m = l /\ v = o THEN TRUE ELSE deaf[m][v]
      BY <1>1, <2>1 DEF PathTypeOK
    <3> QED
      BY <3>1, <3>2
  <2> QED
    BY <1>1, <1>2, <1>4, <2>2 DEF Loses
<1> QED
  BY <1>5, <1>6

-----------------------------------------------------------------------------
(* What stands.                                                            *)

\* A step after which the connection is over, or which ends nothing.
LEMMA LossesStand ==
  ASSUME PathTypeOK, Standing, Grows, Loses
  PROVE  Standing'
<1>1. isOver' /\ Link' = Link /\ 0 \in Link /\ "left" \in Dir
  BY SamePlaces, Shape DEF Loses, Dir
<1>2. ASSUME NEW l \in Link, NEW d \in Dir, deaf'[l][d] PROVE wire'[l][d] = <<>>
  <2>1. deaf[l][d] => wire[l][d] = <<>>
    BY DEF Standing
  <2>2. wire'[l][d] = wire[l][d] \/ wire'[l][d] = <<>>
    BY DEF Loses
  <2>3. deaf[l][d] \/ wire'[l][d] = <<>>
    BY <1>2 DEF Loses
  <2> QED
    BY <2>1, <2>2, <2>3
<1>3. ASSUME torn', ~deaf'[0]["left"] PROVE written' >= good'
  <2>1. wire'[0]["left"] = wire[0]["left"] /\ got' = got /\ good' = good /\ ~deaf[0]["left"]
    BY <1>1, <1>3 DEF Loses
  <2>2. torn /\ written >= good
    BY <1>3, <2>1 DEF Standing, torn
  <2> QED
    BY <2>1, <2>2 DEF written
<1> QED
  BY <1>1, <1>2, <1>3 DEF Standing

\* A step that ends nothing, writes where somebody reads and takes nothing back.
LEMMA OthersStand ==
  ASSUME PathTypeOK, Standing, row' = row, UNCHANGED <<ended, deaf>>, isOver => isOver',
         \A l \in Link, d \in Dir : deaf[l][d] => wire'[l][d] = wire[l][d],
         torn' /\ ~deaf[0]["left"] => written' >= good'
  PROVE  Standing'
<1>1. Link' = Link
  BY DEF Link
<1>2. \A l \in Link, d \in Dir : deaf'[l][d] => wire'[l][d] = <<>>
  BY DEF Standing
<1>3. \A l \in Link, d \in Dir : ended'[l][d] \/ deaf'[l][d] => isOver'
  BY DEF Standing
<1> QED
  BY <1>1, <1>2, <1>3 DEF Standing

\* Nothing was taken back from the browser.
LEMMA WrittenGrows ==
  ASSUME PathTypeOK, PathTypeOK', UNCHANGED <<row, got, good>>, Len(wire'[0]["left"]) >= Len(wire[0]["left"]),
         torn /\ ~deaf[0]["left"] => written >= good
  PROVE  torn' /\ ~deaf[0]["left"] => written' >= good'
<1> SUFFICES ASSUME torn', ~deaf[0]["left"] PROVE written' >= good'
  OBVIOUS
<1> DEFINE a == Len(got["user"])  b == Len(wire[0]["left"])  z == Len(wire'[0]["left"])
<1>1. a \in Nat /\ b \in Nat /\ z \in Nat /\ good \in Nat /\ z >= b
  <2>1. 0 \in Link /\ Link' = Link /\ "left" \in Dir /\ "user" \in End
    BY Shape, SamePlaces DEF Dir, End
  <2>2. wire[0]["left"] \in Seq(Nat) /\ wire'[0]["left"] \in Seq(Nat) /\ got["user"] \in Seq(Nat)
    BY <2>1 DEF PathTypeOK
  <2>3. good \in Nat
    BY DEF torn, PathTypeOK
  <2> QED
    BY <2>2, <2>3
<1>2. a + b >= good
  BY DEF torn, written
<1> HIDE DEF a, b, z
<1>3. a + z >= good
  BY ONLY <1>1, <1>2
<1> QED
  BY <1>3 DEF written, a, z

\* Reading ends nothing.
LEMMA ReadsInStands ==
  ASSUME PathTypeOK, PathTypeOK', Standing, NEW h \in Hop, NEW d \in Dir, NEW k \in Nat, ReadsIn(h, d, k)
  PROVE  Standing' /\ Grows
<1>1. Grows /\ row' = row /\ UNCHANGED <<ended, deaf, got, good>>
  BY DEF ReadsIn, Grows, torn
<1>2. ~deaf[In(h, d)][d]
  <2>1. k > 0 /\ k \in 0 .. Len(wire[In(h, d)][d])
    BY DEF ReadsIn, Passes
  <2>2. wire[In(h, d)][d] # <<>>
    BY <2>1
  <2> QED
    BY <2>2, Shape DEF Standing
<1>3. wire'[0]["left"] = wire[0]["left"]
  <2>1. 0 \in Link /\ "left" \in Dir /\ In(h, "left") # 0
    BY Shape DEF In, Dir
  <2> QED
    BY <2>1 DEF ReadsIn
<1>4. \A l \in Link, o \in Dir : deaf[l][o] => wire'[l][o] = wire[l][o]
  BY <1>2 DEF ReadsIn
<1>5. torn' /\ ~deaf[0]["left"] => written' >= good'
  BY <1>1, <1>3 DEF Standing, torn, written
<1> QED
  BY <1>1, <1>4, <1>5, GrowsStaysOver, OthersStand

\* Writing ends nothing.
LEMMA WritesOutStands ==
  ASSUME PathTypeOK, PathTypeOK', Standing, NEW h \in Hop, NEW d \in Dir, NEW k \in Nat, WritesOut(h, d, k)
  PROVE  Standing' /\ Grows
<1>1. Grows /\ row' = row /\ UNCHANGED <<ended, deaf, got, good>> /\ ~deaf[Out(h, d)][d]
  BY DEF WritesOut, Grows, torn
<1>2. Len(wire'[0]["left"]) >= Len(wire[0]["left"])
  <2>1. 0 \in Link /\ "left" \in Dir
    BY Shape DEF Dir
  <2>2. Len(wire[0]["left"]) \in Nat
    BY <2>1 DEF PathTypeOK
  <2>3. CASE Out(h, d) = 0 /\ d = "left"
    <3>1. Len(wire'[0]["left"]) = Len(wire[0]["left"]) + k
      BY <2>3 DEF WritesOut, Passes
    <3> QED
      BY <2>2, <3>1
  <2>4. CASE ~(Out(h, d) = 0 /\ d = "left")
    <3>1. wire'[0]["left"] = wire[0]["left"]
      BY <2>1, <2>4 DEF WritesOut
    <3> QED
      BY <2>2, <3>1
  <2> QED
    BY <2>3, <2>4
<1>3. \A l \in Link, o \in Dir : deaf[l][o] => wire'[l][o] = wire[l][o]
  BY <1>1 DEF WritesOut
<1>4. torn' /\ ~deaf[0]["left"] => written' >= good'
  BY <1>1, <1>2, WrittenGrows DEF Standing
<1> QED
  BY <1>1, <1>3, <1>4, GrowsStaysOver, OthersStand

\* Forgetting a message marks what had been written.
LEMMA ForgetsStands ==
  ASSUME PathTypeOK, PathTypeOK', Standing, NEW h \in Hop, Forgets(h)
  PROVE  Standing' /\ Grows
<1>1. UNCHANGED <<row, wire, ended, deaf, got, cut>> /\ good' = IF torn THEN good ELSE written
  BY DEF Forgets, links
<1>2. written \in Nat /\ written' = written
  BY <1>1, CountsWritten DEF written
<1>3. Grows
  BY <1>1 DEF Grows, torn
<1>4. torn' /\ ~deaf[0]["left"] => written' >= good'
  BY <1>1, <1>2 DEF Standing
<1> QED
  BY <1>1, <1>3, <1>4, GrowsStaysOver, OthersStand

\* Writing a part of a message marks what has been written with it.
LEMMA PushesSomeStands ==
  ASSUME PathTypeOK, PathTypeOK', Standing, NEW h \in Hop, PushesSome(h)
  PROVE  Standing' /\ Grows
<1> DEFINE s == held[h]["left"]  t == wire[0]["left"]  k == Room(0, "left")  r == SubSeq(s, 1, k)
<1>1. Out(h, "left") = 0 /\ 0 \in Link /\ "left" \in Dir /\ "user" \in End
  BY PushesFirst, Shape DEF PushesSome, Dir, End
<1>2. /\ UNCHANGED <<row, ended, deaf, got, cut>> /\ ~deaf[0]["left"]
      /\ k \in 1 .. Len(s) - 1 /\ wire' = [wire EXCEPT ![0]["left"] = t \o r]
      /\ good' = IF torn THEN good ELSE written + k
  BY <1>1 DEF PushesSome, Put
<1>3. s \in Seq(Nat) /\ t \in Seq(Nat)
  BY <1>1 DEF PathTypeOK
<1>4. r \in Seq(Nat) /\ Len(r) = k /\ k \in Nat
  <2> HIDE DEF s, k
  <2>1. k \in 1 .. Len(s)
    BY <1>2, <1>3
  <2> QED
    BY <1>3, <2>1, Parts
<1> HIDE DEF k, r
<1>5. t \o r \in Seq(Nat) /\ Len(t \o r) = Len(t) + k
  <2> HIDE DEF t
  <2> QED
    BY <1>3, <1>4, Joined
<1>6. /\ wire'[0]["left"] = t \o r
      /\ \A l \in Link, o \in Dir : (l = 0 /\ o = "left") \/ wire'[l][o] = wire[l][o]
  BY <1>1, <1>2, <1>5, Replaced, SMTT(30) DEF PathTypeOK
<1>7. written' = written + k /\ written \in Nat
  <2> DEFINE a == Len(got["user"])  b == Len(t)  z == Len(wire'[0]["left"])
  <2>1. a \in Nat /\ b \in Nat /\ z = b + k
    BY <1>1, <1>3, <1>5, <1>6 DEF PathTypeOK
  <2>2. written' = a + z /\ written = a + b
    BY <1>2 DEF written
  <2> HIDE DEF a, b, z
  <2> QED
    BY ONLY <1>4, <2>1, <2>2
<1>8. Grows
  BY <1>2, <1>4, <1>7 DEF Grows, torn, Whole
<1>9. torn' /\ ~deaf[0]["left"] => written' >= good'
  <2>1. CASE torn
    <3>1. good \in Nat /\ good' = good /\ written >= good
      BY <1>2, <2>1 DEF torn, PathTypeOK, Standing
    <3> QED
      BY <1>4, <1>7, <3>1
  <2>2. CASE ~torn
    BY <1>2, <1>4, <1>7, <2>2
  <2> QED
    BY <2>1, <2>2
<1>10. \A l \in Link, o \in Dir : deaf[l][o] => wire'[l][o] = wire[l][o]
  BY <1>2, <1>6
<1> QED
  BY <1>2, <1>8, <1>9, <1>10, GrowsStaysOver, OthersStand

\* Sending ends nothing.
LEMMA EndSendsStands ==
  ASSUME PathTypeOK, PathTypeOK', Standing, NEW e \in End, EndSends(e)
  PROVE  Standing' /\ Grows
<1> DEFINE b == LinkOf(e)  d == Sends(e)  r == wire[b][d] \o <<sent[e] + 1>>
<1>1. /\ b \in Link /\ d \in Dir /\ 0 \in Link /\ "left" \in Dir /\ ~(b = 0 /\ d = "left")
      /\ sent[e] + 1 \in Nat
  BY Shape, Ways, SMTT(30) DEF LinkOf, Sends, End, Dir, PathTypeOK
<1>2. /\ UNCHANGED <<row, ended, deaf, got, cut, good>> /\ ~deaf[b][d]
      /\ wire' = [wire EXCEPT ![b][d] = r]
  BY DEF EndSends, Put
<1>3. r \in Seq(Nat)
  BY <1>1 DEF PathTypeOK
<1> HIDE DEF b, d, r
<1>4. \A l \in Link, o \in Dir : (l = b /\ o = d) \/ wire'[l][o] = wire[l][o]
  BY <1>1, <1>2, <1>3, Replaced DEF PathTypeOK
<1>5. Grows
  BY <1>2 DEF Grows, torn
<1>6. torn' /\ ~deaf[0]["left"] => written' >= good'
  <2>1. wire'[0]["left"] = wire[0]["left"]
    BY <1>1, <1>4
  <2> QED
    BY <1>2, <2>1 DEF Standing, torn, written
<1>7. \A l \in Link, o \in Dir : deaf[l][o] => wire'[l][o] = wire[l][o]
  BY <1>2, <1>4
<1> QED
  BY <1>2, <1>5, <1>6, <1>7, GrowsStaysOver, OthersStand

\* The bytes an end reads stay written.
LEMMA EndReadsStands ==
  ASSUME PathTypeOK, PathTypeOK', Standing, NEW e \in End, EndReads(e)
  PROVE  Standing' /\ Grows
<1> DEFINE b == LinkOf(e)  d == Other(Sends(e))  s == wire[b][d]  t == got[e]
<1>1. /\ b \in Link /\ d \in Dir /\ 0 \in Link /\ "left" \in Dir
      /\ s \in Seq(Nat) /\ t \in Seq(Nat) /\ (e = "user" => b = 0 /\ d = "left")
      /\ (e # "user" => b # 0)
  <2>1. /\ b \in Link /\ d \in Dir /\ 0 \in Link /\ "left" \in Dir
        /\ (e = "user" => b = 0 /\ d = "left") /\ (e # "user" => b # 0)
    BY Shape, Ways DEF LinkOf, Sends, End, Dir
  <2> QED
    BY <2>1 DEF PathTypeOK
<1>2. /\ UNCHANGED <<row, ended, deaf, cut, good>> /\ s # <<>>
      /\ got' = [got EXCEPT ![e] = Append(t, Head(s))]
      /\ wire' = [wire EXCEPT ![b][d] = Tail(s)]
  BY DEF EndReads
<1>3. Tail(s) \in Seq(Nat) /\ Len(Tail(s)) = Len(s) - 1 /\ Len(s) \in Nat /\ Len(t) \in Nat
  <2> HIDE DEF s, t
  <2> QED
    BY <1>1, <1>2, HeadAndTail
<1>4. Len(Append(t, Head(s))) = Len(t) + 1
  <2> HIDE DEF s, t
  <2> QED
    BY <1>1, <1>2, HeadAndTail, AppendProperties
<1>5. /\ wire'[b][d] = Tail(s)
      /\ \A l \in Link, o \in Dir : (l = b /\ o = d) \/ wire'[l][o] = wire[l][o]
      /\ got'[e] = Append(t, Head(s))
      /\ \A f \in End : f = e \/ got'[f] = got[f]
  <2> HIDE DEF s, t, b, d
  <2>1. /\ wire'[b][d] = Tail(s)
        /\ \A l \in Link, o \in Dir : (l = b /\ o = d) \/ wire'[l][o] = wire[l][o]
    BY <1>1, <1>2, <1>3, Replaced DEF PathTypeOK
  <2>2. got'[e] = Append(t, Head(s)) /\ \A f \in End : f = e \/ got'[f] = got[f]
    BY <1>2 DEF PathTypeOK
  <2> QED
    BY <2>1, <2>2
<1>6. Grows
  BY <1>2 DEF Grows, torn
<1>7. written' = written
  <2>1. CASE e = "user"
    <3>1. /\ written = Len(t) + Len(s)
          /\ written' = Len(Append(t, Head(s))) + Len(Tail(s))
      BY <1>1, <1>5, <2>1 DEF written
    <3> DEFINE x == Len(t)  y == Len(s)
    <3>2. written = x + y /\ written' = (x + 1) + (y - 1) /\ x \in Nat /\ y \in Nat
      BY <1>3, <1>4, <3>1
    <3> HIDE DEF x, y
    <3> QED
      BY <3>2
  <2>2. CASE e # "user"
    BY <1>1, <1>5, <2>2 DEF written, End
  <2> QED
    BY <2>1, <2>2
<1>8. \A l \in Link, o \in Dir : deaf[l][o] => wire'[l][o] = wire[l][o]
  <2>1. ~deaf[b][d]
    BY <1>1, <1>2 DEF Standing
  <2> QED
    BY <1>5, <2>1
<1> QED
  BY <1>2, <1>6, <1>7, <1>8, GrowsStaysOver, OthersStand DEF Standing, torn

-----------------------------------------------------------------------------
(* The steps of the path.                                                  *)

\* Nothing happens to the bytes.
LEMMA QuietSo ==
  ASSUME PathTypeOK, PathTypeOK', Standing,
         UNCHANGED <<row, wire, ended, deaf, held, sent, got, cut, good>>
  PROVE  Standing' /\ Grows /\ \A w \in Dir : Passage(w)
<1>1. Grows
  BY DEF Grows, torn
<1>2. Standing'
  BY <1>1, GrowsStaysOver, OthersStand DEF Standing, torn, written
<1> QED
  BY <1>1, <1>2, Untouched

\* What every step of a hop keeps, and what it does to the bytes of both directions.
LEMMA HopStands ==
  ASSUME PathTypeOK, PathTypeOK', Standing, NEW h \in Hop, HopSteps(h) \/ UpgradeFails(h)
  PROVE  Standing' /\ Grows /\ \A w \in Dir : Passage(w)
<1>1. ASSUME NEW d \in Dir, NEW k \in Nat, ReadsIn(h, d, k)
      PROVE  Standing' /\ Grows /\ \A w \in Dir : Passage(w)
  BY <1>1, ReadsInStands, ReadsInPassage
<1>2. ASSUME NEW d \in Dir, NEW k \in Nat, WritesOut(h, d, k)
      PROVE  Standing' /\ Grows /\ \A w \in Dir : Passage(w)
  BY <1>2, WritesOutStands, WritesOutPassage
<1>3. ASSUME Grows, Loses PROVE Standing' /\ Grows /\ \A w \in Dir : Passage(w)
  BY <1>3, LossesStand, LosesPassage
<1>4. CASE \E d \in Dir : CopyReads(h, d) \/ TakesMessage(h, d)
  BY <1>1, <1>4, CopyReadsIn, TakesReadsIn
<1>5. CASE (\E d \in Dir : CopyWrites(h, d) \/ SendsMessage(h, d)) \/ PushesAll(h)
  <2>1. "left" \in Dir /\ \A d \in Dir : Len(held[h][d]) \in Nat
    BY DEF Dir, PathTypeOK
  <2> QED
    BY <1>2, <1>5, <2>1, CopyWritesOut, SendsWritesOut
<1>6. CASE \/ WriteFails(h) \/ ReadFails(h) \/ UpgradeFails(h)
           \/ \E d \in Dir : CopiedSome(h, d) \/ CopiedNothing(h, d) \/ StreamEnds(h, d)
  BY <1>3, <1>6, EndsLose, UpgradeFailsSo
<1>7. CASE PushesSome(h)
  BY <1>7, PushesSomeStands, PushesSomePassage
<1>8. CASE Forgets(h)
  BY <1>8, ForgetsStands, ForgetsPassage
<1>9. CASE ClientUpgraded(h) \/ AgentUpgraded(h)
  BY <1>9, QuietSo DEF ClientUpgraded, AgentUpgraded, links, ends
<1> QED
  BY <1>4, <1>5, <1>6, <1>7, <1>8, <1>9 DEF HopSteps

\* The same of every step of an end.
LEMMA EndStands ==
  ASSUME PathTypeOK, PathTypeOK', Standing, NEW e \in End,
         EndSends(e) \/ EndReads(e) \/ EndCloses(e) \/ EndGoes(e)
  PROVE  Standing' /\ Grows /\ \A w \in Dir : Passage(w)
<1>1. CASE EndSends(e)
  <2>1. Standing' /\ Grows
    BY <1>1, EndSendsStands
  <2> QED
    BY <1>1, <2>1, GrowsStaysOver, EndSendsPassage
<1>2. CASE EndReads(e)
  BY <1>2, EndReadsStands, EndReadsPassage
<1>3. CASE EndCloses(e) \/ EndGoes(e)
  BY <1>3, EndGoesSo, LossesStand, LosesPassage
<1> QED
  BY <1>1, <1>2, <1>3

\* The same of every step of the path.
LEMMA PathStands ==
  ASSUME PathTypeOK, PathTypeOK', Standing, [PathNext]_path
  PROVE  Standing' /\ Grows /\ \A w \in Dir : Passage(w)
<1>1. CASE UNCHANGED path
  BY <1>1, QuietSo DEF path, links, hops, ends
<1> QED
  BY <1>1, HopStands, EndStands DEF PathNext

-----------------------------------------------------------------------------
(* The invariant.                                                          *)

\* At first all the bytes are still to be sent.
LEMMA PathInitInv == PathInit => PathIInv
<1> SUFFICES ASSUME PathInit PROVE PathIInv
  OBVIOUS
<1>1. PathTypeOK
  BY PathTypeInit
<1>2. /\ \A l \in Link, d \in Dir : wire[l][d] = <<>> /\ ~ended[l][d] /\ ~deaf[l][d]
      /\ \A h \in Hop, d \in Dir : held[h][d] = <<>>
      /\ \A e \in End : sent[e] = 0 /\ got[e] = <<>>
      /\ ~torn
  BY DEF PathInit, torn
<1>3. Standing
  BY <1>2 DEF Standing
<1>4. ASSUME NEW d \in Dir
      PROVE  /\ InLine(carried(d), stage(d)) /\ Within(carried(d), Bytes[Sender(d)])
             /\ AllThere(carried(d), Bytes[Sender(d)])
  <2> DEFINE c == carried(d)  r == stage(d)  n == Bytes[Sender(d)]  p == <<"start", 0>>
  <2>1. n \in Nat /\ IsCarried(d) /\ ~tornWay(d) /\ p \in Place /\ r \in [Place -> Int]
    BY <1>1, <1>2, Whom, BoundsAssumption, Carries, PlacesAre, StagesAre DEF tornWay
  <2>2. c[p] = [i \in 1 .. n |-> i]
    <3>1. c[p] = toSend(0, n) /\ n - 0 = n
      BY <1>2, <2>1, Whom DEF IsCarried
    <3> HIDE DEF n, c
    <3> QED
      BY <2>1, <3>1 DEF toSend
  <2>3. \A x \in Place : x # p => c[x] = <<>>
    <3> SUFFICES ASSUME NEW x \in Place, x # p PROVE c[x] = <<>>
      OBVIOUS
    <3>1. CASE x = <<"end", 0>>
      BY <1>1, <1>2, <2>1, <3>1, IntactNow, Whom DEF IsCarried
    <3>2. CASE x # <<"end", 0>>
      BY <1>1, <1>2, <2>1, <3>2, PlacesAre DEF IsCarried
    <3> QED
      BY <3>1, <3>2
  <2>4. c \in [Place -> Seq(Nat)]
    BY <2>1 DEF IsCarried
  <2> HIDE DEF c, r, n, p
  <2>5. DOMAIN c = Place /\ DOMAIN c[p] = 1 .. n /\ \A x \in Place : x # p => DOMAIN c[x] = {}
    BY <2>2, <2>3, <2>4
  <2>6. InLine(c, r)
    <3> SUFFICES ASSUME NEW x \in Place, NEW y \in Place, NEW i \in DOMAIN c[x], NEW j \in DOMAIN c[y],
                        r[x] > r[y] \/ (x = y /\ i < j)
                 PROVE  c[x][i] < c[y][j]
      BY <2>5 DEF InLine
    <3>1. x = p /\ y = p /\ i \in 1 .. n /\ j \in 1 .. n
      BY <2>5
    <3>2. r[p] \in Int
      BY <2>1
    <3>3. i < j
      BY <3>1, <3>2
    <3> QED
      BY <2>2, <3>1, <3>3
  <2>7. Within(c, n)
    BY <2>2, <2>5 DEF Within
  <2>8. AllThere(c, n)
    BY <2>1, <2>2, <2>5 DEF AllThere
  <2> QED
    BY <2>6, <2>7, <2>8 DEF c, r, n
<1> QED
  BY <1>1, <1>3, <1>4 DEF PathIInv

\* Every step keeps the invariant.
LEMMA PathNextInv == PathIInv /\ [PathNext]_path => PathIInv'
<1> SUFFICES ASSUME PathIInv, [PathNext]_path PROVE PathIInv'
  OBVIOUS
<1>1. PathTypeOK /\ Standing /\ \A d \in Dir : InWay(d)
  BY DEF PathIInv, InWay
<1>2. PathTypeOK'
  BY <1>1, PathTypeStep
<1>3. Standing' /\ Grows /\ \A w \in Dir : Passage(w)
  BY <1>1, <1>2, PathStands
<1>4. row' = row /\ (isOver => isOver')
  BY <1>1, <1>3, GrowsStaysOver DEF Grows
<1>5. \A d \in Dir : InWay(d)'
  BY <1>1, <1>2, <1>3, <1>4, PassageKeeps
<1> QED
  BY <1>2, <1>3, <1>5 DEF PathIInv, InWay

\* On any row of hops every byte is where it belongs: in order along its way, and all of
\* them there while the connection stands.
THEOREM PathInductive == PathSpec => []PathIInv
<1> QED
  BY PathInitInv, PathNextInv, PTL DEF PathSpec

-----------------------------------------------------------------------------
(* The steps of the path are steps of the promise.                         *)

final(s) == IF s = <<>> THEN 0 ELSE s[Len(s)]
Farthest(P, r, q) == \A z \in P : r[z] <= r[q]

\* Next after the last element of q comes the first of p, the neighbour behind it.
LEMMA NextByte ==
  ASSUME NEW P, NEW r \in [P -> Int], NEW c \in [P -> Seq(Nat)], NEW n \in Nat,
         NEW p \in P, NEW q \in P, Neighbours(P, r, p, q), Farthest(P, r, q),
         InLine(c, r), Within(c, n), c[p] # <<>>
  PROVE  c[p][1] \in 1 .. n /\ final(c[q]) \in Nat /\ final(c[q]) < c[p][1]
<1> DEFINE b == final(c[q])
<1>3. b = IF c[q] = <<>> THEN 0 ELSE c[q][Len(c[q])]
  BY DEF final
<1> HIDE DEF b
<1>0. /\ DOMAIN c = P /\ \A x \in P : Len(c[x]) \in Nat /\ DOMAIN c[x] = 1 .. Len(c[x])
      /\ r[p] < r[q] /\ p # q /\ \A x \in P : r[x] \in Int
      /\ \A x \in P : c[x] = <<>> <=> Len(c[x]) = 0
  <2>1. \A x \in P : c[x] \in Seq(Nat)
    OBVIOUS
  <2>2. \A x \in P : c[x] = <<>> <=> Len(c[x]) = 0
    BY <2>1, EmptySeq
  <2> QED
    BY <2>2, RowDomains DEF Neighbours
<1>1. 1 \in DOMAIN c[p] /\ c[p][1] \in 1 .. n
  BY <1>0 DEF Within
<1>2. b \in Nat /\ b < c[p][1]
  <2>1. CASE c[q] = <<>>
    BY <1>0, <1>1, <1>3, <2>1
  <2>2. CASE c[q] # <<>>
    <3>1. Len(c[q]) \in DOMAIN c[q] /\ b = c[q][Len(c[q])] /\ b \in Nat
      BY <1>0, <1>3, <2>2 DEF Within
    <3>2. b < c[p][1]
      BY <1>0, <1>1, <3>1 DEF InLine
    <3> QED
      BY <3>1, <3>2
  <2> QED
    BY <2>1, <2>2
<1> QED
  BY <1>1, <1>2 DEF b

\* When all bytes are there none lies between.
LEMMA NextByteThere ==
  ASSUME NEW P, NEW r \in [P -> Int], NEW c \in [P -> Seq(Nat)], NEW n \in Nat,
         NEW p \in P, NEW q \in P, Neighbours(P, r, p, q), Farthest(P, r, q),
         InLine(c, r), Within(c, n), c[p] # <<>>, AllThere(c, n)
  PROVE  c[p][1] = final(c[q]) + 1
<1> DEFINE b == final(c[q])
<1>0. /\ DOMAIN c = P /\ \A x \in P : Len(c[x]) \in Nat /\ DOMAIN c[x] = 1 .. Len(c[x])
      /\ r[p] < r[q] /\ p # q /\ \A x \in P : r[x] \in Int
      /\ \A x \in P : c[x] = <<>> <=> Len(c[x]) = 0
  <2>1. \A x \in P : c[x] \in Seq(Nat)
    OBVIOUS
  <2>2. \A x \in P : c[x] = <<>> <=> Len(c[x]) = 0
    BY <2>1, EmptySeq
  <2> QED
    BY <2>2, RowDomains DEF Neighbours
<1>1. 1 \in DOMAIN c[p] /\ c[p][1] \in 1 .. n /\ b \in Nat /\ b < c[p][1]
  <2>1. c[p][1] \in 1 .. n /\ final(c[q]) \in Nat /\ final(c[q]) < c[p][1]
    BY NextByte
  <2> QED
    BY <1>0, <2>1
<1>2. ASSUME NEW i \in DOMAIN c[q] PROVE c[q][i] <= b
  <2>1. /\ i \in 1 .. Len(c[q]) /\ Len(c[q]) \in Nat /\ c[q][i] \in Nat /\ Len(c[q]) \in DOMAIN c[q]
        /\ b = c[q][Len(c[q])]
    BY <1>0 DEF Within, final
  <2> HIDE DEF b
  <2>2. CASE i = Len(c[q])
    BY <2>1, <2>2
  <2>3. CASE i < Len(c[q])
    <3>1. c[q][i] < b
      BY <1>0, <2>1, <2>3 DEF InLine
    <3> QED
      BY <1>1, <2>1, <3>1
  <2> QED
    BY <2>1, <2>2, <2>3
<1> HIDE DEF b
<1>3. ASSUME c[p][1] # b + 1 PROVE FALSE
  <2>1. b + 1 \in 1 .. n /\ b + 1 < c[p][1]
    BY <1>1, <1>2, <1>3
  <2>2. PICK x \in P : \E i \in DOMAIN c[x] : c[x][i] = b + 1
    BY <1>0, <2>1 DEF AllThere
  <2>3. PICK i \in DOMAIN c[x] : c[x][i] = b + 1
    BY <2>2
  <2>4. x # q
    BY <1>1, <1>2, <2>3
  <2>5. x # p
    <3>1. ASSUME x = p, i # 1 PROVE c[p][1] < c[p][i]
      <4>1. i \in 1 .. Len(c[p]) /\ 1 < i
        BY <1>0, <2>3, <3>1
      <4> QED
        BY <1>0, <1>1, <4>1 DEF InLine
    <3> QED
      BY <1>1, <1>2, <2>1, <2>3, <3>1
  <2>6. r[x] < r[p]
    BY <1>0, <2>4, <2>5 DEF Neighbours, Farthest
  <2>7. c[p][1] < c[x][i]
    BY <1>0, <1>1, <2>6 DEF InLine
  <2> QED
    BY <1>1, <1>2, <2>1, <2>3, <2>7
<1> QED
  BY <1>3 DEF b

\* What is under way has been sent.
LEMMA OnTheWay ==
  ASSUME PathIInv, NEW d \in Dir, NEW x \in Place, stage(d)[x] > 0, NEW i \in DOMAIN carried(d)[x]
  PROVE  carried(d)[x][i] <= sent[Sender(d)]
<1> DEFINE c == carried(d)  a == sent[Sender(d)]  n == Bytes[Sender(d)]  p == <<"start", 0>>
<1>1. /\ a \in Nat /\ n \in Nat /\ a <= n /\ IsCarried(d) /\ p \in Place /\ stage(d)[p] = 0
      /\ InLine(c, stage(d)) /\ Within(c, n)
  BY Whom, BoundsAssumption, Carries, PlacesAre, StagesAre DEF PathIInv, PathTypeOK
<1>2. c \in [Place -> Seq(Nat)] /\ c[p] = [j \in 1 .. n - a |-> a + j]
  BY <1>1 DEF IsCarried, toSend
<1> HIDE DEF c, a, n, p
<1>3. c[x][i] \in 1 .. n /\ i \in DOMAIN c[x]
  BY <1>1, <1>2 DEF Within, c
<1>4. ASSUME c[x][i] > a PROVE FALSE
  <2>1. c[x][i] - a \in 1 .. n - a
    BY <1>1, <1>3, <1>4
  <2>2. c[p][c[x][i] - a] = c[x][i] /\ c[x][i] - a \in DOMAIN c[p]
    BY <1>1, <1>2, <1>3, <2>1
  <2>3. c[x][i] < c[p][c[x][i] - a]
    BY <1>1, <1>2, <1>3, <2>2 DEF InLine
  <2> QED
    BY <1>3, <2>2, <2>3
<1> QED
  BY <1>1, <1>3, <1>4 DEF c, a

\* The path begins as the promise does.
LEMMA InitPromises == PathInit => Promise!StreamInit
<1> SUFFICES ASSUME PathInit PROVE Promise!StreamInit
  OBVIOUS
<1>1. PathTypeOK /\ ~torn /\ sent = [e \in End |-> 0] /\ got = [e \in End |-> <<>>]
  BY PathTypeInit DEF PathInit, torn
<1>2. intact = [e \in End |-> <<>>]
  BY <1>1 DEF intact, End
<1>3. isOver = FALSE
  BY <1>1, Shape, Ways DEF PathInit, isOver, closedBy
<1> QED
  BY <1>1, <1>2, <1>3 DEF Promise!StreamInit

\* A message that is torn leaves what the browser has read as it is.
LEMMA IntactKept ==
  ASSUME PathTypeOK, PathTypeOK', got' = got,
         good' = good \/ (~torn /\ good' \in Nat /\ good' >= Len(got["user"]))
  PROVE  intact' = intact
<1>1. CASE good' = good
  BY <1>1, IntactSame
<1>2. CASE ~torn /\ good' \in Nat /\ good' >= Len(got["user"])
  <2>1. got["user"] \in Seq(Nat)
    BY DEF PathTypeOK, End
  <2>2. upTo(got["user"], good') = got["user"]
    BY <1>2, <2>1, UpTo
  <2> QED
    BY <1>2, <2>2 DEF intact, torn
<1> QED
  BY <1>1, <1>2

\* The hops touch neither what is sent nor what is read.
LEMMA HopKeepsEnds ==
  ASSUME PathTypeOK, PathTypeOK', NEW h \in Hop, HopSteps(h) \/ UpgradeFails(h)
  PROVE  sent' = sent /\ intact' = intact
<1>1. UNCHANGED <<sent, got>>
  BY DEF HopSteps, UpgradeFails, CopyReads, CopyWrites, CopiedSome, CopiedNothing, TakesMessage,
         SendsMessage, StreamEnds, PushesAll, PushesSome, Forgets, WriteFails, ReadFails,
         ClientUpgraded, AgentUpgraded, Returns, ends
<1>2. CASE PushesSome(h) \/ Forgets(h)
  <2>1. torn => good' = good
    BY <1>2 DEF PushesSome, Forgets
  <2>2. ASSUME ~torn PROVE good' \in Nat /\ good' >= Len(got["user"])
    <3>1. \E k \in Nat : good' = written + k
      <4>1. CASE Forgets(h)
        <5>1. good' = written /\ written \in Nat
          BY <2>2, <4>1, CountsWritten DEF Forgets
        <5>2. good' = written + 0
          BY ONLY <5>1
        <5> QED
          BY <5>2
      <4>2. CASE PushesSome(h)
        <5> DEFINE k == Room(Out(h, "left"), "left")
        <5>1. k \in 1 .. Len(held[h]["left"]) - 1 /\ good' = written + k
          BY <2>2, <4>2 DEF PushesSome
        <5> HIDE DEF k
        <5> QED
          BY <5>1
      <4> QED
        BY <1>2, <4>1, <4>2
    <3> DEFINE a == Len(got["user"])  b == Len(wire[0]["left"])
    <3>2. a \in Nat /\ b \in Nat /\ written = a + b
      <4>1. 0 \in Link /\ "left" \in Dir /\ "user" \in End
        BY Shape DEF End, Dir
      <4>2. wire[0]["left"] \in Seq(Nat) /\ got["user"] \in Seq(Nat)
        BY <4>1 DEF PathTypeOK
      <4> QED
        BY <4>2 DEF written
    <3> HIDE DEF a, b
    <3>3. good' \in Nat /\ good' >= a
      BY <3>1, <3>2
    <3> QED
      BY <3>3 DEF a
  <2> QED
    BY <1>1, <2>1, <2>2, IntactKept
<1>3. CASE ~(PushesSome(h) \/ Forgets(h))
  <2>1. good' = good
    BY <1>3 DEF HopSteps, UpgradeFails, CopyReads, CopyWrites, CopiedSome, CopiedNothing, TakesMessage,
         SendsMessage, StreamEnds, PushesAll, WriteFails, ReadFails,
         ClientUpgraded, AgentUpgraded, Returns, ends
  <2> QED
    BY <1>1, <2>1, IntactSame
<1> QED
  BY <1>2, <1>3

\* What the reading of an end adds to what it has intact: the first byte of its link, or,
\* beyond the intact part, nothing.
LEMMA ReadingAdds ==
  ASSUME PathTypeOK, PathTypeOK', NEW e \in End, EndReads(e),
         NEW d, d = Other(Sends(e)), NEW p, p = <<"link", LinkOf(e)>>
  PROVE  \/ /\ carried(d)[p] # <<>>
            /\ intact' = [intact EXCEPT ![e] = Append(@, carried(d)[p][1])]
         \/ intact' = intact /\ torn
<1> DEFINE b == LinkOf(e)  c == carried(d)  s == wire[b][d]  t == got[e]  n == good - Len(t)
<1>1. /\ d \in Dir /\ b \in Link /\ (e = "user" <=> d = "left") /\ (e = "user" => b = 0)
      /\ IsCarried(d) /\ \A f \in End : f # e => (f = "user" <=> e # "user")
  BY Ways, Shape, Carries DEF LinkOf, Sends, End, Dir
<1>2. s \in Seq(Nat) /\ t \in Seq(Nat) /\ s # <<>> /\ Len(t) \in Nat
  BY <1>1 DEF EndReads, PathTypeOK
<1>3. /\ UNCHANGED <<row, good>> /\ (torn' <=> torn) /\ got' = [got EXCEPT ![e] = Append(t, Head(s))]
      /\ got \in [End -> Seq(Nat)] /\ got' \in [End -> Seq(Nat)]
  BY DEF EndReads, torn, PathTypeOK
<1>4. /\ intact = [got EXCEPT !["user"] = IF torn THEN upTo(@, good) ELSE @]
      /\ intact' = [got' EXCEPT !["user"] = IF torn THEN upTo(@, good) ELSE @]
  BY <1>3 DEF intact, torn
<1>5. /\ Head(s) = s[1] /\ Len(s) \in Nat \ {0} /\ Append(t, Head(s)) \in Seq(Nat)
      /\ Len(Append(t, Head(s))) = Len(t) + 1
      /\ \A i \in 1 .. Len(t) : Append(t, Head(s))[i] = t[i]
  <2> HIDE DEF s, t
  <2> QED
    BY <1>2, HeadAndTail, AppendProperties
<1>6. CASE ~tornWay(d)
  <2>1. c[p] = s /\ c[p] # <<>> /\ c[p][1] = Head(s)
    BY <1>1, <1>2, <1>5, <1>6 DEF IsCarried
  <2>2. intact[e] = t
    BY <1>1, <1>3, <1>4, <1>6 DEF tornWay, End
  <2>3. intact' = [intact EXCEPT ![e] = Append(t, Head(s))]
    <3> HIDE DEF s, t
    <3> QED
      BY <1>1, <1>3, <1>4, <1>6 DEF tornWay, End
  <2> QED
    BY <2>1, <2>2, <2>3
<1>7. CASE tornWay(d) /\ n >= 1
  <2>1. e = "user" /\ torn /\ good \in Int /\ good >= Len(t) /\ good >= Len(t) + 1 /\ n \in Int
    <3>1. e = "user" /\ torn /\ good \in Nat
      BY <1>1, <1>7 DEF tornWay, torn, PathTypeOK
    <3> DEFINE a == Len(t)
    <3>2. a \in Nat /\ good - a >= 1
      BY <1>2, <1>7
    <3> HIDE DEF a
    <3>3. good >= a /\ good >= a + 1 /\ good - a \in Int
      BY <3>1, <3>2
    <3> QED
      BY <3>1, <3>3 DEF a
  <2>2. upTo(t, good) = t /\ upTo(Append(t, Head(s)), good) = Append(t, Head(s))
    <3> DEFINE r == Append(t, Head(s))
    <3>1. r \in Seq(Nat) /\ good >= Len(r)
      BY <1>5, <2>1
    <3> HIDE DEF s, t, r
    <3>2. upTo(t, good) = t
      BY <1>2, <2>1, UpTo
    <3>3. upTo(r, good) = r
      BY <2>1, <3>1, UpTo
    <3> QED
      BY <3>2, <3>3 DEF r
  <2>3. c[p] = upTo(s, n)
    BY <1>1, <1>7, <2>1 DEF IsCarried
  <2>4. upTo(s, n) # <<>> /\ upTo(s, n)[1] = s[1]
    <3> DEFINE u == upTo(s, n)
    <3>1. /\ u \in Seq(Nat) /\ Len(u) = IF n >= Len(s) THEN Len(s) ELSE IF n >= 0 THEN n ELSE 0
          /\ \A i \in 1 .. Len(u) : u[i] = s[i]
      <4> HIDE DEF s, n
      <4> QED
        BY <1>2, <2>1, UpTo
    <3>2. Len(u) \in Nat \ {0}
      <4> DEFINE z == Len(s)
      <4>1. z \in Nat \ {0} /\ n \in Int /\ n >= 1 /\ Len(u) = IF n >= z THEN z ELSE IF n >= 0 THEN n ELSE 0
        BY <1>5, <1>7, <2>1, <3>1
      <4> HIDE DEF z, u, n
      <4> QED
        BY ONLY <4>1
    <3> HIDE DEF u, s
    <3>3. 1 \in 1 .. Len(u) /\ u # <<>>
      BY <3>1, <3>2
    <3> QED
      BY <3>1, <3>3 DEF u
  <2>5. intact' = [intact EXCEPT ![e] = Append(t, Head(s))] /\ intact[e] = t
    <3> HIDE DEF s, t
    <3>1. intact["user"] = upTo(got["user"], good) /\ t = got["user"]
      BY <1>3, <1>4, <2>1 DEF End, t
    <3>2. got'["user"] = Append(t, Head(s))
      BY <1>3, <2>1 DEF End
    <3>3. intact' = [got' EXCEPT !["user"] = Append(t, Head(s))]
      BY <1>4, <2>1, <2>2, <3>2
    <3>4. intact = [got EXCEPT !["user"] = t]
      BY <1>4, <2>1, <2>2, <3>1
    <3> QED
      BY <1>3, <2>1, <2>2, <3>1, <3>3, <3>4
  <2> QED
    BY <1>5, <2>3, <2>4, <2>5
<1>8. CASE tornWay(d) /\ ~(n >= 1)
  <2>1. e = "user" /\ torn /\ good \in Int /\ good <= Len(t)
    <3>1. e = "user" /\ torn /\ good \in Nat
      BY <1>1, <1>8 DEF tornWay, torn, PathTypeOK
    <3> DEFINE a == Len(t)
    <3>2. a \in Nat /\ ~(good - a >= 1)
      BY <1>2, <1>8
    <3> HIDE DEF a
    <3>3. good <= a
      BY <3>1, <3>2
    <3> QED
      BY <3>1, <3>3 DEF a
  <2>2. upTo(Append(t, Head(s)), good) = upTo(t, good)
    <3> DEFINE r == Append(t, Head(s))
    <3>1. r \in Seq(Nat) /\ Len(r) >= Len(t) /\ \A i \in 1 .. Len(t) : r[i] = t[i]
      BY <1>2, <1>5
    <3> HIDE DEF s, t, r
    <3>2. upTo(r, good) = upTo(t, good)
      BY <1>2, <2>1, <3>1, BeyondIntact
    <3> QED
      BY <3>2 DEF r
  <2>3. got'["user"] = Append(t, Head(s)) /\ got["user"] = t
    BY <1>3, <2>1 DEF End
  <2>4. intact' = [got' EXCEPT !["user"] = upTo(t, good)] /\ intact = [got EXCEPT !["user"] = upTo(t, good)]
    BY <1>4, <2>1, <2>2, <2>3
  <2>5. intact' = intact
    <3> HIDE DEF s, t
    <3> QED
      BY <1>3, <2>1, <2>4
  <2> QED
    BY <2>1, <2>5
<1> QED
  BY <1>6, <1>7, <1>8

\* An end that reads takes the next byte of the other, or a later one when the connection is
\* over.
LEMMA ReadingPromises ==
  ASSUME PathIInv, PathTypeOK', NEW e \in End, EndReads(e)
  PROVE  [Promise!StreamNext]_(Promise!stream)
<1> DEFINE d == Other(Sends(e))  p == <<"link", LinkOf(e)>>  q == <<"end", 0>>
           c == carried(d)  f == Sender(d)  b == Promise!last(e)
<1>1. /\ PathTypeOK /\ d \in Dir /\ LinkOf(e) \in Link /\ Receiver(d) = e
      /\ f \in End \ {e} /\ IsCarried(d)
  <2>1. d \in Dir /\ Receiver(d) = e /\ f \in End \ {e}
    BY Ways DEF Sends, Receiver, Sender, End
  <2> QED
    BY <2>1, Shape, Carries DEF PathIInv
<1>2. UNCHANGED sent /\ isOver' = isOver
  BY DEF EndReads, isOver, closedBy, torn, LinkOf
<1>3. CASE intact' = intact
  BY <1>2, <1>3 DEF Promise!stream
<1>4. CASE c[p] # <<>> /\ intact' = [intact EXCEPT ![e] = Append(@, c[p][1])]
  <2>1. /\ adjacent(d, p, q) /\ p \in Place /\ q \in Place
        /\ stage(d) \in [Place -> Int] /\ \A z \in Place : stage(d)[z] <= stage(d)[q]
    <3>1. adjacent(d, p, q) /\ p \in Place /\ q \in Place /\ stage(d) \in [Place -> Int]
      BY <1>1, Adjacent, PlacesAre, StagesAre
    <3>2. \A z \in Place : stage(d)[z] <= stage(d)[q]
      <4>1. /\ stage(d)[q] = 2 * Len(row) + 2 /\ stage(d)[<<"start", 0>>] = 0
            /\ \A l \in Link : stage(d)[<<"link", l>>] <= 2 * Len(row) + 2
            /\ \A h \in Hop : stage(d)[<<"hop", h>>] <= 2 * Len(row) + 2
        BY <1>1, StagesAre, Shape
      <4>2. Len(row) \in Nat
        BY <1>1, Shape
      <4> SUFFICES ASSUME NEW z \in Place PROVE stage(d)[z] <= stage(d)[q]
        OBVIOUS
      <4>3. CASE z = <<"start", 0>> \/ z = q
        BY <4>1, <4>2, <4>3
      <4>4. CASE \E l \in Link : z = <<"link", l>>
        BY <4>1, <4>4
      <4>5. CASE \E h \in Hop : z = <<"hop", h>>
        BY <4>1, <4>5
      <4> QED
        BY <1>1, <4>3, <4>4, <4>5, PlacesAre
    <3> QED
      BY <3>1, <3>2
  <2>2. /\ c \in [Place -> Seq(Nat)] /\ InLine(c, stage(d)) /\ Bytes[f] \in Nat /\ Within(c, Bytes[f])
        /\ ~isOver => AllThere(c, Bytes[f])
    BY <1>1, BoundsAssumption DEF PathIInv, IsCarried
  <2>3. b = final(c[q])
    BY <1>1 DEF Promise!last, IsCarried, final
  <2>4. c[p][1] \in Nat /\ b \in Nat /\ b < c[p][1] /\ (AllThere(c, Bytes[f]) => c[p][1] = b + 1)
    <3> DEFINE r == stage(d)  n == Bytes[f]
    <3>1. /\ Neighbours(Place, r, p, q) /\ Farthest(Place, r, q)
          /\ r \in [Place -> Int] /\ c \in [Place -> Seq(Nat)] /\ n \in Nat
          /\ p \in Place /\ q \in Place /\ InLine(c, r) /\ Within(c, n) /\ c[p] # <<>>
      BY <1>4, <2>1, <2>2 DEF adjacent, Farthest
    <3> HIDE DEF c, p, q, b, r, n
    <3>2. /\ c[p][1] \in 1 .. n /\ final(c[q]) \in Nat /\ final(c[q]) < c[p][1]
          /\ AllThere(c, n) => c[p][1] = final(c[q]) + 1
      <4>1. CASE AllThere(c, n)
        BY ONLY <3>1, <4>1, NextByte, NextByteThere, ZenonT(30)
      <4>2. CASE ~AllThere(c, n)
        BY ONLY <3>1, <4>2, NextByte
      <4> QED
        BY <4>1, <4>2
    <3>3. c[p][1] \in 1 .. n /\ b \in Nat /\ b < c[p][1] /\ (AllThere(c, n) => c[p][1] = b + 1)
      BY <2>3, <3>2
    <3> QED
      BY <2>2, <3>3 DEF n
  <2>5. c[p][1] <= sent[f]
    <3>1. stage(d)[p] > 0
      BY <1>1, StagesAre, Shape
    <3>2. 1 \in DOMAIN c[p]
      <4>1. c[p] \in Seq(Nat)
        BY <2>1, <2>2
      <4> HIDE DEF c, p
      <4> QED
        BY <1>4, <4>1
    <3> HIDE DEF p
    <3> QED
      BY <1>1, <2>1, <3>1, <3>2, OnTheWay
  <2>6. sent[f] \in Nat
    BY <1>1 DEF PathTypeOK
  <2>7. Promise!Receive(e, c[p][1])
    BY <1>2, <1>4 DEF Promise!Receive
  <2> HIDE DEF c, p, q, b, f
  <2>8. CASE isOver
    <3>1. c[p][1] \in b + 1 .. sent[f]
      BY <2>4, <2>5, <2>6
    <3>2. Promise!DeliverLater(e)
      BY <1>1, <2>7, <2>8, <3>1 DEF Promise!DeliverLater, b
    <3> QED
      BY <3>2 DEF Promise!StreamNext
  <2>9. CASE ~isOver
    <3>1. c[p][1] = b + 1 /\ b < sent[f]
      BY <2>2, <2>4, <2>5, <2>6, <2>9
    <3>2. Promise!Deliver(e)
      BY <1>1, <2>7, <3>1 DEF Promise!Deliver, b
    <3> QED
      BY <3>2 DEF Promise!StreamNext
  <2> QED
    BY <2>8, <2>9
<1> QED
  BY <1>1, <1>3, <1>4, ReadingAdds

\* An end that sends does so in the promise.
LEMMA SendingPromises ==
  ASSUME NEW e \in End, EndSends(e)
  PROVE  [Promise!StreamNext]_(Promise!stream)
<1>1. isOver' = isOver /\ intact' = intact
  BY IntactSame DEF EndSends, isOver, closedBy, torn, LinkOf
<1>2. Promise!Send(e)
  BY <1>1 DEF EndSends, Promise!Send
<1> QED
  BY <1>2 DEF Promise!StreamNext

\* Steps that neither send nor read go unseen, or are the end of the connection.
LEMMA OthersPromise ==
  ASSUME PathTypeOK, Grows, sent' = sent, intact' = intact
  PROVE  [Promise!StreamNext]_(Promise!stream)
<1>1. isOver \in BOOLEAN /\ isOver' \in BOOLEAN /\ (isOver => isOver')
  BY GrowsStaysOver DEF isOver, PathTypeOK
<1>2. CASE ~isOver /\ isOver'
  BY <1>1, <1>2 DEF Promise!Finish, Promise!StreamNext
<1>3. CASE isOver' = isOver
  BY <1>3 DEF Promise!stream
<1> QED
  BY <1>1, <1>2, <1>3

\* Every step of the path is one of the promise, or goes unseen.
LEMMA NextPromises == PathIInv /\ [PathNext]_path => [Promise!StreamNext]_(Promise!stream)
<1> SUFFICES ASSUME PathIInv, [PathNext]_path PROVE [Promise!StreamNext]_(Promise!stream)
  OBVIOUS
<1>1. PathTypeOK /\ PathTypeOK' /\ Standing
  BY PathTypeStep DEF PathIInv
<1>2. Grows
  BY <1>1, PathStands
<1>3. CASE UNCHANGED path
  <2>1. sent' = sent /\ intact' = intact
    BY <1>3, IntactSame DEF path, ends
  <2> QED
    BY <1>1, <1>2, <2>1, OthersPromise
<1>4. ASSUME NEW h \in Hop, HopSteps(h) \/ UpgradeFails(h)
      PROVE  [Promise!StreamNext]_(Promise!stream)
  BY <1>1, <1>2, <1>4, HopKeepsEnds, OthersPromise
<1>5. ASSUME NEW e \in End, EndCloses(e) \/ EndGoes(e)
      PROVE  [Promise!StreamNext]_(Promise!stream)
  <2>1. sent' = sent /\ intact' = intact
    BY <1>5, IntactSame DEF EndCloses, EndGoes, ends
  <2> QED
    BY <1>1, <1>2, <2>1, OthersPromise
<1> QED
  BY <1>1, <1>3, <1>4, <1>5, SendingPromises, ReadingPromises DEF PathNext

\* Whatever the row of forwarding tasks between them, the two ends see the steps of a
\* two-way stream: nothing lost, repeated or out of order while the connection stands, and
\* nothing repeated or out of order after it (of a browser's bytes, as far as they are intact).
THEOREM PathKeepsPromise == PathSpec => TwoWaySafe
<1> QED
  BY PathInductive, InitPromises, NextPromises, PTL DEF PathSpec, TwoWaySafe

=============================================================================
