--------------------------- MODULE DualLink_proofs ---------------------------
(* Between the two chips messages arrive whole and in order and only restarts *)
(* lose any, for every set of messages, every size of the buffers and of the  *)
(* line, and any number of restarts.                                          *)
EXTENDS DualLink, FiniteSetTheorems, SequenceTheorems, TLAPS

-----------------------------------------------------------------------------
(* The invariant, of the way from each chip and the reader at its end.       *)

IsPlace(e) == e.at <= Len(e.of.message) + 1 /\ (e.half => Escapes(e.of, e.at))

\* What is on the way is of messages that are expected, which are all different.
Valid(c) ==
  /\ \A i \in DOMAIN Way(c) : \E p \in DOMAIN expected[c] : expected[c][p] = Way(c)[i].of
  /\ \A i \in DOMAIN Way(c) : IsPlace(Way(c)[i])
  /\ \A p \in DOMAIN expected[c] : expected[c][p].message \in Messages[c]
  /\ \A p, q \in DOMAIN expected[c] : expected[c][p] = expected[c][q] => p = q

\* The messages are in the order they are expected in.
Ordered(c) ==
  \A i, j \in DOMAIN Way(c), p, q \in DOMAIN expected[c] :
    i < j /\ expected[c][p] = Way(c)[i].of /\ expected[c][q] = Way(c)[j].of =>
      p <= q /\ (Way(c)[j].at = 0 => p < q)

\* Only a message that is at risk is cut in two, and one that begins behind a cut
\* in an escape is at risk as well.
Follows(risky, d, e) ==
  \/ ~Ends(d) /\ e = Behind(d)
  \/ /\ e.at = 0
     /\ Ends(d) \/ d.of \in risky
     /\ d.half => e.of \in risky
Chained(c) == \A i \in 1 .. Len(Way(c)) - 1 : Follows(atRisk[c], Way(c)[i], Way(c)[i + 1])

\* So is one that is still to be written there.
Closed(c) ==
  unwritten[c] = << >> =>
    IF Way(c) = << >> THEN escaped[Other(c)] => spoilt[c]
    ELSE LET d == Way(c)[Len(Way(c))] IN
         /\ Ends(d) \/ d.of \in atRisk[c]
         /\ d.half => spoilt[c]

\* A message that is not at risk is on the way, be it with its end only.
Covered(c) ==
  \A p \in DOMAIN expected[c] :
    expected[c][p] \in atRisk[c] \/ \E i \in DOMAIN Way(c) : Way(c)[i].of = expected[c][p]

\* What has been gathered begins with a message that none on the way is older than.
Begun(c) ==
  IF bytes[Other(c)] = << >> THEN first[Other(c)] = NoFrame
  ELSE \E k \in DOMAIN expected[c] :
         /\ expected[c][k] = first[Other(c)]
         /\ \A i \in DOMAIN Way(c), q \in DOMAIN expected[c] :
              expected[c][q] = Way(c)[i].of => k <= q /\ (Way(c)[i].at = 0 => k < q)

\* The reader has gathered all of a message but what begins with place e.
InStep(r, e) ==
  /\ bytes[r] = SubSeq(e.of.message, 1, e.at - 1)
  /\ escaped[r] = (~e.half /\ Escapes(e.of, e.at))
  /\ e.at > 1 => first[r] = e.of

\* It is ready for what comes next, unless that is at risk.
Awaited(c) ==
  Way(c) # << >> =>
    LET e == Way(c)[1] IN
    \/ e.of \in atRisk[c]
    \/ e.at = 0 /\ ~escaped[Other(c)]
    \/ e.at > 0 /\ InStep(Other(c), e)

WayInv(c) == /\ Valid(c) /\ Ordered(c) /\ Chained(c) /\ Closed(c) /\ Covered(c)
             /\ Begun(c) /\ Awaited(c)

\* A chip that does not run has forgotten what it has read.
Asleep(c) == ~up[c] => bytes[c] = << >> /\ ~escaped[c]

LinkInv == LinkTypeOK /\ \A c \in Chips : WayInv(c) /\ Asleep(c)
-----------------------------------------------------------------------------
(* Chips, places and bytes.                                                 *)

LEMMA TwoChips ==
  /\ \A c \in Chips : Other(c) \in Chips /\ Other(c) # c /\ Other(Other(c)) = c
  /\ \A c, d \in Chips : d = c \/ d = Other(c)
<1>1. Other("A") = "B" /\ Other("B") = "A"  BY DEF Other, Chips
<1> QED  BY <1>1 DEF Chips

\* More ids than messages: one is free.
LEMMA SomeIdIsFree ==
  ASSUME NEW L \in Nat, NEW g \in [1 .. L + 1 -> 1 .. L]
  PROVE  \E x, y \in 1 .. L + 1 : x # y /\ g[x] = g[y]
<1> DEFINE S == 1 .. L + 1
           T == 1 .. L
<1>1. IsFiniteSet(S) /\ IsFiniteSet(T) /\ Cardinality(T) < Cardinality(S)
  BY FS_Interval
<1>2. g \in [S -> T]  OBVIOUS
<1>3. \E x, y \in S : x # y /\ g[x] = g[y]
  <2> HIDE DEF S, T
  <2> QED  BY <1>1, <1>2, FS_PigeonHole
<1> QED  BY <1>3

LEMMA FreeIdIsFree ==
  ASSUME LinkTypeOK, NEW c \in Chips
  PROVE  FreeId(c) \in Nat /\ \A i \in DOMAIN expected[c] : expected[c][i].id # FreeId(c)
<1> DEFINE L == Len(expected[c])
<1>0. L \in Nat /\ DOMAIN expected[c] = 1 .. L  BY DEF LinkTypeOK
<1>1. \E n \in 1 .. L + 1 : \A i \in DOMAIN expected[c] : expected[c][i].id # n
  <2> SUFFICES ASSUME \A n \in 1 .. L + 1 : \E i \in 1 .. L : expected[c][i].id = n
               PROVE  FALSE
    BY <1>0
  <2> DEFINE g == [n \in 1 .. L + 1 |-> CHOOSE i \in 1 .. L : expected[c][i].id = n]
  <2>1. \A n \in 1 .. L + 1 : g[n] \in 1 .. L /\ expected[c][g[n]].id = n  OBVIOUS
  <2>2. g \in [1 .. L + 1 -> 1 .. L]  BY <2>1
  <2> HIDE DEF g, L
  <2>3. \E x, y \in 1 .. L + 1 : x # y /\ g[x] = g[y]  BY <1>0, <2>2, SomeIdIsFree
  <2> QED  BY <2>1, <2>3
<1> QED  BY <1>0, <1>1 DEF FreeId

LEMMA PlaceType ==
  ASSUME NEW f \in Frames, NEW k \in Nat
  PROVE  /\ Place(f, k) \in Places
         /\ Place(f, k).half => Escapes(f, k)
BY DEF Place, Places, Escapes

LEMMA BehindType ==
  ASSUME NEW e \in Places, ~Ends(e), e.at <= Len(e.of.message) + 1,
         e.half => Escapes(e.of, e.at)
  PROVE  /\ Behind(e) \in Places /\ Behind(e).of = e.of
         /\ Behind(e).at > 0 /\ Behind(e).at <= Len(e.of.message) + 1
         /\ e.half => Behind(e).at = e.at /\ ~Behind(e).half
         /\ ~e.half => Behind(e) = Place(e.of, e.at + 1)
         /\ Behind(e).half => Escapes(e.of, Behind(e).at)
<1>1. Len(e.of.message) \in Nat /\ e.of \in Frames /\ e.at \in Nat  BY DEF Places, Frames
<1>2. CASE e.half
  <2>1. Behind(e) = [of |-> e.of, at |-> e.at, half |-> FALSE]
    BY <1>2 DEF Behind, Places
  <2> QED  BY <1>1, <1>2, <2>1 DEF Places, Escapes
<1>3. CASE ~e.half
  <2>1. Behind(e) = Place(e.of, e.at + 1)  BY <1>3 DEF Behind
  <2>2. Place(e.of, e.at + 1) \in Places  BY <1>1, PlaceType
  <2> QED  BY <1>1, <1>3, <2>1, <2>2 DEF Place, Ends
<1> QED  BY <1>2, <1>3
-----------------------------------------------------------------------------
(* Sequences that are put together.                                         *)

LEMMA JoinAppend ==
  ASSUME NEW S, NEW a \in Seq(S), NEW b \in Seq(S), NEW e \in S
  PROVE  a \o Append(b, e) = Append(a \o b, e)
OBVIOUS

LEMMA JoinOne ==
  ASSUME NEW S, NEW a \in Seq(S), NEW e \in S
  PROVE  a \o <<e>> = Append(a, e) /\ a \o << >> = a
OBVIOUS

LEMMA JoinParts ==
  ASSUME NEW S, NEW a \in Seq(S), NEW b \in Seq(S)
  PROVE  /\ a \o b \in Seq(S) /\ Len(a \o b) = Len(a) + Len(b)
         /\ \A i \in 1 .. Len(a) : (a \o b)[i] = a[i]
         /\ b # << >> => /\ Len(b) > 0 /\ a \o b # << >>
                         /\ Len(b) = 1 => (a \o b)[Len(a) + 1] = Head(b)
OBVIOUS

LEMMA OneOrNone ==
  ASSUME NEW S, NEW u \in Seq(S), Len(u) <= 1
  PROVE  Len(u) \in Nat /\ (u # << >> => Len(u) = 1 /\ Head(u) \in S /\ u = <<Head(u)>>)
<1> DEFINE n == Len(u)
<1>1. n \in Nat /\ n <= 1 /\ (u # << >> => n # 0)  BY EmptySeq
<1>2. ASSUME u # << >> PROVE n = 1
  <2> HIDE DEF n
  <2> QED  BY <1>1, <1>2
<1>3. ASSUME u # << >> PROVE Head(u) \in S /\ u = <<Head(u)>>
  <2>1. Len(u) = 1 /\ Head(u) \in S /\ u[1] = Head(u)  BY <1>2, <1>3
  <2>2. <<Head(u)>> \in Seq(S) /\ Len(<<Head(u)>>) = 1 /\ <<Head(u)>>[1] = Head(u)  BY <2>1
  <2> QED  BY <2>1, <2>2, SeqEqual
<1> QED  BY <1>1, <1>2, <1>3

LEMMA HeadMoves ==
  ASSUME NEW S, NEW a \in Seq(S), NEW b \in Seq(S), b # << >>
  PROVE  Append(a, Head(b)) \o Tail(b) = a \o b
<1> DEFINE l == Append(a, Head(b)) \o Tail(b)
           r == a \o b
<1>1. Head(b) \in S /\ Tail(b) \in Seq(S) /\ Len(Tail(b)) = Len(b) - 1  OBVIOUS
<1>2. l \in Seq(S) /\ r \in Seq(S) /\ Len(l) = Len(r)  BY <1>1
<1>3. ASSUME NEW i \in 1 .. Len(l) PROVE l[i] = r[i]
  <2>1. CASE i <= Len(a)  BY <1>1, <2>1
  <2>2. CASE i = Len(a) + 1  BY <1>1, <2>2
  <2>3. CASE i > Len(a) + 1  BY <1>1, <2>3
  <2> QED  BY <1>1, <2>1, <2>2, <2>3
<1> HIDE DEF l, r
<1>4. l = r  BY <1>2, <1>3, SeqEqual
<1> QED  BY <1>4 DEF l, r

LEMMA TailOfJoin ==
  ASSUME NEW S, NEW a \in Seq(S), NEW b \in Seq(S), a # << >>
  PROVE  /\ Tail(a \o b) = Tail(a) \o b
         /\ a \o b # << >> /\ Head(a) = (a \o b)[1]
<1> DEFINE l == Tail(a \o b)
           r == Tail(a) \o b
<1>1. Tail(a) \in Seq(S) /\ Len(Tail(a)) = Len(a) - 1 /\ a \o b # << >>  OBVIOUS
<1>2. l \in Seq(S) /\ r \in Seq(S) /\ Len(l) = Len(r)  BY <1>1
<1>3. ASSUME NEW i \in 1 .. Len(l) PROVE l[i] = r[i]
  <2>1. CASE i <= Len(a) - 1  BY <1>1, <2>1
  <2>2. CASE i > Len(a) - 1  BY <1>1, <2>2
  <2> QED  BY <1>1, <2>1, <2>2
<1>4. Head(a) = (a \o b)[1]  OBVIOUS
<1> HIDE DEF l, r
<1>5. l = r  BY <1>2, <1>3, SeqEqual
<1> QED  BY <1>1, <1>4, <1>5 DEF l, r

LEMMA JoinThree ==
  ASSUME NEW S, NEW a \in Seq(S), NEW b \in Seq(S), NEW u \in Seq(S), Len(u) <= 1
  PROVE  LET w == a \o b \o u IN
         /\ w \in Seq(S) /\ DOMAIN w = 1 .. Len(w) /\ Len(w) \in Nat
         /\ Len(a) <= Len(w)
         /\ \A i \in 1 .. Len(a) : w[i] = a[i]
         /\ u # << >> => w # << >> /\ w[Len(w)] = Head(u) /\ Len(a) < Len(w)
<1> DEFINE v == a \o b
           w == v \o u
<1>1. v \in Seq(S) /\ Len(v) = Len(a) + Len(b) /\ \A i \in 1 .. Len(a) : v[i] = a[i]
  BY JoinParts
<1>2. Len(a) \in Nat /\ Len(b) \in Nat  OBVIOUS
<1>4. Len(u) \in Nat /\ (u # << >> => Len(u) = 1)  BY OneOrNone
<1> HIDE DEF v
<1>3. /\ w \in Seq(S) /\ Len(w) = Len(v) + Len(u)
      /\ \A i \in 1 .. Len(v) : w[i] = v[i]
      /\ u # << >> => Len(u) = 1 /\ w # << >> /\ w[Len(v) + 1] = Head(u)
  BY <1>1, <1>4, JoinParts
<1> HIDE DEF w
<1>5. DOMAIN w = 1 .. Len(w)  BY <1>3
<1>6. u # << >> => Len(w) = Len(v) + 1  BY <1>1, <1>2, <1>3, <1>4
<1>7. Len(a) <= Len(w) /\ Len(w) \in Nat  BY <1>1, <1>2, <1>3, <1>4
<1> QED  BY <1>1, <1>2, <1>3, <1>5, <1>6, <1>7 DEF w, v

\* A place that is put comes behind the others, whichever way my_putc() takes.
LEMMA PutJoins ==
  ASSUME NEW S, NEW a \in Seq(S), NEW b \in Seq(S), NEW e \in S, NEW a1, NEW b1,
         \/ b = << >> /\ a1 = Append(a, e) /\ b1 = b
         \/ a1 = a /\ b1 = Append(b, e)
         \/ b # << >> /\ a1 = Append(a, Head(b)) /\ b1 = Append(Tail(b), e)
  PROVE  a1 \o b1 = Append(a \o b, e)
<1>1. CASE b = << >> /\ a1 = Append(a, e) /\ b1 = b
  <2>1. Append(a, e) \in Seq(S)  OBVIOUS
  <2>2. Append(a, e) \o << >> = Append(a, e) /\ a \o << >> = a  BY <2>1, JoinOne
  <2> QED  BY <1>1, <2>2
<1>2. CASE a1 = a /\ b1 = Append(b, e)  BY <1>2, JoinAppend
<1>3. CASE b # << >> /\ a1 = Append(a, Head(b)) /\ b1 = Append(Tail(b), e)
  <2> DEFINE g == Append(a, Head(b))
             t == Tail(b)
  <2>1. g \o t = a \o b  BY <1>3, HeadMoves
  <2>2. g \in Seq(S) /\ t \in Seq(S)  BY <1>3
  <2>3. a1 = g /\ b1 = Append(t, e)  BY <1>3
  <2> HIDE DEF g, t
  <2>4. g \o Append(t, e) = Append(g \o t, e)  BY <2>2, JoinAppend
  <2> QED  BY <2>1, <2>3, <2>4, Zenon
<1> QED  BY <1>1, <1>2, <1>3
-----------------------------------------------------------------------------
(* What each action does to the way.                                        *)

LEMMA WayType ==
  ASSUME LinkTypeOK, NEW c \in Chips
  PROVE  /\ Way(c) \in Seq(Places) /\ DOMAIN Way(c) = 1 .. Len(Way(c))
         /\ Len(line[c]) <= Len(Way(c))
         /\ \A i \in 1 .. Len(line[c]) : Way(c)[i] = line[c][i]
         /\ unwritten[c] # << >> =>
              /\ Way(c) # << >>
              /\ Way(c)[Len(Way(c))] = Head(unwritten[c])
              /\ Len(line[c]) < Len(Way(c))
<1>1. /\ line[c] \in Seq(Places) /\ buffer[c] \in Seq(Places)
      /\ unwritten[c] \in Seq(Places) /\ Len(unwritten[c]) <= 1
  BY DEF LinkTypeOK
<1>2. Way(c) = line[c] \o buffer[c] \o unwritten[c]  BY DEF Way
<1> DEFINE a == line[c]
           b == buffer[c]
           u == unwritten[c]
<1>3. a \in Seq(Places) /\ b \in Seq(Places) /\ u \in Seq(Places) /\ Len(u) <= 1
  BY <1>1
<1> HIDE DEF a, b, u
<1>4. LET w == a \o b \o u IN
         /\ w \in Seq(Places) /\ DOMAIN w = 1 .. Len(w) /\ Len(w) \in Nat
         /\ Len(a) <= Len(w)
         /\ \A i \in 1 .. Len(a) : w[i] = a[i]
         /\ u # << >> => w # << >> /\ w[Len(w)] = Head(u) /\ Len(a) < Len(w)
  BY <1>3, JoinThree
<1> QED  BY <1>2, <1>4, Zenon DEF a, b, u

LEMMA WayStays ==
  ASSUME NEW c, line[c]' = line[c], buffer[c]' = buffer[c], unwritten[c]' = unwritten[c]
  PROVE  Way(c)' = Way(c)
BY DEF Way

LEMMA WayWrite ==
  ASSUME LinkTypeOK, NEW c \in Chips, NEW e \in Places, unwritten[c] = << >>,
         line[c]' = line[c], buffer[c]' = buffer[c], unwritten[c]' = <<e>>
  PROVE  Way(c)' = Append(Way(c), e)
<1> DEFINE v == line[c] \o buffer[c]
<1>1. v \in Seq(Places)  BY DEF LinkTypeOK
<1>2. Way(c) = v \o << >> /\ Way(c)' = v \o <<e>>  BY DEF Way
<1> HIDE DEF v
<1>3. v \o << >> = v /\ v \o <<e>> = Append(v, e)  BY <1>1, JoinOne
<1> QED  BY <1>2, <1>3

LEMMA WayPump ==
  ASSUME LinkTypeOK, NEW c \in Chips, Pump(c)
  PROVE  Way(c)' = Way(c) /\ unwritten[c]' = unwritten[c]
<1>1. line[c] \in Seq(Places) /\ buffer[c] \in Seq(Places) /\ buffer[c] # << >>
  BY DEF LinkTypeOK, Pump
<1>2. /\ line[c]' = Append(line[c], Head(buffer[c])) /\ buffer[c]' = Tail(buffer[c])
      /\ unwritten[c]' = unwritten[c]
  BY DEF LinkTypeOK, Pump
<1>3. line[c]' \o buffer[c]' = line[c] \o buffer[c]  BY <1>1, <1>2, HeadMoves
<1> QED  BY <1>2, <1>3 DEF Way

LEMMA WayPut ==
  ASSUME BufferSizesAssumption, LinkTypeOK, NEW c \in Chips, PutByte(c)
  PROVE  LET e == Head(unwritten[c]) IN
         /\ e \in Places
         /\ Ends(e) => unwritten[c]' = << >> /\ Way(c)' = Way(c)
         /\ ~Ends(e) => unwritten[c]' = <<Behind(e)>>
                        /\ (Behind(e) \in Places => Way(c)' = Append(Way(c), Behind(e)))
<1> DEFINE e == Head(unwritten[c])
<1>1. /\ line[c] \in Seq(Places) /\ buffer[c] \in Seq(Places)
      /\ unwritten[c] \in Seq(Places) /\ Len(unwritten[c]) <= 1 /\ unwritten[c] # << >>
  BY DEF LinkTypeOK, PutByte
<1>2. e \in Places /\ unwritten[c] = <<e>>  BY <1>1, OneOrNone
<1> DEFINE l == line[c]
           b == buffer[c]
           l1 == line[c]'
           b1 == buffer[c]'
           a == l \o b
<1>3. l \in Seq(Places) /\ b \in Seq(Places)  BY <1>1
<1>4. unwritten[c]' = IF Ends(e) THEN << >> ELSE <<Behind(e)>>
  BY DEF LinkTypeOK, PutByte
<1>5. \/ b = << >> /\ l1 = Append(l, e) /\ b1 = b
      \/ l1 = l /\ b1 = Append(b, e)
      \/ b # << >> /\ l1 = Append(l, Head(b)) /\ b1 = Append(Tail(b), e)
  <2>1. Len(buffer[c]) = BUFFER_SIZE => buffer[c] # << >>  BY <1>1 DEF BufferSizesAssumption
  <2> QED  BY <2>1 DEF LinkTypeOK, PutByte
<1>6. Way(c) = a \o <<e>>  BY <1>2 DEF Way
<1>7. Way(c)' = l1 \o b1 \o unwritten[c]'  BY DEF Way
<1> HIDE DEF l, b, e, l1, b1
<1>8. e \in Places  BY <1>2
<1>9. l1 \o b1 = Append(l \o b, e)
  <2>1. b = << >> /\ l1 = Append(l, e) /\ b1 = b => l1 \o b1 = Append(l \o b, e)
    BY <1>3, <1>8, PutJoins
  <2>2. l1 = l /\ b1 = Append(b, e) => l1 \o b1 = Append(l \o b, e)
    BY <1>3, <1>8, PutJoins
  <2>3. b # << >> /\ l1 = Append(l, Head(b)) /\ b1 = Append(Tail(b), e)
          => l1 \o b1 = Append(l \o b, e)
    BY <1>3, <1>8, PutJoins
  <2> QED  BY <1>5, <2>1, <2>2, <2>3, Zenon
<1>10. l1 \o b1 = Append(a, e)  BY <1>9
<1>11. a \in Seq(Places)  BY <1>3
<1> HIDE DEF a
<1>12. Append(a, e) \in Seq(Places) /\ Way(c) = Append(a, e)  BY <1>2, <1>6, <1>11, JoinOne
<1> DEFINE w == Append(a, e)
<1>13. Way(c)' = w \o unwritten[c]' /\ w \in Seq(Places) /\ Way(c) = w
  BY <1>7, <1>10, <1>12, Zenon
<1> HIDE DEF w
<1>14. CASE Ends(e)
  <2>1. w \o << >> = w  BY <1>2, <1>13, JoinOne
  <2> QED  BY <1>2, <1>4, <1>13, <1>14, <2>1
<1>15. CASE ~Ends(e)
  <2>1. Behind(e) \in Places => w \o <<Behind(e)>> = Append(w, Behind(e))
    BY <1>13, JoinOne
  <2> QED  BY <1>2, <1>4, <1>13, <1>15, <2>1 DEF e
<1> QED  BY <1>2, <1>14, <1>15 DEF e
-----------------------------------------------------------------------------
(* The expected messages.                                                   *)

LEMMA PartOf ==
  ASSUME NEW S, NEW s \in Seq(S), NEW m \in Nat \ {0}, NEW n \in Nat, n <= Len(s)
  PROVE  LET t == SubSeq(s, m, n) IN
         /\ t \in Seq(S)
         /\ \A i \in DOMAIN t : /\ i \in Nat /\ i + m - 1 \in DOMAIN s /\ i + m - 1 <= n
                              /\ t[i] = s[i + m - 1]
         /\ \A k \in m .. n : k - m + 1 \in DOMAIN t /\ t[k - m + 1] = s[k]
<1> DEFINE t == SubSeq(s, m, n)
<1>1. \A i \in m .. n : s[i] \in S  OBVIOUS
<1>2. /\ t \in Seq(S) /\ Len(t) = IF m <= n THEN n - m + 1 ELSE 0
      /\ \A i \in 1 .. n - m + 1 : t[i] = s[m + i - 1]
  BY <1>1, SubSeqProperties
<1>3. DOMAIN t = 1 .. Len(t) /\ DOMAIN s = 1 .. Len(s) /\ Len(s) \in Nat  BY <1>2
<1> HIDE DEF t
<1>4. ASSUME NEW i \in DOMAIN t
      PROVE  i \in Nat /\ i + m - 1 \in DOMAIN s /\ i + m - 1 <= n /\ t[i] = s[i + m - 1]
  <2>1. i \in 1 .. n - m + 1  BY <1>2, <1>3
  <2> QED  BY <1>2, <1>3, <2>1
<1>5. ASSUME NEW k \in m .. n PROVE k - m + 1 \in DOMAIN t /\ t[k - m + 1] = s[k]
  <2>1. k - m + 1 \in 1 .. n - m + 1 /\ m + (k - m + 1) - 1 = k  OBVIOUS
  <2> QED  BY <1>2, <1>3, <2>1
<1> QED  BY <1>2, <1>4, <1>5 DEF t

LEMMA PositionIs ==
  ASSUME NEW c, NEW f, NEW p \in DOMAIN expected[c], expected[c][p] = f
  PROVE  Position(c, f) \in DOMAIN expected[c] /\ expected[c][Position(c, f)] = f
BY DEF Position
-----------------------------------------------------------------------------
(* Types.                                                                   *)

LEMMA NoneType == NoFrame \in Frames
<1>1. << >> \in Seq(Bytes)  BY EmptySeq
<1> QED  BY <1>1 DEF NoFrame, Frames

LEMMA ByteType ==
  ASSUME BytesAssumption, NEW e \in Places, e.at <= Len(e.of.message) + 1
  PROVE  Byte(e) \in Bytes /\ Unescaped(Byte(e)) \in Bytes
<1>1. e.of.message \in Seq(Bytes) /\ e.at \in Nat /\ Len(e.of.message) \in Nat
  BY DEF Places, Frames
<1>2. e.at # 0 /\ ~Ends(e) => e.at \in 1 .. Len(e.of.message)  BY <1>1 DEF Ends
<1>3. e.at # 0 /\ ~Ends(e) => e.of.message[e.at] \in Bytes  BY <1>1, <1>2
<1>4. Byte(e) \in Bytes  BY <1>3 DEF Byte, BytesAssumption
<1> QED  BY <1>4 DEF Unescaped, BytesAssumption

LEMMA GatheredType ==
  ASSUME BufferSizesAssumption, LinkTypeOK, NEW c \in Chips
  PROVE  Gathered(c) \in Seq(Bytes) /\ Len(Gathered(c)) \in Nat /\ Len(Gathered(c)) < ReadSize
<1>1. bytes[c] \in Seq(Bytes) /\ Len(bytes[c]) <= ReadSize /\ Len(bytes[c]) \in Nat
  BY DEF LinkTypeOK
<1>2. << >> \in Seq(Bytes) /\ Len(<< >>) = 0  BY EmptySeq
<1> QED  BY <1>1, <1>2 DEF Gathered, BufferSizesAssumption

\* What the reader does next is about the first place on the way.
LEMMA NextPlace ==
  ASSUME LinkTypeOK, NEW s \in Chips, line[s] # << >>, Valid(s)
  PROVE  LET e == Head(line[s]) IN
         /\ e \in Places /\ Way(s) # << >> /\ e = Way(s)[1] /\ 1 \in DOMAIN Way(s)
         /\ e.at <= Len(e.of.message) + 1 /\ (e.half => Escapes(e.of, e.at))
<1> DEFINE l == line[s]
           w == Way(s)
<1>1. l \in Seq(Places) /\ l # << >>  BY DEF LinkTypeOK
<1>2. /\ w \in Seq(Places) /\ DOMAIN w = 1 .. Len(w) /\ Len(l) <= Len(w)
      /\ \A i \in 1 .. Len(l) : w[i] = l[i]
  BY WayType
<1> HIDE DEF l, w
<1>3. Len(l) \in Nat \ {0} /\ Head(l) = l[1] /\ Head(l) \in Places
  BY <1>1, EmptySeq, HeadTailProperties
<1>4. Len(w) \in Nat  BY <1>2
<1>5. 1 \in 1 .. Len(l) /\ 1 \in DOMAIN w /\ w # << >>  BY <1>2, <1>3, <1>4
<1>6. Head(l) = w[1]  BY <1>2, <1>3, <1>5
<1> QED  BY <1>3, <1>5, <1>6 DEF l, w, Valid, IsPlace

LEMMA WriteType ==
  ASSUME MessagesAssumption, LinkTypeOK, NEW c \in Chips, Write(c)
  PROVE  LinkTypeOK'
<1>1. PICK m \in Messages[c] :
        LET f == [message |-> m, id |-> FreeId(c)] IN
        /\ unwritten' = [unwritten EXCEPT ![c] = <<Place(f, 0)>>]
        /\ expected' = [expected EXCEPT ![c] = Append(@, f)]
        /\ atRisk' = [atRisk EXCEPT ![c] = IF spoilt[c] THEN @ \cup {f} ELSE @]
        /\ spoilt' = [spoilt EXCEPT ![c] = FALSE]
  BY DEF Write
<1> DEFINE f == [message |-> m, id |-> FreeId(c)]
<1>2. m \in Seq(Bytes)  BY DEF MessagesAssumption
<1>3. f \in Frames  BY <1>2, FreeIdIsFree DEF Frames
<1>4. Place(f, 0) \in Places  BY <1>3, PlaceType
<1> HIDE DEF f
<1>5. <<Place(f, 0)>> \in Seq(Places) /\ Len(<<Place(f, 0)>>) <= 1  BY <1>4
<1>6. expected' \in [Chips -> Seq(Frames)]
  <2>1. expected[c] \in Seq(Frames)  BY DEF LinkTypeOK
  <2>2. Append(expected[c], f) \in Seq(Frames)  BY <1>3, <2>1
  <2> QED  BY <1>1, <2>2 DEF LinkTypeOK, f
<1>7. atRisk' \in [Chips -> SUBSET Frames]  BY <1>1, <1>3 DEF LinkTypeOK, f
<1>8. unwritten' \in [Chips -> Seq(Places)] /\ \A d \in Chips : Len(unwritten[d]') <= 1
  BY <1>1, <1>5 DEF LinkTypeOK, f
<1> QED  BY <1>1, <1>6, <1>7, <1>8 DEF LinkTypeOK, Write, reading

LEMMA PutByteType ==
  ASSUME BufferSizesAssumption, LinkTypeOK, NEW c \in Chips, Valid(c), PutByte(c)
  PROVE  LinkTypeOK'
<1> DEFINE e == Head(unwritten[c])
           l == line[c]
           b == buffer[c]
<1>1. /\ l \in Seq(Places) /\ b \in Seq(Places) /\ Len(b) <= BUFFER_SIZE /\ Len(l) <= LineSize
      /\ Len(l) \in Nat /\ Len(b) \in Nat
  BY DEF LinkTypeOK
<1>2. e \in Places  BY WayPut
<1>3. e.at <= Len(e.of.message) + 1 /\ (e.half => Escapes(e.of, e.at))
  <2>1. unwritten[c] # << >>  BY DEF PutByte
  <2>2. Way(c) # << >> /\ Way(c)[Len(Way(c))] = e /\ Len(Way(c)) \in DOMAIN Way(c)
    <3>1. Way(c) \in Seq(Places) /\ Way(c) # << >> /\ DOMAIN Way(c) = 1 .. Len(Way(c))
          /\ Way(c)[Len(Way(c))] = e
      BY <2>1, WayType
    <3>2. Len(Way(c)) \in Nat \ {0}  BY <3>1, EmptySeq
    <3> QED  BY <3>1, <3>2
  <2> QED  BY <2>2 DEF Valid, IsPlace
<1>4. ~Ends(e) => Behind(e) \in Places  BY <1>2, <1>3, BehindType
<1>5. unwritten' \in [Chips -> Seq(Places)] /\ \A d \in Chips : Len(unwritten[d]') <= 1
  <2>1. << >> \in Seq(Places) /\ Len(<< >>) = 0  BY EmptySeq
  <2>2. ~Ends(e) => <<Behind(e)>> \in Seq(Places) /\ Len(<<Behind(e)>>) = 1  BY <1>4
  <2>3. unwritten' = [unwritten EXCEPT ![c] = IF Ends(e) THEN << >> ELSE <<Behind(e)>>]
    BY DEF PutByte
  <2> DEFINE u == IF Ends(e) THEN << >> ELSE <<Behind(e)>>
  <2>4. u \in Seq(Places) /\ Len(u) <= 1  BY <2>1, <2>2
  <2> HIDE DEF u
  <2> QED  BY <2>3, <2>4 DEF LinkTypeOK, u
<1> HIDE DEF e, l, b
<1>6. Append(l, e) \in Seq(Places) /\ Len(Append(l, e)) = Len(l) + 1
      /\ Append(b, e) \in Seq(Places) /\ Len(Append(b, e)) = Len(b) + 1
  BY <1>1, <1>2
<1>7. Len(b) = BUFFER_SIZE =>
        /\ Append(l, Head(b)) \in Seq(Places) /\ Len(Append(l, Head(b))) = Len(l) + 1
        /\ Append(Tail(b), e) \in Seq(Places) /\ Len(Append(Tail(b), e)) = Len(b)
  <2> SUFFICES ASSUME Len(b) = BUFFER_SIZE
               PROVE  /\ Append(l, Head(b)) \in Seq(Places) /\ Len(Append(l, Head(b))) = Len(l) + 1
                      /\ Append(Tail(b), e) \in Seq(Places) /\ Len(Append(Tail(b), e)) = Len(b)
    OBVIOUS
  <2>1. b # << >>  BY <1>1 DEF BufferSizesAssumption
  <2>2. Head(b) \in Places /\ Tail(b) \in Seq(Places) /\ Len(Tail(b)) = Len(b) - 1
    BY <1>1, <2>1, HeadTailProperties
  <2> QED  BY <1>1, <1>2, <2>2
<1>8. Writable(c) => Len(l) + 1 <= LineSize  BY <1>1 DEF Writable, l, BufferSizesAssumption
<1>9. Len(b) < BUFFER_SIZE => Len(b) + 1 <= BUFFER_SIZE  BY <1>1 DEF BufferSizesAssumption
<1>10. /\ line' \in [Chips -> Seq(Places)] /\ \A d \in Chips : Len(line[d]') <= LineSize
       /\ buffer' \in [Chips -> Seq(Places)] /\ \A d \in Chips : Len(buffer[d]') <= BUFFER_SIZE
  <2>1. CASE line' = [line EXCEPT ![c] = Append(l, e)] /\ Writable(c) /\ buffer' = buffer
    BY <1>6, <1>8, <2>1 DEF LinkTypeOK
  <2>2. CASE buffer' = [buffer EXCEPT ![c] = Append(b, e)] /\ Len(b) < BUFFER_SIZE /\ line' = line
    BY <1>6, <1>9, <2>2 DEF LinkTypeOK
  <2>3. CASE /\ Len(b) = BUFFER_SIZE /\ Writable(c)
             /\ line' = [line EXCEPT ![c] = Append(l, Head(b))]
             /\ buffer' = [buffer EXCEPT ![c] = Append(Tail(b), e)]
    BY <1>1, <1>7, <1>8, <2>3 DEF LinkTypeOK
  <2> QED  BY <2>1, <2>2, <2>3 DEF PutByte, e, l, b
<1> QED  BY <1>5, <1>10 DEF LinkTypeOK, PutByte, reading, history

LEMMA PumpType ==
  ASSUME BufferSizesAssumption, LinkTypeOK, NEW c \in Chips, Pump(c)
  PROVE  LinkTypeOK'
<1> DEFINE l == line[c]
           b == buffer[c]
<1>1. /\ l \in Seq(Places) /\ b \in Seq(Places) /\ Len(b) <= BUFFER_SIZE /\ Len(l) < LineSize
      /\ Len(l) \in Nat /\ b # << >>
  BY DEF LinkTypeOK, Pump, Writable
<1> HIDE DEF l, b
<1>2. Head(b) \in Places /\ Tail(b) \in Seq(Places) /\ Len(Tail(b)) = Len(b) - 1 /\ Len(b) \in Nat
  BY <1>1, HeadTailProperties
<1>3. Append(l, Head(b)) \in Seq(Places) /\ Len(Append(l, Head(b))) = Len(l) + 1
  BY <1>1, <1>2
<1>4. Len(l) + 1 <= LineSize /\ Len(Tail(b)) <= BUFFER_SIZE
  BY <1>1, <1>2 DEF BufferSizesAssumption
<1>5. line' = [line EXCEPT ![c] = Append(l, Head(b))] /\ buffer' = [buffer EXCEPT ![c] = Tail(b)]
  BY DEF Pump, l, b
<1>6. /\ line' \in [Chips -> Seq(Places)] /\ \A d \in Chips : Len(line[d]') <= LineSize
      /\ buffer' \in [Chips -> Seq(Places)] /\ \A d \in Chips : Len(buffer[d]') <= BUFFER_SIZE
  BY <1>2, <1>3, <1>4, <1>5 DEF LinkTypeOK
<1> QED  BY <1>6 DEF LinkTypeOK, Pump, reading, history

LEMMA ArrivedType ==
  ASSUME LinkTypeOK, NEW s \in Chips, NEW f, Arrived(s, f)
  PROVE  /\ expected' \in [Chips -> Seq(Frames)] /\ atRisk' \in [Chips -> SUBSET Frames]
         /\ spoilt' = spoilt
<1>1. PICK k \in DOMAIN expected[s] :
        LET rest == SubSeq(expected[s], k + 1, Len(expected[s])) IN
        /\ expected' = [expected EXCEPT ![s] = rest]
        /\ atRisk' = [atRisk EXCEPT ![s] = @ \cap ToSet(rest)]
        /\ UNCHANGED spoilt
  BY DEF Arrived
<1> DEFINE rest == SubSeq(expected[s], k + 1, Len(expected[s]))
<1>2. expected[s] \in Seq(Frames) /\ k + 1 \in Nat \ {0} /\ Len(expected[s]) \in Nat
  BY DEF LinkTypeOK
<1>3. rest \in Seq(Frames)  BY <1>2, PartOf
<1> QED  BY <1>1, <1>3 DEF LinkTypeOK

LEMMA ReadByteType ==
  ASSUME BytesAssumption, BufferSizesAssumption, LinkTypeOK, NEW c \in Chips, Valid(Other(c)), ReadByte(c)
  PROVE  LinkTypeOK'
<1> DEFINE s == Other(c)
           e == Head(line[s])
           data == IF escaped[c] THEN <<Unescaped(Byte(e))>>
                   ELSE IF Byte(e) \in {END, ESC} THEN << >> ELSE <<Byte(e)>>
           now == IF ReadsEnd(c) THEN << >> ELSE Gathered(c) \o data
           from == IF now = << >> THEN NoFrame ELSE IF Gathered(c) = << >> THEN e.of ELSE first[c]
<1>1. s \in Chips /\ line[s] # << >>  BY TwoChips DEF ReadByte, Readable
<1>2. e \in Places /\ e.at <= Len(e.of.message) + 1  BY <1>1, NextPlace
<1>3. Byte(e) \in Bytes /\ Unescaped(Byte(e)) \in Bytes  BY <1>2, ByteType
<1>4. data \in Seq(Bytes) /\ Len(data) <= 1 /\ Len(data) \in Nat
  <2>1. << >> \in Seq(Bytes) /\ Len(<< >>) = 0  BY EmptySeq
  <2>2. /\ <<Unescaped(Byte(e))>> \in Seq(Bytes) /\ Len(<<Unescaped(Byte(e))>>) = 1
        /\ <<Byte(e)>> \in Seq(Bytes) /\ Len(<<Byte(e)>>) = 1
    BY <1>3
  <2> QED  BY <2>1, <2>2
<1> HIDE DEF data
<1>5. now \in Seq(Bytes) /\ Len(now) <= ReadSize
  <2> DEFINE g == Gathered(c)
  <2>1. g \in Seq(Bytes) /\ Len(g) \in Nat /\ Len(g) < ReadSize  BY GatheredType
  <2> HIDE DEF g
  <2>2. g \o data \in Seq(Bytes) /\ Len(g \o data) = Len(g) + Len(data)
    BY <1>4, <2>1, JoinParts
  <2>3. << >> \in Seq(Bytes) /\ Len(<< >>) = 0  BY EmptySeq
  <2> QED  BY <1>4, <2>1, <2>2, <2>3 DEF BufferSizesAssumption, g
<1>6. from \in Frames  BY <1>2, NoneType DEF LinkTypeOK, Places
<1>7. /\ line' = [line EXCEPT ![s] = Tail(@)]
      /\ escaped' = [escaped EXCEPT ![c] = ~escaped[c] /\ Byte(e) = ESC]
      /\ bytes' = [bytes EXCEPT ![c] = now] /\ first' = [first EXCEPT ![c] = from]
      /\ unwritten' = unwritten /\ buffer' = buffer /\ up' = up /\ restarts' = restarts
      /\ IF ReadsEnd(c) /\ Passes(c) THEN Arrived(s, first[c]) ELSE UNCHANGED history
  BY DEF ReadByte, data
<1> HIDE DEF now, from
<1>8. /\ expected' \in [Chips -> Seq(Frames)] /\ atRisk' \in [Chips -> SUBSET Frames]
      /\ spoilt' = spoilt
  BY <1>1, <1>7, ArrivedType DEF LinkTypeOK, history
<1>9. line' \in [Chips -> Seq(Places)] /\ \A d \in Chips : Len(line[d]') <= LineSize
  <2>1. line[s] \in Seq(Places) /\ Len(line[s]) <= LineSize  BY <1>1 DEF LinkTypeOK
  <2>2. Tail(line[s]) \in Seq(Places) /\ Len(Tail(line[s])) = Len(line[s]) - 1 /\ Len(line[s]) \in Nat
    BY <1>1, <2>1, HeadTailProperties
  <2>3. Len(Tail(line[s])) <= LineSize  BY <2>1, <2>2 DEF BufferSizesAssumption
  <2> QED  BY <1>1, <1>7, <2>2, <2>3 DEF LinkTypeOK
<1>10. /\ bytes' \in [Chips -> Seq(Bytes)] /\ \A d \in Chips : Len(bytes[d]') <= ReadSize
       /\ escaped' \in [Chips -> BOOLEAN] /\ first' \in [Chips -> Frames]
  BY <1>5, <1>6, <1>7 DEF LinkTypeOK
<1> QED  BY <1>7, <1>8, <1>9, <1>10 DEF LinkTypeOK

\* A message on the way, and the one the reader has begun with, is expected.
LEMMA LeftType ==
  ASSUME LinkTypeOK, NEW s \in Chips, NEW way, way # << >>,
         \E p \in DOMAIN expected[s] : expected[s][p] = Head(way).of
  PROVE  LET k == Position(s, Head(way).of) IN
         /\ k \in DOMAIN expected[s] /\ expected[s][k] = Head(way).of
         /\ k \in Nat \ {0} /\ k <= Len(expected[s]) /\ Len(expected[s]) \in Nat
         /\ Left(s, way) = SubSeq(expected[s], k, Len(expected[s]))
         /\ Left(s, way) \in Seq(Frames)
<1> DEFINE k == Position(s, Head(way).of)
<1>1. k \in DOMAIN expected[s] /\ expected[s][k] = Head(way).of  BY PositionIs
<1>2. expected[s] \in Seq(Frames)  BY DEF LinkTypeOK
<1>3. k \in Nat \ {0} /\ k <= Len(expected[s]) /\ Len(expected[s]) \in Nat  BY <1>1, <1>2
<1>4. Left(s, way) = SubSeq(expected[s], k, Len(expected[s]))  BY DEF Left
<1> HIDE DEF k
<1>5. SubSeq(expected[s], k, Len(expected[s])) \in Seq(Frames)  BY <1>2, <1>3, PartOf
<1> QED  BY <1>1, <1>3, <1>4, <1>5 DEF k

LEMMA UpToType ==
  ASSUME LinkTypeOK, NEW s \in Chips, NEW f, f # NoFrame,
         \E p \in DOMAIN expected[s] : expected[s][p] = f
  PROVE  LET k == Position(s, f) IN
         /\ k \in DOMAIN expected[s] /\ expected[s][k] = f
         /\ k \in Nat \ {0} /\ k <= Len(expected[s])
         /\ UpTo(s, f) = SubSeq(expected[s], 1, k)
         /\ UpTo(s, f) \in Seq(Frames)
<1> DEFINE k == Position(s, f)
<1>1. k \in DOMAIN expected[s] /\ expected[s][k] = f  BY PositionIs
<1>2. expected[s] \in Seq(Frames)  BY DEF LinkTypeOK
<1>3. k \in Nat \ {0} /\ k <= Len(expected[s])  BY <1>1, <1>2
<1>4. UpTo(s, f) = SubSeq(expected[s], 1, k)  BY DEF UpTo
<1> HIDE DEF k
<1>5. SubSeq(expected[s], 1, k) \in Seq(Frames)  BY <1>2, <1>3, PartOf
<1> QED  BY <1>1, <1>3, <1>4, <1>5 DEF k

LEMMA NotNone ==
  ASSUME MessagesAssumption, LinkTypeOK, NEW c \in Chips, Valid(c), NEW p \in DOMAIN expected[c]
  PROVE  /\ expected[c][p] # NoFrame /\ expected[c][p].message \in Seq(Bytes)
         /\ Len(expected[c][p].message) \in Nat \ {0}
         /\ Len(expected[c][p].message) > ChecksumSize /\ Len(expected[c][p].message) < ReadSize
<1> DEFINE m == expected[c][p].message
<1>1. m \in Messages[c]  BY DEF Valid
<1>2. m \in Seq(Bytes) /\ ChecksumSize < Len(m) /\ Len(m) < ReadSize /\ ChecksumSize \in Nat
  BY <1>1 DEF MessagesAssumption
<1> HIDE DEF m
<1>3. Len(m) \in Nat \ {0}  BY <1>2
<1>4. m # << >>  BY <1>3, EmptySeq
<1> QED  BY <1>2, <1>3, <1>4 DEF m, NoFrame

\* Where a restart cuts: behind a place on the line, or what the reader has begun
\* with, or there is nothing to cut.
LEMMA CutAt ==
  ASSUME MessagesAssumption, LinkTypeOK, NEW c \in Chips, Valid(c), Begun(c),
         NEW n \in 0 .. Len(line[c])
  PROVE  LET cut == IF n > 0 THEN line[c][n].of ELSE first[Other(c)] IN
         /\ n > 0 => /\ n \in DOMAIN Way(c) /\ Way(c)[n] = line[c][n]
                     /\ cut # NoFrame /\ \E p \in DOMAIN expected[c] : expected[c][p] = cut
         /\ n = 0 /\ bytes[Other(c)] = << >> => cut = NoFrame
         /\ n = 0 /\ bytes[Other(c)] # << >> =>
              cut # NoFrame /\ \E p \in DOMAIN expected[c] : expected[c][p] = cut
<1>1. CASE n > 0
  <2>1. n \in DOMAIN Way(c) /\ Way(c)[n] = line[c][n]
    <3>1. /\ Way(c) \in Seq(Places) /\ DOMAIN Way(c) = 1 .. Len(Way(c)) /\ Len(line[c]) <= Len(Way(c))
          /\ \A i \in 1 .. Len(line[c]) : Way(c)[i] = line[c][i]
      BY WayType
    <3>2. Len(line[c]) \in Nat /\ Len(Way(c)) \in Nat  BY <3>1 DEF LinkTypeOK
    <3> QED  BY <1>1, <3>1, <3>2
  <2>2. PICK p \in DOMAIN expected[c] : expected[c][p] = Way(c)[n].of  BY <2>1 DEF Valid
  <2>3. expected[c][p] # NoFrame  BY NotNone
  <2> QED  BY <1>1, <2>1, <2>2, <2>3
<1>2. CASE n = 0 /\ bytes[Other(c)] = << >>  BY <1>2 DEF Begun
<1>3. CASE n = 0 /\ bytes[Other(c)] # << >>
  <2>1. PICK p \in DOMAIN expected[c] : expected[c][p] = first[Other(c)]  BY <1>3 DEF Begun
  <2>2. expected[c][p] # NoFrame  BY NotNone
  <2> QED  BY <1>3, <2>1, <2>2
<1>4. n > 0 \/ n = 0  OBVIOUS
<1> QED  BY <1>1, <1>2, <1>3, <1>4

LEMMA WayMiss ==
  ASSUME LinkTypeOK, NEW s \in Chips, line[s] # << >>,
         line[s]' = Tail(line[s]), buffer[s]' = buffer[s], unwritten[s]' = unwritten[s]
  PROVE  /\ Way(s)' = Tail(Way(s)) /\ Way(s) # << >>
         /\ Tail(line[s]) \o buffer[s] \o unwritten[s] = Tail(Way(s))
<1> DEFINE l == line[s]
           b == buffer[s]
           u == unwritten[s]
<1>1. l \in Seq(Places) /\ b \in Seq(Places) /\ u \in Seq(Places) /\ l # << >>
  BY DEF LinkTypeOK
<1>2. Way(s) = l \o b \o u /\ Way(s)' = Tail(l) \o b \o u  BY DEF Way
<1> HIDE DEF l, b, u
<1>3. Tail(l \o b) = Tail(l) \o b /\ l \o b # << >>  BY <1>1, TailOfJoin
<1> DEFINE v == l \o b
<1>4. v \in Seq(Places) /\ v # << >> /\ Tail(v) = Tail(l) \o b  BY <1>1, <1>3
<1>5. Way(s) = v \o u /\ Way(s)' = Tail(v) \o u  BY <1>2, <1>4
<1> HIDE DEF v
<1>6. Tail(v \o u) = Tail(v) \o u /\ v \o u # << >>  BY <1>1, <1>4, TailOfJoin
<1> QED  BY <1>2, <1>5, <1>6 DEF l, b, u

LEMMA WayTail ==
  ASSUME LinkTypeOK, NEW s \in Chips, Way(s) # << >>
  PROVE  LET t == Tail(Way(s)) IN
         /\ t \in Seq(Places) /\ Len(t) = Len(Way(s)) - 1 /\ Len(Way(s)) \in Nat \ {0}
         /\ Way(s) \in Seq(Places)
         /\ \A i \in DOMAIN t : i \in Nat \ {0} /\ i + 1 \in DOMAIN Way(s) /\ t[i] = Way(s)[i + 1]
         /\ \A i \in DOMAIN Way(s) : i > 1 => i - 1 \in DOMAIN t /\ t[i - 1] = Way(s)[i]
         /\ t # << >> => 1 \in DOMAIN t /\ Head(t) = Way(s)[2] /\ 2 \in DOMAIN Way(s)
<1> DEFINE w == Way(s)
           t == Tail(w)
<1>1. w \in Seq(Places) /\ w # << >>  BY WayType
<1> HIDE DEF w
<1>2. /\ t \in Seq(Places) /\ Len(t) = Len(w) - 1 /\ Len(w) \in Nat \ {0}
      /\ \A i \in 1 .. Len(t) : t[i] = w[i + 1]
  BY <1>1, EmptySeq, HeadTailProperties
<1>3. DOMAIN w = 1 .. Len(w) /\ DOMAIN t = 1 .. Len(t)  BY <1>1, <1>2
<1> HIDE DEF t
<1>4. \A i \in DOMAIN t : i \in Nat \ {0} /\ i + 1 \in DOMAIN w /\ t[i] = w[i + 1]
  BY <1>2, <1>3
<1>5. ASSUME NEW i \in DOMAIN w, i > 1 PROVE i - 1 \in DOMAIN t /\ t[i - 1] = w[i]
  <2>1. i - 1 \in 1 .. Len(t) /\ (i - 1) + 1 = i  BY <1>2, <1>3, <1>5
  <2> QED  BY <1>2, <1>3, <2>1
<1>6. ASSUME t # << >> PROVE 1 \in DOMAIN t /\ Head(t) = w[2] /\ 2 \in DOMAIN w
  <2>1. Len(t) \in Nat \ {0} /\ Head(t) = t[1]  BY <1>2, <1>6, EmptySeq
  <2> QED  BY <1>2, <1>3, <2>1
<1> QED  BY <1>1, <1>2, <1>4, <1>5, <1>6 DEF w, t

\* The places that are left when a reader restarts, or misses one.
LEMMA LeftOfWay ==
  ASSUME LinkTypeOK, NEW s \in Chips, Valid(s), NEW way \in Seq(Places),
         way # << >> => \E i \in DOMAIN Way(s) : Head(way) = Way(s)[i]
  PROVE  Left(s, way) \in Seq(Frames)
<1>1. CASE way = << >>
  <2>1. Left(s, way) = << >>  BY <1>1 DEF Left
  <2> QED  BY <2>1, EmptySeq
<1>2. CASE way # << >>
  <2>1. \E p \in DOMAIN expected[s] : expected[s][p] = Head(way).of  BY <1>2 DEF Valid
  <2> QED  BY <1>2, <2>1, LeftType
<1> QED  BY <1>1, <1>2

LEMMA RestartType ==
  ASSUME MessagesAssumption, BufferSizesAssumption, LinkTypeOK, NEW c \in Chips, Valid(c), Begun(c),
         Valid(Other(c)), Restart(c)
  PROVE  LinkTypeOK'
<1> DEFINE s == Other(c)
           left == Left(s, Way(s))
<1>1. s \in Chips /\ s # c  BY TwoChips
<1>2. PICK n \in 0 .. Len(line[c]) :
        LET cut == IF n > 0 THEN line[c][n].of ELSE first[s]
            sent == UpTo(c, cut)
            halved == IF n > 0 /\ Ends(line[c][n]) THEN {} ELSE {cut} IN
       /\ line' = [line EXCEPT ![c] = SubSeq(@, 1, n)]
       /\ expected' = [expected EXCEPT ![c] = sent, ![s] = left]
       /\ atRisk' = [atRisk EXCEPT
            ![c] = (@ \cup halved) \cap ToSet(sent),
            ![s] = (@ \cup Beheaded(Way(s))) \cap ToSet(left)]
       /\ spoilt' = [spoilt EXCEPT ![c] = IF n > 0 THEN line[c][n].half ELSE escaped[s]]
  BY DEF Restart
<1> DEFINE cut == IF n > 0 THEN line[c][n].of ELSE first[s]
           sent == UpTo(c, cut)
           halved == IF n > 0 /\ Ends(line[c][n]) THEN {} ELSE {cut}
<1>3. sent \in Seq(Frames)
  <2>1. CASE cut = NoFrame
    <3>1. sent = << >>  BY <2>1 DEF UpTo
    <3> QED  BY <3>1, EmptySeq
  <2>2. CASE cut # NoFrame
    <3>1. \E p \in DOMAIN expected[c] : expected[c][p] = cut
      <4>1. n = 0 => bytes[s] # << >>  BY <2>2, CutAt
      <4>2. n = 0 \/ n > 0  OBVIOUS
      <4> QED  BY <4>1, <4>2, CutAt
    <3> HIDE DEF cut
    <3> QED  BY <2>2, <3>1, UpToType
  <2> QED  BY <2>1, <2>2
<1>4. left \in Seq(Frames)
  <2>1. Way(s) \in Seq(Places)  BY <1>1, WayType
  <2>2. Way(s) # << >> => 1 \in DOMAIN Way(s) /\ Head(Way(s)) = Way(s)[1]
    <3> DEFINE w == Way(s)
    <3>1. w \in Seq(Places)  BY <2>1
    <3> HIDE DEF w
    <3>2. w # << >> => Len(w) \in Nat \ {0} /\ Head(w) = w[1]  BY <3>1, EmptySeq
    <3>3. w # << >> => 1 \in DOMAIN w  BY <3>1, <3>2
    <3> QED  BY <3>2, <3>3 DEF w
  <2> QED  BY <1>1, <2>1, <2>2, LeftOfWay
<1>5. expected' \in [Chips -> Seq(Frames)]
  <2> HIDE DEF left, sent
  <2> QED  BY <1>2, <1>3, <1>4 DEF LinkTypeOK, left, sent
<1>6. atRisk' \in [Chips -> SUBSET Frames]
  <2>1. \A X, t : t \in Seq(Frames) => (X \cap ToSet(t)) \in SUBSET Frames
    BY DEF ToSet
  <2>2. ((atRisk[c] \cup halved) \cap ToSet(sent)) \in SUBSET Frames
        /\ ((atRisk[s] \cup Beheaded(Way(s))) \cap ToSet(left)) \in SUBSET Frames
    BY <1>3, <1>4, <2>1
  <2>3. atRisk' = [atRisk EXCEPT
            ![c] = (@ \cup halved) \cap ToSet(sent),
            ![s] = (@ \cup Beheaded(Way(s))) \cap ToSet(left)]
    BY <1>2
  <2> HIDE DEF left, sent, halved
  <2> QED  BY <2>2, <2>3 DEF LinkTypeOK
<1>7. line' \in [Chips -> Seq(Places)] /\ \A d \in Chips : Len(line[d]') <= LineSize
  <2> DEFINE l == line[c]
             t == SubSeq(l, 1, n)
  <2>1. l \in Seq(Places) /\ Len(l) <= LineSize /\ Len(l) \in Nat /\ n \in 0 .. Len(l)
    BY DEF LinkTypeOK
  <2>2. t \in Seq(Places) /\ Len(t) = n
    <3> HIDE DEF l
    <3> QED  BY <2>1
  <2>3. n <= LineSize  BY <2>1 DEF BufferSizesAssumption
  <2>4. line' = [line EXCEPT ![c] = t]  BY <1>2
  <2> HIDE DEF t, l
  <2> QED  BY <2>2, <2>3, <2>4 DEF LinkTypeOK
<1>8. spoilt' \in [Chips -> BOOLEAN]
  <2>1. n > 0 => line[c][n].half \in BOOLEAN
    <3>1. line[c] \in Seq(Places)  BY DEF LinkTypeOK
    <3>2. n > 0 => line[c][n] \in Places  BY <3>1
    <3> QED  BY <3>2 DEF Places
  <2>2. (IF n > 0 THEN line[c][n].half ELSE escaped[s]) \in BOOLEAN
    BY <1>1, <2>1 DEF LinkTypeOK
  <2> QED  BY <1>2, <2>2 DEF LinkTypeOK
<1>9. /\ restarts' \in 0 .. MaxRestarts
      /\ up' \in [Chips -> BOOLEAN] /\ escaped' \in [Chips -> BOOLEAN]
  <2>1. /\ restarts < MaxRestarts /\ restarts' = restarts + 1
        /\ up' = [up EXCEPT ![c] = FALSE] /\ escaped' = [escaped EXCEPT ![c] = FALSE]
    BY DEF Restart
  <2>2. restarts \in 0 .. MaxRestarts /\ MaxRestarts \in Nat  BY DEF LinkTypeOK, BufferSizesAssumption
  <2>3. restarts' \in 0 .. MaxRestarts  BY <2>1, <2>2
  <2>4. up' \in [Chips -> BOOLEAN] /\ escaped' \in [Chips -> BOOLEAN]  BY <2>1 DEF LinkTypeOK
  <2> QED  BY <2>3, <2>4
<1>10. /\ unwritten' \in [Chips -> Seq(Places)] /\ \A d \in Chips : Len(unwritten[d]') <= 1
       /\ buffer' \in [Chips -> Seq(Places)] /\ \A d \in Chips : Len(buffer[d]') <= BUFFER_SIZE
       /\ bytes' \in [Chips -> Seq(Bytes)] /\ \A d \in Chips : Len(bytes[d]') <= ReadSize
  <2>1. /\ << >> \in Seq(Places) /\ << >> \in Seq(Bytes) /\ Len(<< >>) = 0
        /\ 0 <= BUFFER_SIZE /\ 0 <= ReadSize /\ 0 <= 1
    BY EmptySeq DEF BufferSizesAssumption
  <2>2. /\ unwritten' = [unwritten EXCEPT ![c] = << >>] /\ buffer' = [buffer EXCEPT ![c] = << >>]
        /\ bytes' = [bytes EXCEPT ![c] = << >>]
    BY DEF Restart
  <2> QED  BY <2>1, <2>2 DEF LinkTypeOK
<1>11. first' \in [Chips -> Frames]  BY NoneType DEF LinkTypeOK, Restart
<1> QED  BY <1>5, <1>6, <1>7, <1>8, <1>9, <1>10, <1>11 DEF LinkTypeOK

LEMMA MissType ==
  ASSUME BufferSizesAssumption, LinkTypeOK, NEW c \in Chips, Valid(Other(c)), Miss(c)
  PROVE  LinkTypeOK'
<1> DEFINE s == Other(c)
           way == Tail(line[s]) \o buffer[s] \o unwritten[s]
<1>1. s \in Chips /\ line[s] # << >>  BY TwoChips DEF Miss
<1>2. line' = [line EXCEPT ![s] = Tail(@)] /\ unwritten' = unwritten /\ buffer' = buffer
  BY DEF Miss
<1>3. line[s] \in Seq(Places) /\ Len(line[s]) <= LineSize  BY <1>1 DEF LinkTypeOK
<1>4. Tail(line[s]) \in Seq(Places) /\ Len(Tail(line[s])) = Len(line[s]) - 1 /\ Len(line[s]) \in Nat
  BY <1>1, <1>3, HeadTailProperties
<1>5. Len(Tail(line[s])) <= LineSize  BY <1>3, <1>4 DEF BufferSizesAssumption
<1>6. line' \in [Chips -> Seq(Places)] /\ \A d \in Chips : Len(line[d]') <= LineSize
  BY <1>1, <1>2, <1>4, <1>5 DEF LinkTypeOK
<1>7. way = Tail(Way(s)) /\ Way(s) # << >>  BY <1>1, <1>2, WayMiss DEF LinkTypeOK
<1>8. way \in Seq(Places) /\ (way # << >> => \E i \in DOMAIN Way(s) : Head(way) = Way(s)[i])
  BY <1>1, <1>7, WayTail
<1> HIDE DEF way
<1>9. Left(s, way) \in Seq(Frames)  BY <1>1, <1>8, LeftOfWay
<1>10. ((atRisk[s] \cup Beheaded(way)) \cap ToSet(Left(s, way))) \in SUBSET Frames
  BY <1>9 DEF ToSet
<1>11. /\ expected' = [expected EXCEPT ![s] = Left(s, way)]
       /\ atRisk' = [atRisk EXCEPT ![s] = (@ \cup Beheaded(way)) \cap ToSet(Left(s, way))]
  BY DEF Miss, way
<1>12. expected' \in [Chips -> Seq(Frames)] /\ atRisk' \in [Chips -> SUBSET Frames]
  BY <1>9, <1>10, <1>11 DEF LinkTypeOK
<1> QED  BY <1>2, <1>6, <1>12 DEF LinkTypeOK, Miss, reading

LEMMA BootType ==
  ASSUME LinkTypeOK, NEW c \in Chips, Boot(c)
  PROVE  LinkTypeOK'
BY DEF LinkTypeOK, Boot, reading, history
-----------------------------------------------------------------------------
(* The invariant of a way is kept.                                          *)

\* A step that moves places from one part of the way to another.
LEMMA SameWay ==
  ASSUME NEW c \in Chips, WayInv(c), Way(c)' = Way(c), Closed(c)',
         expected[c]' = expected[c], atRisk[c]' = atRisk[c],
         bytes[Other(c)]' = bytes[Other(c)], escaped[Other(c)]' = escaped[Other(c)],
         first[Other(c)]' = first[Other(c)]
  PROVE  WayInv(c)'
<1>1. Valid(c)'  BY DEF WayInv, Valid
<1>2. Ordered(c)'  BY DEF WayInv, Ordered
<1>3. Chained(c)'  BY DEF WayInv, Chained
<1>4. Covered(c)'  BY DEF WayInv, Covered
<1>5. Begun(c)'  BY DEF WayInv, Begun
<1>6. Awaited(c)'  BY DEF WayInv, Awaited, InStep
<1> QED  BY <1>1, <1>2, <1>3, <1>4, <1>5, <1>6 DEF WayInv

\* A step that leaves the way alone, and what is known of it.
LEMMA NothingNew ==
  ASSUME NEW c \in Chips, WayInv(c), Way(c)' = Way(c), unwritten[c]' = unwritten[c],
         expected[c]' = expected[c], atRisk[c]' = atRisk[c], spoilt[c]' = spoilt[c],
         bytes[Other(c)]' = bytes[Other(c)], escaped[Other(c)]' = escaped[Other(c)],
         first[Other(c)]' = first[Other(c)]
  PROVE  WayInv(c)'
<1>1. Closed(c)'  BY DEF WayInv, Closed
<1> QED  BY <1>1, SameWay

LEMMA AppendPlaces ==
  ASSUME NEW S, NEW a \in Seq(S), NEW e \in S
  PROVE  LET b == Append(a, e) IN
         /\ b \in Seq(S) /\ b # << >> /\ Len(b) = Len(a) + 1 /\ Len(a) \in Nat
         /\ DOMAIN a = 1 .. Len(a) /\ DOMAIN b = 1 .. Len(a) + 1
         /\ b[Len(a) + 1] = e
         /\ \A i \in DOMAIN a : i \in DOMAIN b /\ i < Len(a) + 1 /\ b[i] = a[i] /\ a[i] \in S
         /\ \A i \in DOMAIN b : i \in DOMAIN a \/ i = Len(a) + 1
         /\ a # << >> => Len(a) \in DOMAIN a
OBVIOUS

\* A message begins behind all others.
LEMMA WriteKeeps ==
  ASSUME LinkTypeOK, NEW c \in Chips, WayInv(c), Write(c)
  PROVE  WayInv(c)'
<1> DEFINE r == Other(c)
           w == Way(c)
           x == expected[c]
<1>1. r \in Chips /\ r # c  BY TwoChips
<1>2. PICK m \in Messages[c] :
        LET f == [message |-> m, id |-> FreeId(c)] IN
        /\ unwritten' = [unwritten EXCEPT ![c] = <<Place(f, 0)>>]
        /\ expected' = [expected EXCEPT ![c] = Append(@, f)]
        /\ atRisk' = [atRisk EXCEPT ![c] = IF spoilt[c] THEN @ \cup {f} ELSE @]
        /\ spoilt' = [spoilt EXCEPT ![c] = FALSE]
  BY DEF Write
<1> DEFINE f == [message |-> m, id |-> FreeId(c)]
           e == Place(f, 0)
<1>3. m \in Seq(Bytes) /\ Len(m) \in Nat  BY LinkAssumption DEF MessagesAssumption
<1>4. f \in Frames /\ \A p \in DOMAIN x : x[p] # f
  BY <1>3, FreeIdIsFree DEF Frames
<1>5. e \in Places /\ e.of = f /\ e.at = 0 /\ ~e.half
  <2>1. e \in Places  BY <1>4, PlaceType
  <2>2. ~Escapes(f, 0)  BY DEF Escapes
  <2> QED  BY <2>1, <2>2 DEF Place
<1>6. /\ unwritten[c] = << >> /\ unwritten[c]' = <<e>> /\ unwritten[c]' # << >>
      /\ line[c]' = line[c] /\ buffer[c]' = buffer[c]
      /\ expected[c]' = Append(x, f)
      /\ atRisk[c]' = IF spoilt[c] THEN atRisk[c] \cup {f} ELSE atRisk[c]
      /\ bytes[r]' = bytes[r] /\ escaped[r]' = escaped[r] /\ first[r]' = first[r]
  BY <1>1, <1>2 DEF LinkTypeOK, Write, reading
<1>7. Way(c)' = Append(w, e)  BY <1>5, <1>6, WayWrite
<1>8. x \in Seq(Frames) /\ w \in Seq(Places)  BY WayType DEF LinkTypeOK
<1>9. Len(f.message) \in Nat /\ f.message \in Messages[c]  BY <1>3
<1> HIDE DEF f, e, w, x
<1> DEFINE w1 == Append(w, e)
           x1 == Append(x, f)
           lw == Len(w)
           lx == Len(x)
<1>10. /\ w1 # << >> /\ Len(w1) = lw + 1 /\ lw \in Nat
       /\ DOMAIN w = 1 .. lw /\ DOMAIN w1 = 1 .. lw + 1 /\ w1[lw + 1] = e
       /\ \A i \in DOMAIN w : i \in DOMAIN w1 /\ i < lw + 1 /\ w1[i] = w[i]
       /\ \A i \in DOMAIN w1 : i \in DOMAIN w \/ i = lw + 1
       /\ w # << >> => lw \in DOMAIN w
  BY <1>5, <1>8, AppendPlaces
<1>11. /\ Len(x1) = lx + 1 /\ lx \in Nat
       /\ DOMAIN x = 1 .. lx /\ DOMAIN x1 = 1 .. lx + 1 /\ x1[lx + 1] = f
       /\ \A p \in DOMAIN x : p \in DOMAIN x1 /\ p < lx + 1 /\ x1[p] = x[p]
       /\ \A p \in DOMAIN x1 : p \in DOMAIN x \/ p = lx + 1
  BY <1>4, <1>8, AppendPlaces
<1>12. Way(c)' = w1 /\ expected[c]' = x1  BY <1>6, <1>7
<1> HIDE DEF w1, x1, lw, lx
<1>13. \A i \in DOMAIN w : \E p \in DOMAIN x : x[p] = w[i].of  BY DEF WayInv, Valid, w, x
<1>14. \A i \in DOMAIN w : w[i].of # f  BY <1>4, <1>13
<1>15. \A p \in DOMAIN x1 : x1[p] = f <=> p = lx + 1  BY <1>4, <1>11
<1>16. Valid(c)'
  <2>1. ASSUME NEW i \in DOMAIN w1
        PROVE  IsPlace(w1[i]) /\ \E p \in DOMAIN x1 : x1[p] = w1[i].of
    <3>1. CASE i \in DOMAIN w  BY <1>10, <1>11, <1>13, <3>1 DEF WayInv, Valid, w
    <3>2. CASE i = lw + 1
      <4>1. lx + 1 \in DOMAIN x1 /\ x1[lx + 1] = e.of  BY <1>5, <1>11
      <4>2. IsPlace(e)  BY <1>5, <1>9 DEF IsPlace
      <4> QED  BY <1>10, <3>2, <4>1, <4>2
    <3> QED  BY <1>10, <3>1, <3>2
  <2>2. \A p \in DOMAIN x1 : x1[p].message \in Messages[c]
    BY <1>9, <1>11 DEF WayInv, Valid, x
  <2>3. \A p, q \in DOMAIN x1 : x1[p] = x1[q] => p = q
    BY <1>4, <1>11 DEF WayInv, Valid, x
  <2> QED  BY <1>12, <2>1, <2>2, <2>3 DEF Valid
<1>17. Ordered(c)'
  <2>1. ASSUME NEW i \in DOMAIN w1, NEW j \in DOMAIN w1, NEW p \in DOMAIN x1, NEW q \in DOMAIN x1,
               i < j, x1[p] = w1[i].of, x1[q] = w1[j].of
        PROVE  p <= q /\ (w1[j].at = 0 => p < q)
    <3>1. i \in DOMAIN w /\ w1[i] = w[i]  BY <1>10, <2>1
    <3>2. p \in DOMAIN x /\ x1[p] = x[p]  BY <1>11, <1>14, <2>1, <3>1
    <3>3. CASE j \in DOMAIN w
      <4>1. w1[j] = w[j]  BY <1>10, <3>3
      <4>2. q \in DOMAIN x /\ x1[q] = x[q]  BY <1>11, <1>14, <2>1, <3>3, <4>1
      <4> QED  BY <2>1, <3>1, <3>2, <3>3, <4>1, <4>2 DEF WayInv, Ordered, w, x
    <3>4. CASE j = lw + 1
      <4>1. q = lx + 1  BY <1>5, <1>10, <1>15, <2>1, <3>4
      <4> QED  BY <1>11, <3>2, <4>1
    <3> QED  BY <1>10, <3>3, <3>4
  <2> QED  BY <1>12, <2>1 DEF Ordered
<1>18. Chained(c)'
  <2>1. ASSUME NEW i \in 1 .. Len(w1) - 1 PROVE Follows(atRisk[c]', w1[i], w1[i + 1])
    <3>1. CASE i < lw
      <4>1. i \in 1 .. Len(w) - 1 /\ w1[i] = w[i] /\ w1[i + 1] = w[i + 1]
        BY <1>10, <3>1 DEF lw
      <4> QED  BY <1>6, <4>1 DEF WayInv, Chained, Follows, w
    <3>2. CASE i = lw
      <4>1. w1[i] = w[lw] /\ w1[i + 1] = e /\ w # << >>  BY <1>10, <3>2
      <4>2. (Ends(w[lw]) \/ w[lw].of \in atRisk[c]) /\ (w[lw].half => spoilt[c])
        BY <1>6, <4>1 DEF WayInv, Closed, w, lw
      <4> QED  BY <1>5, <1>6, <4>1, <4>2 DEF Follows
    <3> QED  BY <1>10, <3>1, <3>2
  <2> QED  BY <1>12, <2>1 DEF Chained
<1>19. Closed(c)'  BY <1>6 DEF Closed
<1>20. Covered(c)'
  <2>1. ASSUME NEW p \in DOMAIN x1
        PROVE  x1[p] \in atRisk[c]' \/ \E i \in DOMAIN w1 : w1[i].of = x1[p]
    <3>1. CASE p \in DOMAIN x
      BY <1>6, <1>10, <1>11, <3>1 DEF WayInv, Covered, w, x
    <3>2. CASE p = lx + 1  BY <1>5, <1>10, <1>11, <3>2
    <3> QED  BY <1>11, <3>1, <3>2
  <2> QED  BY <1>12, <2>1 DEF Covered
<1>21. Begun(c)'
  <2>1. CASE bytes[r] = << >>  BY <1>6, <2>1 DEF WayInv, Begun
  <2>2. CASE bytes[r] # << >>
    <3>1. PICK k \in DOMAIN x :
            /\ x[k] = first[r]
            /\ \A i \in DOMAIN w, q \in DOMAIN x : x[q] = w[i].of => k <= q /\ (w[i].at = 0 => k < q)
      BY <2>2 DEF WayInv, Begun, w, x
    <3>2. ASSUME NEW i \in DOMAIN w1, NEW q \in DOMAIN x1, x1[q] = w1[i].of
          PROVE  k <= q /\ (w1[i].at = 0 => k < q)
      <4>1. CASE i \in DOMAIN w
        <5>1. w1[i] = w[i] /\ q \in DOMAIN x /\ x1[q] = x[q]
          BY <1>10, <1>11, <1>14, <3>2, <4>1
        <5> QED  BY <3>1, <3>2, <4>1, <5>1
      <4>2. CASE i = lw + 1
        <5>1. q = lx + 1  BY <1>5, <1>10, <1>15, <3>2, <4>2
        <5> QED  BY <1>11, <5>1
      <4> QED  BY <1>10, <4>1, <4>2
    <3>3. k \in DOMAIN x1 /\ x1[k] = first[r]'  BY <1>6, <1>11, <3>1
    <3> QED  BY <1>6, <1>12, <2>2, <3>2, <3>3 DEF Begun
  <2> QED  BY <2>1, <2>2
<1>22. Awaited(c)'
  <2>1. CASE w = << >>
    <3>1. w1[1] = e  BY <1>8, <1>10, <2>1, EmptySeq DEF lw
    <3>2. escaped[r] => spoilt[c]  BY <1>6, <2>1 DEF WayInv, Closed, w
    <3> QED  BY <1>5, <1>6, <1>12, <3>1, <3>2 DEF Awaited
  <2>2. CASE w # << >>
    <3>1. w1[1] = w[1]  BY <1>10, <2>2
    <3> QED  BY <1>6, <1>12, <2>2, <3>1 DEF WayInv, Awaited, InStep, w
  <2> QED  BY <2>1, <2>2
<1> QED  BY <1>16, <1>17, <1>18, <1>19, <1>20, <1>21, <1>22 DEF WayInv

\* The next place of a message comes behind the last one.
LEMMA PutByteKeeps ==
  ASSUME LinkTypeOK, NEW c \in Chips, WayInv(c), PutByte(c)
  PROVE  WayInv(c)'
<1> DEFINE r == Other(c)
           w == Way(c)
           x == expected[c]
           d == Head(unwritten[c])
           e == Behind(d)
           lw == Len(w)
<1>1. r \in Chips /\ r # c  BY TwoChips
<1>2. /\ d \in Places
      /\ Ends(d) => unwritten[c]' = << >> /\ Way(c)' = w
      /\ ~Ends(d) => unwritten[c]' = <<e>> /\ (e \in Places => Way(c)' = Append(w, e))
  BY WayPut, LinkAssumption
<1>3. /\ expected[c]' = x /\ atRisk[c]' = atRisk[c] /\ spoilt[c]' = spoilt[c]
      /\ bytes[r]' = bytes[r] /\ escaped[r]' = escaped[r] /\ first[r]' = first[r]
  BY DEF PutByte, reading, history
<1>4. w \in Seq(Places) /\ w # << >> /\ w[lw] = d /\ lw \in Nat \ {0} /\ lw \in DOMAIN w
  <2>1. unwritten[c] # << >>  BY DEF PutByte
  <2>2. w \in Seq(Places) /\ DOMAIN w = 1 .. lw /\ w # << >> /\ w[lw] = d  BY <2>1, WayType
  <2>3. lw \in Nat \ {0}  BY <2>2, EmptySeq
  <2> QED  BY <2>2, <2>3
<1>5. IsPlace(d)  BY <1>4 DEF WayInv, Valid
<1>6. CASE Ends(d)
  <2>1. Closed(c)'
    <3>1. ~d.half
      <4>1. d.of.message \in Seq(Bytes)  BY <1>2 DEF Places, Frames
      <4>2. Len(d.of.message) \in Nat  BY <4>1
      <4> QED  BY <1>5, <1>6, <4>2 DEF IsPlace, Escapes, Ends
    <3>2. Way(c)' = w  BY <1>2, <1>6
    <3> QED  BY <1>4, <1>6, <3>1, <3>2 DEF Closed
  <2> QED  BY <1>2, <1>3, <1>6, <2>1, SameWay
<1>7. CASE ~Ends(d)
  <2>1. /\ e \in Places /\ e.of = d.of /\ e.at # 0 /\ IsPlace(e)
    <3>1. /\ e \in Places /\ e.of = d.of /\ e.at > 0 /\ e.at <= Len(d.of.message) + 1
          /\ (e.half => Escapes(d.of, e.at))
      BY <1>2, <1>5, <1>7, BehindType DEF IsPlace
    <3> QED  BY <3>1 DEF IsPlace, Places
  <2>2. Way(c)' = Append(w, e) /\ unwritten[c]' # << >>
    <3>1. Way(c)' = Append(w, e) /\ unwritten[c]' = <<e>>  BY <1>2, <1>7, <2>1
    <3> QED  BY <3>1
  <2>3. Follows(atRisk[c], d, e)  BY <1>7 DEF Follows
  <2> HIDE DEF e, d, w, x
  <2> DEFINE w1 == Append(w, e)
  <2>4. /\ w1 # << >> /\ Len(w1) = lw + 1
        /\ DOMAIN w = 1 .. lw /\ DOMAIN w1 = 1 .. lw + 1 /\ w1[lw + 1] = e
        /\ \A i \in DOMAIN w : i \in DOMAIN w1 /\ i < lw + 1 /\ w1[i] = w[i]
        /\ \A i \in DOMAIN w1 : i \in DOMAIN w \/ i = lw + 1
    BY <1>4, <2>1, AppendPlaces
  <2>5. Way(c)' = w1  BY <2>2
  <2> HIDE DEF w1, lw
  <2>6. Valid(c)'
    <3>1. ASSUME NEW i \in DOMAIN w1
          PROVE  IsPlace(w1[i]) /\ \E p \in DOMAIN x : x[p] = w1[i].of
      <4>1. CASE i \in DOMAIN w  BY <2>4, <4>1 DEF WayInv, Valid, w, x
      <4>2. CASE i = lw + 1
        <5>1. \E p \in DOMAIN x : x[p] = d.of  BY <1>4 DEF WayInv, Valid, w, x
        <5> QED  BY <2>1, <2>4, <4>2, <5>1
      <4> QED  BY <2>4, <4>1, <4>2
    <3>2. /\ \A p \in DOMAIN x : x[p].message \in Messages[c]
          /\ \A p, q \in DOMAIN x : x[p] = x[q] => p = q
      BY DEF WayInv, Valid, x
    <3> QED  BY <1>3, <2>5, <3>1, <3>2 DEF Valid
  <2>7. Ordered(c)'
    <3>1. ASSUME NEW i \in DOMAIN w1, NEW j \in DOMAIN w1, NEW p \in DOMAIN x, NEW q \in DOMAIN x,
                 i < j, x[p] = w1[i].of, x[q] = w1[j].of
          PROVE  p <= q /\ (w1[j].at = 0 => p < q)
      <4>1. i \in DOMAIN w /\ w1[i] = w[i]  BY <2>4, <3>1
      <4>2. CASE j \in DOMAIN w
        BY <2>4, <3>1, <4>1, <4>2 DEF WayInv, Ordered, w, x
      <4>3. CASE j = lw + 1
        <5>1. w1[j].at # 0 /\ x[q] = w[lw].of  BY <1>4, <2>1, <2>4, <3>1, <4>3
        <5>2. i = lw => p = q  BY <3>1, <4>1, <5>1 DEF WayInv, Valid, x
        <5>3. i # lw => i < lw  BY <1>4, <2>4, <4>1
        <5>4. i # lw => p <= q
          BY <1>4, <3>1, <4>1, <5>1, <5>3 DEF WayInv, Ordered, w, x
        <5>5. p \in Nat /\ q \in Nat
          <6>1. x \in Seq(Frames)  BY DEF LinkTypeOK, x
          <6> QED  BY <6>1
        <5> QED  BY <5>1, <5>2, <5>4, <5>5
      <4> QED  BY <2>4, <4>2, <4>3
    <3> QED  BY <1>3, <2>5, <3>1 DEF Ordered
  <2>8. Chained(c)'
    <3>1. ASSUME NEW i \in 1 .. Len(w1) - 1 PROVE Follows(atRisk[c], w1[i], w1[i + 1])
      <4>1. CASE i < lw
        <5>1. i \in 1 .. Len(w) - 1 /\ w1[i] = w[i] /\ w1[i + 1] = w[i + 1]
          BY <1>4, <2>4, <4>1 DEF lw
        <5> QED  BY <5>1 DEF WayInv, Chained, w
      <4>2. CASE i = lw
        <5>1. w1[i] = d /\ w1[i + 1] = e  BY <1>4, <2>4, <4>2
        <5> QED  BY <2>3, <5>1
      <4> QED  BY <1>4, <2>4, <4>1, <4>2
    <3> QED  BY <1>3, <2>5, <3>1 DEF Chained
  <2>9. Closed(c)'  BY <2>2 DEF Closed
  <2>10. Covered(c)'
    <3>1. ASSUME NEW p \in DOMAIN x
          PROVE  x[p] \in atRisk[c] \/ \E i \in DOMAIN w1 : w1[i].of = x[p]
      BY <2>4 DEF WayInv, Covered, w, x
    <3> QED  BY <1>3, <2>5, <3>1 DEF Covered
  <2>11. Begun(c)'
    <3>1. CASE bytes[r] = << >>  BY <1>3, <3>1 DEF WayInv, Begun
    <3>2. CASE bytes[r] # << >>
      <4>1. PICK k \in DOMAIN x :
              /\ x[k] = first[r]
              /\ \A i \in DOMAIN w, q \in DOMAIN x : x[q] = w[i].of => k <= q /\ (w[i].at = 0 => k < q)
        BY <3>2 DEF WayInv, Begun, w, x
      <4>2. ASSUME NEW i \in DOMAIN w1, NEW q \in DOMAIN x, x[q] = w1[i].of
            PROVE  k <= q /\ (w1[i].at = 0 => k < q)
        <5>1. CASE i \in DOMAIN w  BY <2>4, <4>1, <4>2, <5>1
        <5>2. CASE i = lw + 1
          <6>1. w1[i].at # 0 /\ x[q] = w[lw].of  BY <1>4, <2>1, <2>4, <4>2, <5>2
          <6> QED  BY <1>4, <4>1, <6>1
        <5> QED  BY <2>4, <5>1, <5>2
      <4> QED  BY <1>3, <2>5, <3>2, <4>1, <4>2 DEF Begun
    <3> QED  BY <3>1, <3>2
  <2>12. Awaited(c)'
    <3>1. w1[1] = w[1]  BY <1>4, <2>4
    <3> QED  BY <1>3, <1>4, <2>5, <3>1 DEF WayInv, Awaited, InStep, w
  <2> QED  BY <2>6, <2>7, <2>8, <2>9, <2>10, <2>11, <2>12 DEF WayInv
<1> QED  BY <1>6, <1>7

LEMMA FollowsMore ==
  ASSUME NEW X, NEW Y, NEW d, NEW e, Follows(X, d, e), d.of \in X => d.of \in Y,
         e.of \in X => e.of \in Y
  PROVE  Follows(Y, d, e)
BY DEF Follows

\* What comes behind the first place of the way, when that is read or lost (n = 1)
\* or not (n = 0), and the h oldest messages are not expected any more.
LEMMA Shortened ==
  ASSUME LinkTypeOK, LinkTypeOK', NEW s \in Chips, WayInv(s), NEW n \in 0 .. 1, NEW h \in Nat,
         Len(Way(s)) = Len(Way(s)') + n,
         \A i \in DOMAIN Way(s)' : i + n \in DOMAIN Way(s) /\ Way(s)'[i] = Way(s)[i + n],
         \A i \in DOMAIN Way(s) : i > n => i - n \in DOMAIN Way(s)' /\ Way(s)'[i - n] = Way(s)[i],
         \A q \in DOMAIN expected[s]' : /\ q + h \in DOMAIN expected[s]
                                        /\ expected[s]'[q] = expected[s][q + h],
         \A p \in DOMAIN expected[s] : p > h => /\ p - h \in DOMAIN expected[s]'
                                               /\ expected[s]'[p - h] = expected[s][p],
         \A i \in DOMAIN Way(s)', p \in DOMAIN expected[s] :
           expected[s][p] = Way(s)'[i].of => p > h,
         \A q \in DOMAIN expected[s]' :
           expected[s]'[q] \in atRisk[s] => expected[s]'[q] \in atRisk[s]',
         unwritten[s]' = unwritten[s], spoilt[s]' = spoilt[s],
         Way(s)' = << >> /\ unwritten[s] = << >> => (escaped[Other(s)]' => spoilt[s]),
         n = 1 => \A p \in DOMAIN expected[s] :
           p > h /\ Way(s)[1].of = expected[s][p] =>
             \/ expected[s][p] \in atRisk[s]'
             \/ \E i \in DOMAIN Way(s)' : Way(s)'[i].of = expected[s][p]
  PROVE  Valid(s)' /\ Ordered(s)' /\ Chained(s)' /\ Closed(s)' /\ Covered(s)'
<1> DEFINE w == Way(s)
           x == expected[s]
           w1 == Way(s)'
           x1 == expected[s]'
<1>1. /\ w \in Seq(Places) /\ DOMAIN w = 1 .. Len(w) /\ Len(w) \in Nat
      /\ w1 \in Seq(Places) /\ DOMAIN w1 = 1 .. Len(w1) /\ Len(w1) \in Nat
      /\ DOMAIN x = 1 .. Len(x) /\ Len(x) \in Nat /\ DOMAIN x1 = 1 .. Len(x1) /\ Len(x1) \in Nat
  <2>1. w \in Seq(Places)  BY WayType
  <2>2. w1 \in Seq(Places)
    <3>1. line[s]' \in Seq(Places) /\ buffer[s]' \in Seq(Places) /\ unwritten[s]' \in Seq(Places)
      BY DEF LinkTypeOK
    <3>2. w1 = line[s]' \o buffer[s]' \o unwritten[s]'  BY DEF Way
    <3> HIDE DEF w1
    <3> QED  BY <3>1, <3>2
  <2>3. x \in Seq(Frames) /\ x1 \in Seq(Frames)  BY DEF LinkTypeOK
  <2> HIDE DEF w, w1, x, x1
  <2> QED  BY <2>1, <2>2, <2>3
<1>2. \A i \in DOMAIN w1 : i + n \in DOMAIN w /\ w1[i] = w[i + n]  OBVIOUS
<1>3. \A i \in DOMAIN w : i > n => i - n \in DOMAIN w1 /\ w1[i - n] = w[i]  OBVIOUS
<1>4. \A q \in DOMAIN x1 : q + h \in DOMAIN x /\ x1[q] = x[q + h]  OBVIOUS
<1>5. \A p \in DOMAIN x : p > h => p - h \in DOMAIN x1 /\ x1[p - h] = x[p]  OBVIOUS
<1>6. \A i \in DOMAIN w1, p \in DOMAIN x : x[p] = w1[i].of => p > h  OBVIOUS
<1>7. \A q \in DOMAIN x1 : x1[q] \in atRisk[s] => x1[q] \in atRisk[s]'  OBVIOUS
<1>8. n = 1 => \A p \in DOMAIN x :
        p > h /\ w[1].of = x[p] =>
          x[p] \in atRisk[s]' \/ \E i \in DOMAIN w1 : w1[i].of = x[p]
  OBVIOUS
<1>9. Way(s)' = w1 /\ expected[s]' = x1 /\ Len(w) = Len(w1) + n  OBVIOUS
<1>10. Way(s)' = << >> /\ unwritten[s] = << >> => (escaped[Other(s)]' => spoilt[s])  OBVIOUS
<1> HIDE DEF w1, x1
<1>11. \A i \in DOMAIN w : \E p \in DOMAIN x : x[p] = w[i].of  BY DEF WayInv, Valid
<1>12. \A i \in DOMAIN w1 : \E q \in DOMAIN x1 : x1[q] = w1[i].of
  <2> SUFFICES ASSUME NEW i \in DOMAIN w1 PROVE \E q \in DOMAIN x1 : x1[q] = w1[i].of
    OBVIOUS
  <2>1. PICK p \in DOMAIN x : x[p] = w1[i].of  BY <1>2, <1>11
  <2>2. p > h  BY <1>6, <2>1
  <2> QED  BY <1>5, <2>1, <2>2
<1>13. Valid(s)'
  <2>1. \A i \in DOMAIN w1 : IsPlace(w1[i])  BY <1>2 DEF WayInv, Valid
  <2>2. \A q \in DOMAIN x1 : x1[q].message \in Messages[s]  BY <1>4 DEF WayInv, Valid
  <2>3. ASSUME NEW p \in DOMAIN x1, NEW q \in DOMAIN x1, x1[p] = x1[q] PROVE p = q
    <3>1. p + h = q + h  BY <1>4, <2>3 DEF WayInv, Valid
    <3> QED  BY <1>1, <3>1
  <2> QED  BY <1>9, <1>12, <2>1, <2>2, <2>3 DEF Valid
<1>14. Ordered(s)'
  <2>1. ASSUME NEW i \in DOMAIN w1, NEW j \in DOMAIN w1, NEW p \in DOMAIN x1, NEW q \in DOMAIN x1,
               i < j, x1[p] = w1[i].of, x1[q] = w1[j].of
        PROVE  p <= q /\ (w1[j].at = 0 => p < q)
    <3>1. i + n \in DOMAIN w /\ w1[i] = w[i + n] /\ j + n \in DOMAIN w /\ w1[j] = w[j + n]
      BY <1>2
    <3>2. p + h \in DOMAIN x /\ x1[p] = x[p + h] /\ q + h \in DOMAIN x /\ x1[q] = x[q + h]
      BY <1>4
    <3>3. i \in Nat /\ j \in Nat /\ p \in Nat /\ q \in Nat  BY <1>1
    <3>4. i + n < j + n  BY <2>1, <3>3
    <3>5. p + h <= q + h /\ (w[j + n].at = 0 => p + h < q + h)
      BY <2>1, <3>1, <3>2, <3>4 DEF WayInv, Ordered
    <3> QED  BY <3>1, <3>3, <3>5
  <2> QED  BY <1>9, <2>1 DEF Ordered
<1>15. \A i \in DOMAIN w1 : w1[i].of \in atRisk[s] => w1[i].of \in atRisk[s]'
  BY <1>7, <1>12
<1>16. Chained(s)'
  <2>1. ASSUME NEW i \in 1 .. Len(w1) - 1 PROVE Follows(atRisk[s]', w1[i], w1[i + 1])
    <3>1. i \in DOMAIN w1 /\ i + 1 \in DOMAIN w1 /\ i + n \in 1 .. Len(w) - 1
          /\ i + n + 1 = (i + 1) + n
      BY <1>1, <1>9
    <3>2. w1[i] = w[i + n] /\ w1[i + 1] = w[i + n + 1]  BY <1>2, <3>1
    <3>3. Follows(atRisk[s], w[i + n], w[i + n + 1])  BY <3>1 DEF WayInv, Chained
    <3>4. Follows(atRisk[s], w1[i], w1[i + 1])  BY <3>2, <3>3
    <3> QED  BY <1>15, <3>1, <3>4, FollowsMore
  <2> QED  BY <1>9, <2>1 DEF Chained
<1>17. Closed(s)'
  <2>1. CASE w1 = << >>  BY <1>9, <1>10, <2>1 DEF Closed
  <2>2. CASE w1 # << >> /\ unwritten[s] = << >>
    <3>1. Len(w1) \in DOMAIN w1  BY <1>1, <2>2, EmptySeq
    <3>2. w1[Len(w1)] = w[Len(w)] /\ w # << >>
      <4>1. w1[Len(w1)] = w[Len(w1) + n]  BY <1>2, <3>1
      <4>2. Len(w) # 0  BY <1>1, <1>9, <3>1
      <4> QED  BY <1>9, <4>1, <4>2, EmptySeq
    <3>3. (Ends(w[Len(w)]) \/ w[Len(w)].of \in atRisk[s]) /\ (w[Len(w)].half => spoilt[s])
      BY <2>2, <3>2 DEF WayInv, Closed
    <3>4. (Ends(w1[Len(w1)]) \/ w1[Len(w1)].of \in atRisk[s]') /\ (w1[Len(w1)].half => spoilt[s]')
      BY <1>15, <3>1, <3>2, <3>3
    <3> QED  BY <1>9, <2>2, <3>4 DEF Closed
  <2>3. CASE unwritten[s] # << >>  BY <2>3 DEF Closed
  <2> QED  BY <2>1, <2>2, <2>3
<1>18. Covered(s)'
  <2>1. ASSUME NEW q \in DOMAIN x1
        PROVE  x1[q] \in atRisk[s]' \/ \E i \in DOMAIN w1 : w1[i].of = x1[q]
    <3>1. q + h \in DOMAIN x /\ x1[q] = x[q + h] /\ q + h > h  BY <1>1, <1>4
    <3>2. CASE x[q + h] \in atRisk[s]  BY <1>7, <3>1, <3>2
    <3>3. CASE \E i \in DOMAIN w : w[i].of = x[q + h]
      <4>1. PICK i \in DOMAIN w : w[i].of = x[q + h]  BY <3>3
      <4>2. CASE i > n  BY <1>3, <3>1, <4>1, <4>2
      <4>3. CASE i <= n
        <5>1. i = 1 /\ n = 1  BY <1>1, <4>3
        <5> QED  BY <1>8, <3>1, <4>1, <5>1
      <4> QED  BY <1>1, <4>2, <4>3
    <3> QED  BY <3>1, <3>2, <3>3 DEF WayInv, Covered
  <2> QED  BY <1>9, <2>1 DEF Covered
<1> QED  BY <1>13, <1>14, <1>16, <1>17, <1>18

\* Which byte stands at a place.
LEMMA BytesOfPlaces ==
  ASSUME BytesAssumption, NEW e \in Places, IsPlace(e)
  PROVE  /\ Byte(e) = END <=> e.at = 0 \/ Ends(e)
         /\ Byte(e) = ESC <=> e.half
         /\ e.half => e.at # 0 /\ ~Ends(e) /\ Escapes(e.of, e.at)
         /\ e.at # 0 /\ ~Ends(e) /\ ~e.half => 
              IF Escapes(e.of, e.at) THEN Unescaped(Byte(e)) = e.of.message[e.at]
              ELSE Byte(e) = e.of.message[e.at]
<1> DEFINE m == e.of.message
           b == m[e.at]
<1>1. m \in Seq(Bytes) /\ e.at \in Nat /\ Len(m) \in Nat /\ e.at <= Len(m) + 1
      /\ (e.half => Escapes(e.of, e.at)) /\ e.half \in BOOLEAN
  BY DEF Places, Frames, IsPlace
<1>2. Ends(e) <=> e.at = Len(m) + 1  BY DEF Ends
<1>3. Escapes(e.of, e.at) <=> e.at \in 1 .. Len(m) /\ b \in {END, ESC}  BY DEF Escapes
<1>4. e.half => e.at # 0 /\ ~Ends(e) /\ Escapes(e.of, e.at)  BY <1>1, <1>2, <1>3
<1>5. e.at # 0 /\ ~Ends(e) => e.at \in 1 .. Len(m)  BY <1>1, <1>2
<1>6. Byte(e) = IF e.at = 0 \/ Ends(e) THEN END ELSE IF e.half THEN ESC
                ELSE IF b = END THEN ESC_END ELSE IF b = ESC THEN ESC_ESC ELSE b
  BY DEF Byte
<1> HIDE DEF m, b
<1>7. CASE e.at = 0 \/ Ends(e)  BY <1>4, <1>6, <1>7 DEF BytesAssumption
<1>8. CASE ~(e.at = 0 \/ Ends(e)) /\ e.half  BY <1>4, <1>6, <1>8 DEF BytesAssumption
<1>9. CASE ~(e.at = 0 \/ Ends(e)) /\ ~e.half
  <2>1. Escapes(e.of, e.at) <=> b \in {END, ESC}  BY <1>3, <1>5, <1>9
  <2>2. Byte(e) # END /\ Byte(e) # ESC  BY <1>6, <1>9 DEF BytesAssumption
  <2>3. b = END => Unescaped(Byte(e)) = b  BY <1>6, <1>9 DEF BytesAssumption, Unescaped
  <2>4. b = ESC => Unescaped(Byte(e)) = b  BY <1>6, <1>9 DEF BytesAssumption, Unescaped
  <2>5. b \notin {END, ESC} => Byte(e) = b  BY <1>6, <1>9
  <2> QED  BY <1>9, <2>1, <2>2, <2>3, <2>4, <2>5 DEF m, b
<1> QED  BY <1>7, <1>8, <1>9

\* A message that is not at risk goes on with the next place,
LEMMA GoesOn ==
  ASSUME LinkTypeOK, NEW s \in Chips, WayInv(s), line[s] # << >>,
         Way(s)[1].of \notin atRisk[s], ~Ends(Way(s)[1])
  PROVE  2 \in DOMAIN Way(s) /\ Way(s)[2] = Behind(Way(s)[1]) /\ Way(s)[2].of = Way(s)[1].of
<1> DEFINE w == Way(s)
           e == w[1]
<1>1. /\ w \in Seq(Places) /\ DOMAIN w = 1 .. Len(w) /\ Len(line[s]) <= Len(w)
      /\ unwritten[s] # << >> => Len(line[s]) < Len(w)
  BY WayType
<1>2. e \in Places /\ IsPlace(e) /\ w # << >>
  BY NextPlace DEF WayInv, IsPlace
<1>3. Len(w) \in Nat /\ Len(line[s]) \in Nat \ {0}
  <2>1. line[s] \in Seq(Places)  BY DEF LinkTypeOK
  <2>2. Len(line[s]) \in Nat \ {0}  BY <2>1, EmptySeq
  <2> HIDE DEF w
  <2> QED  BY <1>1, <2>2
<1>4. Len(w) > 1
  <2>1. CASE unwritten[s] # << >>  BY <1>1, <1>3, <2>1
  <2>2. CASE unwritten[s] = << >>
    <3>1. Ends(w[Len(w)]) \/ w[Len(w)].of \in atRisk[s]
      BY <1>2, <2>2 DEF WayInv, Closed
    <3>2. Len(w) # 1  BY <3>1
    <3> QED  BY <1>1, <1>3, <3>2
  <2> QED  BY <2>1, <2>2
<1>5. 1 \in 1 .. Len(w) - 1 /\ 2 \in DOMAIN w  BY <1>1, <1>3, <1>4
<1>6. Follows(atRisk[s], w[1], w[1 + 1])  BY <1>5 DEF WayInv, Chained
<1>7. w[2] = Behind(e)  BY <1>6 DEF Follows
<1>8. Behind(e).of = e.of  BY <1>2, BehindType DEF IsPlace
<1> QED  BY <1>5, <1>7, <1>8

\* and ends with what the reader has gathered of it.
LEMMA EndPasses ==
  ASSUME LinkTypeOK, NEW c \in Chips, WayInv(Other(c)), line[Other(c)] # << >>,
         Way(Other(c))[1].of \notin atRisk[Other(c)], Ends(Way(Other(c))[1])
  PROVE  ReadsEnd(c) /\ Passes(c) /\ first[c] = Way(Other(c))[1].of
<1> DEFINE s == Other(c)
           w == Way(s)
           e == w[1]
           m == e.of.message
<1>1. s \in Chips /\ Other(s) = c  BY TwoChips
<1>2. e \in Places /\ IsPlace(e) /\ w # << >> /\ e = Head(line[s]) /\ 1 \in DOMAIN w
  BY <1>1, NextPlace DEF WayInv, IsPlace
<1>3. PICK p \in DOMAIN expected[s] : expected[s][p] = e.of  BY <1>2 DEF WayInv, Valid
<1>4. m \in Seq(Bytes) /\ Len(m) \in Nat \ {0} /\ Len(m) > ChecksumSize /\ Len(m) < ReadSize
  BY <1>1, <1>3, NotNone, LinkAssumption DEF WayInv
<1>5. e.at = Len(m) + 1 /\ e.at > 0 /\ e.at > 1  BY <1>4 DEF Ends
<1>6. InStep(c, e)  BY <1>1, <1>2, <1>5 DEF WayInv, Awaited
<1>7. bytes[c] = m
  <2>1. bytes[c] = SubSeq(m, 1, Len(m))
    <3>1. e.at - 1 = Len(m)  BY <1>4, <1>5
    <3> QED  BY <1>6, <3>1 DEF InStep
  <2> HIDE DEF m
  <2> QED  BY <1>4, <2>1
<1>8. ~escaped[c]
  <2>1. ~Escapes(e.of, e.at)  BY <1>4, <1>5 DEF Escapes
  <2> QED  BY <1>6, <2>1 DEF InStep
<1>9. first[c] = e.of  BY <1>5, <1>6 DEF InStep
<1>10. ReadsEnd(c)
  <2>1. Byte(e) = END  BY <1>2, BytesOfPlaces, LinkAssumption
  <2> QED  BY <1>2, <1>8, <2>1 DEF ReadsEnd
<1>11. Gathered(c) = m
  <2>1. Len(bytes[c]) # ReadSize  BY <1>4, <1>7, LinkAssumption DEF BufferSizesAssumption
  <2> QED  BY <1>7, <2>1 DEF Gathered
<1>12. Passes(c)  BY <1>4, <1>9, <1>11 DEF Passes
<1> QED  BY <1>9, <1>10, <1>12

\* What the reader does with a place that is not an END, when it is in step: it
\* is with the next place, too.
LEMMA StaysInStep ==
  ASSUME LinkTypeOK, NEW c \in Chips, NEW e \in Places, IsPlace(e), ~Ends(e), e.at > 0,
         Len(e.of.message) < ReadSize, InStep(c, e), NEW data, NEW now,
         data = IF escaped[c] THEN <<Unescaped(Byte(e))>>
                ELSE IF Byte(e) \in {END, ESC} THEN << >> ELSE <<Byte(e)>>,
         now = Gathered(c) \o data,
         bytes[c]' = now, escaped[c]' = (~escaped[c] /\ Byte(e) = ESC),
         first[c]' = IF now = << >> THEN NoFrame ELSE IF Gathered(c) = << >> THEN e.of ELSE first[c],
         NEW d, d = Behind(e)
  PROVE  InStep(c, d)'
<1> DEFINE m == e.of.message
           k == e.at
<1>1. m \in Seq(Bytes) /\ Len(m) \in Nat /\ k \in Nat /\ k \in 1 .. Len(m) /\ k + 1 <= Len(m) + 1
  BY DEF Places, Frames, IsPlace, Ends
<1>2. bytes[c] = SubSeq(m, 1, k - 1) /\ escaped[c] = (~e.half /\ Escapes(e.of, k))
      /\ (k > 1 => first[c] = e.of)
  BY DEF InStep
<1>3. /\ bytes[c] \in Seq(Bytes) /\ Len(bytes[c]) = k - 1
      /\ \A i \in 1 .. k - 1 : bytes[c][i] = m[i]
  <2> HIDE DEF m, k
  <2> QED  BY <1>1, <1>2
<1>4. Gathered(c) = bytes[c]
  <2>1. Len(bytes[c]) # ReadSize  BY <1>1, <1>3, LinkAssumption DEF BufferSizesAssumption
  <2> QED  BY <2>1 DEF Gathered
<1>5. /\ Behind(e).of = e.of
      /\ e.half => Behind(e).at = k /\ ~Behind(e).half
      /\ ~e.half => Behind(e) = Place(e.of, k + 1)
      /\ Byte(e) # END /\ (Byte(e) = ESC <=> e.half)
      /\ e.half => Escapes(e.of, k)
      /\ ~e.half => IF Escapes(e.of, k) THEN Unescaped(Byte(e)) = m[k] ELSE Byte(e) = m[k]
  <2>1. /\ Behind(e).of = e.of
        /\ e.half => Behind(e).at = e.at /\ ~Behind(e).half
        /\ ~e.half => Behind(e) = Place(e.of, e.at + 1)
    BY BehindType DEF IsPlace
  <2>2. /\ Byte(e) = END <=> e.at = 0 \/ Ends(e)
        /\ Byte(e) = ESC <=> e.half
        /\ e.half => e.at # 0 /\ ~Ends(e) /\ Escapes(e.of, e.at)
        /\ e.at # 0 /\ ~Ends(e) /\ ~e.half =>
              IF Escapes(e.of, e.at) THEN Unescaped(Byte(e)) = e.of.message[e.at]
              ELSE Byte(e) = e.of.message[e.at]
    BY BytesOfPlaces, LinkAssumption
  <2> QED  BY <1>1, <2>1, <2>2
<1>6. CASE e.half
  <2>1. data = << >> /\ escaped[c]'  BY <1>2, <1>5, <1>6
  <2>2. now = bytes[c]
    <3> DEFINE g == bytes[c]
    <3>1. g \in Seq(Bytes) /\ now = g \o << >>  BY <1>3, <1>4, <2>1
    <3> HIDE DEF g
    <3>2. g \o << >> = g  BY <3>1
    <3> QED  BY <3>1, <3>2 DEF g
  <2>3. k > 1 => first[c]' = e.of
    <3>1. k > 1 => bytes[c] # << >>  BY <1>1, <1>3, EmptySeq
    <3> QED  BY <1>2, <1>4, <2>2, <3>1
  <2>4. d.of = e.of /\ d.at = k /\ ~d.half /\ Escapes(e.of, k)  BY <1>5, <1>6
  <2> HIDE DEF m, k
  <2>5. bytes[c]' = SubSeq(d.of.message, 1, d.at - 1)  BY <1>2, <2>2, <2>4 DEF m
  <2> QED  BY <2>1, <2>3, <2>4, <2>5 DEF InStep
<1>7. CASE ~e.half
  <2>1. data = <<m[k]>>
    <3>1. CASE Escapes(e.of, k)  BY <1>2, <1>5, <1>7, <3>1
    <3>2. CASE ~Escapes(e.of, k)  BY <1>2, <1>5, <1>7, <3>2
    <3> QED  BY <3>1, <3>2
  <2>2. ~escaped[c]'  BY <1>5, <1>7
  <2>3. now = SubSeq(m, 1, k) /\ now # << >>
    <3> DEFINE g == bytes[c]
    <3>1. g \in Seq(Bytes) /\ Len(g) = k - 1 /\ \A i \in 1 .. k - 1 : g[i] = m[i]  BY <1>3
    <3>2. now = g \o <<m[k]>>  BY <1>4, <2>1
    <3> HIDE DEF g, m, k
    <3>3. m[k] \in Bytes  BY <1>1
    <3>4. now \in Seq(Bytes) /\ Len(now) = k /\ \A i \in 1 .. k : now[i] = m[i]
      <4>1. now = Append(g, m[k])  BY <3>1, <3>2, <3>3, JoinOne
      <4> DEFINE a == Append(g, m[k])
      <4>2. /\ a \in Seq(Bytes) /\ Len(a) = Len(g) + 1 /\ a[Len(g) + 1] = m[k]
            /\ \A i \in DOMAIN g : a[i] = g[i]
            /\ DOMAIN g = 1 .. Len(g)
        BY <3>1, <3>3, AppendPlaces
      <4>3. now = a  BY <4>1
      <4> HIDE DEF a
      <4>4. a \in Seq(Bytes) /\ Len(a) = k /\ \A i \in 1 .. k : a[i] = m[i]
        BY <1>1, <3>1, <4>2
      <4> QED  BY <4>3, <4>4, Zenon
    <3>5. SubSeq(m, 1, k) \in Seq(Bytes) /\ Len(SubSeq(m, 1, k)) = k
          /\ \A i \in 1 .. k : SubSeq(m, 1, k)[i] = m[i]
      BY <1>1
    <3> HIDE DEF m
    <3>6. now = SubSeq(m, 1, k)  BY <3>4, <3>5, SeqEqual
    <3> QED  BY <1>1, <3>4, <3>6, EmptySeq
  <2>4. first[c]' = e.of
    <3>1. k > 1 => bytes[c] # << >>  BY <1>1, <1>3, EmptySeq
    <3>2. k = 1 => bytes[c] = << >>  BY <1>3, EmptySeq
    <3> QED  BY <1>1, <1>2, <1>4, <2>3, <3>1, <3>2
  <2>5. d = Place(e.of, k + 1)  BY <1>5, <1>7
  <2> HIDE DEF m, k
  <2>6. d.of = e.of /\ d.at = k + 1 /\ d.half = Escapes(e.of, k + 1)  BY <2>5 DEF Place
  <2>7. bytes[c]' = SubSeq(d.of.message, 1, d.at - 1)
    <3>1. d.at - 1 = k  BY <1>1, <2>6
    <3> QED  BY <2>3, <2>6, <3>1 DEF m
  <2>8. escaped[c]' = (~d.half /\ Escapes(d.of, d.at))  BY <2>2, <2>6
  <2> QED  BY <2>4, <2>6, <2>7, <2>8 DEF InStep
<1> QED  BY <1>6, <1>7

\* What ReadByte does.
LEMMA Reading ==
  ASSUME LinkTypeOK, NEW c \in Chips, ReadByte(c)
  PROVE  LET s == Other(c)
             e == Head(line[s])
             data == IF escaped[c] THEN <<Unescaped(Byte(e))>>
                     ELSE IF Byte(e) \in {END, ESC} THEN << >> ELSE <<Byte(e)>>
             now == IF ReadsEnd(c) THEN << >> ELSE Gathered(c) \o data
         IN
         /\ line[s] # << >> /\ line[s]' = Tail(line[s]) /\ line[c]' = line[c]
         /\ unwritten' = unwritten /\ buffer' = buffer /\ spoilt' = spoilt /\ up' = up
         /\ escaped[c]' = (~escaped[c] /\ Byte(e) = ESC) /\ escaped[s]' = escaped[s]
         /\ bytes[c]' = now /\ bytes[s]' = bytes[s]
         /\ first[c]' = IF now = << >> THEN NoFrame ELSE IF Gathered(c) = << >> THEN e.of ELSE first[c]
         /\ first[s]' = first[s]
         /\ expected[c]' = expected[c] /\ atRisk[c]' = atRisk[c]
         /\ IF ReadsEnd(c) /\ Passes(c) THEN Arrived(s, first[c])
            ELSE expected' = expected /\ atRisk' = atRisk
<1>1. Other(c) \in Chips /\ Other(c) # c  BY TwoChips
<1> DEFINE s == Other(c)
           e == Head(line[s])
           data == IF escaped[c] THEN <<Unescaped(Byte(e))>>
                   ELSE IF Byte(e) \in {END, ESC} THEN << >> ELSE <<Byte(e)>>
           now == IF ReadsEnd(c) THEN << >> ELSE Gathered(c) \o data
<1>2. /\ line' = [line EXCEPT ![s] = Tail(@)]
      /\ escaped' = [escaped EXCEPT ![c] = ~escaped[c] /\ Byte(e) = ESC]
      /\ bytes' = [bytes EXCEPT ![c] = now]
      /\ first' = [first EXCEPT ![c] =
           IF now = << >> THEN NoFrame ELSE IF Gathered(c) = << >> THEN e.of ELSE @]
      /\ line[s] # << >>
      /\ unwritten' = unwritten /\ buffer' = buffer /\ up' = up
  BY DEF ReadByte, Readable
<1>3. IF ReadsEnd(c) /\ Passes(c) THEN Arrived(s, first[c])
      ELSE expected' = expected /\ atRisk' = atRisk /\ spoilt' = spoilt
  BY DEF ReadByte, history
<1> HIDE DEF e, data, now
<1>4. /\ line[s]' = Tail(line[s]) /\ line[c]' = line[c]
      /\ escaped[c]' = (~escaped[c] /\ Byte(e) = ESC) /\ escaped[s]' = escaped[s]
      /\ bytes[c]' = now /\ bytes[s]' = bytes[s]
      /\ first[c]' = IF now = << >> THEN NoFrame ELSE IF Gathered(c) = << >> THEN e.of ELSE first[c]
      /\ first[s]' = first[s]
  BY <1>1, <1>2 DEF LinkTypeOK
<1>5. expected[c]' = expected[c] /\ atRisk[c]' = atRisk[c] /\ spoilt' = spoilt
  <2>1. CASE Arrived(s, first[c])  BY <1>1, <2>1 DEF Arrived, LinkTypeOK
  <2>2. CASE ~Arrived(s, first[c])  BY <1>3, <2>2
  <2> QED  BY <2>1, <2>2
<1> QED  BY <1>2, <1>3, <1>4, <1>5 DEF e, data, now

\* When the first place is read, or is lost: what WayTail says of the way before
\* and after it.
LEMMA ReadingOn ==
  ASSUME LinkTypeOK, NEW s \in Chips, WayInv(s), line[s] # << >>,
         line[s]' = Tail(line[s]), buffer[s]' = buffer[s], unwritten[s]' = unwritten[s]
  PROVE  LET e == Head(line[s]) IN
         /\ e = Way(s)[1] /\ e \in Places /\ IsPlace(e) /\ 1 \in DOMAIN Way(s)
         /\ Way(s)' = Tail(Way(s)) /\ Way(s) # << >>
         /\ Len(Way(s)) = Len(Way(s)') + 1
         /\ DOMAIN Way(s) = 1 .. Len(Way(s)) /\ Len(Way(s)) \in Nat \ {0}
         /\ \A i \in DOMAIN Way(s)' : /\ i \in Nat \ {0} /\ i + 1 \in DOMAIN Way(s)
                                      /\ Way(s)'[i] = Way(s)[i + 1]
         /\ \A i \in DOMAIN Way(s) : i > 1 => i - 1 \in DOMAIN Way(s)' /\ Way(s)'[i - 1] = Way(s)[i]
         /\ Way(s)' # << >> => /\ 1 \in DOMAIN Way(s)' /\ 2 \in DOMAIN Way(s)
                               /\ Way(s)'[1] = Way(s)[2]
                               /\ Follows(atRisk[s], e, Way(s)[2])
<1> DEFINE w == Way(s)
           t == Tail(w)
           e == Head(line[s])
<1>1. e = w[1] /\ e \in Places /\ IsPlace(e) /\ 1 \in DOMAIN w
  BY NextPlace DEF WayInv, IsPlace
<1>2. Way(s)' = t /\ w # << >>  BY WayMiss
<1>3. /\ t \in Seq(Places) /\ Len(t) = Len(w) - 1 /\ Len(w) \in Nat \ {0}
      /\ \A i \in DOMAIN t : i \in Nat \ {0} /\ i + 1 \in DOMAIN w /\ t[i] = w[i + 1]
      /\ \A i \in DOMAIN w : i > 1 => i - 1 \in DOMAIN t /\ t[i - 1] = w[i]
      /\ t # << >> => 1 \in DOMAIN t /\ Head(t) = w[2] /\ 2 \in DOMAIN w
  BY <1>2, WayTail
<1>4. DOMAIN w = 1 .. Len(w)  BY WayType
<1>5. Len(w) = Len(t) + 1  BY <1>3
<1>6. ASSUME t # << >> PROVE t[1] = w[2] /\ Follows(atRisk[s], e, w[2])
  <2>1. 1 \in DOMAIN t /\ 2 \in DOMAIN w /\ t[1] = w[1 + 1]  BY <1>3, <1>6
  <2>2. 1 \in 1 .. Len(w) - 1  BY <1>3, <1>4, <2>1
  <2>3. Follows(atRisk[s], w[1], w[1 + 1])  BY <2>2 DEF WayInv, Chained
  <2> QED  BY <1>1, <2>1, <2>3
<1> HIDE DEF w, t, e
<1> QED  BY <1>1, <1>2, <1>3, <1>4, <1>5, <1>6 DEF w, e

LEMMA ReadByteAwaited ==
  ASSUME LinkTypeOK, NEW c \in Chips, WayInv(Other(c)), ReadByte(c)
  PROVE  \A d : Way(Other(c))' # << >> /\ d = Way(Other(c))'[1] =>
           \/ d.of \in atRisk[Other(c)]
           \/ d.at = 0 /\ ~escaped[c]'
           \/ d.at > 0 /\ InStep(c, d)'
<1> DEFINE s == Other(c)
           w == Way(s)
           e == Head(line[s])
           data == IF escaped[c] THEN <<Unescaped(Byte(e))>>
                   ELSE IF Byte(e) \in {END, ESC} THEN << >> ELSE <<Byte(e)>>
           now == IF ReadsEnd(c) THEN << >> ELSE Gathered(c) \o data
<1>1. s \in Chips /\ Other(s) = c  BY TwoChips
<1>2. /\ line[s] # << >> /\ line[s]' = Tail(line[s])
      /\ unwritten' = unwritten /\ buffer' = buffer
      /\ escaped[c]' = (~escaped[c] /\ Byte(e) = ESC)
      /\ bytes[c]' = now
      /\ first[c]' = IF now = << >> THEN NoFrame ELSE IF Gathered(c) = << >> THEN e.of ELSE first[c]
  BY Reading
<1>3. /\ e = w[1] /\ e \in Places /\ IsPlace(e) /\ 1 \in DOMAIN w /\ w # << >>
      /\ Way(s)' # << >> => Way(s)'[1] = w[2] /\ Follows(atRisk[s], e, w[2])
  BY <1>1, <1>2, ReadingOn
<1>4. /\ Byte(e) = END <=> e.at = 0 \/ Ends(e)
      /\ Byte(e) = ESC <=> e.half
      /\ e.half => e.at # 0 /\ ~Ends(e) /\ Escapes(e.of, e.at)
  BY <1>3, BytesOfPlaces, LinkAssumption
<1>5. PICK p \in DOMAIN expected[s] : expected[s][p] = e.of
  BY <1>3 DEF WayInv, Valid
<1>6. /\ e.of.message \in Seq(Bytes) /\ Len(e.of.message) \in Nat \ {0}
      /\ Len(e.of.message) < ReadSize /\ e.at \in Nat
  BY <1>1, <1>3, <1>5, NotNone, LinkAssumption DEF WayInv, Places
<1> SUFFICES ASSUME NEW d, Way(s)' # << >>, d = Way(s)'[1], d.of \notin atRisk[s]
             PROVE  (d.at = 0 /\ ~escaped[c]') \/ (d.at > 0 /\ InStep(c, d)')
  OBVIOUS
<1>7. d = w[2] /\ Follows(atRisk[s], e, d)  BY <1>3
<1>9. CASE d.at = 0 /\ (e.half => d.of \in atRisk[s])
  BY <1>2, <1>4, <1>9
<1>10. CASE ~Ends(e) /\ d = Behind(e)
  <2>2. d.of = e.of /\ d.at > 0
    BY <1>3, <1>10, BehindType DEF IsPlace
  <2>3. \/ e.at = 0 /\ ~escaped[c]
        \/ e.at > 0 /\ InStep(c, e)
    BY <1>1, <1>3, <2>2 DEF WayInv, Awaited
  <2>4. CASE e.at = 0 /\ ~escaped[c]
    <3>1. ReadsEnd(c) /\ ~e.half  BY <1>4, <2>4 DEF ReadsEnd
    <3>2. bytes[c]' = << >> /\ escaped[c]' = FALSE  BY <1>2, <1>4, <2>4, <3>1
    <3>3. d = Place(e.of, 1)  BY <1>3, <1>6, <1>10, <2>4, <3>1, BehindType DEF IsPlace
    <3>4. d.of = e.of /\ d.at = 1 /\ d.half = Escapes(e.of, 1)  BY <3>3 DEF Place
    <3>5. SubSeq(d.of.message, 1, d.at - 1) = << >>
      <4> DEFINE m == e.of.message
      <4>1. m \in Seq(Bytes)  BY <1>6
      <4> HIDE DEF m
      <4>2. SubSeq(m, 1, 0) = << >>  BY <4>1
      <4>3. d.at - 1 = 0 /\ d.of.message = m  BY <3>4 DEF m
      <4> QED  BY <4>2, <4>3
    <3>6. d.at > 0 /\ ~(d.at > 1)  BY <3>4
    <3>7. bytes[c]' = SubSeq(d.of.message, 1, d.at - 1)  BY <3>2, <3>5
    <3>8. escaped[c]' = (~d.half /\ Escapes(d.of, d.at))  BY <3>2, <3>4
    <3>9. InStep(c, d)'  BY <3>6, <3>7, <3>8 DEF InStep
    <3> QED  BY <3>6, <3>9
  <2>5. CASE e.at > 0 /\ InStep(c, e)
    <3>1. ~ReadsEnd(c)
      <4>1. Byte(e) # END  BY <1>4, <1>6, <1>10, <2>5
      <4> QED  BY <4>1 DEF ReadsEnd
    <3> HIDE DEF data, now, e
    <3>2. now = Gathered(c) \o data  BY <3>1 DEF now
    <3>3. data = IF escaped[c] THEN <<Unescaped(Byte(e))>>
                 ELSE IF Byte(e) \in {END, ESC} THEN << >> ELSE <<Byte(e)>>
      BY DEF data
    <3>4. InStep(c, d)'
      BY <1>2, <1>3, <1>6, <1>10, <2>5, <3>2, <3>3, StaysInStep
    <3> QED  BY <1>10, <2>2, <3>4
  <2> QED  BY <2>3, <2>4, <2>5
<1> QED  BY <1>7, <1>9, <1>10 DEF Follows

\* A message that arrives is not expected any more, and neither are older ones.
LEMMA ArrivalKeeps ==
  ASSUME LinkTypeOK, LinkTypeOK', NEW c \in Chips, WayInv(Other(c)), ReadByte(c),
         ReadsEnd(c), Passes(c)
  PROVE  WayInv(Other(c))'
<1> DEFINE s == Other(c)
           w == Way(s)
           x == expected[s]
           e == Head(line[s])
           t == Way(s)'
           x1 == expected[s]'
<1>1. s \in Chips /\ Other(s) = c  BY TwoChips
<1>2. /\ line[s] # << >> /\ line[s]' = Tail(line[s])
      /\ unwritten' = unwritten /\ buffer' = buffer /\ spoilt' = spoilt
      /\ bytes[c]' = << >> /\ first[c]' = NoFrame
      /\ escaped[c]' = (~escaped[c] /\ Byte(e) = ESC)
      /\ Arrived(s, first[c])
  BY Reading
<1>3. /\ e = w[1] /\ e \in Places /\ IsPlace(e) /\ 1 \in DOMAIN w
      /\ w # << >>
      /\ Len(w) = Len(t) + 1
      /\ DOMAIN w = 1 .. Len(w) /\ Len(w) \in Nat \ {0}
      /\ \A i \in DOMAIN t : i \in Nat \ {0} /\ i + 1 \in DOMAIN w /\ t[i] = w[i + 1]
      /\ \A i \in DOMAIN w : i > 1 => i - 1 \in DOMAIN t /\ t[i - 1] = w[i]
      /\ t # << >> => 1 \in DOMAIN t /\ 2 \in DOMAIN w /\ t[1] = w[2] /\ Follows(atRisk[s], e, w[2])
  BY <1>1, <1>2, ReadingOn
<1>4. e.at = 0 \/ Ends(e)
  <2>1. Byte(e) = END  BY DEF ReadsEnd
  <2> QED  BY <1>3, <2>1, BytesOfPlaces, LinkAssumption
<1>5. ~escaped[c]'
  <2>1. Byte(e) = END  BY DEF ReadsEnd
  <2> QED  BY <1>2, <2>1, LinkAssumption DEF BytesAssumption
<1>6. PICK k \in DOMAIN x :
        LET rest == SubSeq(x, k + 1, Len(x)) IN
        /\ x[k] = first[c]
        /\ expected' = [expected EXCEPT ![s] = rest]
        /\ atRisk' = [atRisk EXCEPT ![s] = @ \cap ToSet(rest)]
  BY <1>2 DEF Arrived
<1>7. x \in Seq(Frames) /\ k \in Nat \ {0} /\ k <= Len(x) /\ Len(x) \in Nat
      /\ DOMAIN x = 1 .. Len(x)
  <2>1. x \in Seq(Frames)  BY <1>1 DEF LinkTypeOK
  <2> HIDE DEF x
  <2> QED  BY <2>1
<1>8. x1 = SubSeq(x, k + 1, Len(x)) /\ atRisk[s]' = atRisk[s] \cap ToSet(x1)
  BY <1>1, <1>6 DEF LinkTypeOK
<1>9. /\ \A q \in DOMAIN x1 : q \in Nat /\ q + k \in DOMAIN x /\ x1[q] = x[q + k]
      /\ \A p \in DOMAIN x : p > k => p - k \in DOMAIN x1 /\ x1[p - k] = x[p]
  <2> DEFINE m == k + 1
             l == Len(x)
             y == SubSeq(x, m, l)
  <2>0. m \in Nat \ {0} /\ l \in Nat /\ l <= Len(x)  BY <1>7
  <2> HIDE DEF x, m, l
  <2>1. /\ \A i \in DOMAIN y : i \in Nat /\ i + m - 1 \in DOMAIN x /\ y[i] = x[i + m - 1]
        /\ \A p \in m .. l : p - m + 1 \in DOMAIN y /\ y[p - m + 1] = x[p]
    BY <1>7, <2>0, PartOf
  <2>2. x1 = y  BY <1>8 DEF m, l
  <2> HIDE DEF y, x1
  <2>3. \A i \in DOMAIN y : i \in Nat /\ i + k \in DOMAIN x /\ y[i] = x[i + k]
    <3> TAKE i \in DOMAIN y
    <3>1. i \in Nat /\ i + m - 1 = i + k  BY <1>7, <2>1 DEF m
    <3> QED  BY <2>1, <3>1
  <2>4. \A p \in DOMAIN x : p > k => p - k \in DOMAIN y /\ y[p - k] = x[p]
    <3> TAKE p \in DOMAIN x
    <3> HAVE p > k
    <3>1. p \in m .. l /\ p - m + 1 = p - k  BY <1>7 DEF m, l
    <3> QED  BY <2>1, <3>1
  <2> QED  BY <2>2, <2>3, <2>4
<1>10. \A i \in DOMAIN w, q \in DOMAIN x : x[q] = w[i].of => k <= q /\ (w[i].at = 0 => k < q)
  <2>1. bytes[c] # << >>
    <3>1. Gathered(c) # << >>
      <4>1. Len(Gathered(c)) > ChecksumSize  BY DEF Passes
      <4>2. Len(<< >>) = 0  BY EmptySeq
      <4> QED  BY <4>1, <4>2, LinkAssumption DEF MessagesAssumption
    <3> QED  BY <3>1 DEF Gathered
  <2>2. PICK g \in DOMAIN x :
          /\ x[g] = first[c]
          /\ \A i \in DOMAIN w, q \in DOMAIN x : x[q] = w[i].of => g <= q /\ (w[i].at = 0 => g < q)
    BY <1>1, <2>1 DEF WayInv, Begun
  <2>3. g = k  BY <1>6, <2>2 DEF WayInv, Valid
  <2> QED  BY <2>2, <2>3
<1> HIDE DEF w, x, e, t, x1
<1>11. PICK p0 \in DOMAIN x : x[p0] = e.of /\ k <= p0 /\ (e.at = 0 => k < p0)
  <2>1. PICK p0 \in DOMAIN x : x[p0] = e.of  BY <1>3 DEF WayInv, Valid, w, x
  <2> QED  BY <1>3, <1>10, <2>1
<1>12. ASSUME NEW i \in DOMAIN t, NEW q \in DOMAIN x, x[q] = t[i].of PROVE q > k
  <2>1. i + 1 \in DOMAIN w /\ t[i] = w[i + 1] /\ i \in Nat \ {0} /\ 1 < i + 1  BY <1>3
  <2>2. p0 <= q
    BY <1>3, <1>11, <1>12, <2>1 DEF WayInv, Ordered, w, x
  <2>3. p0 \in Nat /\ q \in Nat  BY <1>7
  <2>4. CASE e.at = 0  BY <1>7, <1>11, <2>2, <2>3, <2>4
  <2>5. CASE Ends(e)
    <3>1. t # << >>  BY <1>12
    <3>2. 2 \in DOMAIN w /\ w[2].at = 0  BY <1>3, <2>5, <3>1 DEF Follows
    <3>3. PICK p2 \in DOMAIN x : x[p2] = w[2].of  BY <3>2 DEF WayInv, Valid, w, x
    <3>4. k < p2
      BY <1>10, <3>2, <3>3
    <3>5. p2 <= q
      <4>1. CASE i = 1
        <5>1. x[q] = x[p2]  BY <1>12, <2>1, <3>3, <4>1
        <5>2. q = p2  BY <5>1 DEF WayInv, Valid, x
        <5> QED  BY <1>7, <5>2
      <4>2. CASE i # 1
        <5>1. 2 < i + 1  BY <2>1, <4>2
        <5> QED  BY <1>12, <2>1, <3>2, <3>3, <5>1 DEF WayInv, Ordered, w, x
      <4> QED  BY <4>1, <4>2
    <3> QED  BY <1>7, <2>3, <3>4, <3>5
  <2> QED  BY <1>4, <2>4, <2>5
<1>13. \A q \in DOMAIN x1 : x1[q] \in atRisk[s] => x1[q] \in atRisk[s]'  BY <1>8 DEF ToSet
<1>14. ASSUME NEW p \in DOMAIN x, p > k, w[1].of = x[p]
       PROVE  x[p] \in atRisk[s]' \/ \E i \in DOMAIN t : t[i].of = x[p]
  <2>1. CASE x[p] \in atRisk[s]  BY <1>9, <1>13, <1>14, <2>1
  <2>2. CASE x[p] \notin atRisk[s]
    <3>1. ~Ends(e)
      <4> SUFFICES ASSUME Ends(e) PROVE FALSE  OBVIOUS
      <4>1. first[c] = e.of  BY <1>2, <1>3, <1>14, <2>2, EndPasses DEF w
      <4>2. x[k] = x[p]  BY <1>3, <1>6, <1>14, <4>1 DEF x
      <4>3. k = p  BY <4>2 DEF WayInv, Valid, x
      <4> QED  BY <1>7, <1>14, <4>3
    <3>2. 2 \in DOMAIN w /\ w[2].of = e.of
      BY <1>1, <1>2, <1>3, <1>14, <2>2, <3>1, GoesOn DEF w
    <3>3. 1 \in DOMAIN t /\ t[1] = w[2]
      <4>1. 2 > 1 /\ 2 - 1 = 1  OBVIOUS
      <4> QED  BY <1>3, <3>2, <4>1
    <3> QED  BY <1>3, <1>14, <3>2, <3>3
  <2> QED  BY <2>1, <2>2
<1>15. Valid(s)' /\ Ordered(s)' /\ Chained(s)' /\ Closed(s)' /\ Covered(s)'
  <2> DEFINE n == 1
  <2>1. n \in 0 .. 1 /\ k \in Nat  BY <1>7
  <2>2. Way(s)' = << >> /\ unwritten[s] = << >> => (escaped[Other(s)]' => spoilt[s])
    BY <1>1, <1>5
  <2>3. unwritten[s]' = unwritten[s] /\ spoilt[s]' = spoilt[s]  BY <1>2
  <2>4. /\ Len(Way(s)) = Len(Way(s)') + n
        /\ \A i \in DOMAIN Way(s)' : i + n \in DOMAIN Way(s) /\ Way(s)'[i] = Way(s)[i + n]
        /\ \A i \in DOMAIN Way(s) : i > n => i - n \in DOMAIN Way(s)' /\ Way(s)'[i - n] = Way(s)[i]
    BY <1>3 DEF w, t
  <2>5. /\ \A q \in DOMAIN expected[s]' : /\ q + k \in DOMAIN expected[s]
                                          /\ expected[s]'[q] = expected[s][q + k]
        /\ \A p \in DOMAIN expected[s] : p > k => /\ p - k \in DOMAIN expected[s]'
                                                  /\ expected[s]'[p - k] = expected[s][p]
    BY <1>9 DEF x, x1
  <2>6. /\ \A i \in DOMAIN Way(s)', p \in DOMAIN expected[s] :
             expected[s][p] = Way(s)'[i].of => p > k
        /\ \A q \in DOMAIN expected[s]' :
             expected[s]'[q] \in atRisk[s] => expected[s]'[q] \in atRisk[s]'
    BY <1>12, <1>13 DEF x, x1, t
  <2>7. n = 1 => \A p \in DOMAIN expected[s] :
           p > k /\ Way(s)[1].of = expected[s][p] =>
             \/ expected[s][p] \in atRisk[s]'
             \/ \E i \in DOMAIN Way(s)' : Way(s)'[i].of = expected[s][p]
    BY <1>14 DEF x, w, t
  <2> HIDE DEF n
  <2> QED  BY <1>1, <2>1, <2>2, <2>3, <2>4, <2>5, <2>6, <2>7, Shortened
<1>16. Begun(s)'  BY <1>1, <1>2 DEF Begun
<1>17. Awaited(s)'
  <2>1. ASSUME NEW d, t # << >>, d = t[1]
        PROVE  d.of \in atRisk[s]' \/ (d.at = 0 /\ ~escaped[c]') \/ (d.at > 0 /\ InStep(c, d)')
    <3>1. d.of \in atRisk[s] \/ (d.at = 0 /\ ~escaped[c]') \/ (d.at > 0 /\ InStep(c, d)')
      BY <2>1, ReadByteAwaited DEF t
    <3>2. d.of \in atRisk[s] => d.of \in atRisk[s]'
      <4>1. 1 \in DOMAIN t  BY <1>3, <2>1
      <4>2. PICK q \in DOMAIN x1 : x1[q] = d.of  BY <1>15, <2>1, <4>1 DEF Valid, t, x1
      <4> QED  BY <1>13, <4>2
    <3> QED  BY <3>1, <3>2
  <2> QED  BY <1>1, <2>1 DEF Awaited, InStep, t
<1> QED  BY <1>15, <1>16, <1>17 DEF WayInv

\* Otherwise the reader goes on with what it has gathered, or begins again.
LEMMA GatheringKeeps ==
  ASSUME LinkTypeOK, LinkTypeOK', NEW c \in Chips, WayInv(Other(c)), ReadByte(c),
         ~(ReadsEnd(c) /\ Passes(c))
  PROVE  WayInv(Other(c))'
<1> DEFINE s == Other(c)
           w == Way(s)
           x == expected[s]
           e == Head(line[s])
           t == Way(s)'
           data == IF escaped[c] THEN <<Unescaped(Byte(e))>>
                   ELSE IF Byte(e) \in {END, ESC} THEN << >> ELSE <<Byte(e)>>
           now == IF ReadsEnd(c) THEN << >> ELSE Gathered(c) \o data
<1>1. s \in Chips /\ Other(s) = c  BY TwoChips
<1>2. /\ line[s] # << >> /\ line[s]' = Tail(line[s])
      /\ unwritten' = unwritten /\ buffer' = buffer /\ spoilt' = spoilt
      /\ escaped[c]' = (~escaped[c] /\ Byte(e) = ESC)
      /\ bytes[c]' = now
      /\ first[c]' = IF now = << >> THEN NoFrame ELSE IF Gathered(c) = << >> THEN e.of ELSE first[c]
      /\ expected' = expected /\ atRisk' = atRisk
  BY Reading
<1> HIDE DEF now
<1>3. /\ e = w[1] /\ e \in Places /\ IsPlace(e) /\ 1 \in DOMAIN w
      /\ w # << >>
      /\ Len(w) = Len(t) + 1
      /\ DOMAIN w = 1 .. Len(w) /\ Len(w) \in Nat \ {0}
      /\ \A i \in DOMAIN t : i \in Nat \ {0} /\ i + 1 \in DOMAIN w /\ t[i] = w[i + 1]
      /\ \A i \in DOMAIN w : i > 1 => i - 1 \in DOMAIN t /\ t[i - 1] = w[i]
  BY <1>1, <1>2, ReadingOn
<1>4. t \in Seq(Places) /\ DOMAIN t = 1 .. Len(t) /\ Len(t) \in Nat
  <2>1. t = Tail(w)  BY <1>1, <1>2, ReadingOn
  <2>2. Tail(w) \in Seq(Places)  BY <1>1, <1>3, WayTail
  <2> HIDE DEF t
  <2> QED  BY <2>1, <2>2
<1>5. x \in Seq(Frames) /\ DOMAIN x = 1 .. Len(x) /\ Len(x) \in Nat
  <2>1. x \in Seq(Frames)  BY <1>1 DEF LinkTypeOK
  <2> HIDE DEF x
  <2> QED  BY <2>1
<1> HIDE DEF w, x, e, t
<1>6. ASSUME t = << >>, unwritten[s] = << >>, escaped[c]' PROVE spoilt[s]
  <2>1. Len(t) = 0  BY <1>6, EmptySeq
  <2>2. Len(w) = 1  BY <1>3, <2>1
  <2>3. e.half
    <3>1. Byte(e) = ESC  BY <1>2, <1>6
    <3> QED  BY <1>3, <3>1, BytesOfPlaces, LinkAssumption
  <2>4. w[Len(w)].half => spoilt[s]  BY <1>3, <1>6 DEF WayInv, Closed, w
  <2> QED  BY <1>3, <2>2, <2>3, <2>4
<1>7. ASSUME NEW p \in DOMAIN x, w[1].of = x[p]
      PROVE  x[p] \in atRisk[s] \/ \E i \in DOMAIN t : t[i].of = x[p]
  <2> SUFFICES ASSUME x[p] \notin atRisk[s] PROVE \E i \in DOMAIN t : t[i].of = x[p]
    OBVIOUS
  <2>1. ~Ends(e)  BY <1>2, <1>3, <1>7, EndPasses DEF w
  <2>2. 2 \in DOMAIN w /\ w[2].of = e.of
    BY <1>1, <1>2, <1>3, <1>7, <2>1, GoesOn DEF w
  <2>3. 1 \in DOMAIN t /\ t[1] = w[2]
    <3>1. 2 > 1 /\ 2 - 1 = 1  OBVIOUS
    <3> QED  BY <1>3, <2>2, <3>1
  <2> QED  BY <1>3, <1>7, <2>2, <2>3
<1>8. Valid(s)' /\ Ordered(s)' /\ Chained(s)' /\ Closed(s)' /\ Covered(s)'
  <2> DEFINE n == 1
             h == 0
  <2>1. n \in 0 .. 1 /\ h \in Nat  OBVIOUS
  <2>2. Way(s)' = << >> /\ unwritten[s] = << >> => (escaped[Other(s)]' => spoilt[s])
    BY <1>1, <1>6 DEF t
  <2>3. unwritten[s]' = unwritten[s] /\ spoilt[s]' = spoilt[s]  BY <1>2
  <2>4. /\ Len(Way(s)) = Len(Way(s)') + n
        /\ \A i \in DOMAIN Way(s)' : i + n \in DOMAIN Way(s) /\ Way(s)'[i] = Way(s)[i + n]
        /\ \A i \in DOMAIN Way(s) : i > n => i - n \in DOMAIN Way(s)' /\ Way(s)'[i - n] = Way(s)[i]
    BY <1>3 DEF w, t
  <2>5. /\ \A q \in DOMAIN expected[s]' : /\ q + h \in DOMAIN expected[s]
                                          /\ expected[s]'[q] = expected[s][q + h]
        /\ \A p \in DOMAIN expected[s] : p > h => /\ p - h \in DOMAIN expected[s]'
                                                  /\ expected[s]'[p - h] = expected[s][p]
        /\ \A p \in DOMAIN expected[s] : p > h
    <3>1. \A p \in DOMAIN x : p > 0 /\ p + 0 = p /\ p - 0 = p  BY <1>5
    <3>2. expected[s]' = x  BY <1>2 DEF x
    <3> QED  BY <3>1, <3>2 DEF x
  <2>6. /\ \A i \in DOMAIN Way(s)', p \in DOMAIN expected[s] :
             expected[s][p] = Way(s)'[i].of => p > h
        /\ \A q \in DOMAIN expected[s]' :
             expected[s]'[q] \in atRisk[s] => expected[s]'[q] \in atRisk[s]'
    BY <1>2, <2>5
  <2>7. n = 1 => \A p \in DOMAIN expected[s] :
           p > h /\ Way(s)[1].of = expected[s][p] =>
             \/ expected[s][p] \in atRisk[s]'
             \/ \E i \in DOMAIN Way(s)' : Way(s)'[i].of = expected[s][p]
    BY <1>2, <1>7 DEF x, w, t
  <2> HIDE DEF n, h
  <2> QED  BY <1>1, <2>1, <2>2, <2>3, <2>4, <2>5, <2>6, <2>7, Shortened
<1>9. Begun(s)'
  <2>1. CASE now = << >>  BY <1>1, <1>2, <2>1 DEF Begun
  <2>2. CASE now # << >>
    <3>1. \E k \in DOMAIN x :
            /\ x[k] = first[c]'
            /\ \A i \in DOMAIN t, q \in DOMAIN x : x[q] = t[i].of => k <= q /\ (t[i].at = 0 => k < q)
      <4>1. CASE Gathered(c) = << >>
        <5>1. PICK k \in DOMAIN x : x[k] = e.of  BY <1>3 DEF WayInv, Valid, w, x
        <5>2. first[c]' = e.of  BY <1>2, <2>2, <4>1
        <5>3. ASSUME NEW i \in DOMAIN t, NEW q \in DOMAIN x, x[q] = t[i].of
              PROVE  k <= q /\ (t[i].at = 0 => k < q)
          <6>1. i + 1 \in DOMAIN w /\ t[i] = w[i + 1] /\ 1 < i + 1  BY <1>3
          <6>2. 1 \in DOMAIN w /\ x[k] = w[1].of /\ x[q] = w[i + 1].of
            BY <1>3, <5>1, <5>3, <6>1
          <6>3. k <= q /\ (w[i + 1].at = 0 => k < q)
            BY <6>1, <6>2 DEF WayInv, Ordered, w, x
          <6> QED  BY <6>1, <6>3
        <5> QED  BY <5>1, <5>2, <5>3
      <4>2. CASE Gathered(c) # << >>
        <5>1. bytes[c] # << >>  BY <4>2 DEF Gathered
        <5>2. PICK k \in DOMAIN x :
                /\ x[k] = first[c]
                /\ \A i \in DOMAIN w, q \in DOMAIN x : x[q] = w[i].of => k <= q /\ (w[i].at = 0 => k < q)
          BY <1>1, <5>1 DEF WayInv, Begun, w, x
        <5>3. first[c]' = first[c]  BY <1>2, <2>2, <4>2
        <5>4. ASSUME NEW i \in DOMAIN t, NEW q \in DOMAIN x, x[q] = t[i].of
              PROVE  k <= q /\ (t[i].at = 0 => k < q)
          <6>1. i + 1 \in DOMAIN w /\ t[i] = w[i + 1]  BY <1>3
          <6> QED  BY <5>2, <5>4, <6>1
        <5> QED  BY <5>2, <5>3, <5>4
      <4> QED  BY <4>1, <4>2
    <3>2. expected[s]' = x /\ Way(s)' = t /\ bytes[c]' # << >>  BY <1>2, <2>2 DEF x, t
    <3> QED  BY <1>1, <3>1, <3>2 DEF Begun
  <2> QED  BY <2>1, <2>2
<1>10. Awaited(s)'
  <2>1. ASSUME NEW d, t # << >>, d = t[1]
        PROVE  d.of \in atRisk[s]' \/ (d.at = 0 /\ ~escaped[c]') \/ (d.at > 0 /\ InStep(c, d)')
    <3>1. d.of \in atRisk[s] \/ (d.at = 0 /\ ~escaped[c]') \/ (d.at > 0 /\ InStep(c, d)')
      BY <2>1, ReadByteAwaited DEF t
    <3> QED  BY <1>2, <3>1
  <2> QED  BY <1>1, <2>1 DEF Awaited, InStep, t
<1> QED  BY <1>8, <1>9, <1>10 DEF WayInv

LEMMA ReadByteKeeps ==
  ASSUME LinkTypeOK, LinkTypeOK', NEW c \in Chips, WayInv(Other(c)), ReadByte(c)
  PROVE  WayInv(Other(c))'
BY ArrivalKeeps, GatheringKeeps

\* What is left of the expected messages for what is left of the way: all but the
\* h oldest ones.
LeavesOut(s, way, h) ==
  /\ \A q \in DOMAIN Left(s, way) : /\ q + h \in DOMAIN expected[s]
                                    /\ Left(s, way)[q] = expected[s][q + h]
  /\ \A p \in DOMAIN expected[s] : p > h => /\ p - h \in DOMAIN Left(s, way)
                                            /\ Left(s, way)[p - h] = expected[s][p]
  /\ \A i \in DOMAIN way, p \in DOMAIN expected[s] : expected[s][p] = way[i].of => p > h
  /\ way = << >> => h = Len(expected[s])
  /\ way # << >> => /\ 1 \in DOMAIN way /\ h + 1 \in DOMAIN expected[s]
                    /\ expected[s][h + 1] = way[1].of

LEMMA LeftIs ==
  ASSUME LinkTypeOK, NEW s \in Chips, Valid(s), Ordered(s), NEW way \in Seq(Places), NEW n \in 0 .. 1,
         \A i \in DOMAIN way : i + n \in DOMAIN Way(s) /\ way[i] = Way(s)[i + n]
  PROVE  \E h \in Nat : LeavesOut(s, way, h)
<1> DEFINE x == expected[s]
           w == Way(s)
           y == Left(s, way)
<1>1. x \in Seq(Frames) /\ DOMAIN x = 1 .. Len(x) /\ Len(x) \in Nat
  <2>1. x \in Seq(Frames)  BY DEF LinkTypeOK
  <2> HIDE DEF x
  <2> QED  BY <2>1
<1>2. DOMAIN way = 1 .. Len(way) /\ Len(way) \in Nat  OBVIOUS
<1>3. CASE way = << >>
  <2>1. y = << >>  BY <1>3 DEF Left
  <2>2. DOMAIN y = {} /\ DOMAIN way = {}  BY <1>3, <2>1
  <2> HIDE DEF x, y
  <2>3. \A p \in DOMAIN x : ~(p > Len(x))  BY <1>1
  <2> QED  BY <1>1, <1>3, <2>2, <2>3 DEF LeavesOut, x, y
<1>4. CASE way # << >>
  <2>1. Head(way) = way[1] /\ 1 \in DOMAIN way
    <3>1. Len(way) \in Nat \ {0} /\ Head(way) = way[1]  BY <1>4, EmptySeq
    <3> QED  BY <1>2, <3>1
  <2>2. 1 + n \in DOMAIN w /\ way[1] = w[1 + n]  BY <2>1
  <2>3. \E p \in DOMAIN x : x[p] = Head(way).of  BY <2>1, <2>2 DEF Valid
  <2> DEFINE k == Position(s, Head(way).of)
  <2>4. /\ k \in DOMAIN x /\ x[k] = way[1].of
        /\ k \in Nat \ {0} /\ k <= Len(x) /\ y = SubSeq(x, k, Len(x))
    BY <1>4, <2>1, <2>3, LeftType
  <2> HIDE DEF k
  <2> DEFINE h == k - 1
             l == Len(x)
  <2>5. h \in Nat /\ h + 1 = k /\ l \in Nat /\ l <= Len(x) /\ k \in Nat \ {0} /\ k <= l
    BY <1>1, <2>4
  <2>6. y = SubSeq(x, k, l)  BY <2>4
  <2> HIDE DEF x, y, h, l
  <2>7. /\ \A i \in DOMAIN y : i \in Nat /\ i + k - 1 \in DOMAIN x /\ y[i] = x[i + k - 1]
        /\ \A p \in k .. l : p - k + 1 \in DOMAIN y /\ y[p - k + 1] = x[p]
    <3> DEFINE z == SubSeq(x, k, l)
    <3>1. /\ \A i \in DOMAIN z : i \in Nat /\ i + k - 1 \in DOMAIN x /\ z[i] = x[i + k - 1]
          /\ \A p \in k .. l : p - k + 1 \in DOMAIN z /\ z[p - k + 1] = x[p]
      BY <1>1, <2>5, PartOf
    <3> HIDE DEF z
    <3>2. y = z  BY <2>6 DEF z
    <3> QED  BY <3>1, <3>2
  <2>8. ASSUME NEW q \in DOMAIN y PROVE q + h \in DOMAIN x /\ y[q] = x[q + h]
    <3>1. q \in Nat  BY <2>7
    <3>2. q + k - 1 = q + h  BY <2>4, <3>1 DEF h
    <3> QED  BY <2>7, <3>2
  <2>9. ASSUME NEW p \in DOMAIN x, p > h PROVE p - h \in DOMAIN y /\ y[p - h] = x[p]
    <3>1. p \in k .. l  BY <1>1, <2>4, <2>9 DEF h, l
    <3>2. p - k + 1 = p - h  BY <2>4, <3>1 DEF h
    <3> QED  BY <2>7, <3>1, <3>2
  <2>10. ASSUME NEW i \in DOMAIN way, NEW p \in DOMAIN x, x[p] = way[i].of PROVE p > h
    <3>1. i + n \in DOMAIN w /\ way[i] = w[i + n]  OBVIOUS
    <3>2. p \in Nat /\ k \in Nat  BY <1>1, <2>4
    <3>3. CASE i = 1
      <4>1. x[p] = x[k]  BY <2>4, <2>10, <3>3
      <4>2. p = k  BY <2>4, <4>1 DEF Valid, x
      <4> QED  BY <2>5, <3>2, <4>2
    <3>4. CASE i # 1
      <4>1. 1 + n < i + n  BY <1>2, <3>4
      <4>2. x[k] = w[1 + n].of /\ x[p] = w[i + n].of  BY <2>2, <2>4, <2>10, <3>1
      <4>3. k <= p  BY <2>2, <2>4, <3>1, <4>1, <4>2 DEF Ordered, w, x
      <4> QED  BY <2>5, <3>2, <4>3
    <3> QED  BY <3>3, <3>4
  <2>11. h + 1 \in DOMAIN x /\ x[h + 1] = way[1].of  BY <2>4, <2>5
  <2>12. LeavesOut(s, way, h)
    BY <1>4, <2>1, <2>8, <2>9, <2>10, <2>11 DEF LeavesOut, x, y
  <2> QED  BY <2>5, <2>12
<1> QED  BY <1>3, <1>4

\* A reader that restarts or does not run loses what it has not read.
LEMMA LosingKeeps ==
  ASSUME LinkTypeOK, LinkTypeOK', NEW s \in Chips, WayInv(s), NEW n \in 0 .. 1,
         Len(Way(s)) = Len(Way(s)') + n,
         \A i \in DOMAIN Way(s)' : i + n \in DOMAIN Way(s) /\ Way(s)'[i] = Way(s)[i + n],
         \A i \in DOMAIN Way(s) : i > n => i - n \in DOMAIN Way(s)' /\ Way(s)'[i - n] = Way(s)[i],
         unwritten[s]' = unwritten[s], spoilt[s]' = spoilt[s],
         bytes[Other(s)]' = << >>, escaped[Other(s)]' = FALSE, first[Other(s)]' = NoFrame,
         NEW way, way = Way(s)', expected[s]' = Left(s, way),
         atRisk[s]' = (atRisk[s] \cup Beheaded(way)) \cap ToSet(Left(s, way))
  PROVE  WayInv(s)'
<1> DEFINE w == Way(s)
           x == expected[s]
<1>1. /\ w \in Seq(Places) /\ DOMAIN w = 1 .. Len(w) /\ Len(w) \in Nat
  <2>1. w \in Seq(Places)  BY WayType
  <2> HIDE DEF w
  <2> QED  BY <2>1
<1>2. way \in Seq(Places) /\ DOMAIN way = 1 .. Len(way) /\ Len(way) \in Nat
  <2>1. way \in Seq(Places)
    <3>1. line[s]' \in Seq(Places) /\ buffer[s]' \in Seq(Places) /\ unwritten[s]' \in Seq(Places)
      BY DEF LinkTypeOK
    <3>2. way = line[s]' \o buffer[s]' \o unwritten[s]'  BY DEF Way
    <3> QED  BY <3>1, <3>2
  <2> QED  BY <2>1
<1>3. DOMAIN x = 1 .. Len(x) /\ Len(x) \in Nat
  <2>1. x \in Seq(Frames)  BY DEF LinkTypeOK
  <2> HIDE DEF x
  <2> QED  BY <2>1
<1>4. PICK h \in Nat : LeavesOut(s, way, h)
  <2>1. \A i \in DOMAIN way : i + n \in DOMAIN Way(s) /\ way[i] = Way(s)[i + n]  OBVIOUS
  <2>2. Valid(s) /\ Ordered(s)  BY DEF WayInv
  <2> HIDE DEF w, x
  <2> QED  BY <1>2, <2>1, <2>2, LeftIs
<1>5. \A q \in DOMAIN expected[s]' :
        expected[s]'[q] \in atRisk[s] => expected[s]'[q] \in atRisk[s]'
  BY DEF ToSet
<1>6. ASSUME n = 1, NEW p \in DOMAIN x, p > h, w[1].of = x[p]
      PROVE  \E i \in DOMAIN way : way[i].of = x[p]
  <2>1. way # << >>  BY <1>3, <1>4, <1>6 DEF LeavesOut
  <2>2. 1 \in DOMAIN way /\ h + 1 \in DOMAIN x /\ x[h + 1] = way[1].of
    BY <1>4, <2>1 DEF LeavesOut
  <2>3. 2 \in DOMAIN w /\ way[1] = w[2] /\ 1 \in DOMAIN w
    <3>1. 1 + n \in DOMAIN w /\ way[1] = w[1 + n]  BY <2>2
    <3>2. 1 + n = 2  BY <1>6
    <3> QED  BY <1>1, <3>1, <3>2
  <2>4. p <= h + 1
    <3>1. 1 < 2 /\ x[h + 1] = w[2].of  BY <2>2, <2>3
    <3> HIDE DEF x, w
    <3> QED  BY <1>6, <2>2, <2>3, <3>1 DEF WayInv, Ordered, x, w
  <2>5. p = h + 1  BY <1>3, <1>6, <2>4
  <2> QED  BY <2>2, <2>5
<1>7. Valid(s)' /\ Ordered(s)' /\ Chained(s)' /\ Closed(s)' /\ Covered(s)'
  <2>1. /\ \A q \in DOMAIN expected[s]' : /\ q + h \in DOMAIN expected[s]
                                          /\ expected[s]'[q] = expected[s][q + h]
        /\ \A p \in DOMAIN expected[s] : p > h => /\ p - h \in DOMAIN expected[s]'
                                                  /\ expected[s]'[p - h] = expected[s][p]
    BY <1>4 DEF LeavesOut
  <2>2. \A i \in DOMAIN Way(s)', p \in DOMAIN expected[s] :
           expected[s][p] = Way(s)'[i].of => p > h
    BY <1>4 DEF LeavesOut
  <2>3. Way(s)' = << >> /\ unwritten[s] = << >> => (escaped[Other(s)]' => spoilt[s])  OBVIOUS
  <2>4. n = 1 => \A p \in DOMAIN expected[s] :
           p > h /\ Way(s)[1].of = expected[s][p] =>
             \/ expected[s][p] \in atRisk[s]'
             \/ \E i \in DOMAIN Way(s)' : Way(s)'[i].of = expected[s][p]
    BY <1>6
  <2> HIDE DEF w, x
  <2> QED  BY <1>5, <2>1, <2>2, <2>3, <2>4, Shortened
<1>8. Begun(s)'  BY DEF Begun
<1>9. Awaited(s)'
  <2>1. ASSUME way # << >>, way[1].at # 0 PROVE way[1].of \in atRisk[s]'
    <3>1. 1 \in DOMAIN way /\ h + 1 \in DOMAIN x /\ x[h + 1] = way[1].of
      BY <1>4, <2>1 DEF LeavesOut
    <3>2. h + 1 > h /\ h + 1 - h = 1  OBVIOUS
    <3>3. 1 \in DOMAIN Left(s, way) /\ Left(s, way)[1] = way[1].of
      BY <1>4, <3>1, <3>2 DEF LeavesOut
    <3>4. Head(way) = way[1]  BY <1>2, <2>1
    <3>5. way[1].of \in Beheaded(way)  BY <2>1, <3>4 DEF Beheaded
    <3>6. way[1].of \in ToSet(Left(s, way))  BY <3>3 DEF ToSet
    <3> QED  BY <3>5, <3>6
  <2> QED  BY <2>1 DEF Awaited
<1> QED  BY <1>7, <1>8, <1>9 DEF WayInv

LEMMA MissKeeps ==
  ASSUME LinkTypeOK, LinkTypeOK', NEW c \in Chips, WayInv(Other(c)), Asleep(c), Miss(c)
  PROVE  WayInv(Other(c))'
<1> DEFINE s == Other(c)
<1>1. s \in Chips /\ Other(s) = c  BY TwoChips
<1>2. PICK way : way = Tail(line[s]) \o buffer[s] \o unwritten[s]  OBVIOUS
<1>3. /\ ~up[c] /\ line[s] # << >> /\ line[s]' = Tail(line[s])
      /\ expected[s]' = Left(s, way)
      /\ atRisk[s]' = (atRisk[s] \cup Beheaded(way)) \cap ToSet(Left(s, way))
      /\ unwritten' = unwritten /\ buffer' = buffer /\ spoilt' = spoilt
      /\ bytes' = bytes /\ escaped' = escaped /\ first' = first
  BY <1>1, <1>2 DEF Miss, LinkTypeOK, reading
<1>4. way = Way(s)'  BY <1>1, <1>2, <1>3, WayMiss
<1>5. bytes[c]' = << >> /\ escaped[c]' = FALSE /\ first[c]' = NoFrame
  <2>1. bytes[c] = << >> /\ ~escaped[c]  BY <1>3 DEF Asleep
  <2>2. first[c] = NoFrame  BY <1>1, <2>1 DEF WayInv, Begun
  <2> QED  BY <1>3, <2>1, <2>2 DEF LinkTypeOK
<1>6. /\ Len(Way(s)) = Len(Way(s)') + 1
      /\ \A i \in DOMAIN Way(s)' : i + 1 \in DOMAIN Way(s) /\ Way(s)'[i] = Way(s)[i + 1]
      /\ \A i \in DOMAIN Way(s) : i > 1 => i - 1 \in DOMAIN Way(s)' /\ Way(s)'[i - 1] = Way(s)[i]
  BY <1>1, <1>3, ReadingOn
<1> DEFINE n == 1
<1>7. /\ n \in 0 .. 1
      /\ Len(Way(s)) = Len(Way(s)') + n
      /\ \A i \in DOMAIN Way(s)' : i + n \in DOMAIN Way(s) /\ Way(s)'[i] = Way(s)[i + n]
      /\ \A i \in DOMAIN Way(s) : i > n => i - n \in DOMAIN Way(s)' /\ Way(s)'[i - n] = Way(s)[i]
  BY <1>6
<1>8. unwritten[s]' = unwritten[s] /\ spoilt[s]' = spoilt[s]  BY <1>3
<1> HIDE DEF n, s
<1> QED  BY <1>1, <1>3, <1>4, <1>5, <1>7, <1>8, LosingKeeps DEF s

\* The other end of a chip that restarts: it forgets what it has gathered.
LEMMA ReaderRestarts ==
  ASSUME LinkTypeOK, LinkTypeOK', NEW c \in Chips, WayInv(Other(c)), Restart(c)
  PROVE  WayInv(Other(c))'
<1> DEFINE s == Other(c)
<1>1. s \in Chips /\ s # c /\ Other(s) = c  BY TwoChips
<1>2. PICK way : way = Way(s)  OBVIOUS
<1>3. /\ line[s]' = line[s] /\ unwritten[s]' = unwritten[s] /\ buffer[s]' = buffer[s]
      /\ spoilt[s]' = spoilt[s]
      /\ bytes[c]' = << >> /\ escaped[c]' = FALSE /\ first[c]' = NoFrame
      /\ expected[s]' = Left(s, way)
      /\ atRisk[s]' = (atRisk[s] \cup Beheaded(way)) \cap ToSet(Left(s, way))
  BY <1>1, <1>2 DEF Restart, LinkTypeOK
<1>4. Way(s)' = Way(s)  BY <1>3, WayStays
<1> DEFINE n == 0
<1>5. /\ n \in 0 .. 1
      /\ Len(Way(s)) = Len(Way(s)') + n
      /\ \A i \in DOMAIN Way(s)' : i + n \in DOMAIN Way(s) /\ Way(s)'[i] = Way(s)[i + n]
      /\ \A i \in DOMAIN Way(s) : i > n => i - n \in DOMAIN Way(s)' /\ Way(s)'[i - n] = Way(s)[i]
  <2> DEFINE w == Way(s)
  <2>1. w \in Seq(Places)  BY <1>1, WayType
  <2> HIDE DEF w
  <2>2. /\ Len(w) = Len(w) + 0
        /\ \A i \in DOMAIN w : i + 0 \in DOMAIN w /\ w[i] = w[i + 0]
        /\ \A i \in DOMAIN w : i - 0 \in DOMAIN w /\ w[i - 0] = w[i]
    BY <2>1
  <2> QED  BY <1>4, <2>2 DEF w
<1>6. way = Way(s)'  BY <1>2, <1>4
<1> HIDE DEF n, s
<1> QED  BY <1>1, <1>3, <1>5, <1>6, LosingKeeps DEF s

\* What a chip that restarts had to say is cut off.
LEMMA WriterRestarts ==
  ASSUME LinkTypeOK, NEW c \in Chips, WayInv(c), Restart(c)
  PROVE  WayInv(c)'
<1> DEFINE s == Other(c)
           w == Way(c)
           x == expected[c]
<1>1. s \in Chips /\ s # c /\ Other(s) = c  BY TwoChips
<1>2. PICK n \in 0 .. Len(line[c]) :
        LET cut == IF n > 0 THEN line[c][n].of ELSE first[s]
            sent == UpTo(c, cut)
            halved == IF n > 0 /\ Ends(line[c][n]) THEN {} ELSE {cut} IN
       /\ line' = [line EXCEPT ![c] = SubSeq(@, 1, n)]
       /\ expected' = [expected EXCEPT ![c] = sent, ![s] = Left(s, Way(s))]
       /\ atRisk' = [atRisk EXCEPT
            ![c] = (@ \cup halved) \cap ToSet(sent),
            ![s] = (@ \cup Beheaded(Way(s))) \cap ToSet(Left(s, Way(s)))]
       /\ spoilt' = [spoilt EXCEPT ![c] = IF n > 0 THEN line[c][n].half ELSE escaped[s]]
  BY DEF Restart
<1> DEFINE cut == IF n > 0 THEN line[c][n].of ELSE first[s]
           sent == UpTo(c, cut)
           halved == IF n > 0 /\ Ends(line[c][n]) THEN {} ELSE {cut}
           t == SubSeq(line[c], 1, n)
<1>3. /\ line[c]' = t /\ buffer[c]' = << >> /\ unwritten[c]' = << >>
      /\ expected[c]' = sent /\ atRisk[c]' = (atRisk[c] \cup halved) \cap ToSet(sent)
      /\ spoilt[c]' = IF n > 0 THEN line[c][n].half ELSE escaped[s]
  BY <1>1, <1>2 DEF LinkTypeOK, Restart
<1>4. bytes[s]' = bytes[s] /\ escaped[s]' = escaped[s] /\ first[s]' = first[s]
  BY <1>1 DEF LinkTypeOK, Restart
<1>5. /\ w \in Seq(Places) /\ DOMAIN w = 1 .. Len(w) /\ Len(line[c]) <= Len(w)
      /\ \A i \in 1 .. Len(line[c]) : w[i] = line[c][i]
  BY WayType
<1>6. /\ t \in Seq(Places) /\ Len(t) = n /\ n \in Nat /\ n <= Len(line[c])
      /\ DOMAIN t = 1 .. n /\ \A i \in 1 .. n : t[i] = line[c][i]
  <2> DEFINE l == line[c]
  <2>1. l \in Seq(Places) /\ n \in 0 .. Len(l) /\ Len(l) \in Nat  BY DEF LinkTypeOK
  <2> HIDE DEF l
  <2>2. SubSeq(l, 1, n) \in Seq(Places) /\ Len(SubSeq(l, 1, n)) = n
        /\ \A i \in 1 .. n : SubSeq(l, 1, n)[i] = l[i]
    BY <2>1
  <2> QED  BY <2>1, <2>2 DEF l
<1>7. \A i \in 1 .. n : i \in DOMAIN w /\ t[i] = w[i]
  <2>1. Len(line[c]) \in Nat /\ Len(w) \in Nat
    <3>1. line[c] \in Seq(Places)  BY DEF LinkTypeOK
    <3> HIDE DEF w
    <3> QED  BY <1>5, <3>1
  <2> HIDE DEF w, t
  <2> QED  BY <1>5, <1>6, <2>1
<1>8. Way(c)' = t
  <2>1. Way(c)' = t \o << >> \o << >>  BY <1>3 DEF Way
  <2> HIDE DEF t
  <2>2. t \o << >> = t  BY <1>6, JoinOne
  <2> QED  BY <2>1, <2>2
<1>9. x \in Seq(Frames) /\ DOMAIN x = 1 .. Len(x) /\ Len(x) \in Nat
  <2>1. x \in Seq(Frames)  BY DEF LinkTypeOK
  <2> HIDE DEF x
  <2> QED  BY <2>1
<1>10. /\ n > 0 => /\ n \in DOMAIN w /\ w[n] = line[c][n]
                   /\ cut # NoFrame /\ \E p \in DOMAIN x : x[p] = cut
       /\ n = 0 /\ bytes[s] = << >> => cut = NoFrame
       /\ n = 0 /\ bytes[s] # << >> => cut # NoFrame /\ \E p \in DOMAIN x : x[p] = cut
  BY CutAt, LinkAssumption DEF WayInv
<1>11. n = 0 \/ n > 0  BY <1>6
<1>12. CASE n = 0 /\ bytes[s] = << >>
  <2>1. sent = << >>  BY <1>10, <1>12 DEF UpTo
  <2>2. expected[c]' = << >>  BY <1>3, <2>1
  <2>3. Way(c)' = << >>  BY <1>6, <1>8, <1>12, EmptySeq
  <2>4. DOMAIN << >> = {} /\ Len(<< >>) = 0  BY EmptySeq
  <2>5. Valid(c)' /\ Ordered(c)' /\ Covered(c)'
    BY <2>2, <2>3, <2>4 DEF Valid, Ordered, Covered
  <2>6. Chained(c)'  BY <2>3, <2>4 DEF Chained
  <2>7. Closed(c)'  BY <1>3, <1>4, <1>12, <2>3 DEF Closed
  <2>8. Begun(c)'  BY <1>4, <1>12 DEF Begun, WayInv
  <2>9. Awaited(c)'  BY <2>3 DEF Awaited
  <2> QED  BY <2>5, <2>6, <2>7, <2>8, <2>9 DEF WayInv
<1>13. CASE n > 0 \/ bytes[s] # << >>
  <2>1. cut # NoFrame /\ \E p \in DOMAIN x : x[p] = cut  BY <1>10, <1>11, <1>13
  <2> DEFINE k == Position(c, cut)
             x1 == SubSeq(x, 1, k)
  <2> HIDE DEF cut
  <2>2. k \in DOMAIN x /\ x[k] = cut /\ k \in Nat \ {0} /\ k <= Len(x) /\ sent = x1
    BY <2>1, UpToType
  <2> HIDE DEF k, x, t, w, halved, sent
  <2>3. /\ DOMAIN x1 = 1 .. k /\ \A q \in 1 .. k : q \in DOMAIN x /\ x1[q] = x[q]
    <3>1. x1 \in Seq(Frames) /\ Len(x1) = k /\ \A q \in 1 .. k : x1[q] = x[q]
      BY <1>9, <2>2
    <3> HIDE DEF x1
    <3> QED  BY <1>9, <2>2, <3>1
  <2>4. expected[c]' = x1  BY <1>3, <2>2
  <2> HIDE DEF x1
  <2>5. \A q \in 1 .. k : x[q] \in atRisk[c] \cup halved => x[q] \in atRisk[c]'
    BY <1>3, <2>2, <2>3 DEF ToSet
  <2>6. n > 0 => x[k] = w[n].of /\ n \in DOMAIN w  BY <1>10, <2>2 DEF cut
  <2>7. ASSUME NEW i \in 1 .. n, NEW p \in DOMAIN x, x[p] = w[i].of PROVE p \in 1 .. k
    <3>1. n > 0 /\ i \in DOMAIN w  BY <1>6, <1>7
    <3>2. p <= k
      <4>1. CASE i = n  BY <2>2, <2>6, <2>7, <3>1, <4>1 DEF WayInv, Valid, x
      <4>2. CASE i < n
        BY <2>2, <2>6, <2>7, <3>1, <4>2 DEF WayInv, Ordered, x, w
      <4> QED  BY <1>6, <4>1, <4>2
    <3> QED  BY <1>9, <2>2, <3>2
  <2>8. \A i \in 1 .. n : \E p \in 1 .. k : x1[p] = t[i].of
    <3> TAKE i \in 1 .. n
    <3>1. PICK p \in DOMAIN x : x[p] = w[i].of  BY <1>7 DEF WayInv, Valid, w, x
    <3> QED  BY <1>7, <2>3, <2>7, <3>1
  <2>9. Valid(c)'
    <3>1. \A i \in DOMAIN t : IsPlace(t[i])  BY <1>6, <1>7 DEF WayInv, Valid, w
    <3>2. \A p \in DOMAIN x1 : x1[p].message \in Messages[c]
      BY <2>3 DEF WayInv, Valid, x
    <3>3. \A p, q \in DOMAIN x1 : x1[p] = x1[q] => p = q  BY <2>3 DEF WayInv, Valid, x
    <3> QED  BY <1>6, <1>8, <2>3, <2>4, <2>8, <3>1, <3>2, <3>3 DEF Valid
  <2>10. Ordered(c)'
    <3>1. ASSUME NEW i \in DOMAIN t, NEW j \in DOMAIN t, NEW p \in DOMAIN x1, NEW q \in DOMAIN x1,
                 i < j, x1[p] = t[i].of, x1[q] = t[j].of
          PROVE  p <= q /\ (t[j].at = 0 => p < q)
      <4>1. i \in DOMAIN w /\ j \in DOMAIN w /\ t[i] = w[i] /\ t[j] = w[j]  BY <1>6, <1>7
      <4>2. p \in DOMAIN x /\ q \in DOMAIN x /\ x1[p] = x[p] /\ x1[q] = x[q]  BY <2>3
      <4> QED  BY <3>1, <4>1, <4>2 DEF WayInv, Ordered, w, x
    <3> QED  BY <1>8, <2>4, <3>1 DEF Ordered
  <2>11. \A i \in 1 .. n : t[i].of \in atRisk[c] \cup halved => t[i].of \in atRisk[c]'
    BY <2>3, <2>5, <2>8
  <2>12. Chained(c)'
    <3>1. ASSUME NEW i \in 1 .. Len(t) - 1 PROVE Follows(atRisk[c]', t[i], t[i + 1])
      <4>1. i \in 1 .. n /\ i + 1 \in 1 .. n  BY <1>6
      <4>2. t[i] = w[i] /\ t[i + 1] = w[i + 1] /\ i + 1 \in DOMAIN w  BY <1>7, <4>1
      <4>3. i \in 1 .. Len(w) - 1
        <5>1. Len(w) \in Nat  BY <1>5
        <5> QED  BY <1>5, <4>1, <4>2, <5>1
      <4>4. Follows(atRisk[c], t[i], t[i + 1])  BY <4>2, <4>3 DEF WayInv, Chained, w
      <4> QED  BY <2>11, <4>1, <4>4, FollowsMore
    <3> QED  BY <1>8, <3>1 DEF Chained
  <2>13. Closed(c)'
    <3>1. CASE n > 0
      <4>1. t # << >> /\ n \in 1 .. n  BY <1>6, <3>1, EmptySeq
      <4>2. t[n] = line[c][n]  BY <1>6, <4>1
      <4>3. Ends(t[n]) \/ t[n].of \in halved  BY <3>1, <4>2 DEF halved, cut
      <4>4. Ends(t[n]) \/ t[n].of \in atRisk[c]'  BY <2>11, <4>1, <4>3
      <4>5. t[n].half => spoilt[c]'  BY <1>3, <3>1, <4>2
      <4> QED  BY <1>6, <1>8, <4>1, <4>4, <4>5 DEF Closed
    <3>2. CASE n = 0
      <4>1. t = << >>  BY <1>6, <3>2, EmptySeq
      <4>2. escaped[s]' => spoilt[c]'  BY <1>3, <1>4, <3>2
      <4> QED  BY <1>8, <4>1, <4>2 DEF Closed
    <3> QED  BY <1>11, <3>1, <3>2
  <2>14. bytes[s] # << >> =>
           \E g \in 1 .. k :
             /\ x[g] = first[s]
             /\ n = 0 => g = k
             /\ \A i \in DOMAIN w, q \in DOMAIN x : x[q] = w[i].of => g <= q /\ (w[i].at = 0 => g < q)
    <3> SUFFICES ASSUME bytes[s] # << >>
                 PROVE \E g \in 1 .. k :
                   /\ x[g] = first[s]
                   /\ n = 0 => g = k
                   /\ \A i \in DOMAIN w, q \in DOMAIN x :
                        x[q] = w[i].of => g <= q /\ (w[i].at = 0 => g < q)
      OBVIOUS
    <3>1. PICK g \in DOMAIN x :
             /\ x[g] = first[s]
             /\ \A i \in DOMAIN w, q \in DOMAIN x : x[q] = w[i].of => g <= q /\ (w[i].at = 0 => g < q)
      BY DEF WayInv, Begun, w, x
    <3>2. n = 0 => g = k
      <4>1. n = 0 => x[g] = x[k]  BY <2>2, <3>1 DEF cut
      <4> QED  BY <2>2, <4>1 DEF WayInv, Valid, x
    <3>3. g <= k  BY <1>9, <1>11, <2>2, <2>6, <3>1, <3>2
    <3>4. g \in 1 .. k  BY <1>9, <2>2, <3>3
    <3> QED  BY <3>1, <3>2, <3>4
  <2>15. Covered(c)'
    <3>1. ASSUME NEW q \in 1 .. k
          PROVE  x[q] \in atRisk[c]' \/ \E i \in 1 .. n : t[i].of = x[q]
      <4>1. q \in DOMAIN x  BY <2>3
      <4>2. CASE x[q] \in atRisk[c]  BY <2>5, <4>2
      <4>3. CASE \E i \in DOMAIN w : w[i].of = x[q]
        <5>1. PICK i \in DOMAIN w : w[i].of = x[q]  BY <4>3
        <5>2. CASE i <= n
          <6>1. i \in 1 .. n  BY <1>5, <5>2
          <6> QED  BY <1>7, <5>1, <6>1
        <5>3. CASE i > n /\ n > 0
          <6>1. k <= q  BY <2>2, <2>6, <4>1, <5>1, <5>3 DEF WayInv, Ordered, w, x
          <6>2. q = k  BY <2>2, <6>1
          <6>3. n \in 1 .. n  BY <1>6, <5>3
          <6> QED  BY <1>7, <2>6, <5>3, <6>2, <6>3
        <5>4. CASE n = 0
          <6>1. k <= q
            <7>1. PICK g \in 1 .. k :
                    /\ n = 0 => g = k
                    /\ \A j \in DOMAIN w, r \in DOMAIN x : x[r] = w[j].of => g <= r
              BY <1>13, <2>14, <5>4
            <7> QED  BY <4>1, <5>1, <5>4, <7>1
          <6>2. q = k  BY <2>2, <6>1
          <6>3. x[q] \in halved  BY <2>2, <5>4, <6>2 DEF halved
          <6> QED  BY <2>5, <6>3
        <5>5. i \in Nat  BY <1>5
        <5> QED  BY <1>6, <1>11, <5>2, <5>3, <5>4, <5>5
      <4> QED  BY <4>1, <4>2, <4>3 DEF WayInv, Covered, w, x
    <3> QED  BY <1>6, <1>8, <2>3, <2>4, <3>1 DEF Covered
  <2>16. Begun(c)'
    <3>1. CASE bytes[s] = << >>  BY <1>4, <3>1 DEF WayInv, Begun
    <3>2. CASE bytes[s] # << >>
      <4>1. PICK g \in 1 .. k :
              /\ x[g] = first[s]
              /\ \A i \in DOMAIN w, q \in DOMAIN x : x[q] = w[i].of => g <= q /\ (w[i].at = 0 => g < q)
        BY <2>14, <3>2
      <4>2. g \in DOMAIN x1 /\ x1[g] = first[s]'  BY <1>4, <2>3, <4>1
      <4>3. ASSUME NEW i \in DOMAIN t, NEW q \in DOMAIN x1, x1[q] = t[i].of
            PROVE  g <= q /\ (t[i].at = 0 => g < q)
        <5>1. i \in DOMAIN w /\ t[i] = w[i] /\ q \in DOMAIN x /\ x1[q] = x[q]
          BY <1>6, <1>7, <2>3
        <5> QED  BY <4>1, <4>3, <5>1
      <4> QED  BY <1>4, <1>8, <2>4, <3>2, <4>2, <4>3 DEF Begun
    <3> QED  BY <3>1, <3>2
  <2>17. Awaited(c)'
    <3>1. CASE t = << >>  BY <1>8, <3>1 DEF Awaited
    <3>2. CASE t # << >>
      <4>1. 1 \in 1 .. n /\ w # << >> /\ t[1] = w[1]
        <5>1. n # 0  BY <1>6, <3>2, EmptySeq
        <5>2. 1 \in 1 .. n  BY <1>6, <5>1
        <5>3. w # << >>
          <6>1. 1 \in DOMAIN w  BY <1>7, <5>2
          <6> QED  BY <1>5, <6>1
        <5> QED  BY <1>7, <5>2, <5>3
      <4>2. t[1].of \in atRisk[c] => t[1].of \in atRisk[c]'  BY <2>11, <4>1
      <4>3. ASSUME NEW e, e = w[1]
            PROVE  e.of \in atRisk[c] \/ (e.at = 0 /\ ~escaped[s]) \/ (e.at > 0 /\ InStep(s, e))
        BY <4>1, <4>3 DEF WayInv, Awaited, w
      <4>4. ASSUME NEW e, InStep(s, e) PROVE InStep(s, e)'  BY <1>4, <4>4 DEF InStep
      <4>5. ASSUME NEW e, e = t[1]
            PROVE  e.of \in atRisk[c]' \/ (e.at = 0 /\ ~escaped[s]') \/ (e.at > 0 /\ InStep(s, e)')
        BY <1>4, <4>1, <4>2, <4>3, <4>4, <4>5
      <4> QED  BY <1>8, <4>5 DEF Awaited, InStep
    <3> QED  BY <3>1, <3>2
  <2> QED  BY <2>9, <2>10, <2>12, <2>13, <2>15, <2>16, <2>17 DEF WayInv
<1> QED  BY <1>11, <1>12, <1>13

-----------------------------------------------------------------------------
(* The invariant holds.                                                      *)

LEMMA Begins ==
  ASSUME LinkInit
  PROVE  LinkInv
<1>1. \A c \in Chips : Other(c) \in Chips  BY TwoChips
<1>2. << >> \in Seq(Places) /\ << >> \in Seq(Bytes) /\ << >> \in Seq(Frames) /\ Len(<< >>) = 0
      /\ DOMAIN << >> = {}
  BY EmptySeq
<1>3. LinkTypeOK
  BY <1>2, NoneType, LinkAssumption DEF LinkInit, LinkTypeOK, BufferSizesAssumption
<1>4. ASSUME NEW c \in Chips PROVE WayInv(c) /\ Asleep(c)
  <2>1. /\ unwritten[c] = << >> /\ buffer[c] = << >> /\ line[c] = << >> /\ expected[c] = << >>
        /\ bytes[Other(c)] = << >> /\ first[Other(c)] = NoFrame /\ ~escaped[Other(c)] /\ up[c]
    BY <1>1 DEF LinkInit
  <2>2. Way(c) = << >>
    <3>1. << >> \o << >> = << >>  BY <1>2, JoinOne
    <3> QED  BY <2>1, <3>1 DEF Way
  <2>3. Valid(c) /\ Ordered(c) /\ Covered(c)
    BY <1>2, <2>1, <2>2 DEF Valid, Ordered, Covered
  <2>4. Chained(c)  BY <1>2, <2>2 DEF Chained
  <2>5. Closed(c)  BY <2>1, <2>2 DEF Closed
  <2>6. Begun(c)  BY <2>1 DEF Begun
  <2>7. Awaited(c)  BY <2>2 DEF Awaited
  <2> QED  BY <2>1, <2>3, <2>4, <2>5, <2>6, <2>7 DEF WayInv, Asleep
<1> QED  BY <1>3, <1>4 DEF LinkInv

LEMMA TypeStep ==
  ASSUME LinkInv, NEW c \in Chips,
         \/ Write(c) \/ PutByte(c) \/ Pump(c) \/ ReadByte(c)
         \/ Restart(c) \/ Miss(c) \/ Boot(c)
  PROVE  LinkTypeOK'
<1>1. /\ LinkTypeOK /\ Valid(c) /\ Begun(c) /\ Valid(Other(c))
      /\ BytesAssumption /\ BufferSizesAssumption /\ MessagesAssumption
  BY TwoChips, LinkAssumption DEF LinkInv, WayInv
<1>2. CASE Write(c)  BY <1>1, <1>2, WriteType
<1>3. CASE PutByte(c)  BY <1>1, <1>3, PutByteType
<1>4. CASE Pump(c)  BY <1>1, <1>4, PumpType
<1>5. CASE ReadByte(c)  BY <1>1, <1>5, ReadByteType
<1>6. CASE Restart(c)  BY <1>1, <1>6, RestartType
<1>7. CASE Miss(c)  BY <1>1, <1>7, MissType
<1>8. CASE Boot(c)  BY <1>1, <1>8, BootType
<1> QED  BY <1>2, <1>3, <1>4, <1>5, <1>6, <1>7, <1>8

\* A chip that reads, writes or restarts leaves what it does not touch of the
\* other way alone.
LEMMA WayStep ==
  ASSUME LinkInv, NEW c \in Chips, LinkTypeOK',
         \/ Write(c) \/ PutByte(c) \/ Pump(c) \/ ReadByte(c)
         \/ Restart(c) \/ Miss(c) \/ Boot(c)
  PROVE  WayInv(c)' /\ WayInv(Other(c))'
<1> DEFINE s == Other(c)
<1>1. s \in Chips /\ s # c /\ Other(s) = c /\ Other(c) = s  BY TwoChips
<1>2. LinkTypeOK /\ WayInv(c) /\ WayInv(s) /\ Asleep(c)  BY <1>1 DEF LinkInv
<1> HIDE DEF s
<1>3. CASE Write(c)
  <2>1. WayInv(c)'  BY <1>2, <1>3, WriteKeeps
  <2>2. /\ unwritten[s]' = unwritten[s] /\ line[s]' = line[s] /\ buffer[s]' = buffer[s]
        /\ expected[s]' = expected[s] /\ atRisk[s]' = atRisk[s] /\ spoilt[s]' = spoilt[s]
        /\ bytes' = bytes /\ escaped' = escaped /\ first' = first
    BY <1>1, <1>2, <1>3 DEF Write, LinkTypeOK, reading
  <2>3. Way(s)' = Way(s)  BY <2>2, WayStays
  <2>4. WayInv(s)'  BY <1>1, <1>2, <2>2, <2>3, NothingNew
  <2> QED  BY <1>1, <2>1, <2>4
<1>4. CASE PutByte(c)
  <2>1. WayInv(c)'  BY <1>2, <1>4, PutByteKeeps
  <2>2. /\ unwritten[s]' = unwritten[s] /\ line[s]' = line[s] /\ buffer[s]' = buffer[s]
        /\ expected' = expected /\ atRisk' = atRisk /\ spoilt' = spoilt
        /\ bytes' = bytes /\ escaped' = escaped /\ first' = first
    BY <1>1, <1>2, <1>4 DEF PutByte, LinkTypeOK, reading, history
  <2>3. Way(s)' = Way(s)  BY <2>2, WayStays
  <2>4. WayInv(s)'  BY <1>1, <1>2, <2>2, <2>3, NothingNew
  <2> QED  BY <1>1, <2>1, <2>4
<1>5. CASE Pump(c)
  <2>1. Way(c)' = Way(c) /\ unwritten[c]' = unwritten[c]  BY <1>2, <1>5, WayPump
  <2>2. /\ unwritten[s]' = unwritten[s] /\ line[s]' = line[s] /\ buffer[s]' = buffer[s]
        /\ expected' = expected /\ atRisk' = atRisk /\ spoilt' = spoilt
        /\ bytes' = bytes /\ escaped' = escaped /\ first' = first
    BY <1>1, <1>2, <1>5 DEF Pump, LinkTypeOK, reading, history
  <2>3. WayInv(c)'  BY <1>1, <1>2, <2>1, <2>2, NothingNew
  <2>4. Way(s)' = Way(s)  BY <2>2, WayStays
  <2>5. WayInv(s)'  BY <1>1, <1>2, <2>2, <2>4, NothingNew
  <2> QED  BY <1>1, <2>3, <2>5
<1>6. CASE ReadByte(c)
  <2>1. WayInv(s)'  BY <1>1, <1>2, <1>6, ReadByteKeeps
  <2>2. /\ unwritten' = unwritten /\ line[c]' = line[c] /\ buffer' = buffer
        /\ expected[c]' = expected[c] /\ atRisk[c]' = atRisk[c] /\ spoilt' = spoilt
        /\ bytes[s]' = bytes[s] /\ escaped[s]' = escaped[s] /\ first[s]' = first[s]
    BY <1>1, <1>2, <1>6, Reading
  <2>3. Way(c)' = Way(c)  BY <2>2, WayStays
  <2>4. WayInv(c)'  BY <1>1, <1>2, <2>2, <2>3, NothingNew
  <2> QED  BY <1>1, <2>1, <2>4
<1>7. CASE Restart(c)  BY <1>1, <1>2, <1>7, ReaderRestarts, WriterRestarts
<1>8. CASE Miss(c)
  <2>1. WayInv(s)'  BY <1>1, <1>2, <1>8, MissKeeps
  <2>2. /\ unwritten' = unwritten /\ line[c]' = line[c] /\ buffer' = buffer
        /\ expected[c]' = expected[c] /\ atRisk[c]' = atRisk[c] /\ spoilt' = spoilt
        /\ bytes' = bytes /\ escaped' = escaped /\ first' = first
    BY <1>1, <1>2, <1>8 DEF Miss, LinkTypeOK, reading
  <2>3. Way(c)' = Way(c)  BY <2>2, WayStays
  <2>4. WayInv(c)'  BY <1>1, <1>2, <2>2, <2>3, NothingNew
  <2> QED  BY <1>1, <2>1, <2>4
<1>9. CASE Boot(c)
  <2>1. /\ unwritten' = unwritten /\ line' = line /\ buffer' = buffer
        /\ expected' = expected /\ atRisk' = atRisk /\ spoilt' = spoilt
        /\ bytes' = bytes /\ escaped' = escaped /\ first' = first
    BY <1>9 DEF Boot, reading, history
  <2>2. Way(c)' = Way(c) /\ Way(s)' = Way(s)  BY <2>1, WayStays
  <2> QED  BY <1>1, <1>2, <2>1, <2>2, NothingNew
<1> QED  BY <1>3, <1>4, <1>5, <1>6, <1>7, <1>8, <1>9

LEMMA AsleepStep ==
  ASSUME LinkInv, NEW c \in Chips,
         \/ Write(c) \/ PutByte(c) \/ Pump(c) \/ ReadByte(c)
         \/ Restart(c) \/ Miss(c) \/ Boot(c)
  PROVE  \A d \in Chips : Asleep(d)'
<1>1. LinkTypeOK /\ \A d \in Chips : Asleep(d)  BY DEF LinkInv
<1>2. CASE Write(c) \/ PutByte(c) \/ Pump(c) \/ Miss(c)
  BY <1>1, <1>2 DEF Asleep, Write, PutByte, Pump, Miss, reading
<1>3. CASE ReadByte(c)
  <2>1. up[c] /\ up' = up  BY <1>3 DEF ReadByte, Readable
  <2>2. ASSUME NEW d \in Chips, d # c PROVE bytes[d]' = bytes[d] /\ escaped[d]' = escaped[d]
    <3>1. d = Other(c)  BY <2>2, TwoChips
    <3> QED  BY <1>1, <1>3, <3>1, Reading
  <2> QED  BY <1>1, <2>1, <2>2 DEF Asleep
<1>4. CASE Restart(c)  BY <1>1, <1>4 DEF Asleep, Restart, LinkTypeOK
<1>5. CASE Boot(c)  BY <1>1, <1>5 DEF Asleep, Boot, LinkTypeOK, reading
<1> QED  BY <1>2, <1>3, <1>4, <1>5

LEMMA LinkStep ==
  ASSUME LinkInv, [LinkNext]_link
  PROVE  LinkInv'
<1>1. CASE LinkNext
  <2>1. PICK c \in Chips : \/ Write(c) \/ PutByte(c) \/ Pump(c) \/ ReadByte(c)
                           \/ Restart(c) \/ Miss(c) \/ Boot(c)
    BY <1>1 DEF LinkNext
  <2>2. LinkTypeOK'  BY <2>1, TypeStep
  <2>3. WayInv(c)' /\ WayInv(Other(c))'  BY <2>1, <2>2, WayStep
  <2>4. \A d \in Chips : Asleep(d)'  BY <2>1, AsleepStep
  <2>5. \A d \in Chips : WayInv(d)'  BY <2>3, TwoChips
  <2> QED  BY <2>2, <2>4, <2>5 DEF LinkInv
<1>2. CASE UNCHANGED link
  <2>1. LinkTypeOK'  BY <1>2 DEF link, reading, history, LinkInv, LinkTypeOK
  <2>2. ASSUME NEW c \in Chips PROVE WayInv(c)' /\ Asleep(c)'
    <3>1. /\ unwritten' = unwritten /\ line' = line /\ buffer' = buffer
          /\ expected' = expected /\ atRisk' = atRisk /\ spoilt' = spoilt
          /\ bytes' = bytes /\ escaped' = escaped /\ first' = first /\ up' = up
      BY <1>2 DEF link, reading, history
    <3>2. Way(c)' = Way(c)  BY <3>1, WayStays
    <3>3. WayInv(c) /\ Asleep(c)  BY DEF LinkInv
    <3>4. WayInv(c)'  BY <3>1, <3>2, <3>3, NothingNew
    <3> QED  BY <3>1, <3>3, <3>4 DEF Asleep
  <2> QED  BY <2>1, <2>2 DEF LinkInv
<1> QED  BY <1>1, <1>2

LEMMA NothingElseIsLost ==
  ASSUME LinkInv
  PROVE  LossesOnlyByRestart
<1> SUFFICES ASSUME NEW c \in Chips
             PROVE  LET s == Other(c) IN
                    /\ Readable(c) /\ ReadsEnd(c) /\ Passes(c) =>
                         \E k \in DOMAIN expected[s] :
                           /\ expected[s][k] = first[c]
                           /\ \A j \in 1 .. k - 1 : expected[s][j] \in atRisk[s]
                    /\ Way(s) = << >> => ToSet(expected[s]) \subseteq atRisk[s]
  BY DEF LossesOnlyByRestart
<1> DEFINE s == Other(c)
           w == Way(s)
           x == expected[s]
<1>1. s \in Chips /\ Other(s) = c  BY TwoChips
<1>2. WayInv(s) /\ LinkTypeOK  BY <1>1 DEF LinkInv
<1>3. x \in Seq(Frames) /\ DOMAIN x = 1 .. Len(x) /\ Len(x) \in Nat
  <2>1. x \in Seq(Frames)  BY <1>1, <1>2 DEF LinkTypeOK
  <2> HIDE DEF x
  <2> QED  BY <2>1
<1>4. ASSUME Passes(c)
      PROVE  \E k \in DOMAIN x : x[k] = first[c] /\ \A j \in 1 .. k - 1 : x[j] \in atRisk[s]
  <2>1. bytes[c] # << >>
    <3>1. Len(Gathered(c)) > ChecksumSize  BY <1>4 DEF Passes
    <3>2. Gathered(c) # << >>  BY <3>1, EmptySeq, LinkAssumption DEF MessagesAssumption
    <3> QED  BY <3>2 DEF Gathered
  <2>2. PICK k \in DOMAIN x :
          /\ x[k] = first[c]
          /\ \A i \in DOMAIN w, q \in DOMAIN x : x[q] = w[i].of => k <= q /\ (w[i].at = 0 => k < q)
    BY <1>1, <1>2, <2>1 DEF WayInv, Begun
  <2>3. ASSUME NEW j \in 1 .. k - 1 PROVE x[j] \in atRisk[s]
    <3>1. j \in DOMAIN x /\ ~(k <= j)  BY <1>3
    <3>2. ~ \E i \in DOMAIN w : w[i].of = x[j]  BY <2>2, <3>1
    <3> QED  BY <1>2, <3>1, <3>2 DEF WayInv, Covered
  <2> QED  BY <2>2, <2>3
<1>5. ASSUME w = << >> PROVE ToSet(x) \subseteq atRisk[s]
  <2>1. DOMAIN w = {}  BY <1>5, EmptySeq
  <2>2. \A p \in DOMAIN x : x[p] \in atRisk[s]  BY <1>2, <2>1 DEF WayInv, Covered
  <2> QED  BY <2>2 DEF ToSet
<1> QED  BY <1>4, <1>5
-----------------------------------------------------------------------------

\* The variables of the link have their types: no more is ever in a buffer, on the
\* line or gathered than fits.
THEOREM LinkTypes == LinkSpec => []LinkTypeOK
<1>1. LinkInit => LinkInv  BY Begins
<1>2. LinkInv /\ [LinkNext]_link => LinkInv'  BY LinkStep
<1>3. LinkInv => LinkTypeOK  BY DEF LinkInv
<1> QED  BY <1>1, <1>2, <1>3, PTL DEF LinkSpec

\* Messages arrive whole and in the order sent, and only restarts lose any:
\* serial_write() and serial_read() agree, with the buffer of any size between
\* them and a restart of either chip at any byte.
THEOREM OnlyRestartsLose == LinkSpec => []LossesOnlyByRestart
<1>1. LinkInit => LinkInv  BY Begins
<1>2. LinkInv /\ [LinkNext]_link => LinkInv'  BY LinkStep
<1>3. LinkInv => LossesOnlyByRestart  BY NothingElseIsLost
<1> QED  BY <1>1, <1>2, <1>3, PTL DEF LinkSpec
=============================================================================
