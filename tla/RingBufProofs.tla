---------------------------- MODULE RingBufProofs ----------------------------
(***************************************************************************)
(* Proofs about RingBuf, for every size of the ring and of a length, every *)
(* set of message sizes, any number of messages and of deaths.             *)
(***************************************************************************)
EXTENDS RingBuf, SequenceTheorems, TLAPS

---------------------------------------------------------------------------
(* How the ring measures the part between two places *)

LEMMA Limits == /\ LEN_SIZE \in Nat /\ Max \in Nat /\ 0 < LEN_SIZE /\ LEN_SIZE <= Max
                /\ Places = 0 .. (Max + LEN_SIZE) - 1 /\ Sizes \subseteq Nat
  BY RingAssumption DEF Places

LEMMA Remainder ==
  ASSUME NEW x \in Nat, x < Max
  PROVE  x % Max = x /\ (x + Max) % Max = x
BY RingAssumption

LEMMA SizeIs ==
  ASSUME NEW h \in 0 .. Max, NEW t \in 0 .. Max
  PROVE  /\ h <= t /\ t - h < Max => Size(h, t) = t - h
         /\ t < h /\ h - t < Max => Size(h, t) = (t - h) + Max
         /\ t - h = Max \/ h - t = Max => Size(h, t) = 0
<1>1. CASE h <= t /\ t - h < Max
  <2>1. t - h \in Nat
    BY <1>1
  <2>2. ((t - h) + Max) % Max = t - h
    BY <1>1, <2>1, Remainder
  <2>3. QED BY <1>1, <2>2, RingAssumption DEF Size
<1>2. CASE t < h /\ h - t < Max
  <2>1. (t - h) + Max \in Nat /\ (t - h) + Max < Max
    BY <1>2, RingAssumption
  <2>2. ((t - h) + Max) % Max = (t - h) + Max
    BY <2>1, Remainder
  <2>3. QED BY <1>2, <2>2, RingAssumption DEF Size
<1>3. CASE h - t = Max
  <2>1. (t - h) + Max = 0 /\ 0 < Max
    BY <1>3, RingAssumption
  <2>2. 0 % Max = 0
    BY <2>1, Remainder
  <2>3. QED BY <1>3, <2>1, <2>2, RingAssumption DEF Size
<1>4. CASE t - h = Max
  <2>1. (t - h) + Max = Max + Max /\ 0 < Max
    BY <1>4, RingAssumption
  <2>2. (Max + Max) % Max = 0
    BY <2>1, RingAssumption
  <2>3. QED BY <1>4, <2>1, <2>2, RingAssumption DEF Size
<1>5. QED BY <1>1, <1>2, <1>3, <1>4, RingAssumption

---------------------------------------------------------------------------
(* Where the messages lie *)

(* s is what was accepted, of which r messages were run; h and t are the   *)
(* head and the tail, c the content.                                       *)

\* The first len bytes of message i lie at p.
Bytes(c, p, len, i, size) == \A b \in 0 .. len - 1 : c[p + b] = <<i, size, b>>

\* Where message i ends; the first begins at 0.
EndOf(s, i) == IF i = 0 THEN 0 ELSE End(s[i])

\* The writer jumps to the front only from behind the head, and leaves the marker.
Jumped(h, c, p) == h <= p /\ 0 < h /\ Bytes(c, p, LEN_SIZE, Marker, 0)

Held(s, c, i) == Bytes(c, s[i].at, LEN_SIZE + s[i].size, i, s[i].size)

Follows(s, h, c, i) ==
  s[i].at = EndOf(s, i - 1) \/ (s[i].at = 0 /\ Jumped(h, c, EndOf(s, i - 1)))

\* A message lies between the head and the tail or, when the tail is in front of the head,
\* either behind the head or in front of the tail.
Between(s, t, h, i) ==
  IF h <= s[i].at THEN h <= t => EndOf(s, i) <= t ELSE EndOf(s, i) <= t /\ t < h

\* A later message lies behind an earlier one, or at the front when that lies behind the head.
Ordered(s, h, i, j) ==
  \/ EndOf(s, i) <= s[j].at /\ (h <= s[i].at <=> h <= s[j].at)
  \/ h <= s[i].at /\ s[j].at < h

Layout(s, t, h, r, c) ==
  /\ r \in 0 .. Len(s) /\ h = EndOf(s, r) /\ t = EndOf(s, Len(s))
  /\ h \in 0 .. Max /\ t \in 0 .. Max /\ (h = 0 => t < Max)
  /\ \A i \in r + 1 .. Len(s) :
       Held(s, c, i) /\ Follows(s, h, c, i) /\ Between(s, t, h, i) /\ EndOf(s, i) <= Max
  /\ \A i, j \in r + 1 .. Len(s) : i < j => Ordered(s, h, i, j)

LEMMA MessageFits == \A m \in Messages : m.at \in Nat /\ m.size \in Nat
<1>1. \A m \in Messages : m.at \in Places /\ m.size \in Sizes
  BY DEF Messages
<1>2. Places \subseteq Nat
  BY Limits
<1>3. QED BY <1>1, <1>2, Limits

LEMMA Extents ==
  ASSUME NEW s \in Seq(Messages)
  PROVE  /\ Len(s) \in Nat /\ EndOf(s, 0) = 0
         /\ \A i \in 1 .. Len(s) :
              /\ s[i] \in Messages /\ s[i].at \in Nat /\ s[i].size \in Nat /\ EndOf(s, i) \in Nat
              /\ EndOf(s, i) = s[i].at + LEN_SIZE + s[i].size /\ s[i].at < EndOf(s, i)
<1>1. \A i \in 1 .. Len(s) : s[i] \in Messages
  OBVIOUS
<1>2. QED BY <1>1, MessageFits, Limits DEF EndOf, End

LEMMA Inside ==
  ASSUME NEW a \in Nat, NEW z \in Nat, NEW b \in 0 .. (LEN_SIZE + z) - 1, a + LEN_SIZE + z <= Max
  PROVE  a + b \in Nat /\ a + b \in Places /\ a <= a + b /\ a + b < a + LEN_SIZE + z
BY Limits

\* The part of the ring that a message which was not run may lie in.
Occupied(h, t, q) == IF h <= t THEN h <= q /\ q < t ELSE q < t \/ h <= q

LEMMA OccupiedCounts ==
  ASSUME NEW s \in Seq(Messages), NEW t, NEW h, NEW r, NEW c, NEW d, Layout(s, t, h, r, c),
         \A q \in Places : Occupied(h, t, q) => d[q] = c[q]
  PROVE  Layout(s, t, h, r, d)
<1>a. /\ r \in Nat /\ Len(s) \in Nat /\ h \in 0 .. Max /\ t \in 0 .. Max
      /\ \A i \in r + 1 .. Len(s) : i \in 1 .. Len(s)
  BY Extents DEF Layout
<1>1. ASSUME NEW i \in r + 1 .. Len(s) PROVE Held(s, d, i)
  <2>1. /\ Held(s, c, i) /\ Between(s, t, h, i) /\ EndOf(s, i) <= Max
        /\ s[i].at \in Nat /\ s[i].size \in Nat /\ EndOf(s, i) = s[i].at + LEN_SIZE + s[i].size
    BY <1>a, Extents DEF Layout
  <2>2. ASSUME NEW b \in 0 .. (LEN_SIZE + s[i].size) - 1 PROVE d[s[i].at + b] = c[s[i].at + b]
    <3> DEFINE a == s[i].at
               z == s[i].size
               e == EndOf(s, i)
    <3>0. a \in Nat /\ z \in Nat /\ e \in Nat /\ e = a + LEN_SIZE + z /\ e <= Max /\ b \in 0 .. (LEN_SIZE + z) - 1
          /\ IF h <= a THEN h <= t => e <= t ELSE e <= t /\ t < h
      BY <1>a, <2>1, Extents DEF Between
    <3> HIDE DEF a, z, e
    <3>1. a + b \in Nat /\ a + b \in Places /\ a <= a + b /\ a + b < e
      BY <3>0, Inside
    <3>2. Occupied(h, t, a + b)
      BY <1>a, <3>0, <3>1, Limits DEF Occupied
    <3>3. QED BY <3>1, <3>2 DEF a
  <2>3. QED BY <2>1, <2>2 DEF Held, Bytes
<1>2. ASSUME NEW i \in r + 1 .. Len(s) PROVE Follows(s, h, d, i)
  <2>1. Follows(s, h, c, i) /\ Between(s, t, h, i)
    BY DEF Layout
  <2>2. CASE s[i].at = 0 /\ Jumped(h, c, EndOf(s, i - 1))
    <3> DEFINE p == EndOf(s, i - 1)
    <3>1. t < h /\ h <= p
      BY <1>a, <2>1, <2>2 DEF Between, Jumped
    <3>2. p \in 0 .. Max
      <4>1. CASE i = r + 1
        BY <1>a, <4>1 DEF Layout
      <4>2. CASE i # r + 1
        <5>1. i - 1 \in r + 1 .. Len(s) /\ i - 1 \in 1 .. Len(s)
          BY <1>a, <4>2
        <5>2. QED BY <5>1, Extents DEF Layout
      <4>3. QED BY <4>1, <4>2
    <3> HIDE DEF p
    <3>3. ASSUME NEW b \in 0 .. LEN_SIZE - 1 PROVE d[p + b] = c[p + b]
      <4>1. p + b \in Places /\ h <= p + b
        BY <1>a, <3>1, <3>2, Limits
      <4>2. QED BY <1>a, <3>1, <4>1 DEF Occupied
    <3>4. QED BY <2>2, <3>3 DEF Follows, Jumped, Bytes, p
  <2>3. QED BY <2>1, <2>2 DEF Follows
<1>3. QED BY <1>1, <1>2 DEF Layout

\* The reader puts the oldest message behind its head.
LEMMA HeadMoves ==
  ASSUME NEW s \in Seq(Messages), NEW t, NEW h, NEW r, NEW c, Layout(s, t, h, r, c), r < Len(s)
  PROVE  Layout(s, t, EndOf(s, r + 1), r + 1, c)
<1> DEFINE g == EndOf(s, r + 1)
<1>a. /\ r \in Nat /\ Len(s) \in Nat /\ h \in 0 .. Max /\ t \in 0 .. Max
      /\ r + 1 \in r + 1 .. Len(s)
      /\ \A i \in r + 2 .. Len(s) : /\ i \in r + 1 .. Len(s) /\ i \in 1 .. Len(s) /\ r + 1 < i
                                    /\ i - 1 \in r + 1 .. Len(s) /\ i - 1 < i
  BY Extents DEF Layout
<1>b. \A i \in r + 1 .. Len(s) : /\ s[i].at \in Nat /\ EndOf(s, i) \in Nat /\ s[i].at < EndOf(s, i)
                                 /\ EndOf(s, i) <= Max /\ Between(s, t, h, i)
  BY <1>a, Extents DEF Layout
<1>c. \A i, j \in r + 1 .. Len(s) : i < j => Ordered(s, h, i, j)
  BY DEF Layout
<1>1. g \in 1 .. Max /\ s[r + 1].at < g
  BY <1>a, <1>b
<1> HIDE DEF g
<1>2. ASSUME NEW i \in r + 2 .. Len(s) PROVE Between(s, t, g, i)
  <2>1. Ordered(s, h, r + 1, i)
    BY <1>a, <1>c
  <2>2. QED BY <1>1, <1>a, <1>b, <2>1 DEF Between, Ordered, g
<1>3. ASSUME NEW i \in r + 2 .. Len(s) PROVE Follows(s, g, c, i)
  <2>1. Follows(s, h, c, i)
    BY <1>a DEF Layout
  <2>2. ASSUME s[i].at = 0, Jumped(h, c, EndOf(s, i - 1)) PROVE g <= EndOf(s, i - 1)
    <3>1. 0 < h
      BY <2>2 DEF Jumped
    <3>2. Ordered(s, h, r + 1, i) /\ Ordered(s, h, i - 1, i)
      BY <1>a, <1>c
    <3>3. h <= s[r + 1].at /\ h <= s[i - 1].at
      BY <1>a, <1>b, <2>2, <3>1, <3>2 DEF Ordered
    <3>4. CASE i - 1 = r + 1
      BY <1>1, <3>4 DEF g
    <3>5. CASE i - 1 # r + 1
      <4>1. Ordered(s, h, r + 1, i - 1)
        BY <1>a, <1>c, <3>5
      <4>2. EndOf(s, i - 1) \in Nat /\ s[i - 1].at \in Nat /\ s[i - 1].at < EndOf(s, i - 1)
        BY <1>a, <1>b
      <4>3. g <= s[i - 1].at
        BY <1>a, <3>3, <4>1, <4>2 DEF Ordered, g
      <4>4. QED BY <1>1, <4>2, <4>3
    <3>6. QED BY <3>4, <3>5
  <2>3. QED BY <1>1, <2>1, <2>2 DEF Follows, Jumped
<1>4. ASSUME NEW i \in r + 2 .. Len(s), NEW j \in r + 2 .. Len(s), i < j PROVE Ordered(s, g, i, j)
  <2>1. Ordered(s, h, r + 1, i) /\ Ordered(s, h, r + 1, j) /\ Ordered(s, h, i, j)
    BY <1>a, <1>c, <1>4
  <2>2. PICK a \in Nat, b \in Nat, e \in Nat, f \in Nat :
          a = s[i].at /\ b = s[j].at /\ e = EndOf(s, i) /\ f = s[r + 1].at
    BY <1>a, <1>b
  <2>3. a < e /\ f < g
    BY <1>1, <1>a, <1>b, <2>2
  <2>4. /\ (g <= a /\ (h <= f <=> h <= a)) \/ (h <= f /\ a < h)
        /\ (g <= b /\ (h <= f <=> h <= b)) \/ (h <= f /\ b < h)
        /\ (e <= b /\ (h <= a <=> h <= b)) \/ (h <= a /\ b < h)
    BY <2>1, <2>2 DEF Ordered, g
  <2>5. (e <= b /\ (g <= a <=> g <= b)) \/ (g <= a /\ b < g)
    BY <1>1, <1>a, <2>3, <2>4
  <2>6. QED BY <2>2, <2>5 DEF Ordered
<1>5. r + 1 \in 0 .. Len(s) /\ t = EndOf(s, Len(s)) /\ (g = 0 => t < Max)
  BY <1>a, <1>1 DEF Layout
<1>6. ASSUME NEW i \in (r + 1) + 1 .. Len(s) PROVE i \in r + 2 .. Len(s) /\ Held(s, c, i)
  BY <1>a DEF Layout
<1>7. g = EndOf(s, r + 1)
  BY DEF g
<1>8. QED BY <1>a, <1>b, <1>1, <1>2, <1>3, <1>4, <1>5, <1>6, <1>7 DEF Layout

\* The ring looks empty only when every message was run.
LEMMA EmptyOnly ==
  ASSUME NEW s \in Seq(Messages), NEW t, NEW h, NEW r, NEW c, Layout(s, t, h, r, c)
  PROVE  /\ r < Len(s) => h # t /\ Size(h, t) # 0
         /\ r = Len(s) => h = t /\ Size(h, t) = 0
<1>a. h \in 0 .. Max /\ t \in 0 .. Max /\ (h = 0 => t < Max) /\ r \in Nat /\ Len(s) \in Nat
      /\ Max \in Nat /\ 0 < Max
  BY Limits, Extents DEF Layout
<1>1. ASSUME r < Len(s) PROVE h # t /\ t > 0
  <2>1. r + 1 \in r + 1 .. Len(s) /\ r + 1 \in 1 .. Len(s)
    BY <1>a, <1>1
  <2>2. /\ s[r + 1].at \in Nat /\ EndOf(s, r + 1) \in Nat /\ s[r + 1].at < EndOf(s, r + 1)
        /\ Between(s, t, h, r + 1)
    BY <2>1, Extents DEF Layout
  <2>3. Len(s) \in 1 .. Len(s) /\ t = EndOf(s, Len(s)) 
    BY <1>a, <1>1 DEF Layout
  <2>4. t > 0
    BY <2>3, Extents
  <2>5. QED BY <1>a, <2>2, <2>4 DEF Between
<1>2. ASSUME r = Len(s) PROVE h = t
  BY <1>2 DEF Layout
<1>3. h = t => Size(h, t) = 0
  BY <1>a, SizeIs
<1>4. ASSUME h # t, t > 0 PROVE Size(h, t) # 0
  <2>1. CASE h < t
    <3>1. Size(h, t) = t - h
      BY <1>a, <2>1, SizeIs
    <3>2. QED BY <1>a, <2>1, <3>1
  <2>2. CASE t < h
    <3>1. Size(h, t) = (t - h) + Max
      BY <1>a, <1>4, <2>2, SizeIs
    <3>2. QED BY <1>a, <1>4, <2>2, <3>1
  <2>3. QED BY <1>a, <1>4, <2>1, <2>2
<1>5. QED BY <1>1, <1>2, <1>3, <1>4

---------------------------------------------------------------------------
(* What the writer writes on *)

\* The room that write tests for is free.
LEMMA RoomIsFree ==
  ASSUME NEW h \in 0 .. Max, NEW t \in 0 .. Max, h = 0 => t < Max,
         NEW total \in Nat, LEN_SIZE <= total, NEW len \in Nat, len <= total,
         MayStart(h, t, total), Room(h, Start(t, total), len)
  PROVE  /\ Wraps(t, total) => Start(t, total) = 0 /\ h <= t /\ total + 1 < h
         /\ ~Wraps(t, total) => /\ Start(t, total) = t /\ t + total <= Max
                                /\ h = 0 => t + len < Max
                                /\ t < h => t + len < h
<1>1. CASE Wraps(t, total)
  BY <1>1 DEF MayStart, MayWrap, Start
<1>2. CASE ~Wraps(t, total)
  <2>1. Start(t, total) = t /\ t + total <= Max
    BY <1>2, Limits DEF Wraps, Start
  <2>2. len <= Max - Size(h, t) - 1
    BY <2>1 DEF Room, Unused
  <2>3. h = 0 => t + len < Max
    <3>1. h = 0 => Size(h, t) = t
      BY Limits, SizeIs
    <3>2. QED BY <2>2, <3>1, Limits
  <2>4. t < h => t + len < h
    <3>1. ASSUME h - t = Max PROVE t + len < h
      <4>1. Size(h, t) = 0
        BY <3>1, SizeIs
      <4>2. QED BY <2>2, <3>1, <4>1, Limits
    <3>2. ASSUME t < h, h - t # Max PROVE t + len < h
      <4>1. Size(h, t) = (t - h) + Max
        BY <3>2, SizeIs, Limits
      <4>2. QED BY <2>2, <3>2, <4>1, Limits
    <3>3. QED BY <3>1, <3>2
  <2>5. QED BY <1>2, <2>1, <2>3, <2>4
<1>3. QED BY <1>1, <1>2

\* The content when the first len bytes of message n were copied, behind a marker or not.
Written(c, t, total, n, size, len) == Put(Marked(c, t, total), n, size, Start(t, total), len)

\* What write puts there, and what it leaves.
LEMMA Writes ==
  ASSUME NEW h \in 0 .. Max, NEW t \in 0 .. Max, h = 0 => t < Max,
         NEW total \in Nat, LEN_SIZE <= total, NEW len \in Nat, len <= total,
         MayStart(h, t, total), Room(h, Start(t, total), len),
         NEW c, NEW n \in Nat, NEW size \in Nat
  PROVE  /\ \A q \in Places : Occupied(h, t, q) => Written(c, t, total, n, size, len)[q] = c[q]
         /\ Bytes(Written(c, t, total, n, size, len), Start(t, total), len, n, size)
         /\ Wraps(t, total) => Bytes(Written(c, t, total, n, size, len), t, LEN_SIZE, Marker, 0)
<1> DEFINE e == Marked(c, t, total)
<1>0. PICK a \in Nat : a = Start(t, total)
  BY DEF Start
<1>d. PICK d : d = Written(c, t, total, n, size, len)
  OBVIOUS
<1>1. /\ Wraps(t, total) => a = 0 /\ h <= t /\ total + 1 < h
      /\ ~Wraps(t, total) => a = t /\ t + total <= Max /\ (t < h => t + len < h)
      /\ a \in 0 .. Max /\ a + len <= Max
  BY <1>0, RoomIsFree, Limits DEF Start
<1>2. \A q \in Places : q \notin t .. t + LEN_SIZE - 1 => e[q] = c[q]
  BY DEF Marked, Put
<1>3. ~Wraps(t, total) => e = c
  BY DEF Marked
<1>4. Wraps(t, total) => \A q \in Places : q \in t .. t + LEN_SIZE - 1 => e[q] = <<Marker, 0, q - t>>
  BY DEF Marked, Put
<1>5. \A q \in Places : d[q] = IF q \in a .. a + len - 1 THEN <<n, size, q - a>> ELSE e[q]
  BY <1>0, <1>d DEF Written, Put
<1> HIDE DEF e
<1>6. ASSUME NEW q \in Places, Occupied(h, t, q) PROVE d[q] = c[q]
  <2>1. q \notin a .. a + len - 1
    BY <1>1, <1>6, Limits DEF Occupied
  <2>2. CASE Wraps(t, total)
    <3>1. q \notin t .. t + LEN_SIZE - 1
      BY <1>1, <1>6, <2>2, Limits DEF Occupied
    <3>2. QED BY <1>2, <1>5, <2>1, <3>1
  <2>3. QED BY <1>3, <1>5, <2>1, <2>2
<1>7. ASSUME NEW b \in 0 .. len - 1 PROVE d[a + b] = <<n, size, b>>
  <2>1. a + b \in Places /\ a + b \in a .. a + len - 1 /\ (a + b) - a = b
    BY <1>1, Limits
  <2>2. QED BY <1>5, <2>1
<1>8. ASSUME Wraps(t, total), NEW b \in 0 .. LEN_SIZE - 1 PROVE d[t + b] = <<Marker, 0, b>>
  <2>1. t + b \in Places /\ t + b \in t .. t + LEN_SIZE - 1 /\ (t + b) - t = b
    BY Limits
  <2>2. t + b \notin a .. a + len - 1
    BY <1>1, <1>8, Limits
  <2>3. QED BY <1>4, <1>5, <1>8, <2>1, <2>2
<1>9. QED BY <1>0, <1>d, <1>6, <1>7, <1>8 DEF Bytes

\* The message that write has copied lies behind the others.
LEMMA TailMoves ==
  ASSUME NEW s \in Seq(Messages), NEW t \in 0 .. Max, NEW h \in 0 .. Max, NEW r, NEW c, NEW d,
         Layout(s, t, h, r, c),
         NEW m \in Messages, NEW total \in Nat, total = LEN_SIZE + m.size, m.at = Start(t, total),
         Accepts(h, t, total),
         \A q \in Places : Occupied(h, t, q) => d[q] = c[q],
         Bytes(d, m.at, total, Len(s) + 1, m.size),
         Wraps(t, total) => Bytes(d, t, LEN_SIZE, Marker, 0)
  PROVE  Layout(s, t, h, r, d) /\ Layout(Append(s, m), End(m), h, r, d)
<1> DEFINE n == Len(s) + 1
           z == Append(s, m)
           e == End(m)
<1>a. /\ r \in Nat /\ Len(s) \in Nat /\ n \in Nat /\ h \in 0 .. Max /\ t \in 0 .. Max /\ (h = 0 => t < Max)
      /\ m.at \in Nat /\ m.size \in Nat /\ total \in Nat /\ LEN_SIZE <= total
      /\ e = m.at + total /\ e \in Nat /\ r <= Len(s) /\ total = LEN_SIZE + m.size
  <2>1. m.at \in Nat /\ m.size \in Nat
    BY MessageFits
  <2>2. e = m.at + total
    BY <2>1, Limits DEF End
  <2> HIDE DEF e
  <2>3. total \in Nat /\ LEN_SIZE <= total /\ e \in Nat
    BY <2>1, <2>2, Limits
  <2>4. r \in 0 .. Len(s) /\ h \in 0 .. Max /\ t \in 0 .. Max /\ (h = 0 => t < Max) /\ Len(s) \in Nat
    BY Extents DEF Layout
  <2>5. QED BY <2>1, <2>2, <2>3, <2>4
<1>b. /\ Wraps(t, total) => m.at = 0 /\ h <= t /\ total + 1 < h
      /\ ~Wraps(t, total) => /\ m.at = t /\ t + total <= Max
                             /\ h = 0 => t + total < Max
                             /\ t < h => t + total < h
  BY <1>a, RoomIsFree DEF Accepts
<1>c. Bytes(d, m.at, total, n, m.size) /\ (Wraps(t, total) => Bytes(d, t, LEN_SIZE, Marker, 0))
  OBVIOUS
<1>1. Layout(s, t, h, r, d)
  BY OccupiedCounts
<1>2. /\ z \in Seq(Messages) /\ Len(z) = n /\ z[n] = m
      /\ \A i \in 1 .. Len(s) : z[i] = s[i]
  OBVIOUS
<1> HIDE DEF z, e, n
<1>3. /\ EndOf(z, n) = e /\ EndOf(z, n - 1) = t
      /\ \A i \in 0 .. Len(s) : EndOf(z, i) = EndOf(s, i)
  <2>1. \A i \in 0 .. Len(s) : EndOf(z, i) = EndOf(s, i)
    BY <1>2 DEF EndOf
  <2>2. EndOf(z, n) = e
    <3>1. n # 0
      BY <1>a DEF n
    <3>2. QED BY <1>2, <3>1 DEF EndOf, e
  <2>3. n - 1 = Len(s) /\ Len(s) \in 0 .. Len(s)
    BY <1>a DEF n
  <2>4. t = EndOf(s, Len(s))
    BY DEF Layout
  <2>5. EndOf(z, n - 1) = t
    BY <2>1, <2>3, <2>4
  <2>6. QED BY <2>1, <2>2, <2>5
<1>4. \A i \in r + 1 .. n : i = n \/ (i \in r + 1 .. Len(s) /\ i \in 1 .. Len(s) /\ i - 1 \in 0 .. Len(s))
  BY <1>a DEF n
<1>5. e <= Max /\ (h = 0 => e < Max)
  <2>1. CASE Wraps(t, total)
    BY <1>a, <1>b, <2>1, Limits
  <2>2. CASE ~Wraps(t, total)
    BY <1>a, <1>b, <2>2, Limits
  <2>3. QED BY <2>1, <2>2
<1>6. Held(z, d, n) /\ Follows(z, h, d, n) /\ Between(z, e, h, n) /\ EndOf(z, n) <= Max
  <2>1. Held(z, d, n)
    <3>1. z[n].at = m.at /\ z[n].size = m.size /\ LEN_SIZE + z[n].size = total
      BY <1>2, <1>a, Limits
    <3>2. QED BY <1>c, <3>1 DEF Held
  <2>2. Follows(z, h, d, n)
    <3>1. CASE Wraps(t, total)
      BY <1>2, <1>3, <1>a, <1>b, <1>c, <3>1 DEF Follows, Jumped
    <3>2. CASE ~Wraps(t, total)
      BY <1>2, <1>3, <1>b, <3>2 DEF Follows
    <3>3. QED BY <3>1, <3>2
  <2>3. Between(z, e, h, n)
    BY <1>2, <1>3, <1>a, <1>b DEF Between
  <2>4. QED BY <1>3, <1>5, <2>1, <2>2, <2>3
<1>7. ASSUME NEW i \in r + 1 .. Len(s)
      PROVE  Held(z, d, i) /\ Follows(z, h, d, i) /\ Between(z, e, h, i) /\ EndOf(z, i) <= Max
             /\ Ordered(z, h, i, n)
  <2>1. z[i] = s[i] /\ EndOf(z, i) = EndOf(s, i) /\ EndOf(z, i - 1) = EndOf(s, i - 1)
        /\ s[i].at \in Nat /\ EndOf(s, i) \in Nat /\ s[i].at < EndOf(s, i)
    <3>1. i \in 1 .. Len(s) /\ i \in 0 .. Len(s) /\ i - 1 \in 0 .. Len(s)
      BY <1>a
    <3>2. s[i].at \in Nat /\ EndOf(s, i) \in Nat /\ s[i].at < EndOf(s, i)
      BY <3>1, Extents
    <3>3. QED BY <1>2, <1>3, <3>1, <3>2
  <2>2. Held(s, d, i) /\ Follows(s, h, d, i) /\ Between(s, t, h, i) /\ EndOf(s, i) <= Max
    BY <1>1 DEF Layout
  <2>3. Between(z, e, h, i)
    BY <1>a, <1>b, <2>1, <2>2 DEF Between
  <2>4. Ordered(z, h, i, n)
    <3>1. z[n].at = m.at
      BY <1>2
    <3>2. CASE Wraps(t, total)
      BY <1>a, <1>b, <2>1, <2>2, <3>1, <3>2 DEF Between, Ordered
    <3>3. CASE ~Wraps(t, total)
      BY <1>a, <1>b, <2>1, <2>2, <3>1, <3>3 DEF Between, Ordered
    <3>4. QED BY <3>2, <3>3
  <2>5. QED BY <2>1, <2>2, <2>3, <2>4 DEF Held, Follows
<1>8. ASSUME NEW i \in r + 1 .. Len(s), NEW j \in r + 1 .. Len(s), i < j PROVE Ordered(z, h, i, j)
  <2>1. Ordered(s, h, i, j)
    BY <1>1, <1>8 DEF Layout
  <2>2. i \in 1 .. Len(s) /\ j \in 1 .. Len(s) /\ i \in 0 .. Len(s)
    BY <1>a
  <2>3. QED BY <1>2, <1>3, <2>1, <2>2 DEF Ordered
<1>9. \A i, j \in r + 1 .. n : i < j => Ordered(z, h, i, j)
  <2>1. \A i \in r + 1 .. n : ~(n < i)
    BY <1>a
  <2>2. QED BY <1>4, <1>7, <1>8, <2>1
<1>10. \A i \in r + 1 .. n : Held(z, d, i) /\ Follows(z, h, d, i) /\ Between(z, e, h, i) /\ EndOf(z, i) <= Max
  BY <1>4, <1>6, <1>7
<1>11. r \in 0 .. n /\ h = EndOf(z, r) /\ e \in 0 .. Max
  <2>1. r \in 0 .. Len(s) /\ h = EndOf(s, r)
    BY <1>1 DEF Layout
  <2>2. QED BY <1>3, <1>5, <1>a, <2>1 DEF n
<1>12. Layout(z, e, h, r, d)
  BY <1>2, <1>3, <1>5, <1>9, <1>10, <1>11, <1>a DEF Layout
<1>13. QED BY <1>1, <1>12 DEF z, e

---------------------------------------------------------------------------
(* What the reader finds *)

LEMMA LengthFound ==
  ASSUME NEW p \in Nat, NEW len \in Nat, LEN_SIZE <= len, NEW n, NEW size,
         Bytes(content, p, len, n, size)
  PROVE  IsLength(p) /\ content[p][1] = n /\ content[p][2] = size
<1>1. \A b \in 0 .. LEN_SIZE - 1 : content[p + b] = <<n, size, b>>
  <2>1. \A b \in 0 .. LEN_SIZE - 1 : b \in 0 .. len - 1
    BY Limits
  <2>2. QED BY <2>1 DEF Bytes
<1>2. content[p] = <<n, size, 0>>
  <2>1. 0 \in 0 .. LEN_SIZE - 1 /\ p + 0 = p
    BY Limits
  <2>2. content[p + 0] = <<n, size, 0>>
    BY <1>1, <2>1
  <2>3. QED BY <2>1, <2>2
<1>3. content[p][1] = n /\ content[p][2] = size
  BY <1>2
<1>4. QED BY <1>1, <1>3 DEF IsLength

\* A ring that is not empty begins with the next message, complete.
LEMMA NextFound ==
  ASSUME NEW s \in Seq(Messages), NEW t \in 0 .. Max, NEW h \in 0 .. Max, NEW r \in Nat,
         Layout(s, t, h, r, content), r < Len(s)
  PROVE  /\ HasMessage(h, t) /\ LengthAt(h) = s[r + 1].at
         /\ content[s[r + 1].at][1] = r + 1 /\ content[s[r + 1].at][2] = s[r + 1].size
<1> DEFINE a == s[r + 1].at
           z == s[r + 1].size
           e == EndOf(s, r + 1)
<1>1. /\ a \in Nat /\ z \in Nat /\ e \in Nat /\ e = a + LEN_SIZE + z /\ e <= Max
      /\ IF h <= a THEN h <= t => e <= t ELSE e <= t /\ t < h
      /\ a = h \/ (a = 0 /\ Jumped(h, content, h))
      /\ Bytes(content, a, LEN_SIZE + z, r + 1, z)
      /\ (h = 0 => t < Max)
  <2>1. r + 1 \in r + 1 .. Len(s) /\ r + 1 \in 1 .. Len(s) /\ (r + 1) - 1 = r
    BY Extents
  <2>2. /\ Held(s, content, r + 1) /\ Follows(s, h, content, r + 1) /\ Between(s, t, h, r + 1)
        /\ e <= Max /\ h = EndOf(s, r) /\ (h = 0 => t < Max)
    BY <2>1 DEF Layout
  <2>3. QED BY <2>1, <2>2, Extents DEF Held, Follows, Between
<1> HIDE DEF a, z, e
<1>2. IsLength(a) /\ content[a][1] = r + 1 /\ content[a][2] = z
  <2>1. LEN_SIZE + z \in Nat /\ LEN_SIZE <= LEN_SIZE + z
    BY <1>1, Limits
  <2>2. QED BY <1>1, <2>1, LengthFound
<1>3. CASE a = h
  <2>1. h + LEN_SIZE <= Max
    BY <1>1, <1>3, Limits
  <2>2. ~RestUnused(h)
    BY <1>2, <1>3, <2>1, Limits DEF RestUnused, Marker
  <2>3. LengthAt(h) = a
    BY <1>3, <2>2 DEF LengthAt
  <2>4. LEN_SIZE <= Size(h, t) /\ z <= Size(h + LEN_SIZE, t)
    <3>0. PICK g \in 0 .. Max : g = h + LEN_SIZE
      BY <2>1, Limits
    <3>1. CASE h <= t
      <4>1. g <= t /\ t - g < Max /\ t - h < Max
        BY <1>1, <1>3, <3>0, <3>1, Limits
      <4>2. Size(h, t) = t - h /\ Size(g, t) = t - g
        BY <3>1, <4>1, SizeIs
      <4>3. QED BY <1>1, <1>3, <3>0, <3>1, <4>1, <4>2, Limits
    <3>2. CASE t < h /\ h - t = Max
      \* the head is at the end of the ring, which leaves no room for this message
      BY <1>1, <1>3, <3>2, Limits
    <3>3. CASE t < h /\ h - t # Max
      <4>1. Size(h, t) = (t - h) + Max
        BY <1>1, <3>3, SizeIs, Limits
      <4>2. CASE g - t = Max
        <5>1. Size(g, t) = 0
          BY <4>2, SizeIs
        <5>2. z = 0
          BY <1>1, <1>3, <3>0, <4>2, Limits
        <5>3. QED BY <1>1, <1>3, <3>0, <3>3, <4>1, <5>1, <5>2, Limits
      <4>3. CASE g - t # Max
        <5>1. t < g /\ g - t < Max
          BY <3>0, <3>3, <4>3, Limits
        <5>2. Size(g, t) = (t - g) + Max
          BY <5>1, SizeIs
        <5>3. QED BY <1>1, <1>3, <3>0, <3>3, <4>1, <5>2, Limits
      <4>4. QED BY <4>2, <4>3
    <3>4. QED BY <3>1, <3>2, <3>3
  <2>5. HasMessage(h, t)
    BY <1>2, <1>3, <2>2, <2>3, <2>4 DEF HasMessage, HasLength
  <2>6. QED BY <1>2, <2>3, <2>5 DEF a, z
<1>4. CASE a # h
  <2>1. a = 0 /\ 0 < h /\ Bytes(content, h, LEN_SIZE, Marker, 0) /\ e <= t /\ t < h
    BY <1>1, <1>4 DEF Jumped
  <2>2. IsLength(h) /\ content[h][1] = Marker
    BY <2>1, LengthFound, Limits
  <2>3. RestUnused(h) /\ LengthAt(h) = a
    BY <2>1, <2>2 DEF RestUnused, LengthAt
  <2>4. LEN_SIZE <= t /\ Size(0, t) = t /\ Size(LEN_SIZE, t) = t - LEN_SIZE
    BY <1>1, <2>1, SizeIs, Limits
  <2>5. h + LEN_SIZE <= Max => LEN_SIZE <= Size(h, t)
    <3>1. ASSUME h + LEN_SIZE <= Max PROVE Size(h, t) = (t - h) + Max
      BY <2>1, <2>4, <3>1, SizeIs, Limits
    <3>2. QED BY <2>1, <2>4, <3>1, Limits
  <2>6. 0 + LEN_SIZE = LEN_SIZE /\ z <= Size(LEN_SIZE, t) /\ LEN_SIZE <= Size(0, t)
    BY <1>1, <2>1, <2>4, Limits
  <2>7. HasMessage(h, t)
    BY <1>2, <2>1, <2>3, <2>4, <2>5, <2>6 DEF HasMessage, HasLength
  <2>8. QED BY <1>2, <2>3, <2>7 DEF a, z
<1>5. QED BY <1>3, <1>4

---------------------------------------------------------------------------
(* The inductive invariant *)

\* The messages accepted lie in the ring and, behind them, the one that write is at.
LayoutInv ==
  /\ Layout(accepted, tail, head, Len(ran), content)
  /\ wpc = "publish" =>
       /\ wmsg \in Messages /\ Len(accepted) < MaxWrites
       /\ Layout(Append(accepted, wmsg), End(wmsg), head, Len(ran), content)

\* The messages were run in the order of their ids.
RanInOrder == Len(accepted) <= MaxWrites /\ \A i \in 1 .. Len(ran) : ran[i] = i

\* The reader's own head is the one it has published.
HeadKnown == rpc # "idle" => rhead = head

\* _count never falls below what the reader may still take from it: a store of the writer
\* raises it, a store of the reader takes away the one it has run.
CountLasts ==
  /\ wpc = "store" => count <= wcount
  /\ rpc = "store" => rcount <= count /\ rtodo <= rcount
  /\ rpc # "idle" => rtodo <= count
  /\ rpc \notin {"idle", "loop"} => 0 < rtodo

RingInv == TypeOK /\ LayoutInv /\ RanInOrder /\ HeadKnown /\ CallsNext /\ CountLasts

LEMMA RingInit == Init => RingInv
<1> SUFFICES ASSUME Init PROVE RingInv
  OBVIOUS
<1>1. TypeOK
  <2>1. Fresh \in (0 .. MaxWrites) \X (Sizes \cup {0}) \X (0 .. Max + LEN_SIZE)
    BY Limits, RingAssumption DEF Fresh
  <2>2. content \in [Places -> (0 .. MaxWrites) \X (Sizes \cup {0}) \X (0 .. Max + LEN_SIZE)]
    BY <2>1 DEF Init
  <2>3. 0 \in 0 .. Max /\ 0 \in 0 .. MaxDeaths /\ 0 \in Nat /\ 1 \in 0 .. 4
    BY Limits, RingAssumption
  <2>4. accepted \in Seq(Messages) /\ ran \in Seq(0 .. MaxWrites)
    BY DEF Init
  <2>5. wmsg \in Messages \cup {NoMsg} /\ rmsg \in Messages \cup {NoMsg}
    BY DEF Init
  <2>6. /\ head \in 0 .. Max /\ tail \in 0 .. Max /\ count \in Nat /\ wcount \in Nat /\ rhead \in 0 .. Max
        /\ rtodo \in Nat /\ rcount \in Nat /\ result \in 0 .. 4 /\ deaths \in 0 .. MaxDeaths
    BY <2>3 DEF Init
  <2>7. /\ wpc \in {"idle", "publish", "load", "store"} /\ clashed \in BOOLEAN
        /\ rpc \in {"idle", "loop", "call", "advance", "load", "store"}
    BY DEF Init
  <2>8. QED BY <2>2, <2>4, <2>5, <2>6, <2>7 DEF TypeOK
<1>2. LayoutInv
  BY Limits DEF Init, LayoutInv, Layout, EndOf
<1>3. RanInOrder /\ HeadKnown /\ CallsNext /\ CountLasts
  BY RingAssumption DEF Init, RanInOrder, HeadKnown, CallsNext, CountLasts
<1>4. QED BY <1>1, <1>2, <1>3 DEF RingInv

\* What the steps below need of the types.
LEMMA RingShapes ==
  ASSUME TypeOK
  PROVE  /\ head \in 0 .. Max /\ tail \in 0 .. Max /\ count \in Nat
         /\ wcount \in Nat /\ rtodo \in Nat /\ rcount \in Nat /\ rhead \in 0 .. Max
         /\ accepted \in Seq(Messages) /\ Len(accepted) \in Nat
         /\ ran \in Seq(0 .. MaxWrites) /\ Len(ran) \in Nat
         /\ deaths \in 0 .. MaxDeaths
  BY DEF TypeOK

\* Nothing of the layout is touched.
LEMMA LayoutStays ==
  ASSUME LayoutInv, UNCHANGED <<accepted, tail, head, ran, content>>,
         wpc' = "publish" => wpc = "publish" /\ wmsg' = wmsg
  PROVE  LayoutInv'
<1>1. Layout(accepted, tail, head, Len(ran), content)'
  BY DEF LayoutInv
<1>2. ASSUME wpc' = "publish"
      PROVE  (/\ wmsg \in Messages /\ Len(accepted) < MaxWrites
              /\ Layout(Append(accepted, wmsg), End(wmsg), head, Len(ran), content))'
  BY <1>2 DEF LayoutInv
<1>3. QED BY <1>1, <1>2 DEF LayoutInv


---------------------------------------------------------------------------
(* The steps of the writer *)

\* A byte has an id, a size and a place.
ByteSet == (0 .. MaxWrites) \X (Sizes \cup {0}) \X (0 .. Max + LEN_SIZE)

\* What write puts into the ring are bytes.
LEMMA PutBytes ==
  ASSUME NEW c \in [Places -> ByteSet], NEW n \in 0 .. MaxWrites, NEW size \in Sizes \cup {0},
         NEW p \in Nat, NEW len \in Nat, len <= Max + LEN_SIZE
  PROVE  Put(c, n, size, p, len) \in [Places -> ByteSet]
<1>1. ASSUME NEW q \in Places
      PROVE  (IF q \in p .. p + len - 1 THEN <<n, size, q - p>> ELSE c[q]) \in ByteSet
  <2>1. CASE q \in p .. p + len - 1
    <3>1. q - p \in 0 .. Max + LEN_SIZE
      BY <2>1, Limits
    <3>2. QED BY <2>1, <3>1 DEF ByteSet
  <2>2. CASE q \notin p .. p + len - 1
    BY <2>2
  <2>3. QED BY <2>1, <2>2
<1>2. QED BY <1>1 DEF Put

\* What write has put into the ring, for all the bytes of its message or for its length only.
LEMMA CopiedBytes ==
  ASSUME TypeOK, LayoutInv, Len(accepted) < MaxWrites, NEW size \in Sizes,
         NEW total \in Nat, total = LEN_SIZE + size, NEW len \in Nat, LEN_SIZE <= len, len <= total,
         MayStart(head, tail, total), Room(head, Start(tail, total), len)
  PROVE  /\ Start(tail, total) \in Places
         /\ Copied(size, len) \in [Places -> ByteSet]
         /\ \A q \in Places : Occupied(head, tail, q) => Copied(size, len)[q] = content[q]
         /\ Bytes(Copied(size, len), Start(tail, total), len, Len(accepted) + 1, size)
         /\ Wraps(tail, total) => Bytes(Copied(size, len), tail, LEN_SIZE, Marker, 0)
<1>0. PICK h \in 0 .. Max, t \in 0 .. Max, a \in Nat, n \in Nat :
        h = head /\ t = tail /\ a = Start(tail, total) /\ n = Len(accepted) + 1
  BY RingShapes, Limits DEF Start
<1>1. /\ h = 0 => t < Max
      /\ LEN_SIZE <= total /\ size \in Nat /\ n \in 0 .. MaxWrites
      /\ MayStart(h, t, total) /\ Room(h, Start(t, total), len)
  BY <1>0, Limits, RingShapes, RingAssumption DEF LayoutInv, Layout
<1>2. /\ Copied(size, len) = Put(Marked(content, t, total), n, size, a, len)
      /\ Copied(size, len) = Written(content, t, total, n, size, len)
  BY <1>0 DEF Copied, Written
<1>3. a \in 0 .. Max /\ a + len <= Max
  <2>1. a = Start(t, total)
    BY <1>0
  <2>2. QED BY <1>1, <2>1, RoomIsFree, Limits DEF Start
<1>4. /\ \A q \in Places : Occupied(h, t, q) => Copied(size, len)[q] = content[q]
      /\ Bytes(Copied(size, len), a, len, n, size)
      /\ Wraps(t, total) => Bytes(Copied(size, len), t, LEN_SIZE, Marker, 0)
  <2>1. PICK z \in Nat, u \in Nat : z = size /\ u = total
    BY <1>1
  <2>2. PICK c : c = content
    OBVIOUS
  <2>3. /\ h = 0 => t < Max
        /\ LEN_SIZE <= u /\ len <= u /\ MayStart(h, t, u) /\ Room(h, Start(t, u), len)
    BY <1>1, <2>1
  <2>4. \A q \in Places : Occupied(h, t, q) => Written(c, t, u, n, z, len)[q] = c[q]
    BY <2>3, Writes
  <2>5. Bytes(Written(c, t, u, n, z, len), Start(t, u), len, n, z)
    BY <2>3, Writes
  <2>6. Wraps(t, u) => Bytes(Written(c, t, u, n, z, len), t, LEN_SIZE, Marker, 0)
    BY <2>3, Writes
  <2>7. Written(c, t, u, n, z, len) = Copied(size, len) /\ Start(t, u) = a
    BY <1>0, <1>2, <2>1, <2>2
  <2>8. QED BY <2>1, <2>2, <2>4, <2>5, <2>6, <2>7
<1>5. Copied(size, len) \in [Places -> ByteSet]
  <2>1. content \in [Places -> ByteSet]
    BY DEF TypeOK, ByteSet
  <2>2. Marked(content, t, total) \in [Places -> ByteSet]
    <3>1. 0 \in 0 .. MaxWrites /\ 0 \in Sizes \cup {0} /\ LEN_SIZE <= Max + LEN_SIZE
      BY Limits, RingAssumption
    <3>2. Put(content, Marker, 0, t, LEN_SIZE) \in [Places -> ByteSet]
      BY <2>1, <3>1, Limits, PutBytes DEF Marker
    <3>3. QED BY <2>1, <3>2 DEF Marked
  <2>3. len <= Max + LEN_SIZE
    BY <1>3, Limits
  <2>4. QED BY <1>1, <1>2, <2>2, <2>3, PutBytes
<1>6. a \in Places
  BY <1>3, Limits
<1>7. QED BY <1>0, <1>4, <1>5, <1>6

LEMMA CopyKeeps ==
  ASSUME RingInv, NEW size \in Sizes, WriteCopy(size)
  PROVE  RingInv'
<1> DEFINE m == [at |-> Start(tail, LEN_SIZE + size), size |-> size]
<1>0. PICK total \in Nat : total = LEN_SIZE + size
  BY Limits
<1>1. /\ TypeOK /\ LayoutInv /\ Len(accepted) < MaxWrites /\ LEN_SIZE <= total
      /\ Accepts(head, tail, total) /\ content' = Copied(size, total) /\ wmsg' = m
  BY <1>0, Limits DEF RingInv, WriteCopy
<1>2. /\ Start(tail, total) \in Places
      /\ content' \in [Places -> ByteSet]
      /\ \A q \in Places : Occupied(head, tail, q) => content'[q] = content[q]
      /\ Bytes(content', Start(tail, total), total, Len(accepted) + 1, size)
      /\ Wraps(tail, total) => Bytes(content', tail, LEN_SIZE, Marker, 0)
  BY <1>0, <1>1, CopiedBytes DEF Accepts
<1>3. m \in Messages /\ m.at = Start(tail, total) /\ m.size = size
  BY <1>0, <1>2 DEF Messages
<1> HIDE DEF m
<1>4. TypeOK'
  BY <1>1, <1>2, <1>3 DEF TypeOK, ByteSet, WriteCopy, reader, history
<1>5. LayoutInv'
  <2>1. /\ Layout(accepted, tail, head, Len(ran), content')
        /\ Layout(Append(accepted, m), End(m), head, Len(ran), content')
    <3>1. Layout(accepted, tail, head, Len(ran), content)
      BY <1>1 DEF LayoutInv
    <3>2. accepted \in Seq(Messages) /\ tail \in 0 .. Max /\ head \in 0 .. Max
      BY <1>1 DEF TypeOK
    <3>c. PICK d : d = content'
      OBVIOUS
    <3>3. PICK t \in 0 .. Max, h \in 0 .. Max : t = tail /\ h = head
      BY <3>2
    <3>4. /\ m \in Messages /\ total = LEN_SIZE + m.size /\ m.at = Start(t, total)
          /\ Accepts(h, t, total) /\ Layout(accepted, t, h, Len(ran), content)
          /\ \A q \in Places : Occupied(h, t, q) => d[q] = content[q]
          /\ Bytes(d, m.at, total, Len(accepted) + 1, m.size)
          /\ Wraps(t, total) => Bytes(d, t, LEN_SIZE, Marker, 0)
      BY <1>0, <1>1, <1>2, <1>3, <3>1, <3>3, <3>c
    <3>5. Layout(accepted, t, h, Len(ran), d) /\ Layout(Append(accepted, m), End(m), h, Len(ran), d)
      BY <3>2, <3>4, TailMoves
    <3>6. QED BY <3>3, <3>5, <3>c
  <2>2. UNCHANGED <<accepted, tail, head, ran>> /\ wmsg' = m
    BY <1>1 DEF WriteCopy, history
  <2>3. Layout(accepted, tail, head, Len(ran), content)'
    BY <2>1, <2>2
  <2>4. Layout(Append(accepted, wmsg), End(wmsg), head, Len(ran), content)'
    BY <2>1, <2>2
  <2>5. QED BY <1>1, <1>3, <2>2, <2>3, <2>4 DEF LayoutInv
<1>6. (RanInOrder /\ HeadKnown /\ CallsNext /\ CountLasts)'
  BY DEF RingInv, WriteCopy, reader, history, RanInOrder, HeadKnown, CallsNext, CountLasts
<1>7. QED BY <1>4, <1>5, <1>6 DEF RingInv

LEMMA FailKeeps ==
  ASSUME RingInv, NEW size \in Sizes, WriteFail(size)
  PROVE  RingInv'
<1>0. PICK total \in Nat : total = LEN_SIZE + size
  BY Limits
<1>1. /\ TypeOK /\ LayoutInv /\ Len(accepted) < MaxWrites /\ LEN_SIZE <= total
      /\ MayStart(head, tail, total) /\ Room(head, Start(tail, total), LEN_SIZE)
      /\ content' = Copied(size, LEN_SIZE)
  BY <1>0, Limits DEF RingInv, WriteFail
<1>2. /\ content' \in [Places -> ByteSet]
      /\ \A q \in Places : Occupied(head, tail, q) => content'[q] = content[q]
  BY <1>0, <1>1, CopiedBytes, Limits
<1>3. TypeOK'
  BY <1>1, <1>2 DEF TypeOK, ByteSet, WriteFail, writer, reader, history
<1>4. LayoutInv'
  <2>1. Layout(accepted, tail, head, Len(ran), content')
    <3>1. Layout(accepted, tail, head, Len(ran), content) /\ accepted \in Seq(Messages)
      BY <1>1 DEF LayoutInv, TypeOK
    <3>2. QED BY <1>2, <3>1, OccupiedCounts
  <2>2. UNCHANGED <<accepted, tail, head, ran, wpc>> /\ wpc = "idle"
    BY DEF WriteFail, history, writer
  <2>3. QED BY <2>1, <2>2 DEF LayoutInv
<1>5. (RanInOrder /\ HeadKnown /\ CallsNext /\ CountLasts)'
  BY DEF RingInv, WriteFail, writer, reader, history, RanInOrder, HeadKnown, CallsNext, CountLasts
<1>6. QED BY <1>3, <1>4, <1>5 DEF RingInv

LEMMA PublishKeeps == RingInv /\ WritePublish => RingInv'
<1> SUFFICES ASSUME RingInv, WritePublish PROVE RingInv'
  OBVIOUS
<1>1. /\ TypeOK /\ LayoutInv /\ accepted \in Seq(Messages) /\ ran \in Seq(0 .. MaxWrites) /\ MaxWrites \in Nat
      /\ wpc = "publish" /\ wmsg \in Messages /\ Len(accepted) < MaxWrites
      /\ accepted' = Append(accepted, wmsg) /\ tail' = End(wmsg)
      /\ wpc' = "load" /\ wmsg' = NoMsg /\ UNCHANGED <<head, count, content, wcount, reader, ran>>
      /\ Layout(Append(accepted, wmsg), End(wmsg), head, Len(ran), content)
  BY RingAssumption DEF RingInv, TypeOK, LayoutInv, WritePublish
<1>2. /\ accepted' \in Seq(Messages) /\ Len(accepted') = Len(accepted) + 1 /\ Len(accepted) \in Nat
      /\ \A i \in 1 .. Len(accepted) : accepted'[i] = accepted[i]
  BY <1>1
<1>3. Layout(accepted, tail, head, Len(ran), content)'
  BY <1>1
<1>4. TypeOK'
  <2>1. tail' \in 0 .. Max
    BY <1>3 DEF Layout
  <2>2. QED BY <1>1, <1>2, <2>1 DEF WritePublish, TypeOK, reader
<1>5. LayoutInv'
  BY <1>1, <1>3 DEF LayoutInv
<1>6. (RanInOrder /\ HeadKnown /\ CountLasts)'
  BY <1>1, <1>2 DEF RingInv, reader, RanInOrder, HeadKnown, CountLasts
<1>7. CallsNext'
  <2>1. CallsNext /\ Len(ran) \in Nat
    BY <1>1 DEF RingInv
  <2>2. UNCHANGED <<result, rpc, rmsg, ran>>
    BY <1>1 DEF reader
  <2>3. ASSUME rpc \in {"call", "advance"} PROVE Len(ran) < Len(accepted') /\ rmsg = accepted'[Len(ran) + 1]
    <3>1. Len(ran) < Len(accepted) /\ rmsg = accepted[Len(ran) + 1] /\ Len(ran) + 1 \in 1 .. Len(accepted)
      BY <1>2, <2>1, <2>3 DEF CallsNext
    <3>2. QED BY <1>2, <2>1, <3>1
  <2>4. QED BY <2>1, <2>2, <2>3 DEF CallsNext
<1>8. QED BY <1>4, <1>5, <1>6, <1>7 DEF RingInv

LEMMA WriterCounts == RingInv /\ (WriteLoad \/ WriteStore \/ WriterDies) => RingInv'
<1> SUFFICES ASSUME RingInv, WriteLoad \/ WriteStore \/ WriterDies PROVE RingInv'
  OBVIOUS
<1>1. TypeOK /\ LayoutInv /\ RanInOrder /\ HeadKnown /\ CallsNext /\ CountLasts
  BY DEF RingInv
<1>2. TypeOK'
  <2>1. CASE WriteLoad
    BY <1>1, <2>1 DEF WriteLoad, TypeOK, shared, reader, history
  <2>2. CASE WriteStore
    BY <1>1, <2>2 DEF WriteStore, TypeOK, reader
  <2>3. CASE WriterDies
    <3>1. deaths' \in 0 .. MaxDeaths
      BY <1>1, <2>3, RingAssumption DEF WriterDies, TypeOK
    <3>2. QED BY <1>1, <2>3, <3>1 DEF WriterDies, TypeOK, shared, reader
  <2>4. QED BY <2>1, <2>2, <2>3
<1>3. LayoutInv'
  <2>1. UNCHANGED <<accepted, tail, head, ran, content>> /\ wpc' # "publish"
    BY DEF WriteLoad, WriteStore, WriterDies, shared, history
  <2>2. QED BY <1>1, <2>1, LayoutStays
<1>4. (RanInOrder /\ HeadKnown /\ CallsNext)'
  <2>1. UNCHANGED <<accepted, ran, head, reader>>
    BY DEF WriteLoad, WriteStore, WriterDies, shared, history
  <2>2. QED BY <1>1, <2>1 DEF reader, RanInOrder, HeadKnown, CallsNext
<1>5. CountLasts'
  <2>1. count \in Nat /\ wcount \in Nat /\ rcount \in Nat /\ rtodo \in Nat
    BY <1>1, RingShapes
  <2>2. CASE WriteLoad
    BY <1>1, <2>1, <2>2 DEF WriteLoad, CountLasts, shared, reader
  <2>3. CASE WriteStore
    BY <1>1, <2>1, <2>3 DEF WriteStore, CountLasts, reader
  <2>4. CASE WriterDies
    BY <1>1, <2>1, <2>4 DEF WriterDies, CountLasts, shared, reader
  <2>5. QED BY <2>2, <2>3, <2>4
<1>6. QED BY <1>2, <1>3, <1>4, <1>5 DEF RingInv

---------------------------------------------------------------------------
(* The steps of the reader *)

\* for_each leaves, with another code than 0.
LEMMA ReturnKeeps ==
  ASSUME RingInv, NEW code \in 1 .. 4, Return(code), UNCHANGED <<shared, writer, accepted, ran, clashed>>,
         deaths' \in 0 .. MaxDeaths
  PROVE  RingInv'
<1>1. TypeOK /\ LayoutInv /\ RanInOrder /\ CountLasts /\ CallsNext
  BY DEF RingInv
<1>2. TypeOK'
  BY <1>1, Limits DEF Return, TypeOK, shared, writer
<1>3. LayoutInv'
  <2>1. UNCHANGED <<accepted, tail, head, ran, content, wpc, wmsg>>
    BY DEF shared, writer
  <2>2. QED BY <1>1, <2>1, LayoutStays
<1>4. (RanInOrder /\ HeadKnown /\ CallsNext /\ CountLasts)'
  BY <1>1 DEF Return, shared, writer, RanInOrder, HeadKnown, CallsNext, CountLasts
<1>5. QED BY <1>2, <1>3, <1>4 DEF RingInv

LEMMA BeginKeeps == RingInv /\ ReadBegin => RingInv'
<1> SUFFICES ASSUME RingInv, ReadBegin PROVE RingInv'
  OBVIOUS
<1>1. TypeOK /\ LayoutInv /\ RanInOrder /\ HeadKnown /\ CallsNext /\ CountLasts
  BY DEF RingInv
<1>2. CASE count = 0
  <2>1. Return(2) /\ UNCHANGED <<shared, writer, accepted, ran, clashed>> /\ deaths' \in 0 .. MaxDeaths
    BY <1>1, <1>2, RingShapes DEF ReadBegin, history
  <2>2. QED BY <2>1, ReturnKeeps
<1>3. CASE count # 0
  <2>1. /\ rpc' = "loop" /\ rhead' = head /\ rtodo' = IF count < Times THEN count ELSE Times
        /\ UNCHANGED <<rmsg, rcount, result, shared, writer, history>>
    BY <1>3 DEF ReadBegin
  <2>2. rtodo' \in Nat /\ rtodo' <= count
    BY <1>1, <2>1, RingShapes, RingAssumption
  <2>3. TypeOK'
    BY <1>1, <2>1, <2>2 DEF TypeOK, shared, writer, history
  <2>4. LayoutInv'
    BY <1>1, <2>1, LayoutStays DEF shared, writer, history
  <2>5. (RanInOrder /\ HeadKnown /\ CallsNext /\ CountLasts)'
    BY <1>1, <2>1, <2>2 DEF shared, writer, history, RanInOrder, HeadKnown, CallsNext, CountLasts
  <2>6. QED BY <2>3, <2>4, <2>5 DEF RingInv
<1>4. QED BY <1>2, <1>3

\* A for_each that is not at its end and finds the ring not empty is at the next message.
LEMMA LoopFinds ==
  ASSUME RingInv, rpc = "loop"
  PROVE  /\ rhead = head /\ (Drained(rhead, tail) <=> Len(ran) = Len(accepted))
         /\ ~Drained(rhead, tail) =>
              /\ HasMessage(rhead, tail) /\ Len(ran) < Len(accepted)
              /\ LengthAt(rhead) = accepted[Len(ran) + 1].at
              /\ content[LengthAt(rhead)][2] = accepted[Len(ran) + 1].size
<1>1. TypeOK /\ Layout(accepted, tail, head, Len(ran), content) /\ rhead = head
  BY DEF RingInv, LayoutInv, HeadKnown
<1>2. PICK h \in 0 .. Max, t \in 0 .. Max, r \in Nat : h = head /\ t = tail /\ r = Len(ran)
  BY <1>1, RingShapes
<1>3. accepted \in Seq(Messages) /\ Len(accepted) \in Nat
  BY <1>1, RingShapes
<1>4. Layout(accepted, t, h, r, content) /\ r <= Len(accepted)
  BY <1>1, <1>2 DEF Layout
<1>5. /\ r < Len(accepted) => h # t
      /\ r = Len(accepted) => h = t
  BY <1>3, <1>4, EmptyOnly
<1>6. r < Len(accepted) => /\ HasMessage(h, t) /\ LengthAt(h) = accepted[r + 1].at
                           /\ content[accepted[r + 1].at][2] = accepted[r + 1].size
  BY <1>3, <1>4, NextFound
<1>7. QED BY <1>1, <1>2, <1>3, <1>4, <1>5, <1>6 DEF Drained

LEMMA NextKeeps == RingInv /\ ReadNext => RingInv'
<1> SUFFICES ASSUME RingInv, ReadNext PROVE RingInv'
  OBVIOUS
<1>1. /\ TypeOK /\ LayoutInv /\ RanInOrder /\ HeadKnown /\ CallsNext /\ CountLasts
      /\ rpc = "loop" /\ rtodo \in Nat /\ UNCHANGED <<shared, writer, history>>
  BY RingShapes DEF RingInv, ReadNext
<1>2. deaths' \in 0 .. MaxDeaths /\ UNCHANGED <<shared, writer, accepted, ran, clashed>>
  BY <1>1, RingShapes DEF history
<1>3. CASE rtodo = 0
  <2>1. Return(1)
    BY <1>3 DEF ReadNext
  <2>2. QED BY <1>2, <2>1, ReturnKeeps
<1>4. CASE rtodo > 0 /\ Drained(rhead, tail)
  <2>1. Return(3)
    BY <1>4 DEF ReadNext
  <2>2. QED BY <1>2, <2>1, ReturnKeeps
<1>5. CASE rtodo > 0 /\ ~Drained(rhead, tail)
  <2>1. /\ HasMessage(rhead, tail) /\ Len(ran) < Len(accepted)
        /\ LengthAt(rhead) = accepted[Len(ran) + 1].at
        /\ content[LengthAt(rhead)][2] = accepted[Len(ran) + 1].size
    BY <1>1, <1>5, LoopFinds
  <2>2. /\ rmsg' = [at |-> LengthAt(rhead), size |-> content[LengthAt(rhead)][2]]
        /\ rpc' = "call" /\ UNCHANGED <<rhead, rtodo, rcount, result>>
    BY <1>5, <2>1 DEF ReadNext
  <2>3. accepted[Len(ran) + 1] \in Messages
    BY <1>1, <2>1, RingShapes
  <2>4. rmsg' = accepted[Len(ran) + 1]
    BY <2>1, <2>2, <2>3 DEF Messages
  <2>5. TypeOK'
    BY <1>1, <2>2, <2>3, <2>4 DEF TypeOK, shared, writer, history
  <2>6. LayoutInv'
    BY <1>1, LayoutStays DEF shared, writer, history
  <2>7. (RanInOrder /\ HeadKnown /\ CountLasts)'
    BY <1>1, <1>5, <2>2 DEF shared, writer, history, RanInOrder, HeadKnown, CountLasts
  <2>8. CallsNext'
    BY <1>1, <2>1, <2>2, <2>4 DEF history, CallsNext
  <2>9. QED BY <2>5, <2>6, <2>7, <2>8 DEF RingInv
<1>6. QED BY <1>1, <1>3, <1>4, <1>5

LEMMA CallKeeps == RingInv /\ (ReadCall \/ ReadRefuse \/ ReaderDies) => RingInv'
<1>1. ASSUME RingInv, ReadCall PROVE RingInv'
  <2>1. /\ TypeOK /\ LayoutInv /\ RanInOrder /\ HeadKnown /\ CallsNext /\ CountLasts
        /\ rpc = "call" /\ rpc' = "advance"
        /\ UNCHANGED <<shared, writer, rhead, rmsg, rtodo, rcount, result, history>>
    BY <1>1 DEF RingInv, ReadCall
  <2>2. TypeOK'
    BY <2>1 DEF TypeOK, shared, writer, history
  <2>3. LayoutInv'
    BY <2>1, LayoutStays DEF shared, writer, history
  <2>4. (RanInOrder /\ HeadKnown /\ CallsNext /\ CountLasts)'
    BY <2>1 DEF shared, writer, history, RanInOrder, HeadKnown, CallsNext, CountLasts
  <2>5. QED BY <2>2, <2>3, <2>4 DEF RingInv
<1>2. ASSUME RingInv, ReadRefuse PROVE RingInv'
  <2>1. /\ Return(4) /\ UNCHANGED <<shared, writer, accepted, ran, clashed>>
        /\ deaths' \in 0 .. MaxDeaths
    BY <1>2, RingShapes DEF RingInv, ReadRefuse, history
  <2>2. QED BY <1>2, <2>1, ReturnKeeps
<1>3. ASSUME RingInv, ReaderDies PROVE RingInv'
  <2>1. result \in 1 .. 4
    <3>1. result \in 0 .. 4 /\ result # 0
      BY <1>3 DEF RingInv, TypeOK, CallsNext
    <3>2. QED BY <3>1
  <2>2. deaths' \in 0 .. MaxDeaths
    BY <1>3, RingShapes, RingAssumption DEF RingInv, ReaderDies
  <2>3. Return(result) /\ UNCHANGED <<shared, writer, accepted, ran, clashed>>
    BY <1>3 DEF ReaderDies
  <2>4. QED BY <1>3, <2>1, <2>2, <2>3, ReturnKeeps
<1>4. QED BY <1>1, <1>2, <1>3

LEMMA AdvanceKeeps == RingInv /\ ReadAdvance => RingInv'
<1> SUFFICES ASSUME RingInv, ReadAdvance PROVE RingInv'
  OBVIOUS
<1>1. /\ TypeOK /\ LayoutInv /\ RanInOrder /\ HeadKnown /\ CallsNext /\ CountLasts
      /\ rpc = "advance" /\ rpc' = "load" /\ rhead' = End(rmsg) /\ head' = End(rmsg)
      /\ ran' = Append(ran, content[rmsg.at][1]) /\ rmsg' = NoMsg
      /\ UNCHANGED <<tail, count, content, writer, rtodo, rcount, result, accepted, clashed, deaths>>
  BY DEF RingInv, ReadAdvance
<1>2. PICK h \in 0 .. Max, t \in 0 .. Max, r \in Nat, n \in Nat :
        h = head /\ t = tail /\ r = Len(ran) /\ n = Len(accepted)
  BY <1>1, RingShapes
<1>3. /\ accepted \in Seq(Messages) /\ ran \in Seq(0 .. MaxWrites)
      /\ r < n /\ rmsg = accepted[r + 1] /\ n <= MaxWrites /\ MaxWrites \in Nat
  BY <1>1, <1>2, RingShapes, RingAssumption DEF CallsNext, RanInOrder
<1>4. Layout(accepted, t, h, r, content)
  BY <1>1, <1>2 DEF LayoutInv
<1>5. content[rmsg.at][1] = r + 1
  <2>1. content[accepted[r + 1].at][1] = r + 1
    BY <1>2, <1>3, <1>4, NextFound
  <2>2. QED BY <1>3, <2>1
<1>6. EndOf(accepted, r + 1) = End(rmsg)
  BY <1>3 DEF EndOf
<1>7. Layout(accepted, t, End(rmsg), r + 1, content)
  <2>1. Layout(accepted, t, EndOf(accepted, r + 1), r + 1, content)
    BY <1>2, <1>3, <1>4, HeadMoves
  <2>2. QED BY <1>6, <2>1
<1>8. /\ ran' = Append(ran, r + 1) /\ ran' \in Seq(0 .. MaxWrites) /\ Len(ran') = r + 1
      /\ \A i \in 1 .. r + 1 : ran'[i] = i
  <2>1. ran' = Append(ran, r + 1) /\ r + 1 \in 0 .. MaxWrites
    BY <1>1, <1>2, <1>3, <1>5
  <2>2. ran' \in Seq(0 .. MaxWrites) /\ Len(ran') = r + 1
    BY <1>2, <1>3, <2>1
  <2>3. ASSUME NEW i \in 1 .. r + 1 PROVE ran'[i] = i
    BY <1>1, <1>2, <1>3, <2>1 DEF RanInOrder
  <2>4. QED BY <2>1, <2>2, <2>3
<1>9. head' \in 0 .. Max
  BY <1>1, <1>7 DEF Layout
<1>10. TypeOK'
  BY <1>1, <1>8, <1>9 DEF TypeOK, writer
<1>11. LayoutInv'
  <2>1. Layout(accepted, tail, head, Len(ran), content)'
    BY <1>1, <1>2, <1>7, <1>8
  <2>2. ASSUME wpc' = "publish"
        PROVE  (/\ wmsg \in Messages /\ Len(accepted) < MaxWrites
                /\ Layout(Append(accepted, wmsg), End(wmsg), head, Len(ran), content))'
    <3>1. /\ wpc = "publish" /\ UNCHANGED wmsg /\ wmsg \in Messages /\ Len(accepted) < MaxWrites
          /\ Layout(Append(accepted, wmsg), End(wmsg), head, Len(ran), content)
      BY <1>1, <2>2 DEF writer, LayoutInv
    <3>2. PICK s \in Seq(Messages) : s = Append(accepted, wmsg)
      <4>1. Append(accepted, wmsg) \in Seq(Messages)
        BY <1>3, <3>1
      <4>2. QED BY <4>1
    <3>3. Layout(s, End(wmsg), h, r, content) /\ r < Len(s) /\ s[r + 1] = accepted[r + 1]
      BY <1>2, <1>3, <3>1, <3>2
    <3>4. Layout(s, End(wmsg), EndOf(s, r + 1), r + 1, content)
      BY <3>3, HeadMoves
    <3>5. EndOf(s, r + 1) = End(rmsg)
      BY <1>3, <3>3 DEF EndOf
    <3>6. Layout(Append(accepted, wmsg), End(wmsg), End(rmsg), r + 1, content)
      BY <3>2, <3>4, <3>5
    <3>7. QED BY <1>1, <1>8, <3>1, <3>6
  <2>3. QED BY <2>1, <2>2 DEF LayoutInv
<1>12. (RanInOrder /\ HeadKnown /\ CallsNext /\ CountLasts)'
  BY <1>1, <1>2, <1>8 DEF RanInOrder, HeadKnown, CallsNext, CountLasts, writer
<1>13. QED BY <1>10, <1>11, <1>12 DEF RingInv

LEMMA ReaderCounts == RingInv /\ (ReadLoad \/ ReadStore) => RingInv'
<1> SUFFICES ASSUME RingInv, ReadLoad \/ ReadStore PROVE RingInv'
  OBVIOUS
<1>1. TypeOK /\ LayoutInv /\ RanInOrder /\ HeadKnown /\ CallsNext /\ CountLasts
  BY DEF RingInv
<1>2. count \in Nat /\ wcount \in Nat /\ rcount \in Nat /\ rtodo \in Nat
  BY <1>1, RingShapes
<1>3. CASE ReadLoad
  <2>1. TypeOK'
    BY <1>1, <1>3 DEF ReadLoad, TypeOK, shared, writer, history
  <2>2. LayoutInv'
    BY <1>1, <1>3, LayoutStays DEF ReadLoad, shared, writer, history
  <2>3. (RanInOrder /\ HeadKnown /\ CallsNext)'
    BY <1>1, <1>3 DEF ReadLoad, shared, history, RanInOrder, HeadKnown, CallsNext
  <2>4. CountLasts'
    BY <1>1, <1>2, <1>3 DEF ReadLoad, shared, writer, CountLasts
  <2>5. QED BY <2>1, <2>2, <2>3, <2>4 DEF RingInv
<1>4. CASE ReadStore
  <2>1. /\ rpc = "store" /\ rpc' = "loop" /\ count' = rcount - 1 /\ rtodo' = rtodo - 1
        /\ 0 < rtodo /\ rtodo <= rcount /\ rcount <= count
    BY <1>1, <1>4 DEF ReadStore, CountLasts
  <2>2. count' \in Nat /\ rtodo' \in Nat /\ rtodo' <= count' /\ count' <= count
    BY <1>2, <2>1
  <2>3. TypeOK'
    BY <1>1, <1>4, <2>2 DEF ReadStore, TypeOK, writer
  <2>4. LayoutInv'
    BY <1>1, <1>4, LayoutStays DEF ReadStore, writer
  <2>5. (RanInOrder /\ HeadKnown /\ CallsNext)'
    BY <1>1, <1>4 DEF ReadStore, RanInOrder, HeadKnown, CallsNext
  <2>6. CountLasts'
    BY <1>1, <1>2, <1>4, <2>2 DEF ReadStore, writer, CountLasts
  <2>7. QED BY <2>3, <2>4, <2>5, <2>6 DEF RingInv
<1>5. QED BY <1>3, <1>4

LEMMA RingNext == RingInv /\ [Next]_vars => RingInv'
<1> SUFFICES ASSUME RingInv, [Next]_vars PROVE RingInv'
  OBVIOUS
<1>1. ASSUME NEW size \in Sizes, WriteCopy(size) \/ WriteFail(size) PROVE RingInv'
  BY <1>1, CopyKeeps, FailKeeps
<1>2. CASE Write
  BY <1>2, PublishKeeps, WriterCounts DEF Write
<1>3. CASE Read
  BY <1>3, BeginKeeps, NextKeeps, CallKeeps, AdvanceKeeps, ReaderCounts DEF Read
<1>4. CASE ReadRefuse \/ ReaderDies
  BY <1>4, CallKeeps
<1>5. CASE WriterDies
  BY <1>5, WriterCounts
<1>6. CASE UNCHANGED vars
  <2>1. UNCHANGED <<head, tail, count, content, wpc, wmsg, wcount>>
    BY <1>6 DEF vars, shared, writer
  <2>2. UNCHANGED <<rpc, rhead, rmsg, rtodo, rcount, result, accepted, ran, clashed, deaths>>
    BY <1>6 DEF vars, reader, history
  <2>3. TypeOK'
    BY <2>1, <2>2 DEF RingInv, TypeOK
  <2>4. LayoutInv'
    BY <2>1, <2>2, LayoutStays DEF RingInv
  <2>5. (RanInOrder /\ HeadKnown /\ CallsNext /\ CountLasts)'
    BY <2>1, <2>2 DEF RingInv, RanInOrder, HeadKnown, CallsNext, CountLasts
  <2>6. QED BY <2>3, <2>4, <2>5 DEF RingInv
<1>7. QED BY <1>1, <1>2, <1>3, <1>4, <1>5, <1>6 DEF Next

---------------------------------------------------------------------------
(* The theorems *)

\* The variables keep their types: neither side ever leaves the ring, _count never falls
\* below 0.
THEOREM TypeCorrect == Spec => []TypeOK
<1>1. RingInv => TypeOK
  BY DEF RingInv
<1>2. QED BY RingInit, RingNext, <1>1, PTL DEF Spec

\* Every message that was accepted and not put behind the head lies in the ring with all its
\* bytes, whatever the writer does.
THEOREM UnreadStays == Spec => []UnreadIntact
<1>1. RingInv => UnreadIntact
  <2>1. ASSUME RingInv, NEW i \in Len(ran) + 1 .. Len(accepted) PROVE Intact(i)
    <3>1. Held(accepted, content, i)
      BY <2>1 DEF RingInv, LayoutInv, Layout
    <3>2. accepted[i].size \in Nat
      <4>1. accepted \in Seq(Messages) /\ Len(ran) \in Nat
        BY <2>1, RingShapes DEF RingInv
      <4>2. i \in 1 .. Len(accepted)
        BY <4>1
      <4>3. QED BY <4>1, <4>2, Extents
    <3>3. PICK len \in Nat : len = LEN_SIZE + accepted[i].size
      BY <3>2, Limits
    <3>4. \A b \in 0 .. len - 1 : content[accepted[i].at + b] = <<i, accepted[i].size, b>>
      BY <3>1, <3>3 DEF Held, Bytes
    <3>5. LEN_SIZE + accepted[i].size - 1 = len - 1
      BY <3>2, <3>3, Limits
    <3>6. QED BY <3>4, <3>5 DEF Intact
  <2>2. QED BY <2>1 DEF UnreadIntact
<1>2. QED BY RingInit, RingNext, <1>1, PTL DEF Spec

\* func is called with the oldest message it has not accepted, and for_each never finds the
\* ring damaged.
THEOREM NextIsCalled == Spec => []CallsNext
<1>1. RingInv => CallsNext
  BY DEF RingInv
<1>2. QED BY RingInit, RingNext, <1>1, PTL DEF Spec

\* The ring looks empty exactly when every message was run.
THEOREM EmptyLooksEmpty == Spec => []EmptyIsEmpty
<1>1. RingInv => EmptyIsEmpty
  <2> SUFFICES ASSUME RingInv PROVE EmptyIsEmpty
    OBVIOUS
  <2>1. /\ accepted \in Seq(Messages) /\ Len(accepted) \in Nat /\ Len(ran) \in Nat
        /\ Layout(accepted, tail, head, Len(ran), content)
    BY RingShapes DEF RingInv, LayoutInv
  <2>2. Len(ran) <= Len(accepted)
    BY <2>1 DEF Layout
  <2>3. /\ Len(ran) < Len(accepted) => Size(head, tail) # 0
        /\ Len(ran) = Len(accepted) => Size(head, tail) = 0
    BY <2>1, EmptyOnly
  <2>4. QED BY <2>1, <2>2, <2>3 DEF EmptyIsEmpty
<1>2. QED BY RingInit, RingNext, <1>1, PTL DEF Spec

\* An empty ring takes every message that would fit twice and one byte more, wherever its
\* head and its tail lie.
THEOREM EmptyRingAccepts == Spec => []EmptyAccepts
<1>1. TypeOK => EmptyAccepts
  <2> SUFFICES ASSUME TypeOK, head = tail, NEW s \in Sizes, 2 * (LEN_SIZE + s) < Max
               PROVE  Accepts(head, tail, LEN_SIZE + s)
    BY DEF EmptyAccepts
  <2>1. PICK h \in 0 .. Max, total \in Nat : h = head /\ h = tail /\ total = LEN_SIZE + s
    BY RingShapes, Limits
  <2>2. 2 * total < Max
    BY <2>1
  <2>3. CASE Wraps(h, total)
    <3>1. h > total + 1 /\ 0 \in 0 .. Max
      BY <2>2, <2>3, Limits DEF Wraps
    <3>2. MayStart(h, h, total) /\ Start(h, total) = 0
      BY <2>3, <3>1 DEF MayStart, MayWrap, Start
    <3>3. Room(h, 0, total)
      <4>1. CASE h = Max
        <5>1. Size(h, 0) = 0
          BY <3>1, <4>1, SizeIs, Limits
        <5>2. QED BY <3>1, <4>1, <5>1, Limits DEF Room, Unused
      <4>2. CASE h # Max
        <5>1. Size(h, 0) = (0 - h) + Max
          BY <3>1, <4>2, SizeIs, Limits
        <5>2. QED BY <3>1, <4>2, <5>1, Limits DEF Room, Unused
      <4>3. QED BY <4>1, <4>2
    <3>4. QED BY <2>1, <3>2, <3>3 DEF Accepts
  <2>4. CASE ~Wraps(h, total)
    <3>1. Start(h, total) = h /\ MayStart(h, h, total)
      BY <2>4 DEF Start, MayStart
    <3>2. Size(h, h) = 0
      <4>1. 0 < Max
        BY Limits
      <4>2. QED BY <4>1, SizeIs
    <3>3. Room(h, h, total)
      BY <2>2, <3>2, Limits DEF Room, Unused
    <3>4. QED BY <2>1, <3>1, <3>3 DEF Accepts
  <2>5. QED BY <2>3, <2>4
<1>2. QED BY TypeCorrect, <1>1, PTL

\* As long as no two updates of _count met and no process died, _count is the number of
\* messages in the ring but for the updates under way.
THEOREM CountsExact == Spec => []CountExact
<1> DEFINE Inv == RingInv /\ CountExact
<1>1. Init => Inv
  <2>1. ASSUME Init PROVE CountExact
    BY <2>1 DEF Init, CountExact, Counted
  <2>2. QED BY <2>1, RingInit
<1>2. Inv /\ [Next]_vars => Inv'
  <2> SUFFICES ASSUME RingInv, CountExact, [Next]_vars PROVE CountExact'
    BY RingNext
  <2>1. /\ TypeOK /\ count \in Nat /\ wcount \in Nat /\ rcount \in Nat
        /\ Len(accepted) \in Nat /\ Len(ran) \in Nat /\ deaths \in Nat
        /\ accepted \in Seq(Messages) /\ ran \in Seq(0 .. MaxWrites)
    BY RingShapes, RingAssumption DEF RingInv
  <2> USE DEF CountExact, Counted
  <2>2. ASSUME NEW size \in Sizes, WriteCopy(size) \/ WriteFail(size) PROVE CountExact'
    BY <2>2 DEF WriteCopy, WriteFail, writer, reader, history
  <2>3. CASE WritePublish
    <3>1. Len(accepted') = Len(accepted) + 1
      BY <2>1, <2>3 DEF WritePublish, RingInv, LayoutInv
    <3>2. QED BY <2>1, <2>3, <3>1 DEF WritePublish, reader
  <2>4. CASE WriteLoad
    BY <2>1, <2>4 DEF WriteLoad, shared, reader, history
  <2>5. CASE WriteStore
    <3>1. ~clashed' => ~clashed /\ count = wcount
      BY <2>5 DEF WriteStore
    <3>2. QED BY <2>1, <2>5, <3>1 DEF WriteStore, reader
  <2>6. CASE ReadBegin \/ ReadNext \/ ReadCall \/ ReadRefuse
    <3>1. UNCHANGED <<count, wpc, accepted, ran, clashed, deaths>>
      BY <2>6 DEF ReadBegin, ReadNext, ReadCall, ReadRefuse, shared, writer, history
    <3>2. rpc \notin {"load", "store"} /\ rpc' \notin {"load", "store"}
      BY <2>6 DEF ReadBegin, ReadNext, ReadCall, ReadRefuse, Return
    <3>3. QED BY <3>1, <3>2
  <2>7. CASE ReadAdvance
    <3>1. Len(ran') = Len(ran) + 1
      BY <2>1, <2>7 DEF ReadAdvance
    <3>2. /\ rpc = "advance" /\ rpc' = "load"
          /\ UNCHANGED <<count, wpc, accepted, clashed, deaths>>
      BY <2>7 DEF ReadAdvance, writer
    <3>3. QED BY <2>1, <3>1, <3>2
  <2>8. CASE ReadLoad
    BY <2>1, <2>8 DEF ReadLoad, shared, writer, history
  <2>9. CASE ReadStore
    <3>1. ~clashed' => ~clashed /\ count = rcount
      BY <2>9 DEF ReadStore
    <3>2. QED BY <2>1, <2>9, <3>1 DEF ReadStore, writer
  <2>10. CASE WriterDies \/ ReaderDies
    BY <2>1, <2>10 DEF WriterDies, ReaderDies
  <2>11. CASE UNCHANGED vars
    BY <2>11 DEF vars, shared, writer, reader, history
  <2>12. QED BY <2>2, <2>3, <2>4, <2>5, <2>6, <2>7, <2>8, <2>9, <2>10, <2>11 DEF Next, Write, Read
<1>3. Inv => CountExact
  OBVIOUS
<1>4. QED BY <1>1, <1>2, <1>3, PTL DEF Spec

\* The ids in the order of acceptance, one more.
LEMMA IdsAppend ==
  ASSUME NEW n \in Nat
  PROVE  Append([i \in 1 .. n |-> i], n + 1) = [i \in 1 .. n + 1 |-> i]
OBVIOUS

\* The ring implements the channel: _tail = tail accepts a message, _head = head runs the
\* oldest, and no other step, a death among them, is one the channel sees.
THEOREM RingIsChannel == Spec => ImplementsChannel
<1>1. Init => Channel!Init
  BY DEF Init, Channel!Init
<1>2. RingInv /\ [Next]_vars => [Channel!Next]_(Channel!chan)
  <2> SUFFICES ASSUME RingInv, [Next]_vars PROVE [Channel!Next]_(Channel!chan)
    OBVIOUS
  <2>1. /\ TypeOK /\ accepted \in Seq(Messages) /\ Len(accepted) \in Nat /\ Len(ran) \in Nat
    BY RingShapes DEF RingInv
  <2>2. UNCHANGED <<accepted, ran>> => [Channel!Next]_(Channel!chan)
    BY DEF Channel!chan
  <2>3. CASE WritePublish
    <3>1. Len(accepted') = Len(accepted) + 1 /\ ran' = ran /\ Len(accepted) + 1 \in 1 .. MaxWrites
      BY <2>1, <2>3, RingAssumption DEF WritePublish, RingInv, LayoutInv
    <3>2. [i \in 1 .. Len(accepted') |-> i] = Append([i \in 1 .. Len(accepted) |-> i], Len(accepted) + 1)
      BY <2>1, <3>1, IdsAppend
    <3>3. PICK m \in 1 .. MaxWrites : m = Len(accepted) + 1
      BY <3>1
    <3>4. Channel!Accept(m)
      BY <3>1, <3>2, <3>3 DEF Channel!Accept
    <3>5. QED BY <3>4 DEF Channel!Next
  <2>4. CASE ReadAdvance
    <3>1. /\ ran' = Append(ran, Len(ran) + 1) /\ accepted' = accepted /\ Len(ran) < Len(accepted)
      <4>1. /\ ran' = Append(ran, content[rmsg.at][1]) /\ accepted' = accepted
            /\ Len(ran) < Len(accepted) /\ rmsg = accepted[Len(ran) + 1]
        BY <2>4 DEF ReadAdvance, RingInv, CallsNext
      <4>2. content[accepted[Len(ran) + 1].at][1] = Len(ran) + 1
        <5>1. PICK h \in 0 .. Max, t \in 0 .. Max, r \in Nat : h = head /\ t = tail /\ r = Len(ran)
          BY <2>1, RingShapes
        <5>2. Layout(accepted, t, h, r, content) /\ r < Len(accepted)
          BY <4>1, <5>1 DEF RingInv, LayoutInv
        <5>3. content[accepted[r + 1].at][1] = r + 1
          BY <2>1, <5>2, NextFound
        <5>4. QED BY <5>1, <5>3
      <4>3. QED BY <4>1, <4>2
    <3>2. /\ Len([i \in 1 .. Len(accepted) |-> i]) = Len(accepted)
          /\ [i \in 1 .. Len(accepted) |-> i][Len(ran) + 1] = Len(ran) + 1
      BY <2>1, <3>1
    <3>3. Channel!Run
      BY <3>1, <3>2 DEF Channel!Run
    <3>4. QED BY <3>3 DEF Channel!Next
  <2>5. ASSUME NEW size \in Sizes, WriteCopy(size) \/ WriteFail(size)
        PROVE  [Channel!Next]_(Channel!chan)
    BY <2>2, <2>5 DEF WriteCopy, WriteFail, history
  <2>6. CASE WriteLoad \/ WriteStore \/ ReadBegin \/ ReadNext \/ ReadCall \/ ReadRefuse
    BY <2>2, <2>6 DEF WriteLoad, WriteStore, ReadBegin, ReadNext, ReadCall, ReadRefuse, history
  <2>7. CASE ReadLoad \/ ReadStore \/ WriterDies \/ ReaderDies
    BY <2>2, <2>7 DEF ReadLoad, ReadStore, WriterDies, ReaderDies, history
  <2>8. CASE UNCHANGED vars
    BY <2>2, <2>8 DEF vars, history
  <2>9. QED BY <2>3, <2>4, <2>5, <2>6, <2>7, <2>8 DEF Next, Write, Read
<1>3. QED BY <1>1, <1>2, RingInit, RingNext, PTL DEF Spec, ImplementsChannel, Channel!Safety

=============================================================================
