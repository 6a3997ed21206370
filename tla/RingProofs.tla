----------------------------- MODULE RingProofs -----------------------------
(***************************************************************************)
(* The two ring buffers of the device drivers.                              *)
(*                                                                         *)
(* The byte ring, for any size and any bytes, between a thread and an       *)
(* indication that it keeps up with: at every instruction the ring is the   *)
(* queue of Fifo.  A position is a cell and a mirror bit; what an operation *)
(* does is described by the cells behind it (Wrote, ReadOff), and what that *)
(* does to the unread bytes by one lemma each.                              *)
(*                                                                         *)
(* The ring block buffer, for any number of blocks, any buffer size and any *)
(* order of operations: the list stays in ring order, so that a new block   *)
(* that fits between its two ends is free memory, and the consumer is given *)
(* the oldest put blocks.  Blocks may leave the list from anywhere, several *)
(* at a time.  What is left of it is described by the places its elements   *)
(* had (Selects), and the order by the place of the step back to the start  *)
(* of the buffer (Cut).                                                     *)
(***************************************************************************)
EXTENDS RingIsr, RingBlock, FiniteSetTheorems, WellFoundedInduction, TLAPS

-----------------------------------------------------------------------------
(* The byte ring.                                                           *)

\* The cell i places from cell 0, and how far cell i lies behind cell a.
CellOf(i) == IF i < Size THEN i ELSE i - Size
Ahead(a, i) == IF a <= i THEN i - a ELSE i - a + Size

\* Indexes beyond the end of the buffer continue at its start.
LEMMA CellIs ==
  ASSUME NEW i \in Nat, i < 2 * Size
  PROVE  i % Size = CellOf(i) /\ CellOf(i) \in Cell
<1>1. Size \in Nat \ {0}
  BY RingAssumption
<1>2. CASE i < Size
  BY <1>1, <1>2 DEF CellOf, Cell
<1>3. CASE i >= Size
  <2>1. i - Size \in Nat /\ i - Size < Size /\ i = (i - Size) + 1 * Size
    BY <1>1, <1>3
  <2>2. i % Size = i - Size
    BY <1>1, <2>1
  <2>. QED  BY <1>1, <1>3, <2>1, <2>2 DEF CellOf, Cell
<1>. QED  BY <1>1, <1>2, <1>3

\* A ring whose positions are in the order their mirror bits say.
Ordered(rb) == rb \in RingType /\ MirrorOrdered(rb)

\* How much is in the buffer, and how the positions show it.
LEMMA LengthIs ==
  ASSUME NEW rb, Ordered(rb)
  PROVE  /\ DataLen(rb) = IF rb.rm = rb.wm THEN rb.wi - rb.ri ELSE Size - (rb.ri - rb.wi)
         /\ DataLen(rb) \in 0..Size
         /\ rb.wi = CellOf(rb.ri + DataLen(rb))
         /\ rb.rm = rb.wm <=> rb.ri + DataLen(rb) < Size
<1>1. Size \in Nat \ {0} /\ rb.ri \in Cell /\ rb.wi \in Cell
  BY RingAssumption DEF Ordered, RingType
<1>. QED  BY <1>1 DEF Ordered, MirrorOrdered, DataLen, CellOf, Cell

\* s has been written to rb, giving g: the position moves on, turning the mirror
\* if it runs across the end, and the cells it passes hold s.
Wrote(g, rb, s) ==
  /\ g \in RingType /\ g.rm = rb.rm /\ g.ri = rb.ri
  /\ g.wi = CellOf(rb.wi + Len(s))
  /\ g.wm = IF Wraps(rb.wi, Len(s)) THEN 1 - rb.wm ELSE rb.wm
  /\ \A i \in Cell : g.buf[i] = IF Ahead(rb.wi, i) < Len(s) THEN s[Ahead(rb.wi, i) + 1]
                                ELSE rb.buf[i]

\* A record like the one rt_ringbuffer_init makes.
RingOf(rm, ri, wm, wi, bytes) ==
  [rm |-> rm, ri |-> ri, wm |-> wm, wi |-> wi, buf |-> bytes]
\* The fields of a ring, and the ring as the record of its fields.
LEMMA RingFields ==
  ASSUME NEW rb \in RingType
  PROVE  /\ rb.rm \in {0, 1} /\ rb.wm \in {0, 1} /\ rb.ri \in Cell /\ rb.wi \in Cell
         /\ rb.buf \in [Cell -> Byte]
         /\ rb = RingOf(rb.rm, rb.ri, rb.wm, rb.wi, rb.buf)
BY DEF RingType, RingOf

\* A record of such fields is a ring.
LEMMA RingIs ==
  ASSUME NEW a \in {0, 1}, NEW b \in Cell, NEW c \in {0, 1}, NEW d \in Cell,
         NEW e \in [Cell -> Byte], NEW g, g = RingOf(a, b, c, d, e)
  PROVE  /\ g \in RingType
         /\ g.rm = a /\ g.ri = b /\ g.wm = c /\ g.wi = d /\ g.buf = e
BY DEF RingType, RingOf

\* A part of a sequence.
LEMMA Part ==
  ASSUME NEW S, NEW s \in Seq(S), NEW m \in Nat \ {0}, NEW n \in Nat, m <= n + 1, n <= Len(s)
  PROVE  /\ SubSeq(s, m, n) \in Seq(S) /\ Len(SubSeq(s, m, n)) = n - m + 1
         /\ \A j \in 1..(n - m + 1) : SubSeq(s, m, n)[j] = s[m + j - 1]
OBVIOUS

\* memcpy.
LEMMA Copied ==
  ASSUME NEW bytes \in [Cell -> Byte], NEW at0 \in Nat, NEW s \in Seq(Byte),
         at0 + Len(s) <= Size
  PROVE  /\ CopyIn(bytes, at0, s) \in [Cell -> Byte]
         /\ \A i \in Cell : CopyIn(bytes, at0, s)[i] =
              IF at0 <= i /\ i < at0 + Len(s) THEN s[i - at0 + 1] ELSE bytes[i]
<1>1. Size \in Nat \ {0} /\ Len(s) \in Nat /\ \A j \in 1..Len(s) : s[j] \in Byte
  BY RingAssumption
<1>2. ASSUME NEW i \in Cell
      PROVE  /\ CopyIn(bytes, at0, s)[i] =
                  IF at0 <= i /\ i < at0 + Len(s) THEN s[i - at0 + 1] ELSE bytes[i]
             /\ CopyIn(bytes, at0, s)[i] \in Byte
  <2>1. i \in Nat /\ bytes[i] \in Byte
    BY <1>1 DEF Cell
  <2>2. i \in at0 .. at0 + Len(s) - 1 <=> at0 <= i /\ i < at0 + Len(s)
    BY <1>1, <2>1
  <2>3. at0 <= i /\ i < at0 + Len(s) => i - at0 + 1 \in 1..Len(s)
    BY <1>1, <2>1
  <2>. QED  BY <1>1, <2>1, <2>2, <2>3 DEF CopyIn
<1>. QED  BY <1>2 DEF CopyIn

\* The same as values to work with.
LEMMA Fields ==
  ASSUME NEW rb \in RingType
  PROVE  \E a \in {0, 1}, b \in Cell, c \in {0, 1}, d \in Cell, e \in [Cell -> Byte] :
           /\ rb = RingOf(a, b, c, d, e)
           /\ rb.rm = a /\ rb.ri = b /\ rb.wm = c /\ rb.wi = d /\ rb.buf = e
BY RingFields

\* The copying of the block operations, in one piece or two.
LEMMA WriteWrites ==
  ASSUME NEW rb \in RingType, NEW s \in Seq(Byte), Len(s) <= Size,
         NEW g, g = Write(rb, s)
  PROVE  Wrote(g, rb, s)
<1>1. PICK a \in {0, 1}, b \in Cell, c \in {0, 1}, d \in Cell, e \in [Cell -> Byte] :
        /\ rb = RingOf(a, b, c, d, e)
        /\ rb.rm = a /\ rb.ri = b /\ rb.wm = c /\ rb.wi = d /\ rb.buf = e
  BY Fields
<1>. DEFINE n == Len(s)
<1>2. Size \in Nat \ {0} /\ n \in Nat /\ d \in Nat /\ d < Size
  BY RingAssumption DEF Cell
<1>3. CASE ~Wraps(d, n)
  <2>1. d + n < Size /\ d + n \in Cell /\ CellOf(d + n) = d + n
    BY <1>2, <1>3 DEF Wraps, Cell, CellOf
  <2>2. PICK f : f = CopyIn(e, d, s)
    OBVIOUS
  <2>3. g = [[rb EXCEPT !.buf = f] EXCEPT !.wi = d + n]
    BY <1>1, <1>3, <2>2 DEF Write
  <2>4. g = RingOf(a, b, c, d + n, f)
    BY <1>1, <2>3 DEF RingOf
  <2>5. /\ f \in [Cell -> Byte]
        /\ \A i \in Cell : f[i] = IF d <= i /\ i < d + n THEN s[i - d + 1] ELSE e[i]
    BY <1>2, <2>1, <2>2, Copied
  <2>6. /\ g \in RingType
        /\ g.rm = a /\ g.ri = b /\ g.wm = c /\ g.wi = d + n /\ g.buf = f
    BY <2>1, <2>4, <2>5, RingIs
  <2>7. ASSUME NEW i \in Cell
        PROVE  f[i] = IF Ahead(d, i) < n THEN s[Ahead(d, i) + 1] ELSE e[i]
    <3>1. i \in Nat /\ i < Size
      BY <1>2 DEF Cell
    <3>2. Ahead(d, i) < n <=> d <= i /\ i < d + n
      BY <1>2, <2>1, <3>1 DEF Ahead
    <3>3. d <= i => Ahead(d, i) = i - d
      BY DEF Ahead
    <3>. QED  BY <2>5, <3>2, <3>3
  <2>. QED  BY <1>1, <1>3, <2>1, <2>6, <2>7 DEF Wrote
<1>4. CASE Wraps(d, n)
  <2>. DEFINE room == Size - d
  <2>1. /\ room \in Nat /\ room <= n /\ n - room \in Cell /\ CellOf(d + n) = n - room
        /\ d + n >= Size
    BY <1>2, <1>4 DEF Wraps, Cell, CellOf
  <2>2. PICK s1, s2, f1, f :
          /\ s1 = SubSeq(s, 1, room) /\ s2 = SubSeq(s, room + 1, n)
          /\ f1 = CopyIn(e, d, s1) /\ f = CopyIn(f1, 0, s2)
    OBVIOUS
  <2>3. /\ s1 \in Seq(Byte) /\ Len(s1) = room /\ \A j \in 1..room : s1[j] = s[j]
        /\ s2 \in Seq(Byte) /\ Len(s2) = n - room
        /\ \A j \in 1..(n - room) : s2[j] = s[room + j]
    <3>1. /\ s1 \in Seq(Byte) /\ Len(s1) = room - 1 + 1
          /\ \A j \in 1..(room - 1 + 1) : s1[j] = s[1 + j - 1]
      BY <1>2, <2>1, <2>2, Part
    <3>2. /\ s2 \in Seq(Byte) /\ Len(s2) = n - (room + 1) + 1
          /\ \A j \in 1..(n - (room + 1) + 1) : s2[j] = s[(room + 1) + j - 1]
      <4>1. PICK q : q = room + 1
        OBVIOUS
      <4>2. q \in Nat \ {0} /\ q <= n + 1 /\ n <= Len(s)
        BY <1>2, <2>1, <4>1
      <4>3. s2 = SubSeq(s, q, n) /\ n \in Nat
        BY <1>2, <2>2, <4>1
      <4>. HIDE DEF room, n
      <4>4. s2 \in Seq(Byte) /\ Len(s2) = n - q + 1 /\ \A j \in 1..(n - q + 1) : s2[j] = s[q + j - 1]
        BY <4>2, <4>3, Part
      <4>. QED  BY <4>1, <4>4
    <3>. HIDE DEF room, n
    <3>. QED  BY <1>2, <2>1, <3>1, <3>2
  <2>4. g = [[[rb EXCEPT !.buf = f] EXCEPT !.wm = 1 - c] EXCEPT !.wi = n - room]
    BY <1>1, <1>4, <2>2 DEF Write
  <2>. HIDE DEF room
  <2>5. g = RingOf(a, b, 1 - c, n - room, f)
    BY <1>1, <2>4 DEF RingOf
  <2>6. /\ f1 \in [Cell -> Byte]
        /\ \A i \in Cell : f1[i] = IF d <= i /\ i < d + room THEN s1[i - d + 1] ELSE e[i]
    <3>1. d + Len(s1) <= Size
      BY <1>2, <2>3 DEF room
    <3>2. /\ f1 \in [Cell -> Byte]
          /\ \A i \in Cell : f1[i] = IF d <= i /\ i < d + Len(s1) THEN s1[i - d + 1] ELSE e[i]
      <4>1. f1 = CopyIn(e, d, s1) /\ s1 \in Seq(Byte)
        BY <2>2, <2>3
      <4>. QED  BY <1>2, <3>1, <4>1, Copied
    <3>. QED  BY <2>3, <3>2
  <2>7. /\ f \in [Cell -> Byte]
        /\ \A i \in Cell : f[i] = IF 0 <= i /\ i < 0 + (n - room) THEN s2[i - 0 + 1] ELSE f1[i]
    <3>1. 0 + Len(s2) <= Size
      BY <1>2, <2>1, <2>3 DEF room
    <3>2. /\ f \in [Cell -> Byte]
          /\ \A i \in Cell : f[i] = IF 0 <= i /\ i < 0 + Len(s2) THEN s2[i - 0 + 1] ELSE f1[i]
      <4>1. f = CopyIn(f1, 0, s2) /\ s2 \in Seq(Byte) /\ 0 \in Nat
        BY <2>2, <2>3
      <4>. QED  BY <2>6, <3>1, <4>1, Copied
    <3>. QED  BY <2>3, <3>2
  <2>8. 1 - c \in {0, 1}
    OBVIOUS
  <2>9. /\ g \in RingType
        /\ g.rm = a /\ g.ri = b /\ g.wm = 1 - c /\ g.wi = n - room /\ g.buf = f
    BY <2>1, <2>5, <2>7, <2>8, RingIs
  <2>10. ASSUME NEW i \in Cell
         PROVE  f[i] = IF Ahead(d, i) < n THEN s[Ahead(d, i) + 1] ELSE e[i]
    <3>1. i \in Nat /\ i < Size
      BY <1>2 DEF Cell
    <3>2. CASE i < n - room
      <4>1. f[i] = s2[i + 1] /\ i + 1 \in 1..(n - room)
        BY <1>2, <2>1, <2>7, <3>1, <3>2
      <4>2. f[i] = s[room + (i + 1)]
        BY <2>3, <4>1
      <4>3. Ahead(d, i) + 1 = room + (i + 1) /\ Ahead(d, i) < n
        BY <1>2, <2>1, <3>1, <3>2 DEF Ahead, room
      <4>. QED  BY <4>2, <4>3
    <3>3. CASE ~(i < n - room) /\ d <= i
      <4>1. f[i] = s1[i - d + 1] /\ i - d + 1 \in 1..room
        BY <1>2, <2>1, <2>6, <2>7, <3>1, <3>3 DEF room
      <4>2. f[i] = s[i - d + 1]
        BY <2>3, <4>1
      <4>3. Ahead(d, i) = i - d /\ Ahead(d, i) < n
        BY <1>2, <2>1, <3>1, <3>3 DEF Ahead, room
      <4>. QED  BY <4>2, <4>3
    <3>4. CASE ~(i < n - room) /\ i < d
      <4>1. f[i] = e[i]
        BY <1>2, <2>1, <2>6, <2>7, <3>1, <3>4
      <4>2. ~(Ahead(d, i) < n)
        BY <1>2, <2>1, <3>1, <3>4 DEF Ahead, room
      <4>. QED  BY <4>1, <4>2
    <3>. QED  BY <1>2, <3>1, <3>2, <3>3, <3>4
  <2>. QED  BY <1>1, <1>4, <2>1, <2>9, <2>10 DEF Wrote
<1>. QED  BY <1>1, <1>3, <1>4

\* One character is a block of one byte.
LEMMA StoreWrites ==
  ASSUME NEW rb \in RingType, NEW c0 \in Byte, NEW g, g = Store(rb, c0)
  PROVE  Wrote(g, rb, <<c0>>)
<1>1. PICK a \in {0, 1}, b \in Cell, c \in {0, 1}, d \in Cell, e \in [Cell -> Byte] :
        /\ rb = RingOf(a, b, c, d, e)
        /\ rb.rm = a /\ rb.ri = b /\ rb.wm = c /\ rb.wi = d /\ rb.buf = e
  BY Fields
<1>2. Size \in Nat \ {0} /\ d \in Nat /\ d < Size
  BY RingAssumption DEF Cell
<1>3. PICK x, y, f : x = Step(d) /\ y = Flip(c, d) /\ f = [e EXCEPT ![d] = c0]
  OBVIOUS
<1>4. g = [[[rb EXCEPT !.buf = f] EXCEPT !.wi = x] EXCEPT !.wm = y]
  BY <1>1, <1>3 DEF Store
<1>5. g = RingOf(a, b, y, x, f)
  BY <1>1, <1>4 DEF RingOf
<1>6. x \in Cell /\ y \in {0, 1} /\ f \in [Cell -> Byte]
  BY <1>2, <1>3 DEF Step, Flip, Cell
<1>7. /\ g \in RingType
      /\ g.rm = a /\ g.ri = b /\ g.wm = y /\ g.wi = x /\ g.buf = f
  BY <1>5, <1>6, RingIs
<1>8. Len(<<c0>>) = 1 /\ <<c0>>[1] = c0
  OBVIOUS
<1>9. x = CellOf(d + 1) /\ y = IF Wraps(d, 1) THEN 1 - c ELSE c
  BY <1>2, <1>3 DEF Step, Flip, CellOf, Wraps
<1>10. ASSUME NEW i \in Cell
       PROVE  f[i] = IF Ahead(d, i) < 1 THEN <<c0>>[Ahead(d, i) + 1] ELSE e[i]
  <2>1. i \in Nat /\ i < Size
    BY <1>2 DEF Cell
  <2>2. Ahead(d, i) < 1 <=> i = d
    BY <1>2, <2>1 DEF Ahead
  <2>3. Ahead(d, d) = 0
    BY <1>2 DEF Ahead
  <2>. QED  BY <1>3, <1>8, <2>2, <2>3
<1>. QED  BY <1>1, <1>7, <1>8, <1>9, <1>10 DEF Wrote

-----------------------------------------------------------------------------
(* What is in the buffer, as a sequence.                                   *)

\* Two sequences with the same elements are one.
LEMMA SameSeq ==
  ASSUME NEW S, NEW s \in Seq(S), NEW t \in Seq(S), Len(s) = Len(t),
         \A k \in 1..Len(s) : s[k] = t[k]
  PROVE  s = t
OBVIOUS

\* A function on 1..n is a sequence of length n.
LEMMA ListOf ==
  ASSUME NEW S, NEW n \in Nat, NEW f \in [1..n -> S]
  PROVE  f \in Seq(S) /\ Len(f) = n
OBVIOUS

\* The k-th unread byte lies k - 1 cells behind the read position.
LEMMA ContentIs ==
  ASSUME NEW rb, Ordered(rb)
  PROVE  /\ Content(rb) \in Seq(Byte) /\ Len(Content(rb)) = DataLen(rb)
         /\ \A k \in 1..DataLen(rb) : Content(rb)[k] = rb.buf[CellOf(rb.ri + k - 1)]
<1>1. Size \in Nat \ {0} /\ rb.ri \in Cell /\ rb.buf \in [Cell -> Byte] /\ DataLen(rb) \in 0..Size
  BY RingAssumption, LengthIs DEF Ordered, RingType
<1>. DEFINE D == DataLen(rb)
<1>2. ASSUME NEW k \in 1..D
      PROVE  (rb.ri + k - 1) % Size = CellOf(rb.ri + k - 1) /\ CellOf(rb.ri + k - 1) \in Cell
  <2>1. rb.ri + k - 1 \in Nat /\ rb.ri + k - 1 < 2 * Size
    BY <1>1 DEF Cell
  <2>. QED  BY <2>1, CellIs
<1>3. /\ Content(rb) = [k \in 1..D |-> rb.buf[(rb.ri + k - 1) % Size]]
      /\ D \in Nat
  BY <1>1 DEF Content
<1>. HIDE DEF D
<1>4. \A k \in 1..D : rb.buf[(rb.ri + k - 1) % Size] \in Byte
  BY <1>1, <1>2
<1>5. Content(rb) \in Seq(Byte) /\ Len(Content(rb)) = D
  BY <1>3, <1>4
<1>. QED  BY <1>2, <1>3, <1>5 DEF D

\* The elements of two sequences joined.
LEMMA Joined ==
  ASSUME NEW S, NEW s \in Seq(S), NEW t \in Seq(S)
  PROVE  /\ s \o t \in Seq(S) /\ Len(s \o t) = Len(s) + Len(t)
         /\ \A k \in 1..(Len(s) + Len(t)) :
              (s \o t)[k] = IF k <= Len(s) THEN s[k] ELSE t[k - Len(s)]
OBVIOUS

\* What fits is appended.
LEMMA Appended ==
  ASSUME NEW rb, Ordered(rb), NEW s \in Seq(Byte), NEW g, Wrote(g, rb, s),
         DataLen(rb) + Len(s) <= Size
  PROVE  Ordered(g) /\ Content(g) = Content(rb) \o s
<1>. DEFINE D == DataLen(rb)
            n == Len(s)
<1>1. /\ Size \in Nat \ {0} /\ n \in Nat /\ D \in Nat
      /\ rb.ri \in Nat /\ rb.ri < Size /\ rb.wi \in Nat /\ rb.wi < Size
      /\ rb.rm \in {0, 1} /\ rb.wm \in {0, 1}
  BY RingAssumption, LengthIs DEF Ordered, RingType, Cell
<1>2. /\ rb.wi = CellOf(rb.ri + D)
      /\ rb.rm = rb.wm <=> rb.ri + D < Size
      /\ D + n <= Size
  BY LengthIs
<1>3. /\ g \in RingType /\ g.rm = rb.rm /\ g.ri = rb.ri
      /\ g.wi = CellOf(rb.wi + n)
      /\ g.wm = IF Wraps(rb.wi, n) THEN 1 - rb.wm ELSE rb.wm
      /\ \A i \in Cell : g.buf[i] = IF Ahead(rb.wi, i) < n THEN s[Ahead(rb.wi, i) + 1]
                                    ELSE rb.buf[i]
  BY DEF Wrote
<1>. HIDE DEF D, n
<1>4. /\ g.wi = CellOf(rb.ri + (D + n)) /\ (g.rm = g.wm <=> rb.ri + (D + n) < Size)
      /\ MirrorOrdered(g)
  <2>1. PICK a, w, v : a = rb.ri /\ w = rb.wi /\ v = g.wi
    OBVIOUS
  <2>2. /\ a \in Nat /\ a < Size /\ w \in Nat /\ w < Size /\ D \in Nat /\ n \in Nat
        /\ Size \in Nat \ {0} /\ D + n <= Size
        /\ w = CellOf(a + D) /\ v = CellOf(w + n)
    BY <1>1, <1>2, <1>3, <2>1
  <2>3. v = CellOf(a + (D + n))
    BY <2>2 DEF CellOf
  <2>4. IF Wraps(w, n) THEN a + D < Size <=> ~(a + (D + n) < Size)
                       ELSE a + D < Size <=> a + (D + n) < Size
    BY <2>2 DEF CellOf, Wraps
  <2>5. g.rm = g.wm <=> a + (D + n) < Size
    <3>1. IF Wraps(w, n) THEN g.rm = g.wm <=> rb.rm # rb.wm ELSE g.rm = g.wm <=> rb.rm = rb.wm
      BY <1>1, <1>3, <2>1
    <3>2. rb.rm = rb.wm <=> a + D < Size
      BY <1>2, <2>1
    <3>. QED  BY <2>4, <3>1, <3>2
  <2>6. IF a + (D + n) < Size THEN a <= v ELSE v <= a
    BY <2>2, <2>3 DEF CellOf
  <2>7. g.ri = a
    BY <1>3, <2>1
  <2>. QED  BY <2>1, <2>3, <2>5, <2>6, <2>7 DEF MirrorOrdered
<1>5. Ordered(g)
  BY <1>3, <1>4 DEF Ordered
<1>6. DataLen(g) = D + n
  <2>1. /\ DataLen(g) \in 0..Size /\ g.wi = CellOf(rb.ri + DataLen(g))
        /\ g.rm = g.wm <=> rb.ri + DataLen(g) < Size
    BY <1>3, <1>5, LengthIs
  <2>. QED  BY <1>1, <1>2, <1>4, <2>1 DEF CellOf
<1>7. /\ Content(g) \in Seq(Byte) /\ Len(Content(g)) = D + n
      /\ \A k \in 1..(D + n) : Content(g)[k] = g.buf[CellOf(rb.ri + k - 1)]
  BY <1>3, <1>5, <1>6, ContentIs
<1>8. /\ Content(rb) \in Seq(Byte) /\ Len(Content(rb)) = D
      /\ \A k \in 1..D : Content(rb)[k] = rb.buf[CellOf(rb.ri + k - 1)]
  BY ContentIs DEF D
<1>9. ASSUME NEW k \in 1..(D + n)
      PROVE  Content(g)[k] = IF k <= D THEN Content(rb)[k] ELSE s[k - D]
  <2>1. PICK a, w, i : a = rb.ri /\ w = rb.wi /\ i = CellOf(rb.ri + k - 1)
    OBVIOUS
  <2>2. /\ a \in Nat /\ a < Size /\ w = CellOf(a + D) /\ i = CellOf(a + k - 1)
        /\ D + n <= Size /\ k \in Nat /\ 1 <= k /\ k <= D + n /\ Size \in Nat
    BY <1>1, <1>2, <2>1
  <2>3. i \in Cell
    BY <1>1, <2>2 DEF CellOf, Cell
  <2>4. Content(g)[k] = g.buf[i]
    BY <1>7, <2>1
  <2>5. CASE k <= D
    <3>1. ~(Ahead(w, i) < n)
      BY <1>1, <2>2, <2>5 DEF CellOf, Ahead
    <3>2. g.buf[i] = rb.buf[i]
      BY <1>3, <2>1, <2>3, <3>1
    <3>3. k \in 1..D
      BY <1>1, <2>2, <2>5
    <3>4. Content(rb)[k] = rb.buf[i]
      BY <1>8, <2>1, <3>3
    <3>. QED  BY <2>4, <2>5, <3>2, <3>4
  <2>6. CASE ~(k <= D)
    <3>1. Ahead(w, i) = k - 1 - D
      BY <1>1, <2>2, <2>6 DEF CellOf, Ahead
    <3>2. Ahead(w, i) < n /\ Ahead(w, i) + 1 = k - D
      BY <1>1, <2>2, <2>6, <3>1
    <3>3. g.buf[i] = s[k - D]
      BY <1>3, <2>1, <2>3, <3>2
    <3>. QED  BY <2>4, <2>6, <3>3
  <2>. QED  BY <2>5, <2>6
<1>10. Content(g) = Content(rb) \o s
  <2>1. /\ Content(rb) \o s \in Seq(Byte) /\ Len(Content(rb) \o s) = D + n
        /\ \A k \in 1..(D + n) : (Content(rb) \o s)[k] = IF k <= D THEN Content(rb)[k] ELSE s[k - D]
    BY <1>1, <1>8 DEF n
  <2>. QED  BY <1>7, <1>9, <2>1, SameSeq
<1>. QED  BY <1>5, <1>10

\* h is g, which has more in it than fits, with the read position moved up to
\* the write position: nothing is left, or the newest bytes are if the unread
\* ones already ran across the end.
Followed(h, g, rb, s) ==
  /\ h \in RingType /\ h.wm = g.wm /\ h.wi = g.wi /\ h.buf = g.buf /\ h.ri = g.wi
  /\ h.rm = IF Wraps(rb.wi, Len(s)) THEN 1 - rb.rm ELSE rb.rm

\* Where the bytes lie that are kept: j cells behind the new read position, with
\* n bytes written from w on.
LEMMA Turn ==
  ASSUME NEW w \in Nat, w < Size, NEW n \in Nat, n <= Size, NEW j \in 1..Size,
         NEW i, i = CellOf(CellOf(w + n) + j - 1)
  PROVE  /\ i \in Cell
         /\ n + j <= Size => i = CellOf(w + n + j - 1) /\ ~(Ahead(w, i) < n)
         /\ n + j > Size => Ahead(w, i) = n + j - Size - 1
<1>1. Size \in Nat \ {0} /\ j \in Nat /\ 1 <= j /\ j <= Size
  BY RingAssumption
<1>2. CASE w + n < Size
  BY <1>1, <1>2 DEF CellOf, Ahead, Cell
<1>3. CASE w + n >= Size
  BY <1>1, <1>3 DEF CellOf, Ahead, Cell
<1>. QED  BY <1>1, <1>2, <1>3

\* What is left when more is written than fits.
LEMMA Overwritten ==
  ASSUME NEW rb, Ordered(rb), NEW s \in Seq(Byte), NEW g, Wrote(g, rb, s),
         Len(s) <= Size, DataLen(rb) + Len(s) > Size,
         NEW h, Followed(h, g, rb, s)
  PROVE  /\ Ordered(h)
         /\ rb.rm = rb.wm => Content(h) = << >>
         /\ rb.rm # rb.wm => Content(h) = QueueView!Last(Content(rb) \o s, Size)
<1>. DEFINE D == DataLen(rb)
            n == Len(s)
<1>1. /\ Size \in Nat \ {0} /\ n \in Nat /\ D \in Nat
      /\ rb.ri \in Nat /\ rb.ri < Size /\ rb.wi \in Nat /\ rb.wi < Size
      /\ rb.rm \in {0, 1} /\ rb.wm \in {0, 1}
  BY RingAssumption, LengthIs DEF Ordered, RingType, Cell
<1>2. /\ rb.wi = CellOf(rb.ri + D)
      /\ rb.rm = rb.wm <=> rb.ri + D < Size
      /\ D <= Size /\ n <= Size /\ D + n > Size
  BY LengthIs
<1>3. /\ g.wi = CellOf(rb.wi + n)
      /\ g.wm = IF Wraps(rb.wi, n) THEN 1 - rb.wm ELSE rb.wm
      /\ \A i \in Cell : g.buf[i] = IF Ahead(rb.wi, i) < n THEN s[Ahead(rb.wi, i) + 1]
                                    ELSE rb.buf[i]
  BY DEF Wrote
<1>4. /\ h \in RingType /\ h.wm = g.wm /\ h.wi = g.wi /\ h.buf = g.buf /\ h.ri = g.wi
      /\ h.rm = IF Wraps(rb.wi, n) THEN 1 - rb.rm ELSE rb.rm
  BY DEF Followed
<1>. HIDE DEF D, n
<1>5. /\ h.ri = h.wi /\ h.wi \in Nat /\ h.wi < Size
      /\ h.rm = h.wm <=> rb.rm = rb.wm
  BY <1>1, <1>3, <1>4 DEF RingType, Cell
<1>6. Ordered(h)
  BY <1>4, <1>5 DEF Ordered, MirrorOrdered
<1>7. DataLen(h) = IF rb.rm = rb.wm THEN 0 ELSE Size
  BY <1>5 DEF DataLen
<1>8. /\ Content(h) \in Seq(Byte) /\ Len(Content(h)) = DataLen(h)
      /\ \A k \in 1..DataLen(h) : Content(h)[k] = h.buf[CellOf(h.ri + k - 1)]
  BY <1>6, ContentIs
<1>9. CASE rb.rm = rb.wm
  BY <1>6, <1>7, <1>8, <1>9
<1>10. CASE rb.rm # rb.wm
  <2>. DEFINE all == Content(rb) \o s
  <2>1. /\ Content(rb) \in Seq(Byte) /\ Len(Content(rb)) = D
        /\ \A k \in 1..D : Content(rb)[k] = rb.buf[CellOf(rb.ri + k - 1)]
    BY ContentIs DEF D
  <2>2. /\ all \in Seq(Byte) /\ Len(all) = D + n
        /\ \A k \in 1..(D + n) : all[k] = IF k <= D THEN Content(rb)[k] ELSE s[k - D]
    BY <1>1, <2>1, Joined DEF n
  <2>. HIDE DEF all
  <2>3. PICK l, m : l = QueueView!Last(all, Size) /\ m = (D + n) - Size + 1
    OBVIOUS
  <2>4. m \in Nat \ {0} /\ m <= (D + n) + 1 /\ D + n \in Nat
    BY <1>1, <1>2, <2>3
  <2>5. l = SubSeq(all, m, D + n)
    <3>1. QueueView!Smaller(Size, D + n) = Size
      BY <1>1, <1>2 DEF QueueView!Smaller
    <3>2. l = SubSeq(all, (D + n) - Size + 1, D + n)
      BY <2>2, <2>3, <3>1 DEF QueueView!Last
    <3>. QED  BY <2>3, <3>2
  <2>6. /\ l \in Seq(Byte) /\ Len(l) = (D + n) - m + 1
        /\ \A j \in 1..((D + n) - m + 1) : l[j] = all[m + j - 1]
    BY <2>2, <2>4, <2>5, Part
  <2>7. Len(l) = Size /\ \A j \in 1..Size : l[j] = all[D + n - Size + j]
    <3>1. (D + n) - m + 1 = Size
      BY <1>1, <2>3
    <3>2. \A j \in 1..Size : m + j - 1 = D + n - Size + j
      BY <1>1, <2>3
    <3>. QED  BY <2>6, <3>1, <3>2
  <2>8. ASSUME NEW j \in 1..Size
        PROVE  Content(h)[j] = l[j]
    <3>. DEFINE i == CellOf(h.ri + j - 1)
                k == D + n - Size + j
    <3>1. i = CellOf(CellOf(rb.wi + n) + j - 1)
      BY <1>3, <1>4
    <3>2. /\ i \in Cell
          /\ n + j <= Size => i = CellOf(rb.wi + n + j - 1) /\ ~(Ahead(rb.wi, i) < n)
          /\ n + j > Size => Ahead(rb.wi, i) = n + j - Size - 1
      <4>1. PICK w : w = rb.wi
        OBVIOUS
      <4>2. w \in Nat /\ w < Size /\ n \in Nat /\ n <= Size /\ i = CellOf(CellOf(w + n) + j - 1)
        BY <1>1, <1>2, <3>1, <4>1
      <4>. HIDE DEF i, k
      <4>3. /\ i \in Cell
            /\ n + j <= Size => i = CellOf(w + n + j - 1) /\ ~(Ahead(w, i) < n)
            /\ n + j > Size => Ahead(w, i) = n + j - Size - 1
        BY <4>2, Turn
      <4>. QED  BY <4>1, <4>3
    <3>3. k \in 1..(D + n)
      BY <1>1, <1>2
    <3>4. Content(h)[j] = g.buf[i] /\ l[j] = all[k]
      BY <1>4, <1>7, <1>8, <1>10, <2>7
    <3>5. CASE n + j <= Size
      <4>1. k \in 1..D /\ rb.ri + k - 1 = rb.wi + n + j - 1
        BY <1>1, <1>2, <1>10, <3>3, <3>5 DEF CellOf
      <4>2. all[k] = rb.buf[CellOf(rb.ri + k - 1)]
        <5>1. PICK kk : kk = k
          OBVIOUS
        <5>2. kk \in 1..D /\ kk \in 1..(D + n) /\ kk <= D
          BY <1>1, <3>3, <4>1, <5>1
        <5>. HIDE DEF k
        <5>3. all[kk] = Content(rb)[kk] /\ Content(rb)[kk] = rb.buf[CellOf(rb.ri + kk - 1)]
          BY <2>1, <2>2, <5>2
        <5>. QED  BY <5>1, <5>3
      <4>. HIDE DEF i, k
      <4>. QED  BY <1>3, <3>2, <3>4, <3>5, <4>1, <4>2
    <3>6. CASE n + j > Size
      <4>1. ~(k <= D) /\ Ahead(rb.wi, i) < n /\ Ahead(rb.wi, i) + 1 = k - D
        BY <1>1, <1>2, <3>2, <3>6
      <4>. HIDE DEF i, k
      <4>2. all[k] = s[k - D]
        BY <2>2, <3>3, <4>1
      <4>. QED  BY <1>3, <3>2, <3>4, <4>1, <4>2
    <3>. QED  BY <1>1, <3>5, <3>6
  <2>9. Content(h) = l
    <3>1. Len(Content(h)) = Size /\ Len(l) = Size
      BY <1>7, <1>8, <1>10, <2>7
    <3>. QED  BY <1>8, <2>6, <2>8, <3>1, SameSeq
  <2>. QED  BY <1>6, <1>10, <2>3, <2>9 DEF all
<1>. QED  BY <1>9, <1>10

\* The read position has moved on by n bytes.
ReadOff(g, rb, n) ==
  /\ g \in RingType /\ g.wm = rb.wm /\ g.wi = rb.wi /\ g.buf = rb.buf
  /\ g.ri = CellOf(rb.ri + n)
  /\ g.rm = IF Wraps(rb.ri, n) THEN 1 - rb.rm ELSE rb.rm

\* What has been read is gone, and the rest as it was.
LEMMA Rest ==
  ASSUME NEW rb, Ordered(rb), NEW n \in Nat, n <= DataLen(rb), NEW g, ReadOff(g, rb, n)
  PROVE  /\ Ordered(g) /\ DataLen(g) = DataLen(rb) - n
         /\ Content(g) = SubSeq(Content(rb), n + 1, DataLen(rb))
<1>. DEFINE D == DataLen(rb)
<1>1. /\ Size \in Nat \ {0} /\ D \in Nat
      /\ rb.ri \in Nat /\ rb.ri < Size /\ rb.wi \in Nat /\ rb.wi < Size
      /\ rb.rm \in {0, 1} /\ rb.wm \in {0, 1}
  BY RingAssumption, LengthIs DEF Ordered, RingType, Cell
<1>2. /\ rb.wi = CellOf(rb.ri + D)
      /\ rb.rm = rb.wm <=> rb.ri + D < Size
      /\ D <= Size /\ n <= D
  BY LengthIs
<1>3. /\ g \in RingType /\ g.wm = rb.wm /\ g.wi = rb.wi /\ g.buf = rb.buf
      /\ g.ri = CellOf(rb.ri + n)
      /\ g.rm = IF Wraps(rb.ri, n) THEN 1 - rb.rm ELSE rb.rm
  BY DEF ReadOff
<1>. HIDE DEF D
<1>4. /\ g.wi = CellOf(g.ri + (D - n)) /\ (g.rm = g.wm <=> g.ri + (D - n) < Size)
      /\ MirrorOrdered(g) /\ g.ri \in Nat /\ g.ri < Size
  BY <1>1, <1>2, <1>3 DEF CellOf, Wraps, MirrorOrdered
<1>5. Ordered(g)
  BY <1>3, <1>4 DEF Ordered
<1>6. DataLen(g) = D - n
  <2>1. /\ DataLen(g) \in 0..Size /\ g.wi = CellOf(g.ri + DataLen(g))
        /\ g.rm = g.wm <=> g.ri + DataLen(g) < Size
    BY <1>5, LengthIs
  <2>. QED  BY <1>1, <1>2, <1>4, <2>1 DEF CellOf
<1>7. /\ Content(g) \in Seq(Byte) /\ Len(Content(g)) = D - n
      /\ \A k \in 1..(D - n) : Content(g)[k] = rb.buf[CellOf(g.ri + k - 1)]
  BY <1>3, <1>5, <1>6, ContentIs
<1>8. /\ Content(rb) \in Seq(Byte) /\ Len(Content(rb)) = D
      /\ \A k \in 1..D : Content(rb)[k] = rb.buf[CellOf(rb.ri + k - 1)]
  BY ContentIs DEF D
<1>9. PICK l, m : l = SubSeq(Content(rb), m, D) /\ m = n + 1
  OBVIOUS
<1>10. /\ l \in Seq(Byte) /\ Len(l) = D - m + 1
       /\ \A j \in 1..(D - m + 1) : l[j] = Content(rb)[m + j - 1]
  <2>1. m \in Nat \ {0} /\ m <= D + 1
    BY <1>1, <1>2, <1>9
  <2>. QED  BY <1>1, <1>8, <1>9, <2>1, Part
<1>11. Len(l) = D - n /\ \A j \in 1..(D - n) : l[j] = Content(rb)[n + j]
  <2>1. D - m + 1 = D - n /\ \A j \in 1..(D - n) : m + j - 1 = n + j
    BY <1>1, <1>9
  <2>. QED  BY <1>10, <2>1
<1>12. ASSUME NEW j \in 1..(D - n)
       PROVE  Content(g)[j] = l[j]
  <2>1. n + j \in 1..D
    BY <1>1, <1>2
  <2>2. CellOf(g.ri + j - 1) = CellOf(rb.ri + (n + j) - 1)
    BY <1>1, <1>2, <1>3 DEF CellOf
  <2>. QED  BY <1>7, <1>8, <1>11, <2>1, <2>2
<1>13. Content(g) = l
  BY <1>7, <1>10, <1>11, <1>12, SameSeq
<1>. QED  BY <1>5, <1>6, <1>9, <1>13 DEF D

\* What has been read is the oldest part.
LEMMA TakenIs ==
  ASSUME NEW rb, Ordered(rb), NEW n \in Nat, n <= DataLen(rb)
  PROVE  Taken(rb, n) = SubSeq(Content(rb), 1, n)
<1>. DEFINE D == DataLen(rb)
<1>1. /\ Size \in Nat \ {0} /\ D \in Nat /\ D <= Size /\ n <= D
      /\ rb.ri \in Nat /\ rb.ri < Size /\ rb.buf \in [Cell -> Byte]
  BY RingAssumption, LengthIs DEF Ordered, RingType, Cell
<1>2. /\ Content(rb) \in Seq(Byte) /\ Len(Content(rb)) = D
      /\ \A k \in 1..D : Content(rb)[k] = rb.buf[CellOf(rb.ri + k - 1)]
  BY ContentIs DEF D
<1>. HIDE DEF D
<1>3. PICK l, o : l = SubSeq(Content(rb), o, n) /\ o = 1
  OBVIOUS
<1>4. /\ l \in Seq(Byte) /\ Len(l) = n
      /\ \A k \in 1..n : l[k] = rb.buf[CellOf(rb.ri + k - 1)]
  <2>1. o \in Nat \ {0} /\ o <= n + 1
    BY <1>1, <1>3
  <2>2. /\ l \in Seq(Byte) /\ Len(l) = n - o + 1
        /\ \A k \in 1..(n - o + 1) : l[k] = Content(rb)[o + k - 1]
    BY <1>1, <1>2, <1>3, <2>1, Part
  <2>3. n - o + 1 = n /\ \A k \in 1..n : o + k - 1 = k /\ k \in 1..D
    BY <1>1, <1>3
  <2>. QED  BY <1>2, <2>2, <2>3
<1>5. CASE ~Wraps(rb.ri, n)
  <2>1. rb.ri + n < Size
    BY <1>1, <1>5 DEF Wraps
  <2>2. Taken(rb, n) = [k \in 1..n |-> rb.buf[rb.ri + k - 1]]
    BY <1>5 DEF Taken, CopyOut
  <2>3. ASSUME NEW k \in 1..n
        PROVE  CellOf(rb.ri + k - 1) = rb.ri + k - 1 /\ rb.buf[rb.ri + k - 1] \in Byte
    <3>1. rb.ri + k - 1 \in Cell
      BY <1>1, <2>1 DEF Cell
    <3>. QED  BY <1>1, <2>1, <3>1 DEF CellOf
  <2>4. /\ Taken(rb, n) \in Seq(Byte) /\ Len(Taken(rb, n)) = n
        /\ \A k \in 1..n : Taken(rb, n)[k] = rb.buf[rb.ri + k - 1]
    <3>1. Taken(rb, n) \in [1..n -> Byte]
      BY <2>2, <2>3
    <3>2. Taken(rb, n) \in Seq(Byte) /\ Len(Taken(rb, n)) = n
      BY <3>1, ListOf
    <3>. QED  BY <2>2, <3>2
  <2>5. \A k \in 1..n : Taken(rb, n)[k] = l[k]
    BY <1>4, <2>3, <2>4
  <2>6. Taken(rb, n) = l
    BY <1>4, <2>4, <2>5, SameSeq
  <2>. QED  BY <1>3, <2>6
<1>6. CASE Wraps(rb.ri, n)
  <2>. DEFINE r == Size - rb.ri
  <2>1. r \in Nat /\ r <= n /\ n - r \in Nat /\ n - r <= Size
    BY <1>1, <1>6 DEF Wraps
  <2>2. PICK a, b : /\ a = [k \in 1..r |-> rb.buf[rb.ri + k - 1]]
                    /\ b = [k \in 1..(n - r) |-> rb.buf[0 + k - 1]]
    OBVIOUS
  <2>3. Taken(rb, n) = a \o b
    BY <1>6, <2>2 DEF Taken, CopyOut
  <2>4. ASSUME NEW k \in 1..r
        PROVE  CellOf(rb.ri + k - 1) = rb.ri + k - 1 /\ rb.buf[rb.ri + k - 1] \in Byte
    <3>1. rb.ri + k - 1 \in Cell /\ rb.ri + k - 1 < Size
      BY <1>1 DEF Cell
    <3>. QED  BY <1>1, <3>1 DEF CellOf
  <2>5. ASSUME NEW k \in 1..(n - r)
        PROVE  CellOf(rb.ri + (k + r) - 1) = 0 + k - 1 /\ rb.buf[0 + k - 1] \in Byte
    <3>1. 0 + k - 1 \in Cell
      BY <1>1, <2>1 DEF Cell
    <3>. QED  BY <1>1, <2>1, <3>1 DEF CellOf
  <2>6. r + (n - r) = n
    BY <1>1
  <2>. HIDE DEF r
  <2>7. /\ a \in Seq(Byte) /\ Len(a) = r /\ \A k \in 1..r : a[k] = rb.buf[rb.ri + k - 1]
        /\ b \in Seq(Byte) /\ Len(b) = n - r
        /\ \A k \in 1..(n - r) : b[k] = rb.buf[0 + k - 1]
    <3>1. a \in [1..r -> Byte] /\ b \in [1..(n - r) -> Byte]
      BY <2>2, <2>4, <2>5
    <3>2. a \in Seq(Byte) /\ Len(a) = r
      BY <2>1, <3>1, ListOf
    <3>3. b \in Seq(Byte) /\ Len(b) = n - r
      <4>1. PICK q : q = n - r
        OBVIOUS
      <4>2. q \in Nat /\ b \in [1..q -> Byte]
        BY <2>1, <3>1, <4>1
      <4>3. b \in Seq(Byte) /\ Len(b) = q
        BY <4>2, ListOf
      <4>. QED  BY <4>1, <4>3
    <3>. QED  BY <2>2, <3>2, <3>3
  <2>8. /\ a \o b \in Seq(Byte) /\ Len(a \o b) = n
        /\ \A k \in 1..n : (a \o b)[k] = IF k <= r THEN a[k] ELSE b[k - r]
    BY <2>6, <2>7, Joined
  <2>9. ASSUME NEW k \in 1..n
        PROVE  (a \o b)[k] = l[k]
    <3>1. CASE k <= r
      <4>1. k \in 1..r
        BY <2>1, <3>1
      <4>2. (a \o b)[k] = a[k] /\ a[k] = rb.buf[rb.ri + k - 1]
        BY <2>7, <2>8, <3>1, <4>1
      <4>3. l[k] = rb.buf[rb.ri + k - 1]
        BY <1>4, <2>4, <4>1
      <4>. QED  BY <4>2, <4>3
    <3>2. CASE k > r
      <4>1. k - r \in 1..(n - r) /\ (k - r) + r = k
        BY <1>1, <2>1, <3>2
      <4>2. (a \o b)[k] = b[k - r]
        BY <2>1, <2>8, <3>2
      <4>3. b[k - r] = rb.buf[0 + (k - r) - 1]
        BY <2>7, <4>1
      <4>4. rb.ri + k - 1 = rb.ri + ((k - r) + r) - 1
        BY <4>1
      <4>5. l[k] = rb.buf[CellOf(rb.ri + ((k - r) + r) - 1)]
        BY <1>4, <4>4
      <4>6. l[k] = rb.buf[0 + (k - r) - 1]
        BY <2>5, <4>1, <4>5
      <4>. QED  BY <4>2, <4>3, <4>6
    <3>3. k <= r \/ k > r
      BY <2>1
    <3>. QED  BY <3>1, <3>2, <3>3, Zenon
  <2>10. a \o b = l
    BY <1>4, <2>8, <2>9, SameSeq
  <2>. QED  BY <1>3, <2>3, <2>10
<1>. QED  BY <1>5, <1>6

\* The position after a get, and after a character read.
LEMMA ConsumedIs ==
  ASSUME NEW rb \in RingType, NEW n \in Nat, n <= Size, NEW g, g = Consumed(rb, n)
  PROVE  ReadOff(g, rb, n)
<1>1. PICK a \in {0, 1}, b \in Cell, c \in {0, 1}, d \in Cell, e \in [Cell -> Byte] :
        /\ rb = RingOf(a, b, c, d, e)
        /\ rb.rm = a /\ rb.ri = b /\ rb.wm = c /\ rb.wi = d /\ rb.buf = e
  BY Fields
<1>2. Size \in Nat \ {0} /\ b \in Nat /\ b < Size
  BY RingAssumption DEF Cell
<1>3. PICK x, y : x = CellOf(b + n) /\ y = IF Wraps(b, n) THEN 1 - a ELSE a
  OBVIOUS
<1>4. x \in Cell /\ y \in {0, 1}
  BY <1>2, <1>3 DEF CellOf, Cell
<1>5. g = RingOf(y, x, c, d, e)
  <2>1. CASE ~Wraps(b, n)
    <3>1. g = [rb EXCEPT !.ri = b + n] /\ x = b + n
      BY <1>1, <1>2, <1>3, <2>1 DEF Consumed, CellOf, Wraps
    <3>. QED  BY <1>1, <1>3, <2>1, <3>1 DEF RingOf
  <2>2. CASE Wraps(b, n)
    <3>1. g = [[rb EXCEPT !.rm = 1 - a] EXCEPT !.ri = n - (Size - b)]
      BY <1>1, <2>2 DEF Consumed
    <3>2. x = n - (Size - b)
      BY <1>2, <1>3, <2>2 DEF CellOf, Wraps
    <3>. QED  BY <1>1, <1>3, <2>2, <3>1, <3>2 DEF RingOf
  <2>. QED  BY <2>1, <2>2
<1>6. /\ g \in RingType
      /\ g.rm = y /\ g.ri = x /\ g.wm = c /\ g.wi = d /\ g.buf = e
  BY <1>4, <1>5, RingIs
<1>. QED  BY <1>1, <1>3, <1>6 DEF ReadOff

\* A character read moves the read position on by one.
LEMMA NextCharIs ==
  ASSUME NEW rb \in RingType, NEW g, g = NextChar(rb)
  PROVE  ReadOff(g, rb, 1)
<1>1. PICK a \in {0, 1}, b \in Cell, c \in {0, 1}, d \in Cell, e \in [Cell -> Byte] :
        /\ rb = RingOf(a, b, c, d, e)
        /\ rb.rm = a /\ rb.ri = b /\ rb.wm = c /\ rb.wi = d /\ rb.buf = e
  BY Fields
<1>2. Size \in Nat \ {0} /\ b \in Nat /\ b < Size
  BY RingAssumption DEF Cell
<1>3. PICK x, y : x = Step(b) /\ y = Flip(a, b)
  OBVIOUS
<1>4. x \in Cell /\ y \in {0, 1} /\ x = CellOf(b + 1) /\ y = IF Wraps(b, 1) THEN 1 - a ELSE a
  BY <1>2, <1>3 DEF CellOf, Cell, Step, Flip, Wraps
<1>5. g = [[rb EXCEPT !.ri = x] EXCEPT !.rm = y]
  BY <1>1, <1>3 DEF NextChar
<1>6. g = RingOf(y, x, c, d, e)
  BY <1>1, <1>5 DEF RingOf
<1>7. /\ g \in RingType
      /\ g.rm = y /\ g.ri = x /\ g.wm = c /\ g.wi = d /\ g.buf = e
  BY <1>4, <1>6, RingIs
<1>. QED  BY <1>1, <1>4, <1>7 DEF ReadOff

\* An empty ring.
LEMMA ClearedIs ==
  ASSUME NEW rb \in RingType, NEW g, g = Cleared(rb)
  PROVE  Ordered(g) /\ Content(g) = << >>
<1>1. PICK a \in {0, 1}, b \in Cell, c \in {0, 1}, d \in Cell, e \in [Cell -> Byte] :
        /\ rb = RingOf(a, b, c, d, e)
        /\ rb.rm = a /\ rb.ri = b /\ rb.wm = c /\ rb.wi = d /\ rb.buf = e
  BY Fields
<1>2. g = RingOf(0, 0, 0, 0, e)
  BY <1>1 DEF Cleared, RingOf
<1>3. 0 \in Cell
  BY RingAssumption DEF Cell
<1>4. /\ g \in RingType
      /\ g.rm = 0 /\ g.ri = 0 /\ g.wm = 0 /\ g.wi = 0 /\ g.buf = e
  BY <1>2, <1>3, RingIs
<1>5. Ordered(g)
  BY <1>4 DEF Ordered, MirrorOrdered
<1>6. DataLen(g) = 0
  BY <1>4 DEF DataLen
<1>. QED  BY <1>5, <1>6, ContentIs

-----------------------------------------------------------------------------
(* Each operation is one of the queue, on the content of the ring.          *)

\* Nothing is left out of a sequence that is short enough.
LEMMA WholeIs ==
  ASSUME NEW s \in Seq(Byte), NEW n \in Nat, Len(s) <= n
  PROVE  QueueView!First(s, n) = s /\ QueueView!Last(s, n) = s
<1>1. QueueView!Smaller(n, Len(s)) = Len(s) /\ Len(s) - Len(s) + 1 = 1
  BY DEF QueueView!Smaller
<1>2. SubSeq(s, 1, Len(s)) = s
  OBVIOUS
<1>. QED  BY <1>1, <1>2 DEF QueueView!First, QueueView!Last

\* The first bytes of c and s: all of c, and of s what still fits.
LEMMA FirstOfJoin ==
  ASSUME NEW c \in Seq(Byte), NEW s \in Seq(Byte), NEW n \in Nat, NEW r \in Nat,
         Len(c) + r = n, r < Len(s)
  PROVE  QueueView!First(c \o s, n) = c \o SubSeq(s, 1, r)
<1>1. PICK all, a, b, o : /\ all = c \o s /\ a = SubSeq(all, o, n) /\ b = SubSeq(s, o, r)
                          /\ o = 1
  OBVIOUS
<1>2. /\ all \in Seq(Byte) /\ Len(all) = Len(c) + Len(s)
      /\ \A k \in 1..(Len(c) + Len(s)) : all[k] = IF k <= Len(c) THEN c[k] ELSE s[k - Len(c)]
  BY <1>1, Joined
<1>3. QueueView!First(all, n) = a
  BY <1>1, <1>2 DEF QueueView!First, QueueView!Smaller
<1>4. /\ a \in Seq(Byte) /\ Len(a) = n /\ \A k \in 1..n : a[k] = all[k]
  <2>1. o \in Nat \ {0} /\ o <= n + 1 /\ n <= Len(all)
    BY <1>1, <1>2
  <2>2. /\ a \in Seq(Byte) /\ Len(a) = n - o + 1
        /\ \A k \in 1..(n - o + 1) : a[k] = all[o + k - 1]
    BY <1>1, <1>2, <2>1, Part
  <2>3. n - o + 1 = n /\ \A k \in 1..n : o + k - 1 = k
    BY <1>1
  <2>. QED  BY <2>2, <2>3
<1>5. /\ b \in Seq(Byte) /\ Len(b) = r /\ \A k \in 1..r : b[k] = s[k]
  <2>1. o \in Nat \ {0} /\ o <= r + 1 /\ r <= Len(s)
    BY <1>1
  <2>2. /\ b \in Seq(Byte) /\ Len(b) = r - o + 1
        /\ \A k \in 1..(r - o + 1) : b[k] = s[o + k - 1]
    BY <1>1, <2>1, Part
  <2>3. r - o + 1 = r /\ \A k \in 1..r : o + k - 1 = k
    BY <1>1
  <2>. QED  BY <2>2, <2>3
<1>6. /\ c \o b \in Seq(Byte) /\ Len(c \o b) = Len(c) + r
      /\ \A k \in 1..(Len(c) + r) : (c \o b)[k] = IF k <= Len(c) THEN c[k] ELSE b[k - Len(c)]
  BY <1>5, Joined
<1>7. ASSUME NEW k \in 1..n
      PROVE  a[k] = (c \o b)[k]
  <2>1. k \in 1..(Len(c) + Len(s)) /\ k \in 1..(Len(c) + r)
    OBVIOUS
  <2>2. a[k] = IF k <= Len(c) THEN c[k] ELSE s[k - Len(c)]
    BY <1>2, <1>4, <2>1
  <2>3. ~(k <= Len(c)) => b[k - Len(c)] = s[k - Len(c)]
    <3>1. ~(k <= Len(c)) => k - Len(c) \in 1..r
      BY <2>1
    <3>. QED  BY <1>5, <3>1
  <2>. QED  BY <1>6, <2>1, <2>2, <2>3
<1>8. a = c \o b
  BY <1>4, <1>6, <1>7, SameSeq
<1>. QED  BY <1>1, <1>3, <1>8

\* The last bytes of c and s, when those of s are enough.
LEMMA LastOfJoin ==
  ASSUME NEW c \in Seq(Byte), NEW s \in Seq(Byte), NEW n \in Nat, n <= Len(s)
  PROVE  QueueView!Last(c \o s, n) = SubSeq(s, Len(s) - n + 1, Len(s))
<1>0. PICK x, y : x = Len(s) /\ y = Len(c) + x
  OBVIOUS
<1>9. PICK o, m : o = x - n + 1 /\ m = y - n + 1
  OBVIOUS
<1>10. PICK all, a, b : all = c \o s /\ a = SubSeq(all, m, y) /\ b = SubSeq(s, o, x)
  OBVIOUS
<1>1. /\ all = c \o s /\ a = SubSeq(all, m, y) /\ b = SubSeq(s, o, x)
      /\ x = Len(s) /\ y = Len(c) + x /\ o = x - n + 1 /\ m = y - n + 1
  BY <1>0, <1>9, <1>10
<1>2. /\ all \in Seq(Byte) /\ Len(all) = y /\ x \in Nat /\ Len(c) \in Nat /\ y \in Nat
      /\ \A k \in 1..y : all[k] = IF k <= Len(c) THEN c[k] ELSE s[k - Len(c)]
  BY <1>1, Joined
<1>3. QueueView!Last(all, n) = a
  <2>1. QueueView!Smaller(n, Len(all)) = n
    BY <1>1, <1>2 DEF QueueView!Smaller
  <2>. QED  BY <1>1, <1>2, <2>1 DEF QueueView!Last
<1>4. /\ a \in Seq(Byte) /\ Len(a) = n /\ \A k \in 1..n : a[k] = all[m + k - 1]
  <2>1. m \in Nat \ {0} /\ m <= y + 1 /\ y <= Len(all) /\ y - m + 1 = n
    BY <1>1, <1>2
  <2>2. /\ a \in Seq(Byte) /\ Len(a) = y - m + 1
        /\ \A k \in 1..(y - m + 1) : a[k] = all[m + k - 1]
    <3>1. all \in Seq(Byte) /\ y \in Nat /\ a = SubSeq(all, m, y)
      BY <1>2, <1>10
    <3>. QED  BY <2>1, <3>1, Part
  <2>. QED  BY <2>1, <2>2
<1>5. /\ b \in Seq(Byte) /\ Len(b) = n /\ \A k \in 1..n : b[k] = s[o + k - 1]
  <2>1. o \in Nat \ {0} /\ o <= x + 1 /\ x <= Len(s) /\ x - o + 1 = n
    BY <1>1, <1>2
  <2>2. /\ b \in Seq(Byte) /\ Len(b) = x - o + 1
        /\ \A k \in 1..(x - o + 1) : b[k] = s[o + k - 1]
    BY <1>1, <1>2, <2>1, Part
  <2>. QED  BY <2>1, <2>2
<1>6. ASSUME NEW k \in 1..n
      PROVE  a[k] = b[k]
  <2>1. /\ m + k - 1 \in 1..y /\ ~(m + k - 1 <= Len(c))
        /\ (m + k - 1) - Len(c) = o + k - 1
    BY <1>1, <1>2
  <2>2. all[m + k - 1] = s[(m + k - 1) - Len(c)]
    BY <1>2, <2>1
  <2>. QED  BY <1>4, <1>5, <2>1, <2>2
<1>7. a = b
  BY <1>4, <1>5, <1>6, SameSeq
<1>. QED  BY <1>1, <1>3, <1>7

\* A put keeps the bytes that fit.
LEMMA PutIs ==
  ASSUME NEW rb, Ordered(rb), NEW s \in Seq(Byte), NEW g, g = Put(rb, s)
  PROVE  Ordered(g) /\ Content(g) = QueueView!First(Content(rb) \o s, Size)
<1>1. PICK c, D, room : c = Content(rb) /\ D = DataLen(rb) /\ room = Size - D
  OBVIOUS
<1>2. /\ Size \in Nat \ {0} /\ D \in Nat /\ D <= Size /\ room \in Nat /\ D + room = Size
      /\ c \in Seq(Byte) /\ Len(c) = D /\ rb \in RingType /\ Len(s) \in Nat
  BY <1>1, RingAssumption, LengthIs, ContentIs DEF Ordered
<1>3. g = IF room = 0 THEN rb ELSE Write(rb, IF room < Len(s) THEN SubSeq(s, 1, room) ELSE s)
  BY <1>1 DEF Put, SpaceLen
<1>4. c \o s \in Seq(Byte) /\ Len(c \o s) = D + Len(s)
  BY <1>2, Joined
<1>5. CASE ~(room < Len(s))
  <2>1. QueueView!First(c \o s, Size) = c \o s
    <3>1. PICK all : all = c \o s
      OBVIOUS
    <3>2. all \in Seq(Byte) /\ Len(all) <= Size /\ Size \in Nat
      BY <1>2, <1>4, <1>5, <3>1
    <3>. QED  BY <3>1, <3>2, WholeIs
  <2>2. CASE room = 0
    <3>1. s = << >>
      BY <1>2, <1>5, <2>2
    <3>2. c \o s = c
      BY <1>2, <3>1
    <3>. QED  BY <1>1, <1>3, <2>1, <2>2, <3>2
  <2>3. CASE room # 0
    <3>1. g = Write(rb, s)
      BY <1>3, <1>5, <2>3
    <3>2. Len(s) <= Size
      BY <1>2, <1>5
    <3>3. Wrote(g, rb, s)
      BY <1>2, <3>1, <3>2, WriteWrites
    <3>4. Ordered(g) /\ Content(g) = Content(rb) \o s
      <4>1. DataLen(rb) + Len(s) <= Size
        BY <1>1, <1>2, <1>5
      <4>. QED  BY <3>3, <4>1, Appended
    <3>. QED  BY <1>1, <2>1, <3>4
  <2>. QED  BY <2>2, <2>3
<1>6. CASE room < Len(s)
  <2>1. PICK p : p = SubSeq(s, 1, room)
    OBVIOUS
  <2>2. QueueView!First(c \o s, Size) = c \o p
    BY <1>2, <1>6, <2>1, FirstOfJoin
  <2>3. p \in Seq(Byte) /\ Len(p) = room
    BY <1>2, <1>6, <2>1
  <2>4. CASE room = 0
    <3>1. p = << >>
      BY <2>3, <2>4
    <3>2. c \o p = c
      BY <1>2, <3>1
    <3>. QED  BY <1>1, <1>3, <2>2, <2>4, <3>2
  <2>5. CASE room # 0
    <3>1. g = Write(rb, p)
      BY <1>3, <1>6, <2>1, <2>5
    <3>2. Len(p) <= Size
      BY <1>2, <2>3
    <3>3. Wrote(g, rb, p)
      BY <1>2, <2>3, <3>1, <3>2, WriteWrites
    <3>4. Ordered(g) /\ Content(g) = Content(rb) \o p
      <4>1. DataLen(rb) + Len(p) <= Size
        BY <1>1, <1>2, <2>3
      <4>. QED  BY <2>3, <3>3, <4>1, Appended
    <3>. QED  BY <1>1, <2>2, <3>4
  <2>. QED  BY <2>4, <2>5
<1>. QED  BY <1>5, <1>6

\* A character put is a put of one byte.
LEMMA PutCharPuts ==
  ASSUME NEW rb, Ordered(rb), NEW c0 \in Byte, NEW g, g = PutChar(rb, c0)
  PROVE  Ordered(g) /\ Content(g) = QueueView!First(Content(rb) \o <<c0>>, Size)
<1>1. PICK c, D, s : c = Content(rb) /\ D = DataLen(rb) /\ s = <<c0>>
  OBVIOUS
<1>2. /\ Size \in Nat \ {0} /\ D \in Nat /\ D <= Size
      /\ c \in Seq(Byte) /\ Len(c) = D /\ rb \in RingType
      /\ s \in Seq(Byte) /\ Len(s) = 1
  BY <1>1, RingAssumption, LengthIs, ContentIs DEF Ordered
<1>3. g = IF Size - D = 0 THEN rb ELSE Store(rb, c0)
  BY <1>1 DEF PutChar, SpaceLen
<1>4. CASE D = Size
  <2>1. 0 \in Nat /\ Len(c) + 0 = Size /\ 0 < Len(s)
    BY <1>2, <1>4
  <2>2. QueueView!First(c \o s, Size) = c \o SubSeq(s, 1, 0)
    <3>1. PICK r : r = 0
      OBVIOUS
    <3>2. r \in Nat /\ Len(c) + r = Size /\ r < Len(s) /\ Size \in Nat
      BY <1>2, <1>4, <3>1
    <3>3. QueueView!First(c \o s, Size) = c \o SubSeq(s, 1, r)
      <4>1. c \in Seq(Byte) /\ s \in Seq(Byte)
        BY <1>2
      <4>. QED  BY <3>2, <4>1, FirstOfJoin
    <3>. QED  BY <3>1, <3>3
  <2>3. SubSeq(s, 1, 0) = << >>
    BY <1>2
  <2>4. c \o << >> = c
    BY <1>2
  <2>. QED  BY <1>1, <1>2, <1>3, <1>4, <2>2, <2>3, <2>4
<1>5. CASE D # Size
  <2>1. g = Store(rb, c0)
    BY <1>2, <1>3, <1>5
  <2>2. Wrote(g, rb, s)
    BY <1>1, <1>2, <2>1, StoreWrites
  <2>3. Ordered(g) /\ Content(g) = Content(rb) \o s
    <3>1. DataLen(rb) + Len(s) <= Size
      BY <1>1, <1>2, <1>5
    <3>. QED  BY <1>2, <2>2, <3>1, Appended
  <2>4. QueueView!First(c \o s, Size) = c \o s
    <3>1. c \o s \in Seq(Byte) /\ Len(c \o s) <= Size
      BY <1>2, <1>5, Joined
    <3>. QED  BY <1>2, <3>1, WholeIs
  <2>. QED  BY <1>1, <2>3, <2>4
<1>. QED  BY <1>4, <1>5

\* A forced put of s that leaves g: the newest bytes are kept, or none when the
\* unread ones did not run across the end of the buffer.
Forced(g, rb, s) ==
  /\ Ordered(g)
  /\ \/ Content(g) = QueueView!Last(Content(rb) \o s, Size)
     \/ Content(g) = << >> /\ DataLen(rb) + Len(s) > Size
  /\ Content(g) = << >> /\ s # << >> => rb.rm = rb.wm

\* A write that overwrites moves the read position, another does not.
LEMMA Forces ==
  ASSUME NEW rb, Ordered(rb), NEW s \in Seq(Byte), Len(s) <= Size,
         NEW w, Wrote(w, rb, s), NEW g,
         DataLen(rb) + Len(s) <= Size => g = w,
         DataLen(rb) + Len(s) > Size => Followed(g, w, rb, s)
  PROVE  Forced(g, rb, s)
<1>1. PICK c, D : c = Content(rb) /\ D = DataLen(rb)
  OBVIOUS
<1>2. /\ Size \in Nat \ {0} /\ D \in Nat /\ D <= Size /\ Len(s) \in Nat
      /\ c \in Seq(Byte) /\ Len(c) = D
  BY <1>1, RingAssumption, LengthIs, ContentIs
<1>3. PICK all : all = c \o s
  OBVIOUS
<1>4. all \in Seq(Byte) /\ Len(all) = D + Len(s)
  BY <1>2, <1>3, Joined
<1>5. CASE D + Len(s) <= Size
  <2>1. Ordered(g) /\ Content(g) = all
    BY <1>1, <1>3, <1>5, Appended
  <2>2. QueueView!Last(all, Size) = all
    BY <1>2, <1>4, <1>5, WholeIs
  <2>3. all = << >> => s = << >>
    BY <1>2, <1>4
  <2>. QED  BY <1>1, <1>3, <2>1, <2>2, <2>3 DEF Forced
<1>6. CASE D + Len(s) > Size
  <2>1. /\ Ordered(g)
        /\ rb.rm = rb.wm => Content(g) = << >>
        /\ rb.rm # rb.wm => Content(g) = QueueView!Last(Content(rb) \o s, Size)
    <3>1. DataLen(rb) + Len(s) > Size /\ Followed(g, w, rb, s)
      BY <1>1, <1>6
    <3>. QED  BY <3>1, Overwritten
  <2>2. rb.rm # rb.wm => Content(g) # << >>
    <3>1. SUFFICES ASSUME rb.rm # rb.wm PROVE Content(g) # << >>
      OBVIOUS
    <3>2. PICK l : l = QueueView!Last(all, Size)
      OBVIOUS
    <3>3. Content(g) = l
      BY <1>1, <1>3, <2>1, <3>1, <3>2
    <3>4. l = SubSeq(all, (D + Len(s)) - Size + 1, D + Len(s))
      <4>1. QueueView!Smaller(Size, Len(all)) = Size
        BY <1>2, <1>4, <1>6 DEF QueueView!Smaller
      <4>. QED  BY <1>4, <3>2, <4>1 DEF QueueView!Last
    <3>5. PICK m, n : m = (D + Len(s)) - Size + 1 /\ n = D + Len(s)
      OBVIOUS
    <3>6. m \in Nat \ {0} /\ n \in Nat /\ m <= n + 1 /\ n <= Len(all) /\ n - m + 1 = Size
      BY <1>2, <1>4, <1>6, <3>5
    <3>7. l = SubSeq(all, m, n)
      BY <3>4, <3>5
    <3>8. Len(l) = n - m + 1
      BY <1>4, <3>6, <3>7, Part
    <3>. QED  BY <1>2, <3>3, <3>6, <3>8
  <2>. QED  BY <1>1, <1>6, <2>1, <2>2 DEF Forced
<1>. QED  BY <1>2, <1>5, <1>6

\* The read position set after the write.
LEMMA FollowedIs ==
  ASSUME NEW rb \in RingType, NEW s, NEW w, Wrote(w, rb, s), NEW y, NEW g,
         y = IF Wraps(rb.wi, Len(s)) THEN 1 - rb.rm ELSE rb.rm,
         g = RingOf(y, w.wi, w.wm, w.wi, w.buf)
  PROVE  Followed(g, w, rb, s)
<1>1. w \in RingType /\ w.rm = rb.rm /\ rb.rm \in {0, 1}
  BY RingFields DEF Wrote
<1>2. w.wm \in {0, 1} /\ w.wi \in Cell /\ w.buf \in [Cell -> Byte] /\ y \in {0, 1}
  BY <1>1, RingFields
<1>3. PICK a, b, e : a = w.wm /\ b = w.wi /\ e = w.buf
  OBVIOUS
<1>4. /\ g \in RingType
      /\ g.rm = y /\ g.ri = b /\ g.wm = a /\ g.wi = b /\ g.buf = e
  <2>1. g = RingOf(y, b, a, b, e) /\ a \in {0, 1} /\ b \in Cell /\ e \in [Cell -> Byte]
    BY <1>2, <1>3
  <2>. QED  BY <1>2, <2>1, RingIs
<1>. QED  BY <1>3, <1>4 DEF Followed

\* The two assignments that move the read position.
LEMMA Moved ==
  ASSUME NEW w \in RingType, NEW x \in Cell, NEW y \in {0, 1}
  PROVE  [[w EXCEPT !.ri = x] EXCEPT !.rm = y] = RingOf(y, x, w.wm, w.wi, w.buf)
<1>1. PICK a \in {0, 1}, b \in Cell, c \in {0, 1}, d \in Cell, e \in [Cell -> Byte] :
        /\ w = RingOf(a, b, c, d, e)
        /\ w.rm = a /\ w.ri = b /\ w.wm = c /\ w.wi = d /\ w.buf = e
  BY Fields
<1>2. PICK g : g = [[w EXCEPT !.ri = x] EXCEPT !.rm = y]
  OBVIOUS
<1>3. g = RingOf(y, x, c, d, e)
  BY <1>1, <1>2 DEF RingOf
<1>. QED  BY <1>1, <1>2, <1>3

\* rt_ringbuffer_put_force, for blocks longer than the buffer too.
LEMMA PutForceIs ==
  ASSUME NEW rb, Ordered(rb), NEW s \in Seq(Byte), NEW g, g = PutForce(rb, s)
  PROVE  Forced(g, rb, s)
<1>1. PICK c, D : c = Content(rb) /\ D = DataLen(rb)
  OBVIOUS
<1>2. /\ Size \in Nat \ {0} /\ D \in Nat /\ D <= Size /\ Len(s) \in Nat
      /\ c \in Seq(Byte) /\ Len(c) = D /\ rb \in RingType
  BY <1>1, RingAssumption, LengthIs, ContentIs DEF Ordered
<1>3. PICK kept, w : /\ kept = IF Len(s) > Size THEN SubSeq(s, Len(s) - Size + 1, Len(s)) ELSE s
                     /\ w = Write(rb, kept)
  OBVIOUS
<1>4. g = IF Len(kept) <= Size - D THEN w
          ELSE [w EXCEPT !.ri = w.wi,
                         !.rm = IF Wraps(rb.wi, Len(kept)) THEN 1 - @ ELSE @]
  BY <1>1, <1>3 DEF PutForce, SpaceLen
<1>5. /\ kept \in Seq(Byte) /\ Len(kept) \in Nat /\ Len(kept) <= Size
      /\ Len(s) > Size => Len(kept) = Size
  <2>1. CASE ~(Len(s) > Size)
    BY <1>2, <1>3, <2>1
  <2>2. CASE Len(s) > Size
    <3>1. PICK m, n : m = Len(s) - Size + 1 /\ n = Len(s)
      OBVIOUS
    <3>2. m \in Nat \ {0} /\ n \in Nat /\ m <= n + 1 /\ n <= Len(s) /\ n - m + 1 = Size
      BY <1>2, <2>2, <3>1
    <3>3. kept = SubSeq(s, m, n)
      BY <1>3, <2>2, <3>1
    <3>4. kept \in Seq(Byte) /\ Len(kept) = n - m + 1
      BY <3>2, <3>3, Part
    <3>. QED  BY <1>2, <3>2, <3>4
  <2>. QED  BY <2>1, <2>2
<1>6. Wrote(w, rb, kept)
  BY <1>2, <1>3, <1>5, WriteWrites
<1>7. D + Len(kept) <= Size => g = w
  BY <1>2, <1>4, <1>5
<1>8. D + Len(kept) > Size => Followed(g, w, rb, kept)
  <2>1. SUFFICES ASSUME D + Len(kept) > Size PROVE Followed(g, w, rb, kept)
    OBVIOUS
  <2>2. w.rm = rb.rm
    BY <1>6 DEF Wrote
  <2>3. PICK y : y = IF Wraps(rb.wi, Len(kept)) THEN 1 - rb.rm ELSE rb.rm
    OBVIOUS
  <2>4. g = [[w EXCEPT !.ri = w.wi] EXCEPT !.rm = y]
    BY <1>2, <1>4, <1>5, <2>1, <2>2, <2>3
  <2>5. w \in RingType /\ w.wi \in Cell /\ y \in {0, 1}
    BY <1>2, <1>6, <2>3, RingFields DEF Wrote
  <2>6. g = RingOf(y, w.wi, w.wm, w.wi, w.buf)
    BY <2>4, <2>5, Moved
  <2>. QED  BY <1>2, <1>6, <2>3, <2>6, FollowedIs
<1>9. Forced(g, rb, kept)
  <2>1. /\ DataLen(rb) + Len(kept) <= Size => g = w
        /\ DataLen(rb) + Len(kept) > Size => Followed(g, w, rb, kept)
    BY <1>1, <1>7, <1>8
  <2>. QED  BY <1>5, <1>6, <2>1, Forces
<1>10. CASE ~(Len(s) > Size)
  BY <1>3, <1>9, <1>10
<1>11. CASE Len(s) > Size
  <2>1. QueueView!Last(c \o s, Size) = kept
    <3>1. QueueView!Last(c \o s, Size) = SubSeq(s, Len(s) - Size + 1, Len(s))
      <4>1. c \in Seq(Byte) /\ Size \in Nat /\ Size <= Len(s)
        BY <1>2, <1>11
      <4>. QED  BY <4>1, LastOfJoin
    <3>. QED  BY <1>3, <1>11, <3>1
  <2>2. QueueView!Last(c \o kept, Size) = kept
    <3>1. Size \in Nat /\ Size <= Len(kept) /\ Len(kept) - Size + 1 = 1
      BY <1>2, <1>5, <1>11
    <3>2. QueueView!Last(c \o kept, Size) = SubSeq(kept, Len(kept) - Size + 1, Len(kept))
      <4>1. c \in Seq(Byte) /\ kept \in Seq(Byte)
        BY <1>2, <1>5
      <4>. QED  BY <3>1, <4>1, LastOfJoin
    <3>3. SubSeq(kept, 1, Len(kept)) = kept
      BY <1>5
    <3>. QED  BY <3>1, <3>2, <3>3
  <2>3. kept # << >> /\ DataLen(rb) + Len(s) > Size
    BY <1>1, <1>2, <1>5, <1>11
  <2>. QED  BY <1>1, <1>9, <2>1, <2>2, <2>3 DEF Forced
<1>. QED  BY <1>10, <1>11

\* rt_ringbuffer_putchar_force.
LEMMA PutCharForceIs ==
  ASSUME NEW rb, Ordered(rb), NEW c0 \in Byte, NEW g, g = PutCharForce(rb, c0)
  PROVE  Forced(g, rb, <<c0>>)
<1>1. PICK D, s, w : D = DataLen(rb) /\ s = <<c0>> /\ w = Store(rb, c0)
  OBVIOUS
<1>2. /\ Size \in Nat \ {0} /\ D \in Nat /\ D <= Size /\ rb \in RingType
      /\ s \in Seq(Byte) /\ Len(s) = 1 /\ rb.wi \in Nat /\ rb.wi < Size
  BY <1>1, RingAssumption, LengthIs DEF Ordered, RingType, Cell
<1>3. Wrote(w, rb, s)
  BY <1>1, <1>2, StoreWrites
<1>4. Full(rb) <=> D = Size
  <2>1. Ordered(rb) /\ RingAssumption
    BY RingAssumption
  <2>2. /\ rb.ri \in Nat /\ rb.ri < Size
        /\ D = IF rb.rm = rb.wm THEN rb.wi - rb.ri ELSE Size - (rb.ri - rb.wi)
    BY <1>1, <1>2, LengthIs DEF RingType, Cell
  <2>. QED  BY <1>2, <2>2 DEF Full
<1>5. g = IF Full(rb) THEN [w EXCEPT !.ri = w.wi, !.rm = Flip(@, rb.wi)] ELSE w
  BY <1>1 DEF PutCharForce
<1>6. DataLen(rb) + Len(s) <= Size => g = w
  BY <1>1, <1>2, <1>4, <1>5
<1>7. DataLen(rb) + Len(s) > Size => Followed(g, w, rb, s)
  <2>1. SUFFICES ASSUME DataLen(rb) + Len(s) > Size PROVE Followed(g, w, rb, s)
    OBVIOUS
  <2>2. w.rm = rb.rm
    BY <1>3 DEF Wrote
  <2>3. PICK y : y = Flip(rb.rm, rb.wi)
    OBVIOUS
  <2>4. y = IF Wraps(rb.wi, Len(s)) THEN 1 - rb.rm ELSE rb.rm
    BY <1>2, <2>3 DEF Flip, Wraps
  <2>5. g = [[w EXCEPT !.ri = w.wi] EXCEPT !.rm = y]
    BY <1>1, <1>2, <1>4, <1>5, <2>1, <2>2, <2>3
  <2>6. w \in RingType /\ w.wi \in Cell /\ y \in {0, 1}
    BY <1>2, <1>3, <2>3, RingFields DEF Wrote, Flip
  <2>7. g = RingOf(y, w.wi, w.wm, w.wi, w.buf)
    BY <2>5, <2>6, Moved
  <2>. QED  BY <1>2, <1>3, <2>4, <2>7, FollowedIs
<1>8. Forced(g, rb, s)
  <2>1. s \in Seq(Byte) /\ Len(s) <= Size
    BY <1>2
  <2>. QED  BY <1>3, <1>6, <1>7, <2>1, Forces
<1>. QED  BY <1>1, <1>8

\* A get of n bytes that hands out o and leaves g.
Got(g, o, rb, n) ==
  /\ Ordered(g) /\ o \in Seq(Byte)
  /\ o = QueueView!First(Content(rb), n)
  /\ Content(g) = QueueView!Last(Content(rb), Len(Content(rb)) - Len(o))

\* Reading off the oldest k bytes is a get, if k is what a get of n hands out.
LEMMA ReadIs ==
  ASSUME NEW rb, Ordered(rb), NEW n \in Nat, NEW k \in Nat,
         k = IF DataLen(rb) < n THEN DataLen(rb) ELSE n,
         NEW o, o = SubSeq(Content(rb), 1, k), NEW g, ReadOff(g, rb, k)
  PROVE  Got(g, o, rb, n)
<1>1. PICK c, D : c = Content(rb) /\ D = DataLen(rb)
  OBVIOUS
<1>2. D \in Nat /\ c \in Seq(Byte) /\ Len(c) = D /\ k <= D
  BY <1>1, LengthIs, ContentIs
<1>3. Ordered(g) /\ Content(g) = SubSeq(c, k + 1, D)
  <2>1. k <= DataLen(rb)
    BY <1>1, <1>2
  <2>. QED  BY <1>1, <2>1, Rest
<1>4. o \in Seq(Byte) /\ Len(o) = k
  BY <1>1, <1>2
<1>5. QueueView!First(c, n) = o
  <2>1. QueueView!Smaller(n, Len(c)) = k
    BY <1>1, <1>2 DEF QueueView!Smaller
  <2>. QED  BY <1>1, <2>1 DEF QueueView!First
<1>6. QueueView!Last(c, Len(c) - Len(o)) = SubSeq(c, k + 1, D)
  <2>1. QueueView!Smaller(Len(c) - Len(o), Len(c)) = D - k /\ Len(c) - (D - k) + 1 = k + 1
    <3>1. Len(c) - Len(o) = D - k
      BY <1>2, <1>4
    <3>2. D - k <= D /\ D - (D - k) + 1 = k + 1
      BY <1>2
    <3>3. QueueView!Smaller(D - k, D) = D - k
      BY <1>2, <3>2 DEF QueueView!Smaller
    <3>. QED  BY <1>2, <3>1, <3>2, <3>3
  <2>. QED  BY <1>2, <2>1 DEF QueueView!Last
<1>. QED  BY <1>1, <1>3, <1>4, <1>5, <1>6 DEF Got

\* rt_ringbuffer_get.
LEMMA GetIs ==
  ASSUME NEW rb, Ordered(rb), NEW n \in Nat, NEW k, k = Length(rb, n),
         NEW o, o = IF DataLen(rb) = 0 THEN << >> ELSE Taken(rb, k),
         NEW g, g = IF DataLen(rb) = 0 THEN rb ELSE Consumed(rb, k)
  PROVE  Got(g, o, rb, n)
<1>1. PICK c, D : c = Content(rb) /\ D = DataLen(rb)
  OBVIOUS
<1>2. D \in Nat /\ c \in Seq(Byte) /\ Len(c) = D /\ D <= Size /\ Size \in Nat /\ rb \in RingType
  BY <1>1, LengthIs, ContentIs, RingAssumption DEF Ordered
<1>3. /\ k = IF DataLen(rb) < n THEN DataLen(rb) ELSE n
      /\ k \in Nat /\ k <= DataLen(rb) /\ k <= Size
  BY <1>1, <1>2 DEF Length
<1>4. CASE D = 0
  <2>1. o = << >> /\ g = rb /\ c = << >>
    BY <1>1, <1>2, <1>4
  <2>2. QueueView!First(c, n) = << >>
    BY <1>2, <1>4, <2>1 DEF QueueView!First, QueueView!Smaller
  <2>3. QueueView!Last(c, Len(c) - Len(o)) = << >>
    BY <1>2, <1>4, <2>1 DEF QueueView!Last, QueueView!Smaller
  <2>4. << >> \in Seq(Byte)
    OBVIOUS
  <2>. QED  BY <1>1, <2>1, <2>2, <2>3, <2>4 DEF Got
<1>5. CASE D # 0
  <2>1. o = SubSeq(Content(rb), 1, k)
    BY <1>1, <1>3, <1>5, TakenIs
  <2>2. g = Consumed(rb, k)
    BY <1>1, <1>5
  <2>3. ReadOff(g, rb, k)
    BY <1>2, <1>3, <2>2, ConsumedIs
  <2>. QED  BY <1>3, <2>1, <2>3, ReadIs
<1>. QED  BY <1>4, <1>5

\* The oldest byte is at the read position.
LEMMA OldestIs ==
  ASSUME NEW rb, Ordered(rb), DataLen(rb) > 0
  PROVE  /\ Content(rb) \in Seq(Byte) /\ Len(Content(rb)) = DataLen(rb)
         /\ Content(rb)[1] = rb.buf[rb.ri] /\ Content(rb)[1] \in Byte
<1>1. /\ DataLen(rb) \in Nat /\ rb.ri \in Nat /\ rb.ri < Size /\ Size \in Nat
      /\ rb.buf \in [Cell -> Byte] /\ rb.ri \in Cell
  BY RingAssumption, LengthIs DEF Ordered, RingType, Cell
<1>2. 1 \in 1..DataLen(rb)
  BY <1>1
<1>3. CellOf(rb.ri + 1 - 1) = rb.ri
  BY <1>1 DEF CellOf
<1>4. /\ Content(rb) \in Seq(Byte) /\ Len(Content(rb)) = DataLen(rb)
      /\ \A k \in 1..DataLen(rb) : Content(rb)[k] = rb.buf[CellOf(rb.ri + k - 1)]
  BY ContentIs
<1>5. Content(rb)[1] = rb.buf[CellOf(rb.ri + 1 - 1)]
  BY <1>2, <1>4
<1>. QED  BY <1>1, <1>3, <1>4, <1>5

\* rt_ringbuffer_getchar of a ring that is not empty.
LEMMA GetCharIs ==
  ASSUME NEW rb, Ordered(rb), DataLen(rb) > 0, NEW g, ReadOff(g, rb, 1),
         NEW o, o = <<Content(rb)[1]>>
  PROVE  Got(g, o, rb, 1)
<1>1. PICK c, D, n : c = Content(rb) /\ D = DataLen(rb) /\ n = 1
  OBVIOUS
<1>2. D \in Nat /\ c \in Seq(Byte) /\ Len(c) = D /\ D > 0 /\ rb \in RingType
  BY <1>1, LengthIs, ContentIs DEF Ordered
<1>3. n \in Nat /\ n = IF DataLen(rb) < n THEN DataLen(rb) ELSE n
  BY <1>1, <1>2
<1>4. SubSeq(c, 1, 1) = <<c[1]>>
  <2>1. PICK l : l = SubSeq(c, n, n)
    OBVIOUS
  <2>2. n \in Nat \ {0} /\ n \in Nat /\ n <= n + 1 /\ n <= Len(c) /\ n - n + 1 = 1
    BY <1>1, <1>2
  <2>3. /\ l \in Seq(Byte) /\ Len(l) = n - n + 1
        /\ \A j \in 1..(n - n + 1) : l[j] = c[n + j - 1]
    BY <1>2, <2>1, <2>2, Part
  <2>4. Len(l) = 1 /\ l[1] = c[1]
    BY <1>1, <2>2, <2>3
  <2>5. l = <<c[1]>>
    <3>1. PICK t : t = <<c[1]>>
      OBVIOUS
    <3>2. t \in Seq(Byte) /\ Len(t) = 1 /\ t[1] = c[1]
      BY <1>2, <3>1
    <3>3. l = t
      BY <2>3, <2>4, <3>2, SameSeq
    <3>. QED  BY <3>1, <3>3
  <2>. QED  BY <1>1, <2>1, <2>5
<1>5. ReadOff(g, rb, n)
  BY <1>1
<1>6. o = SubSeq(Content(rb), 1, n)
  BY <1>1, <1>4
<1>7. Got(g, o, rb, n)
  BY <1>3, <1>5, <1>6, ReadIs
<1>. QED  BY <1>1, <1>7

-----------------------------------------------------------------------------
(* The reader without a lock.                                               *)

\* The ring as the reader has settled it (Settled), when it is at p.
Settle(rb, p) == IF p = "clear" THEN [rb EXCEPT !.rm = 1 - @] ELSE rb

\* The reader at p has not yet stored what it reads: there is a byte to read, it
\* is the one in c once fetched, and index and word are those of the ring, which
\* the indication does not change.
ReaderOK(rb, o, p, a, c, w) ==
  /\ rb \in RingType /\ Ordered(Settle(rb, p))
  /\ o \in Seq(Byte)
  /\ p \in {"idle", "address", "fetch", "test", "flip", "clear", "step"}
  /\ p # "idle" => DataLen(Settle(rb, p)) > 0
  /\ a \in Cell /\ (p = "fetch" => a = rb.ri)
  /\ c = IF p \in {"test", "flip", "clear", "step"} THEN <<Content(Settle(rb, p))[1]>>
         ELSE << >>
  /\ w # NoWord => /\ p \in {"flip", "clear", "step"}
                   /\ w = [rm |-> rb.rm, ri |-> rb.ri]
  /\ p \in {"flip", "clear"} => rb.ri = Size - 1
  /\ p = "step" => rb.ri < Size - 1

ReaderInv == ReaderOK(ring, out, pc, at, ch, word)

\* Settling touches the mirror bit of the read position only.
LEMMA SettleIs ==
  ASSUME NEW rb \in RingType, NEW p, NEW q, q = Settle(rb, p)
  PROVE  /\ q \in RingType /\ q.ri = rb.ri /\ q.wm = rb.wm /\ q.wi = rb.wi /\ q.buf = rb.buf
         /\ q.rm = IF p = "clear" THEN 1 - rb.rm ELSE rb.rm
<1>1. PICK a \in {0, 1}, b \in Cell, c \in {0, 1}, d \in Cell, e \in [Cell -> Byte] :
        /\ rb = RingOf(a, b, c, d, e)
        /\ rb.rm = a /\ rb.ri = b /\ rb.wm = c /\ rb.wi = d /\ rb.buf = e
  BY Fields
<1>2. CASE p = "clear"
  <2>1. PICK x \in {0, 1} : x = 1 - a
    OBVIOUS
  <2>2. q = [rb EXCEPT !.rm = x]
    BY <1>1, <1>2, <2>1 DEF Settle
  <2>3. q = RingOf(x, b, c, d, e)
    BY <1>1, <2>2 DEF RingOf
  <2>4. /\ q \in RingType
        /\ q.rm = x /\ q.ri = b /\ q.wm = c /\ q.wi = d /\ q.buf = e
    BY <2>3, RingIs
  <2>. QED  BY <1>1, <1>2, <2>1, <2>4
<1>3. CASE p # "clear"
  BY <1>3 DEF Settle
<1>. QED  BY <1>2, <1>3

\* What the indication writes goes behind what the reader has not read.
LEMMA Received ==
  ASSUME NEW rb \in RingType, NEW p, NEW q, q = Settle(rb, p), Ordered(q),
         DataLen(q) < Size, p # "idle" => DataLen(q) > 0,
         NEW s, NEW c0 \in Byte, s = <<c0>>, NEW g, g = PutForce(rb, s),
         NEW h, h = Settle(g, p)
  PROVE  /\ g \in RingType /\ g.rm = rb.rm /\ g.ri = rb.ri
         /\ Ordered(h) /\ Content(h) = Content(q) \o s /\ DataLen(h) = DataLen(q) + 1
<1>1. /\ q.ri = rb.ri /\ q.wm = rb.wm /\ q.wi = rb.wi /\ q.buf = rb.buf
      /\ q.rm = IF p = "clear" THEN 1 - rb.rm ELSE rb.rm
      /\ q \in RingType
  BY SettleIs
<1>2. /\ Size \in Nat \ {0} /\ s \in Seq(Byte) /\ Len(s) = 1 /\ DataLen(q) \in Nat
      /\ rb.rm \in {0, 1} /\ rb.wm \in {0, 1} /\ rb.ri \in Nat /\ rb.wi \in Nat
      /\ rb.wi < Size /\ rb.ri < Size
  BY RingAssumption, RingFields, LengthIs DEF Cell
<1>3. DataLen(rb) = DataLen(q)
  <2>1. CASE p # "clear"
    BY <2>1 DEF Settle
  <2>2. CASE p = "clear"
    <3>1. rb.ri # rb.wi
      BY <1>1, <1>2, <2>2 DEF DataLen
    <3>. QED  BY <1>1, <3>1 DEF DataLen
  <2>. QED  BY <2>1, <2>2
<1>4. g = Write(rb, s)
  <2>1. ~(Len(s) > Size) /\ Len(s) <= SpaceLen(rb)
    BY <1>2, <1>3 DEF SpaceLen
  <2>. QED  BY <2>1 DEF PutForce
<1>5. Wrote(g, rb, s)
  <2>1. Len(s) <= Size
    BY <1>2
  <2>. QED  BY <1>2, <1>4, <2>1, WriteWrites
<1>6. /\ g \in RingType /\ g.rm = rb.rm /\ g.ri = rb.ri
      /\ g.wi = CellOf(rb.wi + Len(s))
      /\ g.wm = IF Wraps(rb.wi, Len(s)) THEN 1 - rb.wm ELSE rb.wm
      /\ \A i \in Cell : g.buf[i] = IF Ahead(rb.wi, i) < Len(s) THEN s[Ahead(rb.wi, i) + 1]
                                    ELSE rb.buf[i]
  BY <1>5 DEF Wrote
<1>7. /\ h.ri = g.ri /\ h.wm = g.wm /\ h.wi = g.wi /\ h.buf = g.buf
      /\ h.rm = IF p = "clear" THEN 1 - g.rm ELSE g.rm
      /\ h \in RingType
  BY <1>6, SettleIs
<1>8. Wrote(h, q, s)
  <2>1. h \in RingType /\ h.rm = q.rm /\ h.ri = q.ri
    BY <1>1, <1>6, <1>7
  <2>2. /\ h.wi = CellOf(q.wi + Len(s))
        /\ h.wm = IF Wraps(q.wi, Len(s)) THEN 1 - q.wm ELSE q.wm
    BY <1>1, <1>6, <1>7
  <2>3. \A i \in Cell : h.buf[i] = IF Ahead(q.wi, i) < Len(s) THEN s[Ahead(q.wi, i) + 1]
                                   ELSE q.buf[i]
    BY <1>1, <1>6, <1>7
  <2>. QED  BY <2>1, <2>2, <2>3 DEF Wrote
<1>9. Ordered(h) /\ Content(h) = Content(q) \o s
  <2>1. DataLen(q) + Len(s) <= Size
    BY <1>2
  <2>. QED  BY <1>2, <1>8, <2>1, Appended
<1>10. DataLen(h) = DataLen(q) + 1
  <2>1. /\ Content(q) \in Seq(Byte) /\ Len(Content(q)) = DataLen(q)
        /\ Len(Content(h)) = DataLen(h)
    BY <1>9, ContentIs
  <2>2. Len(Content(q) \o s) = DataLen(q) + 1
    BY <1>2, <2>1
  <2>. QED  BY <1>9, <2>1, <2>2
<1>. QED  BY <1>6, <1>9, <1>10

-----------------------------------------------------------------------------
(* The steps.                                                               *)

\* The step is one of the queue, and one that leaves nothing of a forced put
\* found the unread bytes on one side of the mirror.
Refines ==
  /\ QueueView!LossyNext \/ UNCHANGED QueueView!vars
  /\ LosesAll' /\ ~LosesAll => ring.rm = ring.wm

\* A masked call leaves the reader idle.
LEMMA MaskedKeeps ==
  ASSUME ReaderInv, pc = "idle", UNCHANGED <<pc, at, ch, word>>,
         Ordered(ring'), out' \in Seq(Byte)
  PROVE  ReaderInv'
<1>1. ReaderOK(ring', out', pc, at, ch, word)
  BY DEF ReaderInv, ReaderOK, Settle, Ordered
<1>. QED  BY <1>1 DEF ReaderInv

\* An idle reader has nothing to settle.
LEMMA AtRest ==
  ASSUME pc = "idle", UNCHANGED pc
  PROVE  Settled = ring /\ Settled' = ring'
BY DEF Settled

\* The blocks of the model are those of the queue.
LEMMA BlockIs ==
  /\ QueueView!Blocks = Blocks
  /\ \A s \in Blocks : s \in Seq(Byte)
  /\ \A c \in Byte : <<c>> \in Blocks
<1>1. QueueView!Blocks = Blocks
  BY DEF QueueView!Blocks, Blocks
<1>2. ASSUME NEW s \in Blocks
      PROVE  s \in Seq(Byte)
  <2>1. PICK n \in 0..MaxBlock : s \in [1..n -> Byte]
    BY DEF Blocks
  <2>2. n \in Nat
    BY RingAssumption
  <2>. QED  BY <2>1, <2>2, ListOf
<1>3. ASSUME NEW c \in Byte
      PROVE  <<c>> \in Blocks
  <2>1. 1 \in 0..MaxBlock
    BY RingAssumption
  <2>2. <<c>> \in [1..1 -> Byte]
    OBVIOUS
  <2>. QED  BY <2>1, <2>2 DEF Blocks
<1>. QED  BY <1>1, <1>2, <1>3

\* A masked put is a put of the queue.
LEMMA PutStep ==
  ASSUME ReaderInv, pc = "idle", UNCHANGED <<pc, at, ch, word>>,
         NEW s \in Blocks, Puts("put", s), Ordered(ring'),
         Content(ring') = QueueView!First(Content(ring) \o s, Size)
  PROVE  ReaderInv' /\ Refines
<1>1. Settled = ring /\ Settled' = ring'
  BY AtRest
<1>2. out' = << >> /\ call' = [op |-> "put", block |-> s]
  BY DEF Puts
<1>3. ReaderInv'
  BY <1>2, MaskedKeeps
<1>4. QueueView!DoPut(s)
  BY <1>1, <1>2 DEF QueueView!DoPut, QueueView!Put, QueueView!Silent
<1>5. ~LosesAll'
  BY <1>2 DEF LosesAll
<1>6. s \in QueueView!Blocks
  BY BlockIs
<1>. QED  BY <1>3, <1>4, <1>5, <1>6 DEF Refines, QueueView!LossyNext, QueueView!FifoNext

\* A masked forced put is one of the queue, or loses all.
LEMMA ForceStep ==
  ASSUME ReaderInv, pc = "idle", UNCHANGED <<pc, at, ch, word>>,
         NEW s \in Blocks, Puts("put_force", s), Forced(ring', ring, s)
  PROVE  ReaderInv' /\ Refines
<1>1. Settled = ring /\ Settled' = ring'
  BY AtRest
<1>2. out' = << >> /\ call' = [op |-> "put_force", block |-> s]
  BY DEF Puts
<1>3. /\ Ordered(ring')
      /\ \/ Content(ring') = QueueView!Last(Content(ring) \o s, Size)
         \/ Content(ring') = << >> /\ DataLen(ring) + Len(s) > Size
      /\ Content(ring') = << >> /\ s # << >> => ring.rm = ring.wm
  BY DEF Forced
<1>4. ReaderInv'
  BY <1>2, <1>3, MaskedKeeps
<1>5. s \in QueueView!Blocks
  BY BlockIs
<1>6. QueueView!LossyNext
  <2>1. CASE Content(ring') = QueueView!Last(Content(ring) \o s, Size)
    <3>1. QueueView!DoPutForce(s)
      BY <1>1, <1>2, <2>1 DEF QueueView!DoPutForce, QueueView!PutForce, QueueView!Silent
    <3>. QED  BY <1>5, <3>1 DEF QueueView!LossyNext, QueueView!FifoNext
  <2>2. CASE Content(ring') = << >> /\ DataLen(ring) + Len(s) > Size
    <3>1. Len(Content(ring)) = DataLen(ring)
      <4>1. Ordered(ring)
        BY DEF ReaderInv, ReaderOK, Settle
      <4>. QED  BY <4>1, ContentIs
    <3>2. QueueView!LoseAll(s)
      BY <1>1, <1>2, <2>2, <3>1 DEF QueueView!LoseAll, QueueView!PutForce, QueueView!Silent
    <3>. QED  BY <1>5, <3>2 DEF QueueView!LossyNext
  <2>. QED  BY <1>3, <2>1, <2>2
<1>7. LosesAll' => ring.rm = ring.wm
  BY <1>1, <1>2, <1>3 DEF LosesAll
<1>. QED  BY <1>4, <1>6, <1>7 DEF Refines

\* A step that reads is a get of the queue.
LEMMA GetStep ==
  ASSUME ReaderInv, NEW n \in 0..MaxBlock, Gets(n), ReaderInv',
         Got(Settled', out', Settled, n)
  PROVE  Refines
<1>1. call' = [op |-> "get", length |-> n]
  BY DEF Gets
<1>2. /\ out' = QueueView!First(Content(Settled), n)
      /\ Content(Settled') = QueueView!Last(Content(Settled), Len(Content(Settled)) - Len(out'))
  BY DEF Got
<1>3. QueueView!DoGet(n)
  BY <1>1, <1>2 DEF QueueView!DoGet, QueueView!Get
<1>4. ~LosesAll'
  BY <1>1 DEF LosesAll
<1>. QED  BY <1>3, <1>4 DEF Refines, QueueView!LossyNext, QueueView!FifoNext

\* Every masked call.
LEMMA MaskedStep ==
  ASSUME ReaderInv, Masked
  PROVE  ReaderInv' /\ Refines
<1>1. pc = "idle" /\ RingNext /\ UNCHANGED <<pc, at, ch, word>>
  BY DEF Masked
<1>2. Ordered(ring) /\ ring \in RingType
  BY <1>1 DEF ReaderInv, ReaderOK, Settle
<1>3. Settled = ring /\ Settled' = ring'
  BY <1>1, AtRest
<1>4. PICK r, g : r = ring /\ g = ring'
  OBVIOUS
<1>5. ASSUME NEW s \in Blocks, DoPut(s)
      PROVE  ReaderInv' /\ Refines
  <2>1. Puts("put", s) /\ g = Put(r, s) /\ Ordered(r) /\ s \in Seq(Byte)
    BY <1>2, <1>4, <1>5, BlockIs DEF DoPut
  <2>2. Ordered(g) /\ Content(g) = QueueView!First(Content(r) \o s, Size)
    BY <2>1, PutIs
  <2>. QED  BY <1>1, <1>4, <2>1, <2>2, PutStep
<1>6. ASSUME NEW s \in Blocks, DoPutForce(s)
      PROVE  ReaderInv' /\ Refines
  <2>1. Puts("put_force", s) /\ g = PutForce(r, s) /\ Ordered(r) /\ s \in Seq(Byte)
    BY <1>2, <1>4, <1>6, BlockIs DEF DoPutForce
  <2>2. Forced(g, r, s)
    BY <2>1, PutForceIs
  <2>. QED  BY <1>1, <1>4, <2>1, <2>2, ForceStep
<1>7. ASSUME NEW c \in Byte, DoPutChar(c)
      PROVE  ReaderInv' /\ Refines
  <2>1. Puts("put", <<c>>) /\ g = PutChar(r, c) /\ Ordered(r)
    BY <1>2, <1>4, <1>7 DEF DoPutChar
  <2>2. Ordered(g) /\ Content(g) = QueueView!First(Content(r) \o <<c>>, Size)
    BY <2>1, PutCharPuts
  <2>3. PICK s \in Blocks : s = <<c>>
    BY BlockIs
  <2>4. Puts("put", s) /\ Content(g) = QueueView!First(Content(r) \o s, Size)
    BY <2>1, <2>2, <2>3
  <2>. QED  BY <1>1, <1>4, <2>2, <2>4, PutStep
<1>8. ASSUME NEW c \in Byte, DoPutCharForce(c)
      PROVE  ReaderInv' /\ Refines
  <2>1. Puts("put_force", <<c>>) /\ g = PutCharForce(r, c) /\ Ordered(r)
    BY <1>2, <1>4, <1>8 DEF DoPutCharForce
  <2>2. Forced(g, r, <<c>>)
    BY <2>1, PutCharForceIs
  <2>3. PICK s \in Blocks : s = <<c>>
    BY BlockIs
  <2>4. Puts("put_force", s) /\ Forced(g, r, s)
    BY <2>1, <2>2, <2>3
  <2>. QED  BY <1>1, <1>4, <2>4, ForceStep
<1>9. ASSUME NEW n \in 0..MaxBlock, DoGet(n)
      PROVE  ReaderInv' /\ Refines
  <2>1. PICK k, o : k = Length(r, n) /\ o = out'
    OBVIOUS
  <2>2. /\ Gets(n) /\ Ordered(r) /\ n \in Nat
        /\ o = IF DataLen(r) = 0 THEN << >> ELSE Taken(r, k)
        /\ g = IF DataLen(r) = 0 THEN r ELSE Consumed(r, k)
    BY <1>2, <1>4, <1>9, <2>1, RingAssumption DEF DoGet
  <2>3. Got(g, o, r, n)
    BY <2>1, <2>2, GetIs
  <2>4. Ordered(ring') /\ out' \in Seq(Byte)
    BY <1>4, <2>1, <2>3 DEF Got
  <2>5. ReaderInv'
    BY <1>1, <2>4, MaskedKeeps
  <2>6. Got(Settled', out', Settled, n)
    BY <1>3, <1>4, <2>1, <2>3
  <2>. QED  BY <2>2, <2>5, <2>6, GetStep
<1>10. ASSUME DoGetChar
       PROVE  ReaderInv' /\ Refines
  <2>1. PICK o, n : o = out' /\ n = 1
    OBVIOUS
  <2>2. Gets(n) /\ Ordered(r) /\ n \in 0..MaxBlock /\ DataLen(r) \in Nat
    BY <1>2, <1>4, <1>10, <2>1, RingAssumption, LengthIs DEF DoGetChar
  <2>3. Got(g, o, r, n)
    <3>1. CASE DataLen(r) = 0
      <4>1. PICK k : k = Length(r, n)
        OBVIOUS
      <4>2. o = << >> /\ g = r /\ n \in Nat
        BY <1>4, <1>10, <2>1, <3>1 DEF DoGetChar
      <4>3. /\ o = IF DataLen(r) = 0 THEN << >> ELSE Taken(r, k)
            /\ g = IF DataLen(r) = 0 THEN r ELSE Consumed(r, k)
        BY <3>1, <4>2
      <4>. QED  BY <2>2, <4>1, <4>2, <4>3, GetIs
    <3>2. CASE DataLen(r) # 0
      <4>1. o = <<r.buf[r.ri]>> /\ g = NextChar(r) /\ DataLen(r) > 0
        BY <1>4, <1>10, <2>1, <2>2, <3>2 DEF DoGetChar
      <4>2. o = <<Content(r)[1]>>
        BY <2>2, <4>1, OldestIs
      <4>3. ReadOff(g, r, 1)
        BY <1>2, <1>4, <4>1, NextCharIs
      <4>. QED  BY <2>1, <2>2, <4>1, <4>2, <4>3, GetCharIs
    <3>. QED  BY <3>1, <3>2
  <2>4. Ordered(ring') /\ out' \in Seq(Byte)
    BY <1>4, <2>1, <2>3 DEF Got
  <2>5. ReaderInv'
    BY <1>1, <2>4, MaskedKeeps
  <2>6. Got(Settled', out', Settled, n)
    BY <1>3, <1>4, <2>1, <2>3
  <2>. QED  BY <2>2, <2>5, <2>6, GetStep
<1>11. ASSUME DoReset
       PROVE  ReaderInv' /\ Refines
  <2>1. call' = [op |-> "reset"] /\ g = Cleared(r) /\ out' = << >> /\ r \in RingType
    BY <1>2, <1>4, <1>11 DEF DoReset
  <2>2. Ordered(g) /\ Content(g) = << >>
    BY <2>1, ClearedIs
  <2>3. ReaderInv'
    <3>1. Ordered(ring') /\ out' \in Seq(Byte)
      BY <1>4, <2>1, <2>2
    <3>. QED  BY <1>1, <3>1, MaskedKeeps
  <2>4. QueueView!DoReset
    BY <1>3, <1>4, <2>1, <2>2 DEF QueueView!DoReset, QueueView!Reset, QueueView!Silent
  <2>5. ~LosesAll'
    BY <2>1 DEF LosesAll
  <2>. QED  BY <2>3, <2>4, <2>5 DEF Refines, QueueView!LossyNext, QueueView!FifoNext
<1>. QED  BY <1>1, <1>5, <1>6, <1>7, <1>8, <1>9, <1>10, <1>11 DEF RingNext

\* A step of the reader that leaves the content alone.
LEMMA IdleStep ==
  ASSUME Content(Settled') = Content(Settled), UNCHANGED call, out' \in {out, << >>}
  PROVE  Refines
<1>1. QueueView!Idle
  BY DEF QueueView!Idle, QueueView!Silent
<1>2. LosesAll' => LosesAll
  BY DEF LosesAll
<1>. QED  BY <1>1, <1>2 DEF Refines, QueueView!LossyNext, QueueView!FifoNext

\* Up to the first store.
LEMMA ReadStep ==
  ASSUME ReaderInv, Check \/ Address \/ Fetch \/ Test \/ LoadWord
  PROVE  ReaderInv' /\ Refines
<1>1. ReaderOK(ring, out, pc, at, ch, word)
  BY DEF ReaderInv
<1>2. CASE Check
  <2>1. ReaderOK(ring, << >>, "address", at, ch, word)
    BY <1>1, <1>2 DEF ReaderOK, Settle, Check
  <2>2. ReaderInv'
    BY <1>2, <2>1 DEF Check, ReaderInv
  <2>3. Settled' = Settled
    BY <1>2 DEF Check, Settled
  <2>. QED  BY <1>2, <2>2, <2>3, IdleStep DEF Check
<1>3. CASE Address
  <2>1. ReaderOK(ring, out, "fetch", ring.ri, ch, word)
    BY <1>1, <1>3, RingFields DEF ReaderOK, Settle, Address
  <2>2. ReaderInv'
    BY <1>3, <2>1 DEF Address, ReaderInv
  <2>3. Settled' = Settled
    BY <1>3 DEF Address, Settled
  <2>. QED  BY <1>3, <2>2, <2>3, IdleStep DEF Address
<1>4. CASE Fetch
  <2>1. at \in Cell /\ at = ring.ri /\ Ordered(ring) /\ DataLen(ring) > 0
    BY <1>1, <1>4 DEF ReaderOK, Settle, Fetch
  <2>2. Content(ring)[1] = ring.buf[ring.ri]
    BY <2>1, OldestIs
  <2>3. ch' = <<Content(ring)[1]>>
    BY <1>4, <2>1, <2>2 DEF Fetch
  <2>4. 0 \in Cell
    BY RingAssumption DEF Cell
  <2>5. ReaderOK(ring, out, "test", 0, <<Content(ring)[1]>>, word)
    BY <1>1, <1>4, <2>4 DEF ReaderOK, Settle, Fetch
  <2>6. ReaderInv'
    BY <1>4, <2>3, <2>5 DEF Fetch, ReaderInv
  <2>7. Settled' = Settled
    BY <1>4 DEF Fetch, Settled
  <2>. QED  BY <1>4, <2>6, <2>7, IdleStep DEF Fetch
<1>5. CASE Test
  <2>1. ring.ri \in Nat /\ ring.ri < Size /\ Size \in Nat
    BY <1>1, RingAssumption, RingFields DEF ReaderOK, Cell
  <2>2. CASE ring.ri = Size - 1
    <3>1. ReaderOK(ring, out, "flip", at, ch, word)
      BY <1>1, <1>5, <2>2 DEF ReaderOK, Settle, Test
    <3>2. ReaderInv'
      BY <1>5, <2>2, <3>1 DEF Test, ReaderInv
    <3>3. Settled' = Settled
      BY <1>5, <2>2 DEF Test, Settled
    <3>. QED  BY <1>5, <3>2, <3>3, IdleStep DEF Test
  <2>3. CASE ring.ri # Size - 1
    <3>1. ReaderOK(ring, out, "step", at, ch, word)
      BY <1>1, <1>5, <2>1, <2>3 DEF ReaderOK, Settle, Test
    <3>2. ReaderInv'
      BY <1>5, <2>3, <3>1 DEF Test, ReaderInv
    <3>3. Settled' = Settled
      BY <1>5, <2>3 DEF Test, Settled
    <3>. QED  BY <1>5, <3>2, <3>3, IdleStep DEF Test
  <2>. QED  BY <2>2, <2>3
<1>6. CASE LoadWord
  <2>1. ReaderOK(ring, out, pc, at, ch, [rm |-> ring.rm, ri |-> ring.ri])
    BY <1>1, <1>6 DEF ReaderOK, LoadWord
  <2>2. ReaderInv'
    BY <1>6, <2>1 DEF LoadWord, ReaderInv
  <2>3. Settled' = Settled
    BY <1>6 DEF LoadWord, Settled
  <2>. QED  BY <1>6, <2>2, <2>3, IdleStep DEF LoadWord
<1>. QED  BY <1>2, <1>3, <1>4, <1>5, <1>6

\* What a stored word makes of the ring.
LEMMA WordIs ==
  ASSUME NEW rb \in RingType, NEW x \in {0, 1}, NEW y \in Cell,
         NEW g, g = RingOf(x, y, rb.wm, rb.wi, rb.buf)
  PROVE  /\ g \in RingType
         /\ g.rm = x /\ g.ri = y /\ g.wm = rb.wm /\ g.wi = rb.wi /\ g.buf = rb.buf
<1>1. PICK c, d, e : c = rb.wm /\ d = rb.wi /\ e = rb.buf
  OBVIOUS
<1>2. c \in {0, 1} /\ d \in Cell /\ e \in [Cell -> Byte]
  BY <1>1, RingFields
<1>3. g = RingOf(x, y, c, d, e)
  BY <1>1
<1>4. /\ g \in RingType
      /\ g.rm = x /\ g.ri = y /\ g.wm = c /\ g.wi = d /\ g.buf = e
  BY <1>2, <1>3, RingIs
<1>. QED  BY <1>1, <1>4

\* The two fields of the word, assigned.
LEMMA StoredIs ==
  ASSUME NEW rb \in RingType, NEW x \in {0, 1}, NEW y \in Cell,
         NEW g, g = [[rb EXCEPT !.rm = x] EXCEPT !.ri = y]
  PROVE  g = RingOf(x, y, rb.wm, rb.wi, rb.buf)
<1>1. PICK a \in {0, 1}, b \in Cell, c \in {0, 1}, d \in Cell, e \in [Cell -> Byte] :
        /\ rb = RingOf(a, b, c, d, e)
        /\ rb.rm = a /\ rb.ri = b /\ rb.wm = c /\ rb.wi = d /\ rb.buf = e
  BY Fields
<1>2. g = RingOf(x, y, c, d, e)
  BY <1>1 DEF RingOf
<1>. QED  BY <1>1, <1>2

\* The store that takes the byte away.
LEMMA TakesByte ==
  ASSUME ReaderInv, pc \in {"clear", "step"}, ReadOff(ring', Settled, 1),
         UNCHANGED at, word' = NoWord, pc' = "idle", out' = ch, Gets(1), ch' = << >>
  PROVE  ReaderInv' /\ Refines
<1>1. PICK q, g, o : q = Settled /\ g = ring' /\ o = ch
  OBVIOUS
<1>2. ReaderOK(ring, out, pc, at, ch, word) /\ Settled = Settle(ring, pc)
  BY DEF ReaderInv, Settled, Settle
<1>3. Ordered(q) /\ DataLen(q) > 0 /\ o = <<Content(q)[1]>> /\ ReadOff(g, q, 1)
  BY <1>1, <1>2 DEF ReaderOK
<1>4. Got(g, o, q, 1)
  BY <1>3, GetCharIs
<1>5. Ordered(g) /\ o \in Seq(Byte)
  BY <1>4 DEF Got
<1>6. ReaderInv'
  <2>1. ReaderOK(g, o, "idle", at, << >>, NoWord)
    BY <1>2, <1>5 DEF ReaderOK, Settle, Ordered
  <2>2. ReaderOK(ring', out', pc', at', ch', word')
    BY <1>1, <2>1
  <2>. QED  BY <2>2 DEF ReaderInv
<1>7. Settled' = ring'
  BY DEF Settled
<1>8. PICK n : n = 1
  OBVIOUS
<1>9. n \in 0..MaxBlock /\ Gets(n) /\ Got(Settled', out', Settled, n)
  BY <1>1, <1>4, <1>7, <1>8, RingAssumption
<1>. QED  BY <1>6, <1>9, GetStep

\* The stores: the first of a wrap leaves the content alone, the last of a read takes
\* the byte.
LEMMA StoreStep ==
  ASSUME ReaderInv, StoreWord
  PROVE  ReaderInv' /\ Refines
<1>1. ReaderOK(ring, out, pc, at, ch, word) /\ word # NoWord
  BY DEF ReaderInv, StoreWord
<1>2. /\ pc \in {"flip", "clear", "step"} /\ ring \in RingType
      /\ word = [rm |-> ring.rm, ri |-> ring.ri]
  BY <1>1 DEF ReaderOK
<1>3. PICK a, b : a = ring.rm /\ b = ring.ri
  OBVIOUS
<1>4. /\ a \in {0, 1} /\ 1 - a \in {0, 1}
      /\ b \in Cell /\ b \in Nat /\ b < Size /\ Size \in Nat /\ 0 \in Cell
  BY <1>2, <1>3, RingFields, RingAssumption DEF Cell
<1>5. word = [rm |-> a, ri |-> b]
  BY <1>2, <1>3
<1>6. PICK r, g : r = ring /\ g = ring'
  OBVIOUS
<1>7. PICK x, y : x = Changed.rm /\ y = Changed.ri
  OBVIOUS
<1>8. g = [[r EXCEPT !.rm = x] EXCEPT !.ri = y]
  BY <1>6, <1>7 DEF StoreWord
<1>9. x \in {0, 1} /\ y \in Cell =>
        /\ g \in RingType
        /\ g.rm = x /\ g.ri = y /\ g.wm = r.wm /\ g.wi = r.wi /\ g.buf = r.buf
  <2>1. SUFFICES ASSUME x \in {0, 1}, y \in Cell
                 PROVE  /\ g \in RingType
                        /\ g.rm = x /\ g.ri = y /\ g.wm = r.wm /\ g.wi = r.wi /\ g.buf = r.buf
    OBVIOUS
  <2>2. r \in RingType
    BY <1>2, <1>6
  <2>3. g = RingOf(x, y, r.wm, r.wi, r.buf)
    BY <1>8, <2>1, <2>2, StoredIs
  <2>. QED  BY <2>1, <2>2, <2>3, WordIs
<1>10. PICK q : q = Settled
  OBVIOUS
<1>11. /\ q = Settle(r, pc) /\ q \in RingType
       /\ q.ri = r.ri /\ q.wm = r.wm /\ q.wi = r.wi /\ q.buf = r.buf
       /\ q.rm = IF pc = "clear" THEN 1 - r.rm ELSE r.rm
  <2>1. q = Settle(r, pc) /\ r \in RingType
    BY <1>2, <1>6, <1>10 DEF Settled, Settle
  <2>. QED  BY <2>1, SettleIs
<1>12. CASE pc = "flip"
  <2>1. x = 1 - a /\ y = b
    BY <1>5, <1>7, <1>12 DEF Changed
  <2>2. PICK h : h = Settle(g, "clear")
    OBVIOUS
  <2>3. /\ h \in RingType /\ h.ri = g.ri /\ h.wm = g.wm /\ h.wi = g.wi /\ h.buf = g.buf
        /\ h.rm = 1 - g.rm
    BY <1>4, <1>9, <2>1, <2>2, SettleIs
  <2>4. /\ h.rm = r.rm /\ h.ri = r.ri /\ h.wm = r.wm /\ h.wi = r.wi /\ h.buf = r.buf
        /\ r \in RingType
    BY <1>2, <1>3, <1>4, <1>6, <1>9, <2>1, <2>3
  <2>5. h = r
    <3>1. h = RingOf(h.rm, h.ri, h.wm, h.wi, h.buf) /\ r = RingOf(r.rm, r.ri, r.wm, r.wi, r.buf)
      BY <2>3, <2>4, RingFields
    <3>. QED  BY <2>4, <3>1
  <2>6. q = r
    BY <1>11, <1>12 DEF Settle
  <2>7. ReaderOK(g, out, "clear", at, ch, NoWord)
    <3>1. ReaderOK(r, out, "flip", at, ch, word) /\ Settle(r, "flip") = r /\ Settle(g, "clear") = r
      BY <1>1, <1>6, <1>12, <2>2, <2>5 DEF Settle
    <3>2. g \in RingType /\ g.ri = r.ri
      BY <1>3, <1>4, <1>6, <1>9, <2>1
    <3>. QED  BY <3>1, <3>2 DEF ReaderOK
  <2>8. ReaderInv'
    BY <1>6, <1>12, <2>7 DEF ReaderInv, StoreWord
  <2>9. Settled' = Settled
    <3>1. Settled' = Settle(ring', pc')
      BY DEF Settled, Settle
    <3>2. pc' = "clear"
      BY <1>12 DEF StoreWord
    <3>. QED  BY <1>6, <1>10, <2>2, <2>5, <2>6, <3>1, <3>2
  <2>. QED  BY <1>12, <2>8, <2>9, IdleStep DEF StoreWord
<1>13. CASE pc = "clear"
  <2>1. x = a /\ y = 0
    BY <1>5, <1>7, <1>13 DEF Changed
  <2>2. b = Size - 1
    BY <1>1, <1>3, <1>13 DEF ReaderOK
  <2>3. 0 = CellOf(b + 1) /\ Wraps(b, 1)
    BY <1>4, <2>2 DEF CellOf, Wraps
  <2>4. /\ g \in RingType /\ g.wm = q.wm /\ g.wi = q.wi /\ g.buf = q.buf
        /\ g.ri = CellOf(q.ri + 1)
        /\ g.rm = IF Wraps(q.ri, 1) THEN 1 - q.rm ELSE q.rm
    BY <1>3, <1>4, <1>6, <1>9, <1>11, <1>13, <2>1, <2>3
  <2>5. ReadOff(g, q, 1)
    BY <2>4 DEF ReadOff
  <2>. QED  BY <1>6, <1>10, <1>13, <2>5, TakesByte DEF StoreWord
<1>14. CASE pc = "step"
  <2>1. x = a /\ y = (b + 1) % 2^15
    BY <1>5, <1>7, <1>14 DEF Changed
  <2>2. b < Size - 1
    BY <1>1, <1>3, <1>14 DEF ReaderOK
  <2>3. (b + 1) % 2^15 = b + 1
    BY <1>4, <2>2, RingAssumption
  <2>4. b + 1 \in Cell /\ b + 1 = CellOf(b + 1) /\ ~Wraps(b, 1)
    BY <1>4, <2>2 DEF CellOf, Wraps, Cell
  <2>5. /\ g \in RingType /\ g.wm = q.wm /\ g.wi = q.wi /\ g.buf = q.buf
        /\ g.ri = CellOf(q.ri + 1)
        /\ g.rm = IF Wraps(q.ri, 1) THEN 1 - q.rm ELSE q.rm
    BY <1>3, <1>4, <1>6, <1>9, <1>11, <1>14, <2>1, <2>3, <2>4
  <2>6. ReadOff(g, q, 1)
    BY <2>5 DEF ReadOff
  <2>. QED  BY <1>6, <1>10, <1>14, <2>6, TakesByte DEF StoreWord
<1>. QED  BY <1>2, <1>12, <1>13, <1>14

\* The indication, at any instruction of the reader.
LEMMA ReceiveStep ==
  ASSUME KeepsUp, ReaderInv, Receive
  PROVE  ReaderInv' /\ Refines
<1>1. PICK c \in Byte : /\ ring' = PutForce(ring, <<c>>)
                       /\ call' = [op |-> "put_force", block |-> <<c>>]
  BY DEF Receive
<1>2. PICK r, g, s, q, h : /\ r = ring /\ g = ring' /\ s = <<c>>
                           /\ q = Settle(ring, pc) /\ h = Settle(ring', pc)
  OBVIOUS
<1>3. ReaderOK(r, out, pc, at, ch, word) /\ Settled = q /\ Settled' = h
  BY <1>2 DEF ReaderInv, Settled, Settle, Receive
<1>4. /\ r \in RingType /\ q = Settle(r, pc) /\ Ordered(q) /\ DataLen(q) < Size
      /\ pc # "idle" => DataLen(q) > 0
      /\ g = PutForce(r, s) /\ h = Settle(g, pc)
  BY <1>1, <1>2, <1>3 DEF ReaderOK, Receive
<1>5. /\ g \in RingType /\ g.rm = r.rm /\ g.ri = r.ri
      /\ Ordered(h) /\ Content(h) = Content(q) \o s /\ DataLen(h) = DataLen(q) + 1
  <2>1. s = <<c>>
    BY <1>2
  <2>2. PICK p : p = pc
    OBVIOUS
  <2>3. /\ r \in RingType /\ q = Settle(r, p) /\ Ordered(q) /\ DataLen(q) < Size
        /\ p # "idle" => DataLen(q) > 0
        /\ g = PutForce(r, s) /\ h = Settle(g, p)
    BY <1>4, <2>2
  <2>4. PICK d \in Byte : d = c
    OBVIOUS
  <2>5. s = <<d>>
    BY <2>1, <2>4
  <2>. QED  BY <2>3, <2>5, Received
<1>6. /\ Content(q) \in Seq(Byte) /\ Len(Content(q)) = DataLen(q) /\ DataLen(q) \in Nat
      /\ s \in Seq(Byte) /\ Len(s) = 1
  BY <1>2, <1>4, ContentIs, LengthIs
<1>7. pc # "idle" => Content(h)[1] = Content(q)[1]
  <2>1. PICK t : t = Content(q)
    OBVIOUS
  <2>2. pc # "idle" => (t \o s)[1] = t[1]
    BY <1>4, <1>6, <2>1
  <2>. QED  BY <1>5, <2>1, <2>2
<1>8. ReaderInv'
  <2>1. ReaderOK(g, out, pc, at, ch, word)
    <3>1. pc # "idle" => DataLen(h) > 0
      BY <1>5, <1>6
    <3>2. /\ g \in RingType /\ Ordered(Settle(g, pc)) /\ g.rm = r.rm /\ g.ri = r.ri
          /\ pc # "idle" => DataLen(Settle(g, pc)) > 0
          /\ pc # "idle" => Content(Settle(g, pc))[1] = Content(Settle(r, pc))[1]
      BY <1>4, <1>5, <1>7, <3>1
    <3>. QED  BY <1>3, <3>2 DEF ReaderOK
  <2>. QED  BY <1>2, <2>1 DEF ReaderInv, Receive
<1>9. s \in Blocks /\ s \in QueueView!Blocks
  BY <1>2, BlockIs
<1>10. Content(h) = QueueView!Last(Content(q) \o s, Size)
  <2>1. PICK all : all = Content(q) \o s
    OBVIOUS
  <2>2. all \in Seq(Byte) /\ Len(all) <= Size /\ Size \in Nat
    <3>1. all \in Seq(Byte) /\ Len(all) = DataLen(q) + 1
      <4>1. PICK t : t = Content(q)
        OBVIOUS
      <4>2. t \in Seq(Byte) /\ s \in Seq(Byte) /\ all = t \o s
        BY <1>6, <2>1, <4>1
      <4>3. all \in Seq(Byte) /\ Len(all) = Len(t) + Len(s)
        BY <4>2, Joined
      <4>. QED  BY <1>6, <4>1, <4>3
    <3>. QED  BY <1>4, <1>6, <3>1, RingAssumption
  <2>. QED  BY <1>5, <2>1, <2>2, WholeIs
<1>11. QueueView!DoPutForce(s)
  BY <1>1, <1>2, <1>3, <1>10 DEF QueueView!DoPutForce, QueueView!PutForce, QueueView!Silent, Receive
<1>12. ~LosesAll'
  <2>1. Len(Content(h)) = DataLen(h)
    BY <1>5, ContentIs
  <2>2. Content(h) # << >>
    BY <1>5, <1>6, <2>1
  <2>. QED  BY <1>3, <2>2 DEF LosesAll
<1>. QED  BY <1>8, <1>9, <1>11, <1>12 DEF Refines, QueueView!LossyNext, QueueView!FifoNext

\* An initialised ring is an empty queue, and the reader is idle.
LEMMA InitReader ==
  ASSUME IsrInit
  PROVE  ReaderInv /\ QueueView!FifoInit
<1>1. /\ ring \in RingType /\ ring = Cleared(ring) /\ out = << >> /\ call = [op |-> "reset"]
      /\ pc = "idle" /\ at = 0 /\ ch = << >> /\ word = NoWord
  BY DEF IsrInit, RingInit
<1>2. PICK r : r = ring
  OBVIOUS
<1>3. Ordered(r) /\ Content(r) = << >>
  BY <1>1, <1>2, ClearedIs
<1>4. 0 \in Cell
  BY RingAssumption DEF Cell
<1>5. ReaderOK(r, << >>, "idle", 0, << >>, NoWord)
  BY <1>3, <1>4 DEF ReaderOK, Settle, Ordered
<1>6. ReaderInv
  BY <1>1, <1>2, <1>5 DEF ReaderInv
<1>7. Settled = r
  BY <1>1, <1>2 DEF Settled
<1>. QED  BY <1>1, <1>3, <1>6, <1>7 DEF QueueView!FifoInit, QueueView!Reset

\* Every step keeps the invariant and is one of the queue.
LEMMA ReaderStep ==
  ASSUME KeepsUp, ReaderInv, [IsrNext]_ringVars
  PROVE  ReaderInv' /\ Refines
<1>1. CASE Masked
  BY <1>1, MaskedStep
<1>2. CASE Check \/ Address \/ Fetch \/ Test \/ LoadWord
  BY <1>2, ReadStep
<1>3. CASE StoreWord
  BY <1>3, StoreStep
<1>4. CASE Receive
  BY <1>4, ReceiveStep
<1>5. CASE UNCHANGED ringVars
  <2>1. ReaderInv'
    BY <1>5 DEF ringVars, ReaderInv
  <2>2. Settled' = Settled
    BY <1>5 DEF ringVars, Settled
  <2>. QED  BY <1>5, <2>1, <2>2, IdleStep DEF ringVars
<1>. QED  BY <1>1, <1>2, <1>3, <1>4, <1>5 DEF IsrNext

\* The invariant says what the type invariant claims.
LEMMA ReaderTyped ==
  ASSUME ReaderInv
  PROVE  RingTypeOK
<1>1. ReaderOK(ring, out, pc, at, ch, word) /\ Settled = Settle(ring, pc)
  BY DEF ReaderInv, Settled, Settle
<1>2. MirrorOrdered(Settled)
  BY <1>1 DEF ReaderOK, Ordered
<1>3. ch \in {<< >>} \cup {<<c>> : c \in Byte}
  <2>1. CASE pc \in {"test", "flip", "clear", "step"}
    <3>1. ch = <<Content(Settled)[1]>> /\ Ordered(Settled) /\ DataLen(Settled) > 0
      BY <1>1, <2>1 DEF ReaderOK
    <3>2. Content(Settled)[1] \in Byte
      BY <3>1, OldestIs
    <3>. QED  BY <3>1, <3>2
  <2>2. CASE pc \notin {"test", "flip", "clear", "step"}
    BY <1>1, <2>2 DEF ReaderOK
  <2>. QED  BY <2>1, <2>2
<1>4. word \in [rm : {0, 1}, ri : Cell] \cup {NoWord}
  <2>1. ring.rm \in {0, 1} /\ ring.ri \in Cell
    BY <1>1, RingFields DEF ReaderOK
  <2>2. word # NoWord => word = [rm |-> ring.rm, ri |-> ring.ri]
    BY <1>1 DEF ReaderOK
  <2>. QED  BY <2>1, <2>2
<1>. QED  BY <1>1, <1>2, <1>3, <1>4 DEF RingTypeOK, ReaderOK

(* Type correctness: as long as the reader keeps up, the positions stay     *)
(* inside the buffer and in the order of their mirror bits at every         *)
(* instruction, the one between the two stores of a wrap included.          *)
THEOREM RingTyped ==
  ASSUME KeepsUp
  PROVE  IsrSpec => []RingTypeOK
<1>1. IsrInit => ReaderInv
  BY InitReader
<1>2. ReaderInv /\ [IsrNext]_ringVars => ReaderInv'
  BY ReaderStep
<1>3. ReaderInv => RingTypeOK
  BY ReaderTyped
<1>. QED  BY <1>1, <1>2, <1>3, PTL DEF IsrSpec

(* The ring between thread and indication, without a lock, implements the   *)
(* queue: every masked call is the operation of the queue, a read becomes   *)
(* one at its last store, and a put of the indication at any instruction    *)
(* appends its byte.  Only a forced put that finds the unread bytes on one  *)
(* side of the mirror may leave nothing.                                    *)
THEOREM IsQueueHolds ==
  ASSUME KeepsUp
  PROVE  IsrSpec => IsQueue
<1>1. IsrInit => ReaderInv /\ QueueView!FifoInit
  BY InitReader
<1>2. ReaderInv /\ [IsrNext]_ringVars
        => /\ ReaderInv'
           /\ [QueueView!LossyNext]_(QueueView!vars)
           /\ [LosesAll' /\ ~LosesAll => ring.rm = ring.wm]_ringVars
  BY ReaderStep DEF Refines
<1>. QED  BY <1>1, <1>2, PTL DEF IsrSpec, IsQueue, QueueView!LossySpec

-----------------------------------------------------------------------------
(* Numbers and sequences                                                   *)

\* A set of numbers has a least element.
LEMMA LeastNat ==
  ASSUME NEW S \in SUBSET Nat, S # {}
  PROVE  \E m \in S : \A x \in S : m <= x
<1>. DEFINE Less == {ss \in Nat \X Nat : ss[1] < ss[2]}
<1>1. IsWellFoundedOn(Less, Nat)
  BY NatLessThanWellFounded, Zenon DEF OpToRel
<1>2. \A x, y \in Nat : x < y => <<x, y>> \in Less
  OBVIOUS
<1>. HIDE DEF Less
<1>3. PICK m \in S : \A x \in S : <<x, m>> \notin Less
  BY <1>1, WFMin
<1>4. ASSUME NEW x \in S PROVE m <= x
  <2>1. m \in Nat /\ x \in Nat
    OBVIOUS
  <2>2. ~ (x < m)
    BY <1>2, <1>3, <2>1
  <2>. QED  BY <2>1, <2>2
<1>. QED  BY <1>4

\* A bounded one has a greatest, and Max is it.
LEMMA MaxOfNats ==
  ASSUME NEW S \in SUBSET Nat, S # {}, NEW n \in Nat, \A x \in S : x <= n
  PROVE  Max(S) \in S /\ \A x \in S : x <= Max(S)
<1>. DEFINE D == {n - x : x \in S}
<1>1. D \in SUBSET Nat /\ D # {}
  <2>1. \A x \in S : x \in Nat /\ x <= n
    OBVIOUS
  <2>2. \A x \in S : n - x \in Nat
    BY <2>1
  <2>. QED  BY <2>2
<1>2. PICK d \in D : \A e \in D : d <= e
  <2>. HIDE DEF D
  <2>. QED  BY <1>1, LeastNat
<1>3. PICK m \in S : d = n - m
  BY <1>2
<1>4. \A x \in S : x <= m
  <2>. SUFFICES ASSUME NEW x \in S PROVE x <= m
    OBVIOUS
  <2>1. n - x \in D
    OBVIOUS
  <2>2. n - m <= n - x /\ x \in Nat /\ m \in Nat
    BY <1>2, <1>3, <2>1
  <2>. QED  BY <2>2
<1>5. \E y \in S : \A x \in S : y >= x
  BY <1>4
<1>. QED  BY <1>5 DEF Max

\* f lists the numbers of K upwards.
Enumerates(f, K) ==
  /\ f \in [1 .. Cardinality(K) -> K]
  /\ \A m, n \in 1 .. Cardinality(K) : m < n => f[m] < f[n]

\* It misses none: a one-to-one function between equally many is onto.
LEMMA EnumeratesAll ==
  ASSUME NEW K \in SUBSET Nat, IsFiniteSet(K), NEW f, Enumerates(f, K)
  PROVE  \A x \in K : \E n \in 1 .. Cardinality(K) : f[n] = x
<1>. DEFINE N == Cardinality(K)
<1>1. N \in Nat
  BY FS_CardinalityType
<1>2. IsFiniteSet(1 .. N) /\ Cardinality(1 .. N) = N
  BY <1>1, FS_Interval
<1>3. \A m, n \in 1 .. N : f[m] = f[n] => m = n
  <2>. SUFFICES ASSUME NEW m \in 1 .. N, NEW n \in 1 .. N, f[m] = f[n] PROVE m = n
    OBVIOUS
  <2>1. m \in Nat /\ n \in Nat /\ f[m] \in K /\ f[n] \in K
    BY <1>1 DEF Enumerates
  <2>2. f[m] \in Nat /\ f[n] \in Nat
    BY <2>1
  <2>3. ~ (m < n) /\ ~ (n < m)
    BY <2>2 DEF Enumerates
  <2>. QED  BY <2>1, <2>3
<1>4. f \in Injection(1 .. N, K)
  BY <1>3 DEF Enumerates, Injection, IsInjective
<1>5. f \in Surjection(1 .. N, K)
  BY <1>2, <1>4, FS_Injection
<1>. QED  BY <1>5 DEF Surjection

\* There is such a list: the place of a number is how many come up to it.
LEMMA EnumerationExists ==
  ASSUME NEW K \in SUBSET Nat, IsFiniteSet(K)
  PROVE  \E f : Enumerates(f, K)
<1>. DEFINE N == Cardinality(K)
            Upto(x) == {y \in K : y <= x}
            c == [x \in K |-> Cardinality(Upto(x))]
<1>1. N \in Nat
  BY FS_CardinalityType
<1>2. IsFiniteSet(1 .. N) /\ Cardinality(1 .. N) = N
  BY <1>1, FS_Interval
<1>3. ASSUME NEW x \in K PROVE IsFiniteSet(Upto(x)) /\ c[x] \in 1 .. N
  <2>1. Upto(x) \in SUBSET K /\ x \in Upto(x) /\ x \in Nat
    OBVIOUS
  <2>2. IsFiniteSet(Upto(x)) /\ Cardinality(Upto(x)) <= N
    BY <2>1, FS_Subset
  <2>3. Cardinality(Upto(x)) \in Nat
    BY <2>2, FS_CardinalityType
  <2>4. Cardinality(Upto(x)) # 0
    BY <2>1, <2>2, FS_EmptySet
  <2>. QED  BY <1>1, <2>2, <2>3, <2>4
<1>4. ASSUME NEW x \in K, NEW y \in K, x < y PROVE c[x] < c[y]
  <2>1. Upto(x) \in SUBSET Upto(y) /\ y \in Upto(y) /\ y \notin Upto(x)
    <3>1. \A z \in K : z \in Nat
      OBVIOUS
    <3>2. \A z \in K : z <= x => z <= y
      BY <1>4, <3>1
    <3>3. y <= y /\ ~ (y <= x)
      BY <1>4, <3>1
    <3>. QED  BY <3>2, <3>3
  <2>2. IsFiniteSet(Upto(y)) /\ c[x] \in Nat /\ c[y] \in Nat
    BY <1>1, <1>3
  <2>3. Cardinality(Upto(x)) <= Cardinality(Upto(y))
        /\ (Cardinality(Upto(y)) = Cardinality(Upto(x)) => Upto(y) = Upto(x))
    BY <2>1, <2>2, FS_Subset
  <2>4. c[x] <= c[y] /\ c[x] # c[y]
    BY <2>1, <2>3
  <2>. QED  BY <2>2, <2>4
<1>. HIDE DEF c
<1>5. c \in [K -> 1 .. N]
  BY <1>3 DEF c
<1>6. \A x, y \in K : c[x] = c[y] => x = y
  <2>. SUFFICES ASSUME NEW x \in K, NEW y \in K, c[x] = c[y] PROVE x = y
    OBVIOUS
  <2>1. c[x] \in Nat /\ c[y] \in Nat /\ x \in Nat /\ y \in Nat
    BY <1>1, <1>5
  <2>2. ~ (x < y) /\ ~ (y < x)
    BY <1>4, <2>1
  <2>. QED  BY <2>1, <2>2
<1>7. c \in Injection(K, 1 .. N)
  BY <1>5, <1>6 DEF Injection, IsInjective
<1>8. c \in Surjection(K, 1 .. N)
  BY <1>2, <1>7, FS_Injection
<1>9. \A n \in 1 .. N : \E x \in K : c[x] = n
  BY <1>8 DEF Surjection
<1>. DEFINE f == [n \in 1 .. N |-> CHOOSE x \in K : c[x] = n]
<1>10. \A n \in 1 .. N : f[n] \in K /\ c[f[n]] = n
  BY <1>9
<1>11. f \in [1 .. N -> K]
  BY <1>10
<1>. HIDE DEF f
<1>12. ASSUME NEW m \in 1 .. N, NEW n \in 1 .. N, m < n PROVE f[m] < f[n]
  <2>1. f[m] \in Nat /\ f[n] \in Nat /\ m \in Nat /\ n \in Nat
    <3>1. f[m] \in K /\ f[n] \in K
      BY <1>10
    <3>2. f[m] \in Nat /\ f[n] \in Nat
      BY <3>1
    <3>3. m \in Nat /\ n \in Nat
      BY <1>1
    <3>. QED  BY <3>2, <3>3
  <2>2. ~ (f[n] < f[m]) /\ f[n] # f[m]
    <3>1. f[n] < f[m] => n < m
      <4>1. f[n] < f[m] => c[f[n]] < c[f[m]]
        BY <1>4, <1>10
      <4>. QED  BY <1>10, <4>1
    <3>2. f[n] = f[m] => n = m
      BY <1>10
    <3>. QED  BY <1>12, <2>1, <3>1, <3>2
  <2>. QED  BY <2>1, <2>2
<1>13. Enumerates(f, K)
  BY <1>11, <1>12 DEF Enumerates
<1>. QED  BY <1>13

\* f gives the places in s of the elements of t, which are those of s outside
\* S, in order.
Selects(f, s, t, S) ==
  /\ f \in [1 .. Len(t) -> 1 .. Len(s)]
  /\ \A m, n \in 1 .. Len(t) : m < n => f[m] < f[n]
  /\ \A n \in 1 .. Len(t) : t[n] = s[f[n]] /\ t[n] \notin S
  /\ \A i \in 1 .. Len(s) : s[i] \notin S => \E n \in 1 .. Len(t) : f[n] = i

\* What taking blocks off the list amounts to.
LEMMA WithoutSelects ==
  ASSUME NEW T, NEW s \in Seq(T), NEW S
  PROVE  /\ Without(s, S) \in Seq(T)
         /\ \E f : Selects(f, s, Without(s, S), S)
<1>. DEFINE K == {i \in DOMAIN s : s[i] \notin S}
            N == Cardinality(K)
            pl == CHOOSE f \in [1 .. N -> K] : \A m, n \in DOMAIN f : m < n => f[m] < f[n]
            t == Without(s, S)
<1>1. DOMAIN s = 1 .. Len(s) /\ Len(s) \in Nat
  OBVIOUS
<1>2. K \in SUBSET Nat /\ K \in SUBSET (1 .. Len(s))
  BY <1>1
<1>3. IsFiniteSet(K)
  <2>1. IsFiniteSet(1 .. Len(s))
    BY <1>1, FS_Interval
  <2>. QED  BY <1>2, <2>1, FS_Subset
<1>4. N \in Nat
  BY <1>3, FS_CardinalityType
<1>5. Enumerates(pl, K)
  <2>1. PICK f : Enumerates(f, K)
    BY <1>2, <1>3, EnumerationExists
  <2>2. f \in [1 .. N -> K] /\ DOMAIN f = 1 .. N
    BY <2>1 DEF Enumerates
  <2>3. \A m, n \in DOMAIN f : m < n => f[m] < f[n]
    BY <2>1, <2>2 DEF Enumerates
  <2>. HIDE DEF K, N
  <2>4. pl \in [1 .. N -> K] /\ \A m, n \in DOMAIN pl : m < n => pl[m] < pl[n]
    BY <2>2, <2>3
  <2>. QED  BY <2>4 DEF Enumerates, N
<1>6. t = [n \in 1 .. N |-> s[pl[n]]]
  BY DEF Without
<1>. HIDE DEF pl, t
<1>7. \A n \in 1 .. N : pl[n] \in K
  BY <1>5 DEF Enumerates
<1>8. \A i \in K : i \in 1 .. Len(s) /\ s[i] \in T /\ s[i] \notin S
  BY <1>1
<1>9. \A i \in K : \E n \in 1 .. N : pl[n] = i
  <2>1. PICK k : k = K
    OBVIOUS
  <2>2. k \in SUBSET Nat /\ IsFiniteSet(k) /\ Enumerates(pl, k)
    BY <1>2, <1>3, <1>5, <2>1
  <2>3. \A i \in k : \E n \in 1 .. Cardinality(k) : pl[n] = i
    BY <2>2, EnumeratesAll
  <2>. QED  BY <2>1, <2>3
<1>10. \A i \in 1 .. Len(s) : s[i] \notin S => i \in K
  BY <1>1
<1>11. \A m, n \in 1 .. N : m < n => pl[m] < pl[n]
  BY <1>5 DEF Enumerates
<1>. HIDE DEF K, N
<1>12. t \in Seq(T) /\ Len(t) = N
  BY <1>4, <1>6, <1>7, <1>8
<1>13. pl \in [1 .. N -> 1 .. Len(s)]
  <2>1. pl \in [1 .. N -> K]
    BY <1>5 DEF Enumerates, N
  <2>. QED  BY <1>2, <2>1
<1>14. Selects(pl, s, t, S)
  BY <1>6, <1>7, <1>8, <1>9, <1>10, <1>11, <1>12, <1>13 DEF Selects
<1>. QED  BY <1>12, <1>14 DEF t

-----------------------------------------------------------------------------
(* Sums of block sizes                                                     *)

\* g adds up w from position i on, as far as n.
AddsUp(g, w, i, n) ==
  \A j \in 0 .. n : g[j] = IF j < i THEN 0 ELSE g[j - 1] + w[j]

\* Two functions that do agree as far as both go.
LEMMA SumsAgree ==
  ASSUME NEW w, NEW i \in Nat \ {0}, NEW n \in Nat, NEW g, NEW h,
         AddsUp(g, w, i, n), AddsUp(h, w, i, n)
  PROVE  \A j \in 0 .. n : g[j] = h[j]
<1>. DEFINE D == {j \in 0 .. n : g[j] # h[j]}
<1>1. SUFFICES ASSUME D # {} PROVE FALSE
  OBVIOUS
<1>2. PICK m \in D : \A j \in D : m <= j
  <2>1. D \in SUBSET Nat
    OBVIOUS
  <2>. HIDE DEF D
  <2>. QED  BY <1>1, <2>1, LeastNat
<1>3. m \in 0 .. n /\ g[m] # h[m]
  BY <1>2
<1>4. i <= m
  BY <1>3 DEF AddsUp
<1>5. m - 1 \in 0 .. n /\ m - 1 \notin D
  BY <1>2, <1>3, <1>4
<1>6. g[m - 1] = h[m - 1]
  BY <1>5
<1>7. g[m] = g[m - 1] + w[m] /\ h[m] = h[m - 1] + w[m]
  BY <1>3, <1>4 DEF AddsUp
<1>. QED  BY <1>3, <1>6, <1>7

\* The sum can be continued to any position.
LEMMA SumsExist ==
  ASSUME NEW w, NEW i \in Nat \ {0}
  PROVE  \A n \in Nat : \E g : AddsUp(g, w, i, n)
<1>. DEFINE D == {n \in Nat : ~ \E g : AddsUp(g, w, i, n)}
<1>1. SUFFICES ASSUME D # {} PROVE FALSE
  OBVIOUS
<1>2. PICK m \in D : \A j \in D : m <= j
  <2>1. D \in SUBSET Nat
    OBVIOUS
  <2>. HIDE DEF D
  <2>. QED  BY <1>1, <2>1, LeastNat
<1>3. m \in Nat /\ \A g : ~ AddsUp(g, w, i, m)
  BY <1>2
<1>4. CASE m = 0
  <2>1. AddsUp([j \in Nat |-> 0], w, i, 0)
    BY DEF AddsUp
  <2>. QED  BY <1>3, <1>4, <2>1
<1>5. CASE m # 0
  <2>1. m - 1 \in Nat /\ m - 1 \notin D
    BY <1>2, <1>3, <1>5
  <2>2. PICK g : AddsUp(g, w, i, m - 1)
    BY <2>1
  <2>. DEFINE h == [j \in Nat |-> IF j < m THEN g[j] ELSE IF m < i THEN 0 ELSE g[m - 1] + w[m]]
  <2>3. \A j \in 0 .. m - 1 : h[j] = g[j]
    BY <1>3
  <2>4. h[m] = IF m < i THEN 0 ELSE h[m - 1] + w[m]
    BY <1>3, <2>1
  <2>. HIDE DEF h
  <2>5. \A j \in 0 .. m - 1 : h[j] = IF j < i THEN 0 ELSE h[j - 1] + w[j]
    BY <1>3, <2>1, <2>2, <2>3 DEF AddsUp
  <2>6. AddsUp(h, w, i, m)
    BY <1>3, <2>4, <2>5 DEF AddsUp
  <2>. QED  BY <1>3, <2>6
<1>. QED  BY <1>4, <1>5

\* So the recursion of Bytes is one that a function satisfies.
LEMMA SumDefined ==
  ASSUME NEW w, NEW i \in Nat \ {0}
  PROVE  \E sum : sum = [j \in Nat |-> IF j < i THEN 0 ELSE sum[j - 1] + w[j]]
<1>. DEFINE G(n) == CHOOSE g : AddsUp(g, w, i, n)
            sum == [j \in Nat |-> G(j)[j]]
<1>1. \A n \in Nat : AddsUp(G(n), w, i, n)
  BY SumsExist
<1>. HIDE DEF G
<1>2. ASSUME NEW j \in Nat
      PROVE  sum[j] = IF j < i THEN 0 ELSE sum[j - 1] + w[j]
  <2>1. G(j)[j] = IF j < i THEN 0 ELSE G(j)[j - 1] + w[j]
    BY <1>1 DEF AddsUp
  <2>2. CASE j < i
    BY <2>1, <2>2
  <2>3. CASE ~ (j < i)
    <3>1. j - 1 \in Nat /\ j - 1 \in 0 .. j - 1
      BY <2>3
    <3>2. AddsUp(G(j), w, i, j - 1)
      BY <1>1, <3>1 DEF AddsUp
    <3>3. AddsUp(G(j - 1), w, i, j - 1)
      BY <1>1, <3>1
    <3>4. \A k \in 0 .. j - 1 : G(j)[k] = G(j - 1)[k]
      BY <3>1, <3>2, <3>3, SumsAgree
    <3>5. G(j)[j - 1] = G(j - 1)[j - 1]
      BY <3>1, <3>4
    <3>6. sum[j - 1] = G(j - 1)[j - 1] /\ sum[j] = G(j)[j]
      BY <3>1
    <3>. QED  BY <2>1, <2>3, <3>5, <3>6
  <2>. QED  BY <2>2, <2>3
<1>3. sum = [j \in Nat |-> IF j < i THEN 0 ELSE sum[j - 1] + w[j]]
  BY <1>2
<1>. QED  BY <1>3

\* Bytes adds one block at a time.
LEMMA BytesSteps ==
  ASSUME NEW i \in Nat \ {0}, NEW k \in Nat
  PROVE  /\ k < i => Bytes(i, k) = 0
         /\ i <= k => Bytes(i, k) = Bytes(i, k - 1) + size[list[k]]
<1>. DEFINE s == CHOOSE sum : sum = [j \in Nat |-> IF j < i THEN 0 ELSE sum[j - 1] + size[list[j]]]
            w == [j \in Nat |-> size[list[j]]]
<1>1. \E sum : sum = [j \in Nat |-> IF j < i THEN 0 ELSE sum[j - 1] + w[j]]
  <2>. HIDE DEF w
  <2>. QED  BY SumDefined
<1>2. PICK sum : sum = [j \in Nat |-> IF j < i THEN 0 ELSE sum[j - 1] + size[list[j]]]
  BY <1>1
<1>3. s = [j \in Nat |-> IF j < i THEN 0 ELSE s[j - 1] + size[list[j]]]
  BY <1>2
<1>4. \A n : Bytes(i, n) = s[n]
  BY DEF Bytes
<1>. HIDE DEF s
<1>5. s[k] = IF k < i THEN 0 ELSE s[k - 1] + size[list[k]]
  BY <1>3, Zenon
<1>6. Bytes(i, k) = IF k < i THEN 0 ELSE Bytes(i, k - 1) + size[list[k]]
  BY <1>4, <1>5
<1>. QED  BY <1>6

\* It is a number that grows with the positions.
LEMMA BytesGrow ==
  ASSUME list \in Seq(Blk), size \in [Blk -> Nat], NEW i \in 1 .. Len(list)
  PROVE  \A k \in 0 .. Len(list) :
           Bytes(i, k) \in Nat /\ \A j \in 0 .. k : Bytes(i, j) <= Bytes(i, k)
<1>. DEFINE Good(k) == Bytes(i, k) \in Nat /\ \A j \in 0 .. k : Bytes(i, j) <= Bytes(i, k)
            D == {k \in 0 .. Len(list) : ~ Good(k)}
<1>1. SUFFICES ASSUME D # {} PROVE FALSE
  OBVIOUS
<1>2. PICK m \in D : \A k \in D : m <= k
  <2>1. D \in SUBSET Nat
    OBVIOUS
  <2>. HIDE DEF D
  <2>. QED  BY <1>1, <2>1, LeastNat
<1>3. /\ m \in 0 .. Len(list) /\ ~ Good(m)
      /\ i \in Nat \ {0} /\ m \in Nat /\ Len(list) \in Nat
  BY <1>2
<1>4. CASE m < i
  <2>1. \A j \in 0 .. m : Bytes(i, j) = 0
    BY <1>3, <1>4, BytesSteps
  <2>. QED  BY <1>3, <2>1
<1>5. CASE i <= m
  <2>1. m - 1 \in 0 .. Len(list) /\ m - 1 \notin D
    BY <1>2, <1>3, <1>5
  <2>2. Good(m - 1)
    BY <2>1
  <2>3. Bytes(i, m) = Bytes(i, m - 1) + size[list[m]]
    BY <1>3, <1>5, BytesSteps
  <2>4. size[list[m]] \in Nat
    BY <1>3, <1>5
  <2>5. Bytes(i, m) \in Nat /\ Bytes(i, m - 1) <= Bytes(i, m)
    BY <2>2, <2>3, <2>4
  <2>6. \A j \in 0 .. m : Bytes(i, j) <= Bytes(i, m)
    <3>. SUFFICES ASSUME NEW j \in 0 .. m PROVE Bytes(i, j) <= Bytes(i, m)
      OBVIOUS
    <3>1. CASE j = m
      BY <2>5, <3>1
    <3>2. CASE j # m
      <4>1. j \in 0 .. m - 1
        BY <1>3, <3>2
      <4>2. Bytes(i, j) <= Bytes(i, m - 1)
        BY <2>2, <4>1
      <4>3. Bytes(i, j) \in Nat
        <5>1. j \in 0 .. Len(list) /\ j \notin D
          BY <1>2, <1>3, <4>1
        <5>. QED  BY <5>1
      <4>. QED  BY <2>2, <2>5, <4>2, <4>3
    <3>. QED  BY <3>1, <3>2
  <2>. QED  BY <1>3, <2>5, <2>6
<1>. QED  BY <1>3, <1>4, <1>5

\* Where the run that rt_rbb_blk_queue_get takes ends.
LEMMA RunEndIs ==
  ASSUME list \in Seq(Blk), NEW i \in DOMAIN list, NEW limit
  PROVE  /\ RunEnd(i, limit) \in RunEnds(i)
         /\ RunEnd(i, limit) \in i .. Len(list)
<1>. DEFINE E == {j \in RunEnds(i) : \A k \in i + 1 .. j : Bytes(i, k) <= limit}
<1>1. i \in Nat /\ Len(list) \in Nat /\ i <= Len(list)
  OBVIOUS
<1>2. RunEnds(i) \in SUBSET (i .. Len(list)) /\ i \in RunEnds(i)
  BY <1>1 DEF RunEnds
<1>3. E \in SUBSET Nat /\ i \in E /\ \A j \in E : j <= Len(list)
  BY <1>1, <1>2
<1>4. Max(E) \in E
  <2>. HIDE DEF E
  <2>. QED  BY <1>1, <1>3, MaxOfNats
<1>. QED  BY <1>2, <1>4 DEF RunEnd

\* The one that rt_rbb_next_blk_queue_len finds ends no earlier.
LEMMA LongestRun ==
  ASSUME list \in Seq(Blk), NEW i \in DOMAIN list
  PROVE  /\ Max(RunEnds(i)) \in i .. Len(list)
         /\ \A j \in RunEnds(i) : j <= Max(RunEnds(i))
<1>1. i \in Nat /\ Len(list) \in Nat /\ i <= Len(list)
  OBVIOUS
<1>2. RunEnds(i) \in SUBSET (i .. Len(list)) /\ i \in RunEnds(i)
  BY <1>1 DEF RunEnds
<1>3. RunEnds(i) \in SUBSET Nat /\ \A j \in RunEnds(i) : j <= Len(list)
  BY <1>1, <1>2
<1>4. Max(RunEnds(i)) \in RunEnds(i) /\ \A j \in RunEnds(i) : j <= Max(RunEnds(i))
  BY <1>1, <1>2, <1>3, MaxOfNats
<1>. QED  BY <1>2, <1>4

-----------------------------------------------------------------------------
(* Ring order                                                              *)

\* n blocks, the i-th from lo[i] up to hi[i], ascend with a step back to the
\* start of the buffer after the k-th.
Cut(k, n, lo, hi) ==
  /\ k \in 0 .. n
  /\ \A i, j \in 1 .. n : i < j /\ (j <= k \/ i > k) => hi[i] <= lo[j]
  /\ \A i \in k + 1 .. n : hi[i] <= lo[1]

\* Each of them has a place and a positive length.
Spans(n, lo, hi) ==
  \A i \in 1 .. n : lo[i] \in Nat /\ hi[i] \in Nat /\ lo[i] < hi[i]

\* An allocation looks at the first and the last block alone, and that is
\* enough to know where the step back is.
LEMMA CutAppend ==
  ASSUME NEW n \in Nat \ {0}, NEW lo, NEW hi, NEW k, Spans(n, lo, hi), Cut(k, n, lo, hi),
         NEW lo2, NEW hi2, Spans(n + 1, lo2, hi2),
         \A i \in 1 .. n : lo2[i] = lo[i] /\ hi2[i] = hi[i],
         \/ lo[1] <= lo[n] /\ hi[n] <= lo2[n + 1]
         \/ lo[1] <= lo[n] /\ hi2[n + 1] <= lo[1]
         \/ lo[n] < lo[1] /\ hi[n] <= lo2[n + 1] /\ hi2[n + 1] <= lo[1]
  PROVE  \E k2 : Cut(k2, n + 1, lo2, hi2)
<1>1. k \in 0 .. n /\ k \in Nat /\ 1 \in 1 .. n /\ n \in 1 .. n /\ n + 1 \in 1 .. n + 1
  BY DEF Cut
<1>2. /\ lo[1] \in Nat /\ hi[1] \in Nat /\ lo[1] < hi[1]
      /\ lo[n] \in Nat /\ hi[n] \in Nat /\ lo[n] < hi[n]
      /\ lo2[n + 1] \in Nat /\ hi2[n + 1] \in Nat
  BY <1>1 DEF Spans
<1>3. \A i \in 1 .. n : i \in Nat /\ lo[i] \in Nat /\ hi[i] \in Nat /\ lo[i] < hi[i]
  BY DEF Spans
<1>4. CASE lo[1] <= lo[n]
  <2>1. k = n
    <3>1. ~ (k < n)
      BY <1>1, <1>2, <1>4 DEF Cut
    <3>. QED  BY <1>1, <3>1
  <2>2. \A i, j \in 1 .. n : i < j => hi[i] <= lo[j]
    BY <2>1 DEF Cut
  <2>3. CASE hi[n] <= lo2[n + 1]
    <3>1. \A i \in 1 .. n : hi[i] <= hi[n]
      BY <1>1, <1>2, <1>3, <2>2
    <3>2. \A i \in 1 .. n : hi2[i] <= lo2[n + 1]
      BY <1>2, <1>3, <2>3, <3>1
    <3>3. \A i, j \in 1 .. n + 1 : i < j => hi2[i] <= lo2[j]
      BY <2>2, <3>2
    <3>4. Cut(n + 1, n + 1, lo2, hi2)
      BY <3>3 DEF Cut
    <3>. QED  BY <3>4
  <2>4. CASE hi2[n + 1] <= lo[1]
    <3>1. Cut(n, n + 1, lo2, hi2)
      <4>1. \A i, j \in 1 .. n + 1 : i < j /\ (j <= n \/ i > n) => hi2[i] <= lo2[j]
        BY <2>2
      <4>2. \A i \in n + 1 .. n + 1 : hi2[i] <= lo2[1]
        BY <1>1, <2>4
      <4>. QED  BY <4>1, <4>2 DEF Cut
    <3>. QED  BY <3>1
  <2>. QED  BY <1>2, <1>4, <2>3, <2>4
<1>5. CASE lo[n] < lo[1]
  <2>1. k < n
    <3>1. k # n
      BY <1>1, <1>2, <1>3, <1>5 DEF Cut
    <3>. QED  BY <1>1, <3>1
  <2>2. hi[n] <= lo2[n + 1] /\ hi2[n + 1] <= lo[1]
    BY <1>2, <1>5
  <2>3. \A i \in k + 1 .. n : hi[i] <= hi[n]
    BY <1>1, <1>2, <1>3 DEF Cut
  <2>4. \A i \in k + 1 .. n : hi2[i] <= lo2[n + 1]
    BY <1>1, <1>2, <1>3, <2>2, <2>3
  <2>5. \A i, j \in 1 .. n + 1 : i < j /\ (j <= k \/ i > k) => hi2[i] <= lo2[j]
    <3>. SUFFICES ASSUME NEW i \in 1 .. n + 1, NEW j \in 1 .. n + 1, i < j, j <= k \/ i > k
                  PROVE  hi2[i] <= lo2[j]
      OBVIOUS
    <3>1. CASE j = n + 1
      <4>1. i \in k + 1 .. n
        BY <1>1, <2>1, <3>1
      <4>. QED  BY <2>4, <3>1, <4>1
    <3>2. CASE j # n + 1
      <4>1. i \in 1 .. n /\ j \in 1 .. n
        BY <3>2
      <4>. QED  BY <4>1 DEF Cut
    <3>. QED  BY <3>1, <3>2
  <2>6. \A i \in k + 1 .. n + 1 : hi2[i] <= lo2[1]
    <3>. SUFFICES ASSUME NEW i \in k + 1 .. n + 1 PROVE hi2[i] <= lo2[1]
      OBVIOUS
    <3>1. CASE i = n + 1
      BY <1>1, <2>2, <3>1
    <3>2. CASE i # n + 1
      <4>1. i \in k + 1 .. n /\ i \in 1 .. n
        BY <1>1, <3>2
      <4>. QED  BY <1>1, <4>1 DEF Cut
    <3>. QED  BY <3>1, <3>2
  <2>7. Cut(k, n + 1, lo2, hi2)
    BY <1>1, <2>5, <2>6 DEF Cut
  <2>. QED  BY <2>7
<1>. QED  BY <1>2, <1>4, <1>5

\* The spans lo2 and hi2 are those of lo and hi at the places f.
Drawn(f, m, n, lo, hi, lo2, hi2) ==
  /\ f \in [1 .. m -> 1 .. n]
  /\ \A i, j \in 1 .. m : i < j => f[i] < f[j]
  /\ \A i \in 1 .. m : lo2[i] = lo[f[i]] /\ hi2[i] = hi[f[i]]

\* Blocks that leave the list do not disturb the order of the others, even
\* when all those before the step back have gone.
LEMMA CutSelect ==
  ASSUME NEW n \in Nat, NEW lo, NEW hi, NEW k, Spans(n, lo, hi), Cut(k, n, lo, hi),
         NEW m \in Nat, NEW f, NEW lo2, NEW hi2, Drawn(f, m, n, lo, hi, lo2, hi2)
  PROVE  \E k2 : Cut(k2, m, lo2, hi2)
<1>. USE DEF Drawn
<1>1. k \in Nat /\ k <= n
  BY DEF Cut
<1>2. \A i \in 1 .. m : i \in Nat /\ f[i] \in 1 .. n /\ f[i] \in Nat
  OBVIOUS
<1>. DEFINE Late == {i \in 1 .. m : k < f[i]}
<1>3. CASE Late = {}
  <2>1. \A i \in 1 .. m : f[i] <= k
    <3>1. \A i \in 1 .. m : ~ (k < f[i])
      BY <1>3
    <3>. QED  BY <1>1, <1>2, <3>1
  <2>2. \A i, j \in 1 .. m : i < j => hi2[i] <= lo2[j]
    BY <1>2, <2>1 DEF Cut
  <2>3. Cut(m, m, lo2, hi2)
    BY <2>2 DEF Cut
  <2>. QED  BY <2>3
<1>4. CASE Late # {}
  <2>1. PICK d \in Late : \A i \in Late : d <= i
    <3>1. Late \in SUBSET Nat
      OBVIOUS
    <3>. HIDE DEF Late
    <3>. QED  BY <1>4, <3>1, LeastNat
  <2>2. d \in 1 .. m /\ k < f[d] /\ d \in Nat
    BY <2>1
  <2>3. \A i \in 1 .. m : i < d => f[i] <= k
    BY <1>1, <1>2, <2>1, <2>2
  <2>4. \A i \in 1 .. m : d <= i => k < f[i]
    <3>. SUFFICES ASSUME NEW i \in 1 .. m, d <= i PROVE k < f[i]
      OBVIOUS
    <3>1. d = i \/ d < i
      BY <1>2, <2>2
    <3>2. d < i => f[d] < f[i]
      BY <2>2
    <3>. QED  BY <1>1, <1>2, <2>2, <3>1, <3>2
  <2>5. CASE d = 1
    <3>1. \A i \in 1 .. m : k < f[i]
      BY <1>2, <2>4, <2>5
    <3>2. \A i, j \in 1 .. m : i < j => hi2[i] <= lo2[j]
      BY <1>2, <3>1 DEF Cut
    <3>3. Cut(m, m, lo2, hi2)
      BY <3>2 DEF Cut
    <3>. QED  BY <3>3
  <2>6. CASE d # 1
    <3>1. 1 \in 1 .. m /\ 1 < d /\ f[1] <= k /\ 1 \in 1 .. n
      BY <1>2, <2>2, <2>3, <2>6
    <3>2. \A i, j \in 1 .. m : i < j /\ (j <= d - 1 \/ i > d - 1) => hi2[i] <= lo2[j]
      <4>. SUFFICES ASSUME NEW i \in 1 .. m, NEW j \in 1 .. m, i < j, j <= d - 1 \/ i > d - 1
                    PROVE  hi2[i] <= lo2[j]
        OBVIOUS
      <4>1. f[i] < f[j]
        OBVIOUS
      <4>2. f[j] <= k \/ f[i] > k
        BY <1>2, <2>2, <2>3, <2>4
      <4>3. hi[f[i]] <= lo[f[j]]
        BY <1>2, <4>1, <4>2 DEF Cut
      <4>. QED  BY <4>3
    <3>3. lo[1] <= lo[f[1]]
      <4>1. f[1] = 1 \/ 1 < f[1]
        BY <1>2, <3>1
      <4>2. 1 < f[1] => hi[1] <= lo[f[1]]
        BY <1>2, <3>1 DEF Cut
      <4>3. lo[1] \in Nat /\ hi[1] \in Nat /\ lo[1] < hi[1] /\ lo[f[1]] \in Nat
        BY <1>2, <3>1 DEF Spans
      <4>. QED  BY <4>1, <4>2, <4>3
    <3>4. \A i \in d .. m : hi2[i] <= lo2[1]
      <4>. SUFFICES ASSUME NEW i \in d .. m PROVE hi2[i] <= lo2[1]
        OBVIOUS
      <4>1. i \in 1 .. m /\ d <= i
        BY <2>2
      <4>2. f[i] \in k + 1 .. n
        BY <1>1, <1>2, <2>4, <4>1
      <4>3. hi[f[i]] <= lo[1]
        BY <4>2 DEF Cut
      <4>4. hi[f[i]] \in Nat /\ lo[1] \in Nat /\ lo[f[1]] \in Nat
        BY <1>2, <3>1, <4>1 DEF Spans
      <4>. QED  BY <3>1, <3>3, <4>1, <4>3, <4>4
    <3>5. Cut(d - 1, m, lo2, hi2)
      BY <2>2, <3>2, <3>4 DEF Cut
    <3>. QED  BY <3>5
  <2>. QED  BY <2>5, <2>6
<1>. QED  BY <1>3, <1>4

-----------------------------------------------------------------------------
(* The invariant                                                           *)

\* What a block occupies is inside the buffer.
Sizes == \A b \in Blk : Used(b) => 0 < size[b] /\ End(b) <= BufSize

\* No queue, no bytes in it.
Idle == queue = NoQueue => total = 0

\* The inductive invariant.
IInv == TypeOK /\ ListHoldsPending /\ Sizes /\ Idle

\* The spans of the blocks on the list, and their order as one of them.
Lo == [i \in DOMAIN list |-> buf[list[i]]]
Hi == [i \in DOMAIN list |-> End(list[i])]

\* The order of the list is that of the spans of its blocks,
LEMMA OrderIsCut ==
  list \in Seq(Blk) => (RingOrder <=> \E k : Cut(k, Len(list), Lo, Hi))
<1>. SUFFICES ASSUME list \in Seq(Blk) PROVE RingOrder <=> \E k : Cut(k, Len(list), Lo, Hi)
  OBVIOUS
<1>1. DOMAIN list = 1 .. Len(list) /\ Len(list) \in Nat
  OBVIOUS
<1>2. /\ \A i \in 1 .. Len(list) : Lo[i] = buf[list[i]] /\ Hi[i] = End(list[i])
      /\ 1 \in DOMAIN list \/ Len(list) = 0
  BY <1>1 DEF Lo, Hi
<1>3. ASSUME NEW k \in 0 .. Len(list)
      PROVE  Cut(k, Len(list), Lo, Hi) <=>
               /\ \A i, j \in 1 .. Len(list) :
                    i < j /\ (j <= k \/ i > k) => End(list[i]) <= buf[list[j]]
               /\ \A i \in k + 1 .. Len(list) : End(list[i]) <= buf[list[1]]
  <2>1. \A i \in k + 1 .. Len(list) : i \in 1 .. Len(list) /\ 1 \in 1 .. Len(list)
    BY <1>1
  <2>2. \A i \in k + 1 .. Len(list) : Hi[i] = End(list[i]) /\ Lo[1] = buf[list[1]]
    BY <1>2, <2>1
  <2>. QED  BY <1>2, <2>2 DEF Cut
<1>4. \A k : Cut(k, Len(list), Lo, Hi) => k \in 0 .. Len(list)
  BY DEF Cut
<1>. QED  BY <1>3, <1>4 DEF RingOrder

\* in the next state too.
LEMMA OrderIsCutNext ==
  (list \in Seq(Blk))' => (RingOrder' <=> (\E k : Cut(k, Len(list), Lo, Hi))')
<1>. QED  BY OrderIsCut, PTL

\* Every block on the list occupies some memory.
LEMMA OnListSpans ==
  ASSUME TypeOK, ListHoldsPending, Sizes
  PROVE  Spans(Len(list), Lo, Hi)
<1>. SUFFICES ASSUME NEW i \in 1 .. Len(list)
              PROVE  Lo[i] \in Nat /\ Hi[i] \in Nat /\ Lo[i] < Hi[i]
  BY DEF Spans
<1>1. i \in DOMAIN list /\ list[i] \in Blk /\ list[i] \in ToSet(list)
  BY DEF TypeOK, ToSet
<1>2. buf[list[i]] \in Nat /\ size[list[i]] \in Nat /\ 0 < size[list[i]]
  BY <1>1 DEF TypeOK, ListHoldsPending, Sizes
<1>. QED  BY <1>1, <1>2 DEF Lo, Hi, End

\* The memory of a new block: its own, as far as the list goes.
LEMMA RoomIs ==
  ASSUME IInv, NEW n \in AllocSizes, NEW x \in Room(n)
  PROVE  /\ n \in Nat /\ 0 < n /\ x \in Nat /\ x + n <= BufSize
         /\ list # << >> =>
              \/ Lo[1] <= Lo[Len(list)] /\ Hi[Len(list)] <= x
              \/ Lo[1] <= Lo[Len(list)] /\ x + n <= Lo[1]
              \/ Lo[Len(list)] < Lo[1] /\ Hi[Len(list)] <= x /\ x + n <= Lo[1]
<1>1. n \in Nat /\ 0 < n /\ n <= BufSize /\ BufSize \in Nat
  BY RingBlockAssumption
<1>2. CASE list = << >>
  BY <1>1, <1>2 DEF Room
<1>3. CASE list # << >>
  <2>1. /\ Len(list) \in Nat \ {0} /\ DOMAIN list = 1 .. Len(list)
        /\ Head(list) = list[1] /\ Last(list) = list[Len(list)]
        /\ \A i \in 1 .. Len(list) : list[i] \in Blk /\ list[i] \in ToSet(list)
    BY <1>3 DEF IInv, TypeOK, Last, ToSet
  <2>2. Spans(Len(list), Lo, Hi)
    BY OnListSpans DEF IInv
  <2>3. /\ Lo[1] = buf[Head(list)] /\ Lo[Len(list)] = buf[Last(list)]
        /\ Hi[1] = End(Head(list)) /\ Hi[Len(list)] = End(Last(list))
    BY <2>1 DEF Lo, Hi
  <2>4. /\ Lo[1] \in Nat /\ Lo[Len(list)] \in Nat /\ Hi[1] \in Nat /\ Hi[Len(list)] \in Nat
        /\ Lo[1] < Hi[1] /\ Lo[Len(list)] < Hi[Len(list)]
    BY <2>1, <2>2 DEF Spans
  <2>5. Hi[1] <= BufSize
    BY <2>1, <2>3 DEF IInv, ListHoldsPending, Sizes
  <2>6. x \in IF Lo[1] <= Lo[Len(list)]
                THEN IF Hi[Len(list)] + n <= BufSize THEN {Hi[Len(list)]}
                     ELSE IF n <= Lo[1] THEN {0} ELSE {}
              ELSE IF Hi[Len(list)] + n <= Lo[1] THEN {Hi[Len(list)]} ELSE {}
    BY <1>3, <2>3 DEF Room
  <2>. QED  BY <1>1, <2>4, <2>5, <2>6
<1>. QED  BY <1>2, <1>3

-----------------------------------------------------------------------------
(* The steps                                                               *)

\* rt_rbb_blk_alloc: the new block is put behind the others, where there is
\* room for it.
LEMMA AllocStep ==
  ASSUME IInv, NEW n \in AllocSizes, Alloc(n)
  PROVE  IInv'
<1>1. PICK b \in EmptyBlk, x \in Room(n) :
        /\ list' = Append(list, b)
        /\ status' = [status EXCEPT ![b] = "INITED"]
        /\ buf' = [buf EXCEPT ![b] = x]
        /\ size' = [size EXCEPT ![b] = n]
        /\ UNCHANGED <<queue, total>>
  BY DEF Alloc
<1>2. b \in Blk /\ ~ Used(b)
  BY DEF EmptyBlk
<1>3. /\ n \in Nat /\ 0 < n /\ x \in Nat /\ x + n <= BufSize
      /\ list # << >> =>
           \/ Lo[1] <= Lo[Len(list)] /\ Hi[Len(list)] <= x
           \/ Lo[1] <= Lo[Len(list)] /\ x + n <= Lo[1]
           \/ Lo[Len(list)] < Lo[1] /\ Hi[Len(list)] <= x /\ x + n <= Lo[1]
  BY RoomIs
<1>4. TypeOK'
  BY <1>1, <1>2, <1>3 DEF IInv, TypeOK, Status
<1>5. /\ Len(list) \in Nat /\ DOMAIN list = 1 .. Len(list) /\ list \in Seq(Blk)
      /\ Len(list') = Len(list) + 1 /\ DOMAIN list' = 1 .. Len(list) + 1
      /\ list'[Len(list) + 1] = b
      /\ \A i \in 1 .. Len(list) : list'[i] = list[i]
  BY <1>1 DEF IInv, TypeOK
<1>6. b \notin ToSet(list) /\ ToSet(list') = ToSet(list) \cup {b}
  <2>1. b \notin ToSet(list)
    BY <1>2 DEF IInv, ListHoldsPending
  <2>2. ToSet(list') = ToSet(list) \cup {b}
    BY <1>5 DEF ToSet
  <2>. QED  BY <2>1, <2>2
<1>7. \A i \in 1 .. Len(list) : list[i] \in Blk /\ list[i] # b
  BY <1>5, <1>6 DEF ToSet
<1>8. /\ buf'[b] = x /\ size'[b] = n /\ status'[b] = "INITED"
      /\ \A c \in Blk : c # b => buf'[c] = buf[c] /\ size'[c] = size[c] /\ status'[c] = status[c]
  BY <1>1, <1>2 DEF IInv, TypeOK
<1>9. Sizes'
  BY <1>3, <1>8 DEF IInv, Sizes, Used, End
<1>10. /\ \A i \in 1 .. Len(list) : Lo'[i] = Lo[i] /\ Hi'[i] = Hi[i]
       /\ Lo'[Len(list) + 1] = x /\ Hi'[Len(list) + 1] = x + n
  BY <1>5, <1>7, <1>8 DEF Lo, Hi, End
<1>11. RingOrder'
  <2>1. Spans(Len(list), Lo, Hi)
    BY OnListSpans DEF IInv
  <2>2. Spans(Len(list) + 1, Lo', Hi')
    <3>. SUFFICES ASSUME NEW i \in 1 .. Len(list) + 1
                  PROVE  Lo'[i] \in Nat /\ Hi'[i] \in Nat /\ Lo'[i] < Hi'[i]
      BY DEF Spans
    <3>1. CASE i \in 1 .. Len(list)
      BY <1>10, <2>1, <3>1 DEF Spans
    <3>2. CASE i = Len(list) + 1
      BY <1>3, <1>10, <3>2
    <3>3. i \in 1 .. Len(list) \/ i = Len(list) + 1
      BY <1>5
    <3>. QED  BY <3>1, <3>2, <3>3
  <2>3. PICK c : Cut(c, Len(list), Lo, Hi)
    BY OrderIsCut DEF IInv, TypeOK, ListHoldsPending
  <2>4. \E k2 : Cut(k2, Len(list) + 1, Lo', Hi')
    <3>1. CASE list = << >>
      <4>1. Len(list) = 0
        BY <3>1
      <4>2. Cut(1, 1, Lo', Hi')
        BY DEF Cut
      <4>. QED  BY <4>1, <4>2
    <3>2. CASE list # << >>
      <4>1. Len(list) \in Nat \ {0}
        BY <1>5, <3>2
      <4>. QED  BY <1>3, <1>10, <2>1, <2>2, <2>3, <3>2, <4>1, CutAppend
    <3>. QED  BY <3>1, <3>2
  <2>5. (\E k : Cut(k, Len(list), Lo, Hi))'
    BY <1>5, <2>4
  <2>. QED  BY <1>4, <2>5, OrderIsCutNext DEF TypeOK
<1>12. IsInjective(list')
  BY <1>5, <1>7 DEF IInv, ListHoldsPending, IsInjective
<1>13. ListHoldsPending'
  <2>1. \A c \in Blk : status'[c] \in {"INITED", "PUT"} => c \in ToSet(list')
    BY <1>6, <1>8 DEF IInv, ListHoldsPending
  <2>2. \A c \in ToSet(list') : Used(c)'
    <3>1. ToSet(list) \subseteq Blk
      BY <1>5, <1>7 DEF ToSet
    <3>. QED  BY <1>6, <1>8, <3>1 DEF IInv, ListHoldsPending, Used
  <2>. QED  BY <1>11, <1>12, <2>1, <2>2 DEF ListHoldsPending
<1>. QED  BY <1>1, <1>4, <1>9, <1>13 DEF IInv, Idle

\* What is left of the list when the blocks of S have gone.
LEMMA ListShrinks ==
  ASSUME IInv, NEW S, list' = Without(list, S), UNCHANGED <<buf, size>>
  PROVE  /\ list' \in Seq(Blk)
         /\ IsInjective(list')
         /\ RingOrder'
         /\ ToSet(list') = ToSet(list) \ S
<1>1. list \in Seq(Blk)
  BY DEF IInv, TypeOK
<1>2. list' \in Seq(Blk) /\ \E f : Selects(f, list, list', S)
  BY <1>1, WithoutSelects
<1>3. PICK f : Selects(f, list, list', S)
  BY <1>2
<1>4. /\ Len(list) \in Nat /\ DOMAIN list = 1 .. Len(list)
      /\ Len(list') \in Nat /\ DOMAIN list' = 1 .. Len(list')
  BY <1>1, <1>2
<1>5. /\ f \in [1 .. Len(list') -> 1 .. Len(list)]
      /\ \A i, j \in 1 .. Len(list') : i < j => f[i] < f[j]
      /\ \A i \in 1 .. Len(list') : list'[i] = list[f[i]] /\ list'[i] \notin S
      /\ \A i \in 1 .. Len(list) : list[i] \notin S => \E n \in 1 .. Len(list') : f[n] = i
  BY <1>3 DEF Selects
<1>6. \A i \in 1 .. Len(list') : f[i] \in DOMAIN list /\ f[i] \in Nat /\ i \in Nat
  BY <1>4, <1>5
<1>7. RingOrder'
  <2>1. \A i \in 1 .. Len(list') : Lo'[i] = Lo[f[i]] /\ Hi'[i] = Hi[f[i]]
    BY <1>4, <1>5, <1>6 DEF Lo, Hi, End
  <2>2. Spans(Len(list), Lo, Hi)
    BY OnListSpans DEF IInv
  <2>3. PICK c : Cut(c, Len(list), Lo, Hi)
    BY <1>1, OrderIsCut DEF IInv, ListHoldsPending
  <2>4. \E k : Cut(k, Len(list'), Lo', Hi')
    <3>1. PICK n, m, lo, hi, lo2, hi2 :
            n = Len(list) /\ m = Len(list') /\ lo = Lo /\ hi = Hi /\ lo2 = Lo' /\ hi2 = Hi'
      OBVIOUS
    <3>2. n \in Nat /\ m \in Nat
      BY <1>4, <3>1
    <3>3. Drawn(f, m, n, lo, hi, lo2, hi2)
      BY <1>5, <2>1, <3>1 DEF Drawn
    <3>4. Spans(n, lo, hi) /\ Cut(c, n, lo, hi)
      BY <2>2, <2>3, <3>1
    <3>5. \E k : Cut(k, m, lo2, hi2)
      BY <3>2, <3>3, <3>4, CutSelect
    <3>. QED  BY <3>1, <3>5
  <2>5. (\E k : Cut(k, Len(list), Lo, Hi))'
    BY <2>4
  <2>. QED  BY <1>2, <2>5, OrderIsCutNext
<1>8. IsInjective(list')
  <2>. SUFFICES ASSUME NEW i \in DOMAIN list', NEW j \in DOMAIN list', list'[i] = list'[j]
                PROVE  i = j
    BY DEF IsInjective
  <2>1. list[f[i]] = list[f[j]] /\ f[i] \in DOMAIN list /\ f[j] \in DOMAIN list
    BY <1>4, <1>5, <1>6
  <2>2. f[i] = f[j] /\ f[i] \in Nat
    BY <1>4, <1>6, <2>1 DEF IInv, ListHoldsPending, IsInjective
  <2>3. ~ (i < j) /\ ~ (j < i) /\ i \in Nat /\ j \in Nat
    BY <1>4, <1>5, <1>6, <2>2
  <2>. QED  BY <2>3
<1>9. ToSet(list') = ToSet(list) \ S
  <2>1. \A i \in DOMAIN list' : list'[i] \in ToSet(list) \ S
    BY <1>4, <1>5, <1>6 DEF ToSet
  <2>2. ASSUME NEW i \in DOMAIN list, list[i] \notin S
        PROVE  \E n \in DOMAIN list' : list'[n] = list[i]
    <3>1. PICK n \in 1 .. Len(list') : f[n] = i
      BY <1>4, <1>5, <2>2
    <3>2. list'[n] = list[f[n]]
      BY <1>5
    <3>. QED  BY <1>4, <3>1, <3>2
  <2>. QED  BY <2>1, <2>2 DEF ToSet
<1>. QED  BY <1>2, <1>7, <1>8, <1>9

\* rt_rbb_blk_free, of a block or of those of a queue.
LEMMA FreedStep ==
  ASSUME IInv, NEW S, Freed(S), UNCHANGED <<buf, size>>
  PROVE  TypeOK /\ status' \in [Blk -> Status] /\ list' \in Seq(Blk)
         /\ ListHoldsPending' /\ Sizes'
<1>1. /\ list' \in Seq(Blk) /\ IsInjective(list') /\ RingOrder'
      /\ ToSet(list') = ToSet(list) \ S
  BY ListShrinks DEF Freed
<1>2. /\ status' \in [Blk -> Status]
      /\ \A b \in Blk : status'[b] = IF b \in S THEN "UNUSED" ELSE status[b]
  BY DEF Freed, IInv, TypeOK, Status
<1>3. ToSet(list) \subseteq Blk
  BY DEF IInv, TypeOK, ToSet
<1>4. \A b \in Blk : status'[b] \in {"INITED", "PUT"} => b \in ToSet(list')
  BY <1>1, <1>2 DEF IInv, ListHoldsPending
<1>5. \A b \in ToSet(list') : Used(b)'
  BY <1>1, <1>2, <1>3 DEF IInv, ListHoldsPending, Used
<1>6. Sizes'
  BY <1>2 DEF IInv, Sizes, Used, End
<1>. QED  BY <1>1, <1>2, <1>4, <1>5, <1>6 DEF IInv, ListHoldsPending

\* A block changes hands: it is used before and after.
LEMMA StatusStep ==
  ASSUME IInv, NEW b \in Blk, Used(b), NEW s \in Status, s # "UNUSED",
         s \in {"INITED", "PUT"} => b \in ToSet(list),
         status' = [status EXCEPT ![b] = s], UNCHANGED <<buf, size, list, queue, total>>
  PROVE  IInv'
<1>1. status' \in [Blk -> Status]
      /\ \A c \in Blk : status'[c] = IF c = b THEN s ELSE status[c]
  BY DEF IInv, TypeOK
<1>2. TypeOK'
  BY <1>1 DEF IInv, TypeOK
<1>3. ToSet(list) \subseteq Blk
  BY DEF IInv, TypeOK, ToSet
<1>4. RingOrder' /\ IsInjective(list')
  BY DEF IInv, ListHoldsPending, RingOrder, End
<1>5. \A c \in Blk : status'[c] \in {"INITED", "PUT"} => c \in ToSet(list')
  BY <1>1 DEF IInv, ListHoldsPending
<1>6. \A c \in ToSet(list') : Used(c)'
  BY <1>1, <1>3 DEF IInv, ListHoldsPending, Used
<1>7. Sizes'
  BY <1>1 DEF IInv, Sizes, Used, End
<1>. QED  BY <1>2, <1>4, <1>5, <1>6, <1>7 DEF IInv, ListHoldsPending, Idle

\* rt_rbb_blk_queue_get: the blocks of a run are used on, off the list.
LEMMA QueueGetStep ==
  ASSUME IInv, NEW limit, QueueGet(limit)
  PROVE  IInv'
<1>1. PICK i \in FirstPut :
        LET last == RunEnd(i, limit)
            run == {list[k] : k \in i .. last}
        IN  /\ queue' = [blocks |-> list[i], num |-> last - i + 1]
            /\ total' = Bytes(i, last)
            /\ status' = [b \in Blk |-> IF b \in run THEN "GET" ELSE status[b]]
            /\ list' = Without(list, run)
  BY DEF QueueGet
<1>. DEFINE last == RunEnd(i, limit)
            run == {list[k] : k \in i .. last}
<1>2. /\ i \in DOMAIN list /\ list \in Seq(Blk) /\ list[i] \in Blk
      /\ i \in Nat /\ Len(list) \in Nat /\ DOMAIN list = 1 .. Len(list)
  BY DEF FirstPut, IInv, TypeOK
<1>3. last \in i .. Len(list)
  BY <1>2, RunEndIs
<1>4. /\ queue' = [blocks |-> list[i], num |-> last - i + 1]
      /\ total' = Bytes(i, last)
      /\ \A b \in Blk : status'[b] = IF b \in run THEN "GET" ELSE status[b]
      /\ status' \in [Blk -> Status]
      /\ list' = Without(list, run)
      /\ UNCHANGED <<buf, size>>
  BY <1>1 DEF QueueGet, IInv, TypeOK, Status
<1>5. run \subseteq ToSet(list)
  BY <1>2, <1>3 DEF ToSet
<1>. HIDE DEF last, run
<1>6. queue' \in [blocks : Blk, num : Nat] /\ queue' # NoQueue
  BY <1>2, <1>3, <1>4, RingBlockAssumption DEF Blk
<1>7. total' \in Nat
  <2>1. i \in 1 .. Len(list) /\ last \in 0 .. Len(list) /\ size \in [Blk -> Nat]
    BY <1>2, <1>3 DEF IInv, TypeOK
  <2>. QED  BY <1>2, <1>4, <2>1, BytesGrow
<1>8. /\ list' \in Seq(Blk) /\ IsInjective(list') /\ RingOrder'
      /\ ToSet(list') = ToSet(list) \ run
  BY <1>4, ListShrinks
<1>9. TypeOK'
  BY <1>4, <1>6, <1>7, <1>8 DEF IInv, TypeOK
<1>10. ToSet(list) \subseteq Blk
  BY <1>2 DEF ToSet
<1>11. \A b \in Blk : status'[b] \in {"INITED", "PUT"} => b \in ToSet(list')
  BY <1>4, <1>8 DEF IInv, ListHoldsPending
<1>12. \A b \in ToSet(list') : Used(b)'
  BY <1>4, <1>8, <1>10 DEF IInv, ListHoldsPending, Used
<1>13. \A b \in Blk : Used(b)' => Used(b)
  BY <1>4, <1>5 DEF IInv, ListHoldsPending, Used
<1>14. Sizes'
  BY <1>4, <1>13 DEF IInv, Sizes, End
<1>. QED  BY <1>6, <1>8, <1>9, <1>11, <1>12, <1>14 DEF IInv, ListHoldsPending, Idle

\* At rt_rbb_init there is no block,
LEMMA InvInit == RbbInit => IInv
<1>. SUFFICES ASSUME RbbInit PROVE IInv
  OBVIOUS
<1>1. TypeOK
  BY DEF RbbInit, TypeOK, Status
<1>2. list = << >> /\ Len(list) = 0 /\ DOMAIN list = {} /\ ToSet(list) = {}
  BY DEF RbbInit, ToSet
<1>3. RingOrder
  BY <1>2 DEF RingOrder
<1>4. IsInjective(list)
  BY <1>2 DEF IsInjective
<1>5. \A b \in Blk : status[b] = "UNUSED"
  BY DEF RbbInit
<1>. QED  BY <1>1, <1>2, <1>3, <1>4, <1>5 DEF RbbInit, IInv, ListHoldsPending, Sizes, Idle, Used

\* and every operation preserves the invariant.
LEMMA InvStep == IInv /\ [RbbNext]_vars => IInv'
<1>. SUFFICES ASSUME IInv, [RbbNext]_vars PROVE IInv'
  OBVIOUS
<1>1. CASE \E n \in AllocSizes : Alloc(n)
  BY <1>1, AllocStep
<1>2. ASSUME NEW b \in Blk, BlkPut(b) PROVE IInv'
  <2>1. b \in ToSet(list) /\ Used(b)
    BY <1>2 DEF BlkPut, IInv, ListHoldsPending, Used
  <2>. QED  BY <1>2, <2>1, StatusStep DEF BlkPut, Status
<1>3. CASE BlkGet
  <2>1. PICK i \in FirstPut : status' = [status EXCEPT ![list[i]] = "GET"]
    BY <1>3 DEF BlkGet
  <2>2. list[i] \in Blk /\ Used(list[i])
    BY DEF FirstPut, Used, IInv, TypeOK
  <2>. QED  BY <1>3, <2>1, <2>2, StatusStep DEF BlkGet, Status
<1>4. ASSUME NEW b \in Blk, BlkFree(b) PROVE IInv'
  <2>1. /\ status' \in [Blk -> Status] /\ list' \in Seq(Blk)
        /\ ListHoldsPending' /\ Sizes'
    BY <1>4, FreedStep DEF BlkFree
  <2>. QED  BY <1>4, <2>1 DEF BlkFree, IInv, TypeOK, Idle
<1>5. CASE QueueFree
  <2>1. /\ status' \in [Blk -> Status] /\ list' \in Seq(Blk)
        /\ ListHoldsPending' /\ Sizes'
    BY <1>5, FreedStep DEF QueueFree
  <2>. QED  BY <1>5, <2>1 DEF QueueFree, IInv, TypeOK, Idle
<1>6. CASE \E limit \in Limits : QueueGet(limit)
  BY <1>6, QueueGetStep
<1>7. CASE UNCHANGED vars
  BY <1>7 DEF vars, IInv, TypeOK, ListHoldsPending, IsInjective, RingOrder, ToSet, Sizes,
              Idle, Used, End
<1>. QED  BY <1>1, <1>2, <1>3, <1>4, <1>5, <1>6, <1>7
          DEF RbbNext, BlockNext, QueueNext

\* So it always holds.
LEMMA Invariance == RbbSpec => []IInv
<1>. QED  BY InvInit, InvStep, PTL DEF RbbSpec

-----------------------------------------------------------------------------
(* The theorems                                                            *)

\* Every field keeps its type: a list of blocks, and a queue whose number and
\* size in bytes are those of a run of them.
THEOREM TypeCorrect == RbbSpec => []TypeOK
<1>1. IInv => TypeOK
  BY DEF IInv
<1>. QED  BY <1>1, Invariance, PTL

\* No pending block is lost (ringblk_buf.c:133-226, 320-336, 362-423): the list
\* holds it, once, and in ring order.
THEOREM ListHoldsPendingHolds == RbbSpec => []ListHoldsPending
<1>1. IInv => ListHoldsPending
  BY DEF IInv
<1>. QED  BY <1>1, Invariance, PTL

\* Blocks at different places of the list do not overlap.
LEMMA OnListApart ==
  ASSUME IInv, NEW i \in DOMAIN list, NEW j \in DOMAIN list, i < j
  PROVE  ~ Overlap(list[i], list[j])
<1>1. list \in Seq(Blk)
  BY DEF IInv, TypeOK
<1>2. /\ i \in 1 .. Len(list) /\ j \in 1 .. Len(list) /\ i \in Nat /\ j \in Nat
      /\ Len(list) \in Nat /\ 1 \in 1 .. Len(list)
  BY <1>1
<1>3. PICK k : Cut(k, Len(list), Lo, Hi)
  BY <1>1, OrderIsCut DEF IInv, ListHoldsPending
<1>4. Spans(Len(list), Lo, Hi)
  BY OnListSpans DEF IInv
<1>5. \A l \in 1 .. Len(list) : Lo[l] \in Nat /\ Hi[l] \in Nat /\ Lo[l] < Hi[l]
  BY <1>4 DEF Spans
<1>6. Hi[i] <= Lo[j] \/ Hi[j] <= Lo[i]
  <2>1. CASE j <= k \/ i > k
    BY <1>2, <1>3, <2>1 DEF Cut
  <2>2. CASE ~ (j <= k \/ i > k)
    <3>1. k \in Nat /\ j \in k + 1 .. Len(list) /\ i <= k
      BY <1>2, <1>3, <2>2 DEF Cut
    <3>2. Hi[j] <= Lo[1]
      BY <1>3, <3>1 DEF Cut
    <3>3. i = 1 \/ Hi[1] <= Lo[i]
      BY <1>2, <1>3, <3>1 DEF Cut
    <3>. QED  BY <1>2, <1>5, <3>2, <3>3
  <2>. QED  BY <2>1, <2>2
<1>7. Lo[i] = buf[list[i]] /\ Hi[i] = End(list[i]) /\ Lo[j] = buf[list[j]] /\ Hi[j] = End(list[j])
  BY DEF Lo, Hi
<1>. QED  BY <1>2, <1>5, <1>6, <1>7 DEF Overlap

\* Two blocks share memory only if one of them has left the list in a block
\* queue (ringblk_buf.c:152-206, 414): on the list, ring order keeps them apart,
\* and a used block off the list is one that the consumer got.
THEOREM OverlapOnlyHeldHolds == RbbSpec => []OverlapOnlyHeld
<1>1. IInv => OverlapOnlyHeld
  <2>. SUFFICES ASSUME IInv PROVE OverlapOnlyHeld
    OBVIOUS
  <2>1. \A b \in Blk : Used(b) => End(b) <= BufSize
    BY DEF IInv, Sizes
  <2>2. ASSUME NEW b \in Blk, NEW c \in Blk, b # c, Used(b), Used(c), Overlap(b, c)
        PROVE  \E d \in {b, c} : status[d] = "GET" /\ d \notin ToSet(list)
    <3>1. SUFFICES ASSUME b \in ToSet(list), c \in ToSet(list) PROVE FALSE
      BY <2>2 DEF IInv, TypeOK, Status, ListHoldsPending, Used
    <3>2. PICK i \in DOMAIN list, j \in DOMAIN list : b = list[i] /\ c = list[j]
      BY <3>1 DEF ToSet
    <3>3. i \in Nat /\ j \in Nat /\ i # j
      BY <2>2, <3>2 DEF IInv, TypeOK
    <3>4. Overlap(c, b)
      BY <2>2 DEF Overlap
    <3>. QED  BY <2>2, <3>2, <3>3, <3>4, OnListApart
  <2>. QED  BY <2>1, <2>2 DEF OverlapOnlyHeld
<1>. QED  BY <1>1, Invariance, PTL

\* The first PUT block of the list is one block.
LEMMA FirstPutUnique ==
  ASSUME TypeOK, NEW i \in FirstPut, NEW j \in FirstPut
  PROVE  i = j
<1>1. i \in Nat /\ j \in Nat /\ 1 <= i /\ 1 <= j
  BY DEF FirstPut, TypeOK
<1>2. ~ (i < j) /\ ~ (j < i)
  BY <1>1 DEF FirstPut
<1>. QED  BY <1>1, <1>2

\* What rt_rbb_next_blk_queue_len announces.
LEMMA NextQueueLenIs ==
  ASSUME TypeOK
  PROVE  /\ NextQueueLen \in Nat
         /\ \A i \in FirstPut : NextQueueLen = Bytes(i, Max(RunEnds(i)))
<1>1. CASE FirstPut = {}
  BY <1>1 DEF NextQueueLen
<1>2. CASE FirstPut # {}
  <2>1. PICK i : i \in FirstPut /\ i = CHOOSE j \in FirstPut : TRUE
    BY <1>2
  <2>2. NextQueueLen = Bytes(i, Max(RunEnds(i)))
    BY <1>2, <2>1, Zenon DEF NextQueueLen
  <2>3. /\ list \in Seq(Blk) /\ size \in [Blk -> Nat]
        /\ i \in DOMAIN list /\ i \in 1 .. Len(list) /\ i \in Nat /\ Len(list) \in Nat
    <3>1. list \in Seq(Blk) /\ size \in [Blk -> Nat]
      BY DEF TypeOK
    <3>2. i \in DOMAIN list
      BY <2>1 DEF FirstPut
    <3>3. DOMAIN list = 1 .. Len(list) /\ Len(list) \in Nat
      BY <3>1
    <3>. QED  BY <3>1, <3>2, <3>3
  <2>4. Max(RunEnds(i)) \in 0 .. Len(list)
    BY <2>3, LongestRun
  <2>5. NextQueueLen \in Nat
    BY <2>2, <2>3, <2>4, BytesGrow
  <2>6. \A j \in FirstPut : j = i
    BY <2>1, FirstPutUnique
  <2>. QED  BY <2>2, <2>5, <2>6
<1>. QED  BY <1>1, <1>2

\* No put block is passed over.
PassesNone ==
  \A i, j \in DOMAIN list :
    i < j /\ status[list[j]] = "PUT" /\ status[list[i]] = "PUT" /\ status'[list[j]] = "GET"
      => status'[list[i]] = "GET"

\* A step that gets no put block passes none over.
LEMMA NothingGot ==
  ASSUME TypeOK, \A b \in Blk : status[b] = "PUT" => status'[b] # "GET"
  PROVE  PassesNone
<1>1. \A j \in DOMAIN list : list[j] \in Blk
  BY DEF TypeOK
<1>. QED  BY <1>1 DEF PassesNone

\* rt_rbb_blk_get takes the first put block.
LEMMA GetPassesNone ==
  ASSUME IInv, BlkGet
  PROVE  PassesNone
<1>1. PICK f \in FirstPut : status' = [status EXCEPT ![list[f]] = "GET"]
  BY DEF BlkGet
<1>. SUFFICES ASSUME NEW i \in DOMAIN list, NEW j \in DOMAIN list, i < j,
                     status[list[j]] = "PUT", status[list[i]] = "PUT", status'[list[j]] = "GET"
              PROVE  FALSE
  BY DEF PassesNone
<1>2. /\ f \in DOMAIN list /\ list[i] \in Blk /\ list[j] \in Blk
      /\ i \in Nat /\ j \in Nat /\ f \in Nat /\ 1 <= i
  <2>1. list \in Seq(Blk)
    BY DEF IInv, TypeOK
  <2>2. f \in DOMAIN list
    BY DEF FirstPut
  <2>. QED  BY <2>1, <2>2
<1>3. list[j] = list[f]
  BY <1>1, <1>2 DEF IInv, TypeOK
<1>4. j = f
  BY <1>2, <1>3 DEF IInv, ListHoldsPending, IsInjective
<1>5. i \in 1 .. f - 1
  BY <1>2, <1>4
<1>. QED  BY <1>5 DEF FirstPut

\* rt_rbb_blk_queue_get takes put blocks from the first one on, and no more
\* bytes than the longest run has.
LEMMA QueueGetPassesNone ==
  ASSUME IInv, NEW limit, QueueGet(limit)
  PROVE  PassesNone /\ total' <= NextQueueLen
<1>1. PICK f \in FirstPut :
        LET last == RunEnd(f, limit)
            run == {list[k] : k \in f .. last}
        IN  /\ total' = Bytes(f, last)
            /\ status' = [b \in Blk |-> IF b \in run THEN "GET" ELSE status[b]]
  BY DEF QueueGet
<1>. DEFINE last == RunEnd(f, limit)
            run == {list[k] : k \in f .. last}
<1>2. /\ list \in Seq(Blk) /\ size \in [Blk -> Nat]
      /\ f \in DOMAIN list /\ f \in 1 .. Len(list) /\ f \in Nat /\ Len(list) \in Nat
  BY DEF FirstPut, IInv, TypeOK
<1>3. last \in RunEnds(f) /\ last \in f .. Len(list) /\ last \in Nat
  BY <1>2, RunEndIs
<1>4. /\ total' = Bytes(f, last)
      /\ \A b \in Blk : status'[b] = IF b \in run THEN "GET" ELSE status[b]
  BY <1>1
<1>. HIDE DEF last
<1>5. total' <= NextQueueLen
  <2>1. /\ Max(RunEnds(f)) \in f .. Len(list)
        /\ \A j \in RunEnds(f) : j <= Max(RunEnds(f))
    BY <1>2, LongestRun
  <2>2. /\ Max(RunEnds(f)) \in 0 .. Len(list) /\ last \in 0 .. Max(RunEnds(f))
    BY <1>2, <1>3, <2>1
  <2>3. Bytes(f, last) <= Bytes(f, Max(RunEnds(f)))
    BY <1>2, <2>2, BytesGrow
  <2>4. NextQueueLen = Bytes(f, Max(RunEnds(f)))
    BY NextQueueLenIs DEF IInv
  <2>. QED  BY <1>4, <2>3, <2>4
<1>6. PassesNone
  <2>. SUFFICES ASSUME NEW i \in DOMAIN list, NEW j \in DOMAIN list, i < j,
                       status[list[j]] = "PUT", status[list[i]] = "PUT", status'[list[j]] = "GET"
                PROVE  status'[list[i]] = "GET"
    BY DEF PassesNone
  <2>1. /\ list[i] \in Blk /\ list[j] \in Blk /\ i \in Nat /\ j \in Nat /\ 1 <= i
    BY <1>2
  <2>2. list[j] \in run
    BY <1>4, <2>1
  <2>3. PICK k \in f .. last : list[j] = list[k]
    BY <2>2
  <2>4. j = k
    <3>1. k \in DOMAIN list
      BY <1>2, <1>3
    <3>. QED  BY <2>3, <3>1 DEF IInv, ListHoldsPending, IsInjective
  <2>5. f <= i
    <3>1. ~ (i \in 1 .. f - 1)
      BY DEF FirstPut
    <3>. QED  BY <1>2, <2>1, <3>1
  <2>6. i \in f .. last
    BY <1>2, <1>3, <2>1, <2>4, <2>5
  <2>. QED  BY <1>4, <2>1, <2>6
<1>. QED  BY <1>5, <1>6

\* The consumer is given blocks in the order of their allocation, and a queue
\* no longer than rt_rbb_next_blk_queue_len announced (ringblk_buf.c:251-281,
\* 489).
THEOREM GetsOldestHolds == RbbSpec => GetsOldest
<1>1. ASSUME IInv, RbbNext
      PROVE  PassesNone /\ (queue = NoQueue => total' <= NextQueueLen)
  <2>1. NextQueueLen \in Nat /\ TypeOK
    BY NextQueueLenIs, <1>1 DEF IInv
  <2>2. total' = total => (queue = NoQueue => total' <= NextQueueLen)
    BY <1>1, <2>1 DEF IInv, Idle
  <2>3. \A b \in Blk : status[b] \in Status
    BY <2>1 DEF TypeOK
  <2>4. ASSUME NEW n \in AllocSizes, Alloc(n) PROVE PassesNone /\ total' = total
    <3>1. PICK b \in EmptyBlk : status' = [status EXCEPT ![b] = "INITED"]
      BY <2>4 DEF Alloc
    <3>2. \A c \in Blk : status'[c] = "INITED" \/ status'[c] = status[c]
      BY <2>1, <3>1 DEF TypeOK
    <3>. QED  BY <2>1, <2>4, <3>2, NothingGot DEF Alloc
  <2>5. ASSUME NEW b \in Blk, BlkPut(b) PROVE PassesNone /\ total' = total
    <3>1. \A c \in Blk : status'[c] = "PUT" \/ status'[c] = status[c]
      BY <2>1, <2>5 DEF BlkPut, TypeOK
    <3>. QED  BY <2>1, <2>5, <3>1, NothingGot DEF BlkPut
  <2>6. ASSUME NEW b \in Blk, BlkFree(b) PROVE PassesNone /\ total' = total
    <3>1. \A c \in Blk : status'[c] = "UNUSED" \/ status'[c] = status[c]
      BY <2>6 DEF BlkFree, Freed
    <3>. QED  BY <2>1, <2>6, <3>1, NothingGot DEF BlkFree
  <2>7. CASE BlkGet
    BY <1>1, <2>2, <2>7, GetPassesNone DEF BlkGet
  <2>8. CASE QueueFree
    <3>1. \A c \in Blk : status'[c] = "UNUSED" \/ status'[c] = status[c]
      BY <2>8 DEF QueueFree, Freed
    <3>. QED  BY <2>1, <2>8, <3>1, NothingGot DEF QueueFree
  <2>9. ASSUME NEW limit \in Limits, QueueGet(limit)
        PROVE  PassesNone /\ total' <= NextQueueLen
    BY <1>1, <2>9, QueueGetPassesNone
  <2>. QED  BY <1>1, <2>2, <2>4, <2>5, <2>6, <2>7, <2>8, <2>9
            DEF RbbNext, BlockNext, QueueNext
<1>2. IInv /\ [RbbNext]_vars
        => [PassesNone /\ (queue = NoQueue => total' <= NextQueueLen)]_vars
  BY <1>1
<1>. QED  BY <1>2, Invariance, PTL DEF RbbSpec, GetsOldest, PassesNone
=============================================================================
