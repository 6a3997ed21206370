---------------------------- MODULE YmodemProofs ----------------------------
(***************************************************************************)
(* The YMODEM receiver, for any batch of files, any page of flash, any      *)
(* patience of the handshake and any number of faults: no block is skipped  *)
(* unless a packet vanishes whole, and the two ends agree on success.       *)
(*                                                                         *)
(* The line is two sequences of any length.  What the invariant says of     *)
(* them is which packet or code cannot be there, or cannot come after which *)
(* (Control), and that the numbers of the packets go up in steps from the   *)
(* block last written to the one the sender is at (Ordered).  Taking        *)
(* elements out of a sequence and spoiling others (Thinned) keeps the       *)
(* first; spoiling alone keeps the second.  How far writing may go is a     *)
(* count: the blocks written, those on the way and the answers that may     *)
(* still ask for one (Sparse).                                              *)
(***************************************************************************)
EXTENDS Ymodem, FiniteSets, FiniteSetTheorems, TLAPS

USE YmodemAssumption

-----------------------------------------------------------------------------
(* Words for what may be on the line                                       *)

\* Codes.
Without(s, x) == \A i \in DOMAIN s : s[i] # x

Reply == {"ACK", "C", "NAK"}
NoReply(s) == Without(s, "ACK") /\ Without(s, "C") /\ Without(s, "NAK")

\* No reply follows a C; and none follows a C that follows an ACK.
EndsInC(s) == \A i, j \in DOMAIN s : i < j /\ s[i] = "C" => s[j] \notin Reply
EndsInAckC(s) ==
  \A i, j, k \in DOMAIN s : i < j /\ j < k /\ s[i] = "ACK" /\ s[j] = "C" => s[k] \notin Reply

\* Packets.
NoKind(s, kind) == \A i \in DOMAIN s : s[i].kind # kind
\* No packet of the kind later comes after one of the kind first.
Never(s, first, later) ==
  \A i, j \in DOMAIN s : i < j /\ s[i].kind = first => s[j].kind # later

\* t is s with elements taken out, and with bad ones among it.
Thinned(t, s, bad) ==
  \E from \in [DOMAIN t -> Nat] :
    /\ \A i, j \in DOMAIN t : i < j => from[i] < from[j]
    /\ \A i \in DOMAIN t : t[i] = bad \/ (from[i] \in DOMAIN s /\ t[i] = s[from[i]])

-----------------------------------------------------------------------------
(* Control: where the two ends are, and what may then be on the line.       *)

Places ==
  /\ rx = "handshake" => tx \in {"start", "head"} /\ file = 1
  /\ rx = "trans" => tx \in {"head", "go", "data", "eot", "over"}
  /\ rx = "eot" => tx \in {"eot", "over"}
  /\ rx = "next" => tx \in {"eot", "over", "head", "null"}
  /\ rx = "done" => tx \in {"null", "done", "failed"}
  /\ rx = "failed" => tx # "done"
  /\ tx \in {"head", "go"} => block = 0
  /\ tx = "data" => block > 0
  /\ tx \in {"eot", "over"} => block = Blocks[file]
  /\ tx = "null" \/ rx = "done" => file = Len(Blocks)

Answers ==
  /\ rx # "failed" => Without(toTx, "CAN")
  /\ tx = "start" \/ rx = "handshake" => Without(toTx, "ACK") /\ Without(toTx, "NAK")
  /\ tx = "head" => EndsInAckC(toTx)
  /\ tx \in {"go", "eot", "over"} => EndsInC(toTx)
  /\ tx = "data" => Without(toTx, "C")
  /\ tx = "null" /\ rx # "done" => Without(toTx, "ACK")
  /\ rx = "next" /\ tx \in {"head", "null"} => NoReply(toTx)
  /\ rx \in {"trans", "eot"} /\ tx \in {"eot", "over"} => Without(toTx, "C")

First ==
  rx = "trans" /\ fresh =>
    /\ got = << >>
    /\ tx \in {"data", "eot", "over"} => NoReply(toTx)
    /\ tx # "over"
    /\ tx = "data" => block = 1
    /\ tx = "eot" => Blocks[file] = 0

Packets ==
  /\ tx = "start" => NoKind(toRx, "head")
  /\ rx = "handshake" => NoKind(toRx, "data") /\ NoKind(toRx, "eot") /\ NoKind(toRx, "null")
  /\ rx = "trans" =>
       /\ NoKind(toRx, "null")
       /\ tx \in {"head", "go"} => fresh /\ NoKind(toRx, "data") /\ NoKind(toRx, "eot")
       /\ tx = "data" => NoKind(toRx, "eot")
       /\ fresh \/ (NoKind(toRx, "head") /\ got # << >>)
       /\ Never(toRx, "data", "head") /\ Never(toRx, "eot", "head") /\ Never(toRx, "eot", "data")
  /\ rx = "eot" => NoKind(toRx, "head") /\ NoKind(toRx, "data") /\ NoKind(toRx, "null")
  /\ rx = "next" =>
       /\ NoKind(toRx, "data")
       /\ tx # "head" => NoKind(toRx, "head")
       /\ tx # "null" => NoKind(toRx, "null")
       /\ Never(toRx, "head", "eot")

Numbers ==
  rx = "trans" =>
    /\ \A i \in DOMAIN got : got[i] \in 1 .. block
    /\ \A i \in DOMAIN toRx : toRx[i].kind = "data" => toRx[i].n \in 1 .. block

Control == Places /\ Answers /\ First /\ Packets /\ Numbers

-----------------------------------------------------------------------------
(* The blocks.  What has been written and what is on the way are, up to the *)
(* first damaged packet, the blocks in their order; if nothing on the way   *)
(* is damaged, they reach the one the sender is at.                         *)

\* A packet as a number: the end of the file comes after its last block.
Num(p) == IF p.kind = "eot" THEN Blocks[file] + 1 ELSE p.n
Level == IF tx = "data" THEN block ELSE Blocks[file] + 1
Reached(i) == IF i = 0 THEN Last(got) ELSE Num(toRx[i])
Intact(i) == \A k \in 1 .. i : toRx[k] # Junk

InSteps ==
  \A i \in DOMAIN toRx : Intact(i) => Reached(i) \in {Reached(i - 1), Reached(i - 1) + 1}
AtLevel == \A n \in {Len(toRx)} : Intact(n) => Reached(n) = Level

InFlight == ~ gone /\ rx = "trans" /\ ~ fresh => InSteps /\ AtLevel

InOrder ==
  ~ gone => \A i \in DOMAIN got :
              IF i = 1 THEN got[i] = 1 ELSE got[i] \in {got[i - 1], got[i - 1] + 1}

\* A file that the receiver has seen to its end.
Whole ==
  ~ gone /\ tx # "head" /\ rx \in {"eot", "next", "done"} =>
    IF Blocks[file] = 0 THEN got = << >> ELSE got # << >> /\ Last(got) = Blocks[file]

Ordered == InFlight /\ InOrder /\ Whole

\* Without errors there is one packet or one answer on the line.
OnTheWay ==
  /\ toTx = << >> /\ Len(got) = block - 1
  /\ toRx # << >> /\ toRx[Len(toRx)] = Pkt("data", block)
  /\ \A i \in 1 .. Len(toRx) - 1 : toRx[i].kind = "head"
Acknowledged == toRx = << >> /\ toTx = <<"ACK">> /\ Len(got) = block

Clean ==
  faults = 0 =>
    /\ NoKind(toRx, "junk") /\ Without(toTx, "noise")
    /\ \A i \in DOMAIN got : got[i] = i
    /\ rx = "trans" /\ tx = "data" => OnTheWay \/ Acknowledged
    /\ rx = "trans" /\ tx \in {"eot", "over"} => NoKind(toRx, "data")

-----------------------------------------------------------------------------
(* The room.  A block is sent again only for a damaged or an invented       *)
(* answer, so what is written, what is on the way and what may still ask    *)
(* for a block are no more than the sender's block and the errors so far.   *)

Noise == {"noise"}
Data == {p \in Packet : p.kind = "data"}
Spots(s, X) == {i \in DOMAIN s : s[i] \in X}
Count(s, X) == Cardinality(Spots(s, X))

Noisy == Count(toTx, Noise) <= faults

\* The header that the receiver waits for is that of the sender's file.
Named ==
  rx \in {"handshake", "next"} =>
    \A i \in DOMAIN toRx : toRx[i].kind = "head" => toRx[i].n = file

Filling ==
  rx = "trans" =>
    /\ Without(toTx, "NAK") /\ Blocks[file] <= erased
    /\ Len(got) + Count(toRx, Data) + Count(toTx, Noise) <= block + faults

Room == Len(got) <= erased + faults

Sparse == Noisy /\ Named /\ Filling /\ Room

IInv == Types /\ Control /\ Ordered /\ Clean /\ Sparse

-----------------------------------------------------------------------------
(* Sequences of codes and packets                                          *)

\* A line that was thinned has nothing new on it, in no new order.
LEMMA ThinnedCodes ==
  ASSUME NEW s \in Seq(Code), NEW t \in Seq(Code), Thinned(t, s, "noise")
  PROVE  /\ \A x \in Code \ {"noise"} : Without(s, x) => Without(t, x)
         /\ NoReply(s) => NoReply(t)
         /\ EndsInC(s) => EndsInC(t)
         /\ EndsInAckC(s) => EndsInAckC(t)
<1>1. PICK from \in [DOMAIN t -> Nat] :
        /\ \A i, j \in DOMAIN t : i < j => from[i] < from[j]
        /\ \A i \in DOMAIN t : t[i] = "noise" \/ (from[i] \in DOMAIN s /\ t[i] = s[from[i]])
  BY DEF Thinned
<1>2. \A x \in Code \ {"noise"} : Without(s, x) => Without(t, x)
  BY <1>1 DEF Without
<1>3. NoReply(s) => NoReply(t)
  BY <1>2 DEF NoReply, Code
<1>4. EndsInC(s) => EndsInC(t)
  BY <1>1 DEF EndsInC, Reply
<1>5. EndsInAckC(s) => EndsInAckC(t)
  <2> SUFFICES ASSUME EndsInAckC(s), NEW i \in DOMAIN t, NEW j \in DOMAIN t, NEW k \in DOMAIN t,
                      i < j, j < k, t[i] = "ACK", t[j] = "C", t[k] \in Reply
               PROVE  FALSE
    BY DEF EndsInAckC
  <2>1. from[i] < from[j] /\ from[j] < from[k]
    BY <1>1
  <2>2. \A n \in {i, j, k} : from[n] \in DOMAIN s /\ t[n] = s[from[n]]
    BY <1>1 DEF Reply
  <2>. QED  BY <2>1, <2>2 DEF EndsInAckC
<1>. QED  BY <1>2, <1>3, <1>4, <1>5

\* The same of packets: what is not there, and what does not follow what.
LEMMA ThinnedPackets ==
  ASSUME NEW s \in Seq(Packet), NEW t \in Seq(Packet), Thinned(t, s, Junk)
  PROVE  /\ \A kind : kind # "junk" /\ NoKind(s, kind) => NoKind(t, kind)
         /\ \A k, l : k # "junk" /\ l # "junk" /\ Never(s, k, l) => Never(t, k, l)
<1>1. PICK from \in [DOMAIN t -> Nat] :
        /\ \A i, j \in DOMAIN t : i < j => from[i] < from[j]
        /\ \A i \in DOMAIN t : t[i] = Junk \/ (from[i] \in DOMAIN s /\ t[i] = s[from[i]])
  BY DEF Thinned
<1>2. Junk.kind = "junk"
  BY DEF Junk, Pkt
<1>3. \A kind : kind # "junk" /\ NoKind(s, kind) => NoKind(t, kind)
  BY <1>1, <1>2 DEF NoKind
<1>4. \A k, l : k # "junk" /\ l # "junk" /\ Never(s, k, l) => Never(t, k, l)
  <2> SUFFICES ASSUME NEW k, NEW l, k # "junk", l # "junk", Never(s, k, l),
                      NEW i \in DOMAIN t, NEW j \in DOMAIN t, i < j, t[i].kind = k
               PROVE  t[j].kind # l
    BY DEF Never
  <2>1. from[i] < from[j] /\ from[i] \in DOMAIN s /\ t[i] = s[from[i]]
    BY <1>1, <1>2
  <2>2. t[j] = Junk \/ (from[j] \in DOMAIN s /\ t[j] = s[from[j]])
    BY <1>1
  <2>. QED  BY <1>2, <2>1, <2>2 DEF Never
<1>. QED  BY <1>3, <1>4

\* The elements of two sequences joined.
LEMMA ConcatParts ==
  ASSUME NEW S, NEW a \in Seq(S), NEW b \in Seq(S)
  PROVE  /\ a \o b \in Seq(S) /\ Len(a \o b) = Len(a) + Len(b)
         /\ DOMAIN (a \o b) = 1 .. Len(a) + Len(b)
         /\ \A i \in 1 .. Len(a) + Len(b) :
              (a \o b)[i] = IF i <= Len(a) THEN a[i] ELSE b[i - Len(a)]
OBVIOUS

\* The elements of a sequence with one more.
LEMMA AppendFacts ==
  ASSUME NEW S, NEW s \in Seq(S), NEW x \in S
  PROVE  /\ Append(s, x) \in Seq(S) /\ Append(s, x) # << >>
         /\ Len(Append(s, x)) = Len(s) + 1 /\ DOMAIN Append(s, x) = 1 .. Len(s) + 1
         /\ \A i \in DOMAIN Append(s, x) :
              Append(s, x)[i] = IF i \in DOMAIN s THEN s[i] ELSE x
<1>1. Append(s, x) \in Seq(S) /\ Append(s, x) # << >>
  OBVIOUS
<1>2. Len(Append(s, x)) = Len(s) + 1 /\ DOMAIN Append(s, x) = 1 .. Len(s) + 1
  OBVIOUS
<1>3. \A i \in DOMAIN Append(s, x) : Append(s, x)[i] = IF i \in DOMAIN s THEN s[i] ELSE x
  OBVIOUS
<1>. QED  BY <1>1, <1>2, <1>3

\* And of the blocks written.
LEMMA GotWith ==
  ASSUME NEW s \in Seq(Nat), NEW n \in Nat
  PROVE  /\ Append(s, n) # << >> /\ DOMAIN Append(s, n) = 1 .. Len(s) + 1
         /\ Len(Append(s, n)) = Len(s) + 1 /\ Len(s) \in Nat /\ DOMAIN s = 1 .. Len(s)
         /\ \A i \in DOMAIN Append(s, n) :
              Append(s, n)[i] = IF i \in DOMAIN s THEN s[i] ELSE n
BY AppendFacts

\* An ACK and a C are two codes more.
LEMMA AckCIsTwoMore ==
  ASSUME NEW s \in Seq(Code)
  PROVE  s \o <<"ACK", "C">> = Append(Append(s, "ACK"), "C")
OBVIOUS

\* Reading, losing, damaging and inventing thin a line.
LEMMA ThinnedBy ==
  ASSUME NEW S, NEW bad \in S, NEW s \in Seq(S)
  PROVE  /\ Thinned(s, s, bad)
         /\ s # << >> => Tail(s) \in Seq(S) /\ Thinned(Tail(s), s, bad)
         /\ \A i \in DOMAIN s : RemoveAt(s, i) \in Seq(S) /\ Thinned(RemoveAt(s, i), s, bad)
         /\ \A i \in DOMAIN s : /\ [s EXCEPT ![i] = bad] \in Seq(S)
                                /\ Thinned([s EXCEPT ![i] = bad], s, bad)
         /\ Append(s, bad) \in Seq(S) /\ Thinned(Append(s, bad), s, bad)
<1>1. Thinned(s, s, bad)
  <2>1. [i \in DOMAIN s |-> i] \in [DOMAIN s -> Nat]
    OBVIOUS
  <2>. QED  BY <2>1 DEF Thinned
<1>2. ASSUME s # << >>
      PROVE  Tail(s) \in Seq(S) /\ Thinned(Tail(s), s, bad)
  <2>1. [i \in DOMAIN Tail(s) |-> i + 1] \in [DOMAIN Tail(s) -> Nat]
    BY <1>2
  <2>2. \A i \in DOMAIN Tail(s) : i + 1 \in DOMAIN s /\ Tail(s)[i] = s[i + 1]
    BY <1>2
  <2> DEFINE t == Tail(s)  from == [i \in DOMAIN t |-> i + 1]
  <2>3. t \in Seq(S) /\ DOMAIN t \subseteq Nat
    BY <1>2
  <2> HIDE DEF t
  <2>4. /\ \A i, j \in DOMAIN t : i < j => from[i] < from[j]
        /\ \A i \in DOMAIN t : from[i] \in DOMAIN s /\ t[i] = s[from[i]]
    BY <2>2, <2>3 DEF t
  <2> HIDE DEF from
  <2>5. Thinned(t, s, bad)
    BY <2>1, <2>4 DEF Thinned, t, from
  <2>. QED  BY <2>3, <2>5 DEF t
<1>3. ASSUME NEW k \in DOMAIN s
      PROVE  RemoveAt(s, k) \in Seq(S) /\ Thinned(RemoveAt(s, k), s, bad)
  <2>1. k \in Nat /\ k >= 1 /\ k <= Len(s) /\ Len(s) \in Nat /\ DOMAIN s = 1 .. Len(s)
    OBVIOUS
  <2> DEFINE a == SubSeq(s, 1, k - 1)  b == SubSeq(s, k + 1, Len(s))
  <2>2. a \in Seq(S) /\ Len(a) = k - 1 /\ \A i \in 1 .. k - 1 : a[i] = s[i]
    BY <2>1
  <2>3. b \in Seq(S) /\ Len(b) = Len(s) - k /\ \A i \in 1 .. Len(s) - k : b[i] = s[i + k]
    <3>1. b \in Seq(S) /\ Len(b) = Len(s) - k
      BY <2>1
    <3>2. \A i \in 1 .. Len(s) - k : b[i] = s[i + k]
      BY <2>1
    <3>. QED  BY <3>1, <3>2
  <2> HIDE DEF a, b
  <2>4. /\ a \o b \in Seq(S) /\ Len(a \o b) = Len(s) - 1
        /\ DOMAIN (a \o b) = 1 .. Len(s) - 1
        /\ \A i \in 1 .. Len(s) - 1 : (a \o b)[i] = IF i < k THEN s[i] ELSE s[i + 1]
    <3>1. a \in Seq(S) /\ b \in Seq(S)
      BY <2>2, <2>3
    <3>2. \A i \in 1 .. Len(a) + Len(b) : (a \o b)[i] = IF i <= Len(a) THEN a[i] ELSE b[i - Len(a)]
      BY <3>1, ConcatParts
    <3>3. a \o b \in Seq(S) /\ Len(a \o b) = Len(a) + Len(b)
                /\ DOMAIN (a \o b) = 1 .. Len(a) + Len(b)
      BY <3>1, ConcatParts
    <3>4. ASSUME NEW i \in 1 .. Len(s) - 1
          PROVE  (a \o b)[i] = IF i < k THEN s[i] ELSE s[i + 1]
      <4>1. CASE i < k
        BY <2>1, <2>2, <2>3, <3>2, <4>1
      <4>2. CASE ~ (i < k)
        <5>1. i - (k - 1) \in 1 .. Len(s) - k /\ i - (k - 1) + k = i + 1
          BY <2>1, <4>2
        <5>2. b[i - (k - 1)] = s[i - (k - 1) + k]
          BY <2>3, <5>1
        <5>3. i \in 1 .. Len(a) + Len(b) /\ ~ (i <= Len(a)) /\ i - Len(a) = i - (k - 1)
          BY <2>1, <2>2, <2>3, <4>2
        <5>. QED  BY <3>2, <4>2, <5>1, <5>2, <5>3
      <4>. QED  BY <4>1, <4>2
    <3>5. Len(a) + Len(b) = Len(s) - 1
      BY <2>1, <2>2, <2>3
    <3>. QED  BY <3>3, <3>4, <3>5
  <2> DEFINE t == a \o b  from == [i \in DOMAIN t |-> IF i < k THEN i ELSE i + 1]
  <2> HIDE DEF t
  <2>5. /\ DOMAIN t = 1 .. Len(s) - 1
        /\ \A i \in 1 .. Len(s) - 1 : t[i] = IF i < k THEN s[i] ELSE s[i + 1]
    BY <2>4 DEF t
  <2>6. from \in [DOMAIN t -> Nat]
    BY <2>1, <2>5
  <2>7. \A i, j \in DOMAIN t : i < j => from[i] < from[j]
    BY <2>1, <2>5
  <2>8. \A i \in DOMAIN t : from[i] \in DOMAIN s /\ t[i] = s[from[i]]
    BY <2>1, <2>5
  <2> HIDE DEF from
  <2>9. Thinned(t, s, bad)
    BY <2>6, <2>7, <2>8 DEF Thinned
  <2>10. RemoveAt(s, k) = t
    BY DEF RemoveAt, t, a, b
  <2>. QED  BY <2>9, <2>10, <2>4 DEF t
<1>4. ASSUME NEW k \in DOMAIN s
      PROVE  [s EXCEPT ![k] = bad] \in Seq(S) /\ Thinned([s EXCEPT ![k] = bad], s, bad)
  <2> DEFINE t == [s EXCEPT ![k] = bad]
  <2>1. DOMAIN t = DOMAIN s /\ \A i \in DOMAIN s : t[i] = IF i = k THEN bad ELSE s[i]
    OBVIOUS
  <2>2. [i \in DOMAIN s |-> i] \in [DOMAIN t -> Nat]
    BY <2>1
  <2>3. t \in Seq(S)
    OBVIOUS
  <2> HIDE DEF t
  <2>4. Thinned(t, s, bad)
    BY <2>1, <2>2 DEF Thinned
  <2>. QED  BY <2>3, <2>4 DEF t
<1>5. Append(s, bad) \in Seq(S) /\ Thinned(Append(s, bad), s, bad)
  <2> DEFINE t == Append(s, bad)
  <2>1. /\ t \in Seq(S) /\ DOMAIN t = 1 .. Len(s) + 1
        /\ \A i \in DOMAIN t : t[i] = IF i \in DOMAIN s THEN s[i] ELSE bad
    OBVIOUS
  <2>2. [i \in DOMAIN t |-> i] \in [DOMAIN t -> Nat]
    BY <2>1
  <2> HIDE DEF t
  <2>3. Thinned(t, s, bad)
    BY <2>1, <2>2 DEF Thinned
  <2>. QED  BY <2>1, <2>3 DEF t
<1>. QED  BY <1>1, <1>2, <1>3, <1>4, <1>5

\* What the first code tells of the others.
LEMMA CodesAfter ==
  ASSUME NEW s \in Seq(Code), s # << >>
  PROVE  /\ EndsInC(s) /\ Head(s) = "C" => NoReply(Tail(s))
         /\ EndsInAckC(s) /\ Head(s) = "ACK" => EndsInC(Tail(s))
<1>1. /\ 1 \in DOMAIN s /\ Head(s) = s[1]
      /\ \A i \in DOMAIN Tail(s) : /\ i + 1 \in DOMAIN s /\ Tail(s)[i] = s[i + 1]
                                   /\ i \in Nat /\ i > 0
  OBVIOUS
<1>2. EndsInC(s) /\ Head(s) = "C" => NoReply(Tail(s))
  BY <1>1 DEF EndsInC, NoReply, Without, Reply
<1>3. EndsInAckC(s) /\ Head(s) = "ACK" => EndsInC(Tail(s))
  <2> SUFFICES ASSUME EndsInAckC(s), Head(s) = "ACK",
                      NEW i \in DOMAIN Tail(s), NEW j \in DOMAIN Tail(s), i < j,
                      Tail(s)[i] = "C"
               PROVE  Tail(s)[j] \notin Reply
    BY DEF EndsInC
  <2>1. /\ i + 1 \in DOMAIN s /\ j + 1 \in DOMAIN s /\ 1 < i + 1 /\ i + 1 < j + 1
        /\ s[1] = "ACK" /\ s[i + 1] = "C" /\ Tail(s)[j] = s[j + 1]
    BY <1>1
  <2>. QED  BY <1>1, <2>1 DEF EndsInAckC
<1>. QED  BY <1>2, <1>3

\* What the first packet tells of the others.
LEMMA PacketsAfter ==
  ASSUME NEW s \in Seq(Packet), s # << >>
  PROVE  \A k, l : Never(s, k, l) /\ Head(s).kind = k => NoKind(Tail(s), l)
<1>1. /\ 1 \in DOMAIN s /\ Head(s) = s[1]
      /\ \A i \in DOMAIN Tail(s) : /\ i + 1 \in DOMAIN s /\ Tail(s)[i] = s[i + 1]
                                   /\ i \in Nat /\ i > 0
  OBVIOUS
<1>. QED  BY <1>1 DEF Never, NoKind

\* What a code added at the end keeps.
LEMMA CodesWith ==
  ASSUME NEW s \in Seq(Code), NEW x \in Code
  PROVE  /\ Append(s, x) \in Seq(Code)
         /\ \A y : Without(s, y) /\ x # y => Without(Append(s, x), y)
         /\ EndsInC(s) /\ (x \notin Reply \/ Without(s, "C")) => EndsInC(Append(s, x))
         /\ EndsInAckC(s) /\ x \notin Reply => EndsInAckC(Append(s, x))
<1> DEFINE t == Append(s, x)
<1>1. /\ t \in Seq(Code) /\ DOMAIN t = 1 .. Len(s) + 1
      /\ \A i \in DOMAIN t : t[i] = IF i \in DOMAIN s THEN s[i] ELSE x
      /\ DOMAIN s = 1 .. Len(s) /\ Len(s) \in Nat
  OBVIOUS
<1> HIDE DEF t
<1>2. \A y : Without(s, y) /\ x # y => Without(t, y)
  BY <1>1 DEF Without
<1>3. EndsInC(s) /\ (x \notin Reply \/ Without(s, "C")) => EndsInC(t)
  BY <1>1 DEF Without, EndsInC, Reply
<1>4. EndsInAckC(s) /\ x \notin Reply => EndsInAckC(t)
  <2> SUFFICES ASSUME EndsInAckC(s), x \notin Reply,
                      NEW i \in DOMAIN t, NEW j \in DOMAIN t, NEW k \in DOMAIN t,
                      i < j, j < k, t[i] = "ACK", t[j] = "C", t[k] \in Reply
               PROVE  FALSE
    BY DEF EndsInAckC
  <2>1. k \in DOMAIN s /\ i \in DOMAIN s /\ j \in DOMAIN s
    BY <1>1
  <2>2. t[i] = s[i] /\ t[j] = s[j] /\ t[k] = s[k]
    BY <1>1, <2>1
  <2>. QED  BY <2>1, <2>2 DEF EndsInAckC
<1>. QED  BY <1>1, <1>2, <1>3, <1>4 DEF t

\* An ACK and a C after nothing but Cs.
LEMMA AckCWith ==
  ASSUME NEW s \in Seq(Code), Without(s, "ACK")
  PROVE  EndsInAckC(Append(Append(s, "ACK"), "C"))
<1> DEFINE t == Append(Append(s, "ACK"), "C")
<1>1. /\ DOMAIN t = 1 .. Len(s) + 2
      /\ \A i \in DOMAIN t : t[i] = IF i \in DOMAIN s THEN s[i]
                                  ELSE IF i = Len(s) + 1 THEN "ACK" ELSE "C"
      /\ DOMAIN s = 1 .. Len(s) /\ Len(s) \in Nat
  OBVIOUS
<1> HIDE DEF t
<1>2. ASSUME NEW i \in DOMAIN t, t[i] = "ACK"
      PROVE  i = Len(s) + 1
  BY <1>1, <1>2 DEF Without
<1>. QED  BY <1>1, <1>2 DEF EndsInAckC, t

\* Any number of Cs.
LEMMA CsWith ==
  ASSUME NEW s \in Seq(Code), NEW n \in Nat
  PROVE  LET t == s \o [i \in 1 .. n |-> "C"]
         IN  t \in Seq(Code) /\ \A y : Without(s, y) /\ y # "C" => Without(t, y)
<1> DEFINE u == [i \in 1 .. n |-> "C"]  t == s \o u
<1>1. u \in Seq(Code) /\ Len(u) = n /\ \A i \in 1 .. n : u[i] = "C"
  BY DEF Code
<1> HIDE DEF u
<1>2. /\ t \in Seq(Code) /\ DOMAIN t = 1 .. Len(s) + Len(u)
      /\ \A i \in 1 .. Len(s) + Len(u) : t[i] = IF i <= Len(s) THEN s[i] ELSE u[i - Len(s)]
  BY <1>1, ConcatParts
<1>3. \A i \in DOMAIN t : (i \in DOMAIN s /\ t[i] = s[i]) \/ t[i] = "C"
  BY <1>1, <1>2
<1>. QED  BY <1>2, <1>3 DEF Without, u

\* What a packet added at the end keeps.
LEMMA PacketsWith ==
  ASSUME NEW s \in Seq(Packet), NEW p \in Packet
  PROVE  /\ Append(s, p) \in Seq(Packet)
         /\ \A k : NoKind(s, k) /\ p.kind # k => NoKind(Append(s, p), k)
         /\ \A k, l : Never(s, k, l) /\ (p.kind # l \/ NoKind(s, k)) => Never(Append(s, p), k, l)
<1> DEFINE t == Append(s, p)
<1>1. /\ t \in Seq(Packet) /\ DOMAIN t = 1 .. Len(s) + 1
      /\ \A i \in DOMAIN t : t[i] = IF i \in DOMAIN s THEN s[i] ELSE p
      /\ DOMAIN s = 1 .. Len(s) /\ Len(s) \in Nat
  OBVIOUS
<1> HIDE DEF t
<1>2. \A k : NoKind(s, k) /\ p.kind # k => NoKind(t, k)
  BY <1>1 DEF NoKind
<1>3. \A k, l : Never(s, k, l) /\ (p.kind # l \/ NoKind(s, k)) => Never(t, k, l)
  BY <1>1 DEF NoKind, Never
<1>. QED  BY <1>1, <1>2, <1>3 DEF t

\* What is not there neither follows nor is followed.
LEMMA AbsentNever ==
  ASSUME NEW s, NEW k, NEW l, NoKind(s, k) \/ NoKind(s, l)
  PROVE  Never(s, k, l)
BY DEF NoKind, Never

\* The same of codes.
LEMMA AbsentEnds ==
  ASSUME NEW s \in Seq(Code)
  PROVE  /\ Without(s, "C") => EndsInC(s)
         /\ Without(s, "C") \/ Without(s, "ACK") \/ EndsInC(s) => EndsInAckC(s)
BY DEF Without, EndsInC, EndsInAckC, Reply

\* The packets that are sent.
LEMMA PacketsMade ==
  /\ \A f \in DOMAIN Blocks : Pkt("head", f) \in Packet /\ Pkt("head", f).kind = "head"
  /\ \A f \in DOMAIN Blocks : \A k \in 1 .. Blocks[f] : Pkt("data", k) \in Packet
  /\ \A k : Pkt("data", k).kind = "data" /\ Pkt("data", k).n = k
  /\ {Eot, Null, Junk} \subseteq Packet
  /\ Eot.kind = "eot" /\ Null.kind = "null" /\ Junk.kind = "junk"
<1>1. \A f \in DOMAIN Blocks : Pkt("head", f) \in Packet /\ Pkt("head", f).kind = "head"
  BY DEF Packet, Pkt
<1>2. \A f \in DOMAIN Blocks : \A k \in 1 .. Blocks[f] : Pkt("data", k) \in Packet
  <2>1. ASSUME NEW f \in DOMAIN Blocks, NEW k \in 1 .. Blocks[f]
        PROVE  k \in UNION {1 .. Blocks[g] : g \in DOMAIN Blocks}
    OBVIOUS
  <2>. QED  BY <2>1 DEF Packet
<1>3. \A k : Pkt("data", k).kind = "data" /\ Pkt("data", k).n = k
  BY DEF Pkt
<1>4. /\ {Eot, Null, Junk} \subseteq Packet
      /\ Eot.kind = "eot" /\ Null.kind = "null" /\ Junk.kind = "junk"
  BY DEF Packet, Eot, Null, Junk, Pkt
<1>. QED  BY <1>1, <1>2, <1>3, <1>4

\* And what a packet can be when it is read.
LEMMA PacketRead ==
  ASSUME NEW p \in Packet
  PROVE  /\ p.kind \in {"head", "data", "eot", "null", "junk"}
         /\ p.kind = "junk" <=> p = Junk
         /\ p.kind = "eot" <=> p = Eot
         /\ p.kind = "head" => p.n \in DOMAIN Blocks
         /\ p.kind = "data" => p.n \in Nat \ {0} /\ p = Pkt("data", p.n)
<1>1. CASE p \in {Pkt("head", f) : f \in DOMAIN Blocks}
  BY <1>1 DEF Pkt, Junk, Eot
<1>2. CASE p \in {Pkt("data", k) : k \in UNION {1 .. Blocks[f] : f \in DOMAIN Blocks}}
  <2>1. PICK k \in UNION {1 .. Blocks[f] : f \in DOMAIN Blocks} : p = Pkt("data", k)
    BY <1>2
  <2>2. PICK f \in DOMAIN Blocks : k \in 1 .. Blocks[f]
    OBVIOUS
  <2>3. k \in Nat \ {0}
    BY <2>2
  <2>. QED  BY <2>1, <2>3 DEF Pkt, Junk, Eot
<1>3. CASE p \in {Eot, Null, Junk}
  BY <1>3 DEF Pkt, Junk, Eot, Null
<1>. QED  BY <1>1, <1>2, <1>3 DEF Packet

\* Where the sender is in the batch.
LEMMA Position ==
  ASSUME Types
  PROVE  /\ file \in DOMAIN Blocks /\ Blocks[file] \in Nat /\ block \in 0 .. Blocks[file]
         /\ DOMAIN Blocks = 1 .. Len(Blocks) /\ Len(Blocks) \in Nat /\ Len(Blocks) > 0
         /\ block < Blocks[file] => block + 1 \in 1 .. Blocks[file]
         /\ ~ (block < Blocks[file]) => block = Blocks[file]
<1>1. file \in DOMAIN Blocks /\ block \in 0 .. Blocks[file]
  BY DEF Types
<1>2. \A f \in DOMAIN Blocks : Blocks[f] \in Nat
  OBVIOUS
<1>3. DOMAIN Blocks = 1 .. Len(Blocks) /\ Len(Blocks) \in Nat /\ Len(Blocks) > 0
  OBVIOUS
<1>4. PICK n \in Nat : n = Blocks[file]
  BY <1>1, <1>2
<1>5. /\ block < n => block + 1 \in 1 .. n
      /\ ~ (block < n) => block = n
  BY <1>1, <1>4
<1>. QED  BY <1>1, <1>2, <1>3, <1>4, <1>5

\* What the sender sends again, and what is left of a line that is read.
LEMMA CurrentIs ==
  ASSUME Types, Control, tx \in {"head", "data", "eot", "null"}
  PROVE  /\ Current \in Packet /\ Current.kind = tx
         /\ tx = "data" => Current.n = block /\ block \in 1 .. Blocks[file]
<1>1. file \in DOMAIN Blocks /\ Blocks[file] \in Nat /\ block \in 0 .. Blocks[file]
  BY Position
<1>2. CASE tx = "data"
  <2>1. block \in 1 .. Blocks[file]
    BY <1>1, <1>2 DEF Control, Places
  <2>2. Current = Pkt("data", block)
    BY <1>2 DEF Current
  <2>. QED  BY <1>1, <1>2, <2>1, <2>2, PacketsMade
<1>3. CASE tx # "data"
  BY <1>1, <1>3, PacketsMade DEF Current
<1>. QED  BY <1>2, <1>3

\* What the receiver knows of the packets that follow the one it reads.
LEMMA Remaining ==
  ASSUME Types, toRx # << >>, toRx' = Tail(toRx)
  PROVE  /\ \A kind \in {"head", "data", "eot", "null"} :
              /\ NoKind(toRx, kind) => NoKind(toRx', kind)
              /\ Head(toRx).kind = kind => ~ NoKind(toRx, kind)
         /\ \A k, l \in {"head", "data", "eot", "null"} :
              /\ Never(toRx, k, l) => Never(toRx', k, l)
              /\ Never(toRx, k, l) /\ Head(toRx).kind = k => NoKind(toRx', l)
         /\ \A i \in DOMAIN toRx' : i + 1 \in DOMAIN toRx /\ toRx'[i] = toRx[i + 1]
         /\ 1 \in DOMAIN toRx /\ Head(toRx) = toRx[1] /\ Head(toRx) \in Packet
<1>1. Tail(toRx) \in Seq(Packet) /\ Thinned(Tail(toRx), toRx, Junk)
  BY ThinnedBy, PacketsMade DEF Types
<1>2. /\ \A i \in DOMAIN toRx' : i + 1 \in DOMAIN toRx /\ toRx'[i] = toRx[i + 1]
      /\ 1 \in DOMAIN toRx /\ Head(toRx) = toRx[1] /\ Head(toRx) \in Packet
  BY DEF Types
<1>3. \A kind \in {"head", "data", "eot", "null"} :
        /\ NoKind(toRx, kind) => NoKind(toRx', kind)
        /\ Head(toRx).kind = kind => ~ NoKind(toRx, kind)
  BY <1>1, <1>2, ThinnedPackets DEF Types, NoKind
<1>4. \A k, l \in {"head", "data", "eot", "null"} :
        /\ Never(toRx, k, l) => Never(toRx', k, l)
        /\ Never(toRx, k, l) /\ Head(toRx).kind = k => NoKind(toRx', l)
  BY <1>1, ThinnedPackets, PacketsAfter DEF Types
<1>. QED  BY <1>2, <1>3, <1>4

\* The sender has read a code that says nothing new.
LEMMA SenderTail ==
  ASSUME Types, toTx # << >>, toTx' = Tail(toTx)
  PROVE  /\ toTx' \in Seq(Code)
         /\ \A x \in {"ACK", "C", "NAK", "CAN"} :
              /\ Without(toTx, x) => Without(toTx', x)
              /\ Without(toTx, x) => Head(toTx) # x
         /\ NoReply(toTx) => NoReply(toTx') /\ Head(toTx) \notin Reply
         /\ EndsInC(toTx) => EndsInC(toTx')
         /\ EndsInAckC(toTx) => EndsInAckC(toTx')
         /\ EndsInC(toTx) /\ Head(toTx) = "C" => NoReply(toTx')
         /\ EndsInAckC(toTx) /\ Head(toTx) = "ACK" => EndsInC(toTx')
<1>1. Tail(toTx) \in Seq(Code) /\ Thinned(Tail(toTx), toTx, "noise")
  BY ThinnedBy DEF Types, Code
<1>2. /\ \A x \in {"ACK", "C", "NAK", "CAN"} : Without(toTx, x) => Without(toTx', x)
      /\ NoReply(toTx) => NoReply(toTx')
      /\ EndsInC(toTx) => EndsInC(toTx')
      /\ EndsInAckC(toTx) => EndsInAckC(toTx')
  BY <1>1, ThinnedCodes DEF Types, Code
<1>3. /\ EndsInC(toTx) /\ Head(toTx) = "C" => NoReply(toTx')
      /\ EndsInAckC(toTx) /\ Head(toTx) = "ACK" => EndsInC(toTx')
  BY CodesAfter DEF Types
<1>4. 1 \in DOMAIN toTx /\ Head(toTx) = toTx[1]
  BY DEF Types
<1>5. \A x : Without(toTx, x) => Head(toTx) # x
  BY <1>4 DEF Without
<1>. QED  BY <1>1, <1>2, <1>3, <1>5 DEF NoReply, Reply

-----------------------------------------------------------------------------
(* Counting on a line                                                      *)

\* The counted places are a finite set.
LEMMA CountNat ==
  ASSUME NEW S, NEW s \in Seq(S), NEW X
  PROVE  /\ IsFiniteSet(Spots(s, X)) /\ Count(s, X) \in Nat
         /\ Spots(s, X) \subseteq 1 .. Len(s)
<1>1. Len(s) \in Nat /\ Spots(s, X) \subseteq 1 .. Len(s)
  BY DEF Spots
<1>2. IsFiniteSet(1 .. Len(s))
  BY <1>1, FS_Interval
<1>3. IsFiniteSet(Spots(s, X))
  BY <1>1, <1>2, FS_Subset
<1>. QED  BY <1>1, <1>3, FS_CardinalityType DEF Count

\* Where nothing counts.
LEMMA CountNone ==
  ASSUME NEW s, NEW X, \A i \in DOMAIN s : s[i] \notin X
  PROVE  Count(s, X) = 0
<1>1. Spots(s, X) = {}
  BY DEF Spots
<1>. QED  BY <1>1, FS_EmptySet DEF Count

\* An element added counts if it is one of those.
LEMMA CountAppend ==
  ASSUME NEW S, NEW s \in Seq(S), NEW x \in S, NEW X
  PROVE  Count(Append(s, x), X) = IF x \in X THEN Count(s, X) + 1 ELSE Count(s, X)
<1> DEFINE t == Append(s, x)
<1>1. /\ DOMAIN t = 1 .. Len(s) + 1 /\ DOMAIN s = 1 .. Len(s) /\ Len(s) \in Nat
      /\ \A i \in DOMAIN t : t[i] = IF i \in DOMAIN s THEN s[i] ELSE x
  BY AppendFacts
<1> HIDE DEF t
<1>2. IsFiniteSet(Spots(s, X)) /\ Len(s) + 1 \notin Spots(s, X)
  BY <1>1, CountNat
<1>3. CASE x \in X
  <2>1. Spots(t, X) = Spots(s, X) \cup {Len(s) + 1}
    BY <1>1, <1>3 DEF Spots
  <2>2. Cardinality(Spots(s, X) \cup {Len(s) + 1}) = Cardinality(Spots(s, X)) + 1
    BY <1>2, FS_AddElement
  <2>. QED  BY <1>3, <2>1, <2>2 DEF Count, t
<1>4. CASE x \notin X
  <2>1. Spots(t, X) = Spots(s, X)
    BY <1>1, <1>4 DEF Spots
  <2>. QED  BY <1>4, <2>1 DEF Count, t
<1>. QED  BY <1>3, <1>4

\* Thinning a line with what does not count leaves no more that does.
LEMMA CountThinned ==
  ASSUME NEW S, NEW s \in Seq(S), NEW t \in Seq(S), NEW bad, Thinned(t, s, bad),
         NEW X, bad \notin X
  PROVE  Count(t, X) <= Count(s, X)
<1>1. PICK from \in [DOMAIN t -> Nat] :
        /\ \A i, j \in DOMAIN t : i < j => from[i] < from[j]
        /\ \A i \in DOMAIN t : t[i] = bad \/ (from[i] \in DOMAIN s /\ t[i] = s[from[i]])
  BY DEF Thinned
<1> DEFINE A == Spots(t, X)  B == Spots(s, X)  g == [i \in A |-> from[i]]
<1>2. A \subseteq DOMAIN t /\ \A i \in A : t[i] \in X
  BY DEF Spots
<1>3. \A i \in A : from[i] \in B
  BY <1>1, <1>2 DEF Spots
<1>4. DOMAIN t \subseteq Nat
  OBVIOUS
<1>5. \A i, j \in A : from[i] = from[j] => i = j
  <2> SUFFICES ASSUME NEW i \in A, NEW j \in A, i # j
               PROVE  from[i] # from[j]
    OBVIOUS
  <2>1. i \in DOMAIN t /\ j \in DOMAIN t /\ i \in Nat /\ j \in Nat
    BY <1>2, <1>4
  <2>2. from[i] \in Nat /\ from[j] \in Nat
    BY <2>1
  <2>3. i < j \/ j < i
    BY <2>1
  <2>. QED  BY <1>1, <2>1, <2>2, <2>3
<1>6. IsFiniteSet(B)
  BY CountNat
<1> HIDE DEF A, B
<1>7. g \in Injection(A, B)
  BY <1>3, <1>5 DEF Injection, IsInjective
<1> HIDE DEF g
<1>8. Cardinality(A) <= Cardinality(B)
  BY <1>6, <1>7, FS_Injection
<1>. QED  BY <1>8 DEF Count, A, B

\* Reading an element that counts leaves one less.
LEMMA CountTail ==
  ASSUME NEW S, NEW s \in Seq(S), s # << >>, NEW X, Head(s) \in X
  PROVE  Count(Tail(s), X) + 1 <= Count(s, X)
<1> DEFINE A == Spots(Tail(s), X)  B == Spots(s, X)  C == B \ {1}  g == [i \in A |-> i + 1]
<1>1. Len(s) \in Nat /\ Len(s) > 0 /\ DOMAIN s = 1 .. Len(s) /\ Head(s) = s[1] /\ Tail(s) \in Seq(S)
  OBVIOUS
<1>2. \A i \in DOMAIN Tail(s) : i \in Nat /\ i > 0 /\ i + 1 \in DOMAIN s /\ Tail(s)[i] = s[i + 1]
  OBVIOUS
<1>3. \A i \in A : i \in Nat /\ i > 0 /\ i + 1 \in C
  BY <1>2 DEF Spots
<1>4. 1 \in B
  BY <1>1 DEF Spots
<1>5. IsFiniteSet(B) /\ Cardinality(B) \in Nat
  BY CountNat DEF Count
<1>6. Cardinality(A) \in Nat
  BY <1>1, CountNat DEF Count
<1> HIDE DEF A, B
<1>7. IsFiniteSet(C) /\ Cardinality(C) = Cardinality(B) - 1
  BY <1>4, <1>5, FS_RemoveElement
<1> HIDE DEF C
<1>8. g \in Injection(A, C)
  BY <1>3 DEF Injection, IsInjective
<1> HIDE DEF g
<1>9. Cardinality(A) <= Cardinality(C)
  BY <1>7, <1>8, FS_Injection
<1>. QED  BY <1>5, <1>6, <1>7, <1>9 DEF Count, A, B

\* Damaging one element adds at most that one.
LEMMA CountSpoiled ==
  ASSUME NEW S, NEW s \in Seq(S), NEW k \in DOMAIN s, NEW bad \in S, NEW X
  PROVE  Count([s EXCEPT ![k] = bad], X) <= Count(s, X) + 1
<1> DEFINE t == [s EXCEPT ![k] = bad]
<1>1. DOMAIN t = DOMAIN s /\ (\A i \in DOMAIN s : i # k => t[i] = s[i]) /\ t \in Seq(S)
  OBVIOUS
<1> HIDE DEF t
<1>2. IsFiniteSet(Spots(s, X)) /\ Cardinality(Spots(s, X)) \in Nat
  BY CountNat DEF Count
<1>3. Spots(t, X) \subseteq Spots(s, X) \cup {k}
  BY <1>1 DEF Spots
<1>4. /\ IsFiniteSet(Spots(s, X) \cup {k})
      /\ Cardinality(Spots(s, X) \cup {k}) <= Cardinality(Spots(s, X)) + 1
  <2>1. PICK n \in Nat : n = Cardinality(Spots(s, X))
    BY <1>2
  <2>2. Cardinality(Spots(s, X) \cup {k}) \in {n, n + 1}
    BY <1>2, <2>1, FS_AddElement
  <2>3. Cardinality(Spots(s, X) \cup {k}) <= n + 1
    BY <2>2
  <2>. QED  BY <1>2, <2>1, <2>3, FS_AddElement
<1>5. Cardinality(Spots(t, X)) <= Cardinality(Spots(s, X) \cup {k})
  BY <1>3, <1>4, FS_Subset
<1>6. Cardinality(Spots(t, X)) \in Nat /\ Cardinality(Spots(s, X) \cup {k}) \in Nat
  BY <1>1, <1>4, CountNat, FS_CardinalityType DEF Count
<1>. QED  BY <1>2, <1>4, <1>5, <1>6 DEF Count, t

\* Any number of Cs is no noise.
LEMMA NoiseWithCs ==
  ASSUME NEW s \in Seq(Code), NEW n \in Nat
  PROVE  Count(s \o [i \in 1 .. n |-> "C"], Noise) = Count(s, Noise)
<1> DEFINE u == [i \in 1 .. n |-> "C"]  t == s \o u
<1>1. u \in Seq(Code) /\ Len(u) = n /\ \A i \in 1 .. n : u[i] = "C"
  BY DEF Code
<1> HIDE DEF u
<1>2. /\ DOMAIN t = 1 .. Len(s) + Len(u)
      /\ \A i \in 1 .. Len(s) + Len(u) : t[i] = IF i <= Len(s) THEN s[i] ELSE u[i - Len(s)]
  BY <1>1, ConcatParts
<1>3. DOMAIN s = 1 .. Len(s) /\ Len(s) \in Nat
  OBVIOUS
<1> HIDE DEF t
<1>4. \A i \in DOMAIN t : IF i \in DOMAIN s THEN t[i] = s[i] ELSE t[i] = "C"
  BY <1>1, <1>2, <1>3
<1>5. DOMAIN s \subseteq DOMAIN t
  BY <1>1, <1>2, <1>3
<1>6. Spots(t, Noise) = Spots(s, Noise)
  BY <1>4, <1>5 DEF Spots, Noise
<1>. QED  BY <1>6 DEF Count, t, u

-----------------------------------------------------------------------------
(* Types                                                                   *)

\* Whole pages are a number of blocks.
LEMMA RoundUpNat ==
  ASSUME NEW n \in Nat
  PROVE  RoundUp(n) \in Nat
<1>1. (n + PageBlocks - 1) \div PageBlocks \in Nat
  OBVIOUS
<1>2. \A a, b \in Nat : a * b \in Nat
  OBVIOUS
<1>. QED  BY <1>1, <1>2 DEF RoundUp

\* What an answer leaves is a sequence of codes.
LEMMA AnswerTypes ==
  ASSUME NEW s \in Seq(Code)
  PROVE  /\ \A x \in Code : s \o <<x>> \in Seq(Code) /\ s \o <<x>> = Append(s, x)
         /\ s \o <<"ACK", "C">> \in Seq(Code)
         /\ \A n \in Nat : s \o [i \in 1 .. n |-> "C"] \in Seq(Code)
         /\ s # << >> => Tail(s) \in Seq(Code) /\ Head(s) \in Code
<1>1. \A x \in Code : s \o <<x>> \in Seq(Code) /\ s \o <<x>> = Append(s, x)
  OBVIOUS
<1>2. s \o <<"ACK", "C">> \in Seq(Code)
  BY DEF Code
<1>3. \A n \in Nat : s \o [i \in 1 .. n |-> "C"] \in Seq(Code)
  BY CsWith
<1>4. s # << >> => Tail(s) \in Seq(Code) /\ Head(s) \in Code
  OBVIOUS
<1>. QED  BY <1>1, <1>2, <1>3, <1>4

\* The receiver's part of the types, and the sender's.
RxTypes ==
  /\ rx \in {"handshake", "trans", "eot", "next", "done", "failed"}
  /\ fresh \in BOOLEAN /\ tries \in 1 .. MaxTries
  /\ got \in Seq(Nat) /\ erased \in Nat
  /\ toTx \in Seq(Code)
TxTypes ==
  /\ tx \in {"start", "head", "go", "data", "eot", "over", "null", "done", "failed"}
  /\ file \in DOMAIN Blocks /\ block \in 0 .. Blocks[file]
  /\ toRx \in Seq(Packet)
Counted == faults \in 0 .. MaxFaults /\ {gone, late} \subseteq BOOLEAN

\* The type invariant in its parts.
LEMMA TypeParts ==
  /\ Types <=> RxTypes /\ TxTypes /\ Counted
  /\ Types' <=> RxTypes' /\ TxTypes' /\ Counted'
BY DEF Types, RxTypes, TxTypes, Counted

\* The receiver gives up.
LEMMA AbortTypes ==
  ASSUME Types, Abort
  PROVE  RxTypes'
BY DEF Types, Abort, RxTypes

\* The handshake goes on, or ends.
LEMMA TryAgainTypes ==
  ASSUME Types, NEW n \in Nat, TryAgain(n)
  PROVE  RxTypes'
<1>1. CASE tries + n > MaxTries
  BY <1>1, AbortTypes DEF TryAgain
<1>2. CASE ~ (tries + n > MaxTries)
  <2>1. toTx' \in Seq(Code)
    BY <1>2, AnswerTypes DEF TryAgain, Answer, Types
  <2>. QED  BY <1>2, <2>1 DEF TryAgain, Types, RxTypes
<1>. QED  BY <1>1, <1>2

\* A file begins.
LEMMA BeginTypes ==
  ASSUME Types, NEW n \in Nat, Begin(n)
  PROVE  RxTypes'
<1>1. toTx' \in Seq(Code)
  BY AnswerTypes DEF Begin, Answer, Types
<1>2. got' \in Seq(Nat) /\ Len(got') = 0
  BY DEF Begin
<1>. QED  BY <1>1, <1>2, RoundUpNat DEF Begin, Types, RxTypes

\* A block is written, or refused behind the erased pages.
LEMMA WriteTypes ==
  ASSUME Types, NEW p \in Packet, Write(p), fresh' \in BOOLEAN, UNCHANGED <<tries, erased>>
  PROVE  RxTypes'
<1>1. CASE got' = Append(got, Written(p)) /\ Answer(<<"ACK">>) /\ UNCHANGED rx
  <2>1. PICK n \in Nat : n = Written(p)
    BY PacketRead DEF Written
  <2>2. got' = Append(got, n) /\ got \in Seq(Nat)
    BY <1>1, <2>1 DEF Types
  <2>3. got' \in Seq(Nat)
    BY <2>2, AppendFacts
  <2>4. toTx' \in Seq(Code)
    BY <1>1, AnswerTypes DEF Answer, Types, Code
  <2>. QED  BY <1>1, <2>3, <2>4 DEF Types, RxTypes
<1>2. CASE Refuse
  <2>1. toTx' \in Seq(Code)
    BY <1>2, AnswerTypes DEF Refuse, Answer, Types, Code
  <2>. QED  BY <1>2, <2>1 DEF Refuse, Types, RxTypes
<1>. QED  BY <1>1, <1>2 DEF Write

\* A packet is read, whatever it is.
LEMMA ReceiveTypes ==
  ASSUME Types, Receive
  PROVE  Types'
<1> DEFINE p == Head(toRx)
<1>1. p \in Packet /\ toRx' \in Seq(Packet) /\ toRx # << >>
  BY DEF Receive, Types
<1> HIDE DEF p
<1>2. /\ p.kind = "head" => p.n \in DOMAIN Blocks /\ Blocks[p.n] \in Nat
      /\ UNCHANGED <<txVars, faults, gone, late>>
  BY <1>1, PacketRead DEF Receive
<1>3. Handshake(p) \/ Trans(p) \/ SecondEot(p) \/ NextFile(p)
  BY DEF Receive, p
<1>4. ASSUME Handshake(p) PROVE RxTypes'
  <2>1. CASE p.kind = "head"
    BY <1>2, <1>4, <2>1, BeginTypes DEF Handshake
  <2>2. CASE p.kind = "null"
    BY <1>4, <2>2, BeginTypes DEF Handshake
  <2>3. CASE p.kind = "junk"
    <3>1. Abort \/ \E rounds \in 1 .. MaxTries : TryAgain(rounds)
      BY <1>4, <2>3 DEF Handshake
    <3>2. 1 .. MaxTries \subseteq Nat
      OBVIOUS
    <3>. QED  BY <3>1, <3>2, AbortTypes, TryAgainTypes
  <2>4. CASE p.kind = "eot"
    BY <1>4, <2>4, TryAgainTypes DEF Handshake
  <2>5. CASE p.kind \notin {"head", "null", "junk", "eot"}
    BY <1>4, <2>5, AbortTypes DEF Handshake
  <2>. QED  BY <2>1, <2>2, <2>3, <2>4, <2>5
<1>5. ASSUME Trans(p) PROVE RxTypes'
  <2>1. CASE Ignored(p) /\ UNCHANGED <<rxVars, toTx>>
    BY <2>1 DEF Types, RxTypes, rxVars
  <2>2. CASE fresh' = FALSE /\ Write(p) /\ UNCHANGED <<tries, erased>>
    BY <1>1, <2>2, WriteTypes
  <2>3. CASE rx' = "eot" /\ fresh' = FALSE /\ Answer(<<"NAK">>) /\ UNCHANGED <<tries, got, erased>>
    <3>1. toTx' \in Seq(Code)
      BY <2>3, AnswerTypes DEF Answer, Types, Code
    <3>. QED  BY <2>3, <3>1 DEF Types, RxTypes
  <2>. QED  BY <1>5, <2>1, <2>2, <2>3, AbortTypes DEF Trans
<1>6. ASSUME SecondEot(p) PROVE RxTypes'
  <2>1. CASE p = Eot
    <3>1. toTx' \in Seq(Code)
      BY <1>6, <2>1, AnswerTypes DEF SecondEot, Answer, Types
    <3>. QED  BY <1>6, <2>1, <3>1 DEF SecondEot, Types, RxTypes
  <2>. QED  BY <1>6, <2>1, AbortTypes DEF SecondEot
<1>7. ASSUME NextFile(p) PROVE RxTypes'
  <2>1. CASE p.kind = "head"
    BY <1>2, <1>7, <2>1, BeginTypes DEF NextFile
  <2>2. CASE p.kind = "null"
    <3>1. toTx' \in Seq(Code)
      BY <1>7, <2>2, AnswerTypes DEF NextFile, Answer, Types, Code
    <3>. QED  BY <1>7, <2>2, <3>1 DEF NextFile, Types, RxTypes
  <2>. QED  BY <1>7, <2>1, <2>2, AbortTypes DEF NextFile
<1>8. TxTypes' /\ Counted'
  BY <1>1, <1>2 DEF Types, TxTypes, Counted, txVars
<1>. QED  BY <1>3, <1>4, <1>5, <1>6, <1>7, <1>8, TypeParts

\* None comes.
LEMMA TimeoutTypes ==
  ASSUME Types, Timeout
  PROVE  Types'
<1>1. RxTypes'
  BY AbortTypes, TryAgainTypes DEF Timeout
<1>2. late' \in BOOLEAN
  BY DEF Timeout
<1>3. TxTypes' /\ Counted'
  BY <1>2 DEF Timeout, Types, TxTypes, Counted, txVars
<1>. QED  BY <1>1, <1>3, TypeParts

\* The flash reports an error.
LEMMA FlashFailsTypes ==
  ASSUME Types, FlashFails
  PROVE  Types'
<1>1. ASSUME Abort PROVE RxTypes'
  BY <1>1, AbortTypes
<1>2. ASSUME Refuse, fresh' = FALSE, UNCHANGED <<tries, erased>>
      PROVE  RxTypes'
  <2>1. toTx' \in Seq(Code)
    BY <1>2, AnswerTypes DEF Refuse, Answer, Types, Code
  <2>. QED  BY <1>2, <2>1 DEF Refuse, Types, RxTypes
<1>3. RxTypes'
  BY <1>1, <1>2 DEF FlashFails
<1>4. toRx' \in Seq(Packet) /\ faults' \in 0 .. MaxFaults
  BY DEF FlashFails, Types
<1>5. TxTypes' /\ Counted'
  BY <1>4 DEF FlashFails, Types, TxTypes, Counted, txVars
<1>. QED  BY <1>3, <1>5, TypeParts

\* The sender reads an answer.
LEMMA SenderTypes ==
  ASSUME Types, Control, SenderReads
  PROVE  Types'
<1>1. toTx' \in Seq(Code) /\ UNCHANGED <<rxVars, faults, gone, late>> /\ toTx # << >>
  BY AnswerTypes DEF SenderReads, Types
<1>2. RxTypes' /\ Counted'
  BY <1>1 DEF Types, RxTypes, Counted, rxVars
<1>3. /\ toRx \in Seq(Packet) /\ file \in DOMAIN Blocks /\ Blocks[file] \in Nat
      /\ block \in 0 .. Blocks[file] /\ DOMAIN Blocks = 1 .. Len(Blocks) /\ Len(Blocks) \in Nat
      /\ Len(Blocks) > 0
  BY Position DEF Types
<1>4. ASSUME NEW q \in Packet, Sends(q)
      PROVE  toRx' \in Seq(Packet)
  BY <1>3, <1>4 DEF Sends
<1>5. tx \in {"head", "data", "eot", "null"} => Current \in Packet
  BY CurrentIs
<1>6. ASSUME SendNext, tx \in {"go", "data"}
      PROVE  TxTypes'
  <2>1. CASE block < Blocks[file]
    <3>1. block + 1 \in 1 .. Blocks[file]
      BY <1>3, <2>1
    <3>2. toRx' \in Seq(Packet)
      BY <1>3, <1>4, <1>6, <2>1, <3>1, PacketsMade DEF SendNext
    <3>. QED  BY <1>3, <1>6, <2>1, <3>1, <3>2 DEF SendNext, TxTypes
  <2>2. CASE ~ (block < Blocks[file])
    <3>1. toRx' \in Seq(Packet)
      BY <1>4, <1>6, <2>2, PacketsMade DEF SendNext
    <3>. QED  BY <1>3, <1>6, <2>2, <3>1 DEF SendNext, TxTypes
  <2>. QED  BY <2>1, <2>2
<1>7. ASSUME NEW f \in DOMAIN Blocks, SendHead(f)
      PROVE  TxTypes'
  <2>1. toRx' \in Seq(Packet)
    BY <1>4, <1>7, PacketsMade DEF SendHead
  <2>2. Blocks[f] \in Nat
    OBVIOUS
  <2>. QED  BY <1>7, <2>1, <2>2 DEF SendHead, TxTypes
<1>8. ASSUME UNCHANGED <<file, block, toRx>>, tx' \in {tx, "go", "over", "done", "failed"}
      PROVE  TxTypes'
  BY <1>3, <1>8 DEF Types, TxTypes
<1>9. ASSUME Sends(Current), UNCHANGED txVars, tx \in {"head", "data", "eot", "null"}
      PROVE  TxTypes'
  <2>1. toRx' \in Seq(Packet)
    BY <1>4, <1>5, <1>9
  <2>. QED  BY <1>9, <2>1 DEF Types, TxTypes, txVars
<1>10. tx \in {"start", "head", "go", "data", "eot", "over", "null"}
  BY DEF SenderReads, Types, Ended
<1>11. ASSUME OnAck PROVE TxTypes'
  BY <1>6, <1>8, <1>10, <1>11 DEF OnAck, Quiet
<1>12. ASSUME OnNak PROVE TxTypes'
  BY <1>8, <1>9, <1>10, <1>12 DEF OnNak, Quiet
<1>13. ASSUME OnC PROVE TxTypes'
  <2>1. CASE tx = "start"
    BY <1>3, <1>7, <1>13, <2>1 DEF OnC
  <2>2. CASE tx = "go"
    BY <1>6, <1>13, <2>2 DEF OnC
  <2>3. CASE tx = "over" /\ file < Len(Blocks)
    <3>1. SendHead(file + 1) /\ file + 1 \in DOMAIN Blocks
      BY <1>3, <1>13, <2>3 DEF OnC
    <3>. QED  BY <1>7, <3>1
  <2>4. CASE tx = "over" /\ ~ (file < Len(Blocks))
    <3>1. file = Len(Blocks)
      BY <1>3, <2>4
    <3>2. tx' = "null" /\ Sends(Null) /\ UNCHANGED <<file, block>>
      BY <1>13, <2>4, <3>1 DEF OnC
    <3>3. toRx' \in Seq(Packet)
      BY <1>4, <3>2, PacketsMade
    <3>. QED  BY <1>3, <3>2, <3>3 DEF Types, TxTypes
  <2>5. CASE tx \in {"head", "data", "eot", "null"}
    BY <1>9, <1>13, <2>5 DEF OnC
  <2>. QED  BY <1>10, <2>1, <2>2, <2>3, <2>4, <2>5
<1>14. Head(toTx) \in Code
  BY <1>1, AnswerTypes DEF Types
<1>15. TxTypes'
  BY <1>8, <1>11, <1>12, <1>13, <1>14 DEF SenderReads, Code
<1>. QED  BY <1>2, <1>15, TypeParts

\* The line loses, damages or invents.
LEMMA FaultTypes ==
  ASSUME Types, Fault
  PROVE  /\ Types' /\ UNCHANGED <<rxVars, txVars>>
         /\ Thinned(toRx', toRx, Junk) /\ Thinned(toTx', toTx, "noise")
<1>1. toRx \in Seq(Packet) /\ toTx \in Seq(Code) /\ Junk \in Packet /\ "noise" \in Code
  BY PacketsMade DEF Types, Code
<1>2. /\ toRx' \in Seq(Packet) /\ toTx' \in Seq(Code)
      /\ Thinned(toRx', toRx, Junk) /\ Thinned(toTx', toTx, "noise")
      /\ gone' \in {TRUE, gone}
  <2>1. CASE Loses
    BY <1>1, <2>1, ThinnedBy DEF Loses
  <2>2. CASE Damages
    <3>1. CASE \E i \in DOMAIN toRx : toRx' = [toRx EXCEPT ![i] = Junk] /\ UNCHANGED toTx
      <4>1. PICK i \in DOMAIN toRx : toRx' = [toRx EXCEPT ![i] = Junk] /\ UNCHANGED toTx
        BY <3>1
      <4>2. /\ [toRx EXCEPT ![i] = Junk] \in Seq(Packet)
            /\ Thinned([toRx EXCEPT ![i] = Junk], toRx, Junk)
        BY <1>1, ThinnedBy
      <4>. QED  BY <1>1, <2>2, <4>1, <4>2, ThinnedBy DEF Damages
    <3>2. CASE \E i \in DOMAIN toTx : toTx' = [toTx EXCEPT ![i] = "noise"] /\ UNCHANGED toRx
      <4>1. PICK i \in DOMAIN toTx : toTx' = [toTx EXCEPT ![i] = "noise"] /\ UNCHANGED toRx
        BY <3>2
      <4>2. /\ [toTx EXCEPT ![i] = "noise"] \in Seq(Code)
            /\ Thinned([toTx EXCEPT ![i] = "noise"], toTx, "noise")
        BY <1>1, ThinnedBy
      <4>. QED  BY <1>1, <2>2, <4>1, <4>2, ThinnedBy DEF Damages
    <3>. QED  BY <2>2, <3>1, <3>2 DEF Damages
  <2>3. CASE Invents
    BY <1>1, <2>3, ThinnedBy DEF Invents
  <2>. QED  BY <2>1, <2>2, <2>3 DEF Fault
<1>3. faults' \in 0 .. MaxFaults
  BY DEF Fault, Types
<1>4. RxTypes' /\ TxTypes' /\ Counted'
  BY <1>2, <1>3 DEF Fault, Types, RxTypes, TxTypes, Counted, rxVars, txVars
<1>. QED  BY <1>2, <1>4, TypeParts DEF Fault

\* Every step keeps the types.
LEMMA TypeStep ==
  ASSUME Types, Control, YmodemNext
  PROVE  Types'
<1>1. CASE SenderGivesUp
  BY <1>1 DEF SenderGivesUp, Types, rxVars
<1>. QED  BY <1>1, ReceiveTypes, TimeoutTypes, FlashFailsTypes, SenderTypes, FaultTypes
          DEF YmodemNext

-----------------------------------------------------------------------------
(* What the steps amount to, as the invariant needs them.  First those of   *)
(* the receiver.                                                           *)

Reads ==
  /\ toRx # << >> /\ toRx' = Tail(toRx)
  /\ UNCHANGED <<tx, file, block, faults, gone>>

Fails ==
  /\ ~ Ended(rx) /\ rx' = "failed"
  /\ toRx' = toRx \/ (toRx # << >> /\ toRx' = Tail(toRx))
  /\ toTx' \in {toTx, Append(toTx, "CAN")}
  /\ faults' \in {faults, faults + 1}
  /\ UNCHANGED <<got, erased, tx, file, block, gone>>

Asks ==
  /\ rx = "handshake"
  /\ toRx' = toRx \/ (toRx # << >> /\ toRx' = Tail(toRx))
  /\ \E n \in Nat : toTx' = toTx \o [i \in 1 .. n |-> "C"]
  /\ UNCHANGED <<rx, fresh, got, erased, tx, file, block, faults, gone>>

Skips ==
  /\ Reads /\ rx = "trans" /\ fresh /\ Head(toRx).kind \in {"head", "junk"}
  /\ UNCHANGED <<rx, fresh, got, erased, toTx>>

Begins ==
  /\ Reads /\ rx \in {"handshake", "next"} /\ Head(toRx).kind = "head"
  /\ rx' = "trans" /\ fresh' = TRUE
  /\ got' = << >> /\ erased' = RoundUp(Blocks[Head(toRx).n])
  /\ toTx' = toTx \o <<"ACK", "C">>

Writes ==
  /\ Reads /\ rx = "trans" /\ Head(toRx).kind = "data"
  /\ rx' = rx /\ fresh' = FALSE /\ got' = Append(got, Head(toRx).n)
  /\ toTx' = Append(toTx, "ACK") /\ UNCHANGED erased

FileEnds ==
  /\ Reads /\ rx = "trans" /\ Head(toRx).kind = "eot"
  /\ rx' = "eot" /\ fresh' = FALSE /\ got' = got
  /\ toTx' = Append(toTx, "NAK") /\ UNCHANGED erased

FileConfirmed ==
  /\ Reads /\ rx = "eot" /\ rx' = "next" /\ UNCHANGED <<fresh, got, erased>>
  /\ toTx' = toTx \o <<"ACK", "C">>

BatchEnds ==
  /\ Reads /\ rx = "next" /\ Head(toRx).kind = "null"
  /\ rx' = "done" /\ UNCHANGED <<fresh, got, erased>>
  /\ toTx' = Append(toTx, "ACK")

(* Those of the sender.                                                    *)

Hears ==
  /\ toTx # << >> /\ toTx' = Tail(toTx)
  /\ UNCHANGED <<rx, fresh, got, erased, faults, gone>>

Ignores ==
  /\ Hears
  /\ Head(toTx) # "ACK" \/ tx \in {"start", "go", "over"}
  /\ UNCHANGED <<tx, file, block, toRx>>

Resends ==
  /\ Hears /\ Head(toTx) # "ACK" /\ tx \in {"head", "data", "eot", "null"}
  /\ toRx' = Append(toRx, Current)
  /\ UNCHANGED <<tx, file, block>>

HeadAcked ==
  /\ Hears /\ tx = "head" /\ Head(toTx) = "ACK"
  /\ tx' = "go" /\ UNCHANGED <<file, block, toRx>>

Advances ==
  /\ Hears
  /\ (tx = "go" /\ Head(toTx) = "C") \/ (tx = "data" /\ Head(toTx) = "ACK")
  /\ SendNext

EotAcked ==
  /\ Hears /\ tx = "eot" /\ Head(toTx) = "ACK"
  /\ tx' = "over" /\ UNCHANGED <<file, block, toRx>>

NullAcked ==
  /\ Hears /\ tx = "null" /\ Head(toTx) = "ACK"
  /\ tx' = "done" /\ UNCHANGED <<file, block, toRx>>

Heads ==
  /\ Hears /\ Head(toTx) = "C"
  /\ \E f \in DOMAIN Blocks : SendHead(f) /\ ((tx = "start" /\ f = 1) \/ tx = "over")

Closes ==
  /\ Hears /\ Head(toTx) = "C" /\ tx = "over" /\ file = Len(Blocks)
  /\ tx' = "null" /\ toRx' = Append(toRx, Null)
  /\ UNCHANGED <<file, block>>

Stops ==
  /\ Ended(rx) /\ ~ Ended(tx) /\ tx' = "failed"
  /\ toTx' = toTx \/ (toTx # << >> /\ toTx' = Tail(toTx))
  /\ UNCHANGED <<rx, fresh, got, erased, file, block, toRx, faults, gone>>

(* And those of the line: what arrives in its place is what was sent.      *)

Spoiled(t, s) ==
  /\ Len(t) >= Len(s)
  /\ \A i \in DOMAIN t : t[i] = Junk \/ (i \in DOMAIN s /\ t[i] = s[i])

Disturbs ==
  /\ faults' = faults + 1
  /\ UNCHANGED <<rx, fresh, got, erased, tx, file, block>>
  /\ Thinned(toRx', toRx, Junk) /\ Thinned(toTx', toTx, "noise")
  /\ Count(toTx', Noise) <= Count(toTx, Noise) + 1
  /\ gone' \/ (gone' = gone /\ Spoiled(toRx', toRx))

\* A packet that the receiver reads is one of its moves: Control excludes the
\* other branches of the code.
LEMMA ReceiveMoves ==
  ASSUME Types, Control, Receive
  PROVE  Fails \/ Asks \/ Skips \/ Begins \/ Writes \/ FileEnds \/ FileConfirmed \/ BatchEnds
<1> DEFINE p == Head(toRx)
<1>1. p \in Packet
  BY DEF Receive, Types
<1>2. Reads /\ (Handshake(p) \/ Trans(p) \/ SecondEot(p) \/ NextFile(p))
  BY DEF Receive, Reads, txVars
<1>3. toRx' = Tail(toRx) /\ toRx # << >>
  BY <1>2 DEF Reads
<1>4. /\ p.kind \in {"head", "data", "eot", "null", "junk"}
      /\ \A k \in {"head", "data", "eot", "null"} : NoKind(toRx, k) => p.kind # k
  BY <1>1, <1>3, PacketRead, Remaining
<1>5. \A x \in Code : toTx \o <<x>> = Append(toTx, x)
  BY AnswerTypes DEF Types
<1> HIDE DEF p
<1>6. ASSUME Abort, ~ Ended(rx)
      PROVE  Fails
  BY <1>2, <1>3, <1>6 DEF Abort, Fails, Reads
<1>7. ASSUME NEW n \in Nat, TryAgain(n), rx = "handshake"
      PROVE  Fails \/ Asks
  <2>1. CASE tries + n > MaxTries
    BY <1>6, <1>7, <2>1 DEF TryAgain, Ended
  <2>2. CASE ~ (tries + n > MaxTries)
    BY <1>2, <1>3, <1>7, <2>2 DEF TryAgain, Answer, Asks, Reads
  <2>. QED  BY <2>1, <2>2
<1>8. ASSUME Begin(Blocks[p.n]), rx \in {"handshake", "next"}, p.kind = "head"
      PROVE  Begins
  BY <1>2, <1>8 DEF Begin, Answer, Begins, p
<1>9. ASSUME Handshake(p)
      PROVE  Fails \/ Asks \/ Begins
  <2>1. p.kind \in {"head", "junk"}
    BY <1>4, <1>9 DEF Handshake, Control, Packets
  <2>2. CASE p.kind = "head"
    BY <1>8, <1>9, <2>2 DEF Handshake
  <2>3. CASE p.kind = "junk"
    <3>1. Abort \/ \E rounds \in 1 .. MaxTries : TryAgain(rounds)
      BY <1>9, <2>3 DEF Handshake
    <3>2. 1 .. MaxTries \subseteq Nat
      OBVIOUS
    <3>. QED  BY <1>6, <1>7, <1>9, <3>1, <3>2 DEF Handshake, Ended
  <2>. QED  BY <2>1, <2>2, <2>3
<1>10. ASSUME Trans(p)
       PROVE  Fails \/ Skips \/ Writes \/ FileEnds
  <2>1. rx = "trans" /\ p.kind # "null" /\ (fresh \/ p.kind # "head")
    BY <1>4, <1>10 DEF Trans, Control, Packets
  <2>2. CASE Ignored(p) /\ UNCHANGED <<rxVars, toTx>>
    BY <1>2, <2>1, <2>2 DEF Ignored, Skips, rxVars, p
  <2>3. CASE ~ Ignored(p) /\ p.kind \in {"head", "null", "data"} /\ fresh' = FALSE /\ Write(p)
           /\ UNCHANGED erased
    <3>1. p.kind = "data"
      BY <2>1, <2>3 DEF Ignored
    <3>2. CASE got' = Append(got, Written(p)) /\ Answer(<<"ACK">>) /\ UNCHANGED rx
      BY <1>2, <1>5, <2>1, <2>3, <3>1, <3>2 DEF Written, Answer, Writes, Code, p
    <3>3. CASE Refuse
      BY <1>2, <1>3, <1>5, <2>1, <2>3, <3>3 DEF Refuse, Answer, Fails, Reads, Code, Ended
    <3>. QED  BY <2>3, <3>2, <3>3 DEF Write
  <2>4. CASE p.kind = "eot" /\ rx' = "eot" /\ fresh' = FALSE /\ Answer(<<"NAK">>) /\ got' = got
           /\ UNCHANGED erased
    BY <1>2, <1>5, <2>1, <2>4 DEF Answer, FileEnds, Code, p
  <2>5. CASE Abort
    BY <1>6, <2>1, <2>5 DEF Ended
  <2>. QED  BY <1>10, <2>2, <2>3, <2>4, <2>5 DEF Trans
<1>11. ASSUME SecondEot(p)
       PROVE  Fails \/ FileConfirmed
  BY <1>2, <1>6, <1>11 DEF SecondEot, Answer, FileConfirmed, Ended
<1>12. ASSUME NextFile(p)
       PROVE  Fails \/ Begins \/ BatchEnds
  <2>1. CASE p.kind = "head"
    BY <1>8, <1>12, <2>1 DEF NextFile
  <2>2. CASE p.kind = "null"
    BY <1>2, <1>5, <1>12, <2>2 DEF NextFile, Answer, BatchEnds, Code, p
  <2>3. CASE p.kind \notin {"head", "null"}
    BY <1>6, <1>12, <2>3 DEF NextFile, Ended
  <2>. QED  BY <2>1, <2>2, <2>3
<1>. QED  BY <1>2, <1>9, <1>10, <1>11, <1>12

\* So is a wait that ends.
LEMMA TimeoutMoves ==
  ASSUME Types, Timeout
  PROVE  Fails \/ Asks
<1>1. UNCHANGED <<tx, file, block, toRx, faults, gone>> /\ ~ Ended(rx)
  BY DEF Timeout, txVars
<1>2. ASSUME Abort PROVE Fails
  BY <1>1, <1>2 DEF Abort, Fails
<1>3. CASE rx = "handshake"
  <2>1. TryAgain(1)
    BY <1>3 DEF Timeout
  <2>2. CASE tries + 1 > MaxTries
    BY <1>2, <2>1, <2>2 DEF TryAgain
  <2>3. CASE ~ (tries + 1 > MaxTries)
    BY <1>1, <1>3, <2>1, <2>3 DEF TryAgain, Answer, Asks
  <2>. QED  BY <2>2, <2>3
<1>4. CASE rx # "handshake"
  BY <1>2, <1>4 DEF Timeout
<1>. QED  BY <1>3, <1>4

\* And an error of the flash.
LEMMA FlashFailsMoves ==
  ASSUME Types, FlashFails
  PROVE  Fails
<1>1. toTx \o <<"CAN">> = Append(toTx, "CAN")
  BY AnswerTypes DEF Types, Code
<1>. QED  BY <1>1 DEF FlashFails, Abort, Refuse, Answer, Fails, Ended, txVars

\* An answer that the sender reads is one of the sender's moves.
LEMMA SenderMoves ==
  ASSUME Types, Control, SenderReads
  PROVE  \/ Ignores \/ Resends \/ HeadAcked \/ Advances \/ EotAcked \/ NullAcked
         \/ Heads \/ Closes \/ Stops
<1>1. /\ Hears /\ UNCHANGED <<rx, fresh, got, erased, faults, gone>>
      /\ tx \in {"start", "head", "go", "data", "eot", "over", "null"} /\ ~ Ended(tx)
      /\ file \in 1 .. Len(Blocks) /\ Len(Blocks) \in Nat /\ Len(Blocks) > 0
      /\ DOMAIN Blocks = 1 .. Len(Blocks)
  <2>1. tx \in {"start", "head", "go", "data", "eot", "over", "null", "done", "failed"}
    BY DEF Types
  <2>. QED  BY <2>1, Position DEF SenderReads, Hears, Ended, rxVars
<1>2. Head(toTx) \in Code
  BY AnswerTypes DEF SenderReads, Types
<1>3. ASSUME Sends(Current), UNCHANGED txVars, Head(toTx) # "ACK",
             tx \in {"head", "data", "eot", "null"}
      PROVE  Resends
  BY <1>1, <1>3 DEF Sends, Resends, txVars
<1>4. ASSUME Quiet, Head(toTx) # "ACK" \/ tx \in {"start", "go", "over"}
      PROVE  Ignores
  BY <1>1, <1>4 DEF Quiet, Ignores
<1>5. CASE Head(toTx) = "ACK"
  <2>1. OnAck
    BY <1>5 DEF SenderReads
  <2>2. CASE tx \in {"head", "data", "eot", "null"}
    BY <1>1, <1>5, <2>1, <2>2 DEF OnAck, HeadAcked, Advances, EotAcked, NullAcked
  <2>3. CASE tx \in {"start", "go", "over"}
    BY <1>4, <1>5, <2>1, <2>3 DEF OnAck
  <2>. QED  BY <1>1, <2>2, <2>3
<1>6. CASE Head(toTx) = "C"
  <2>1. OnC
    BY <1>6 DEF SenderReads
  <2>2. CASE tx = "start"
    <3>1. SendHead(1) /\ 1 \in DOMAIN Blocks
      BY <1>1, <2>1, <2>2 DEF OnC
    <3>. QED  BY <1>1, <1>6, <2>2, <3>1 DEF Heads
  <2>3. CASE tx = "go"
    BY <1>1, <1>6, <2>1, <2>3 DEF OnC, Advances
  <2>4. CASE tx = "over" /\ file < Len(Blocks)
    <3>1. SendHead(file + 1) /\ file + 1 \in DOMAIN Blocks
      BY <1>1, <2>1, <2>4 DEF OnC
    <3>. QED  BY <1>1, <1>6, <2>4, <3>1 DEF Heads
  <2>5. CASE tx = "over" /\ ~ (file < Len(Blocks))
    <3>1. file = Len(Blocks)
      <4>1. file \in 1 .. Len(Blocks) /\ Len(Blocks) \in Nat /\ ~ (file < Len(Blocks))
        BY <1>1, <2>5
      <4>. QED  BY <4>1
    <3>2. tx' = "null" /\ Sends(Null) /\ UNCHANGED <<file, block>>
      BY <2>1, <2>5, <3>1 DEF OnC
    <3>. QED  BY <1>1, <1>6, <2>5, <3>1, <3>2 DEF Sends, Closes
  <2>6. CASE tx \in {"head", "data", "eot", "null"}
    BY <1>3, <1>6, <2>1, <2>6 DEF OnC
  <2>. QED  BY <1>1, <2>2, <2>3, <2>4, <2>5, <2>6
<1>7. CASE Head(toTx) \in {"NAK", "noise"}
  <2>1. OnNak
    BY <1>7 DEF SenderReads
  <2>. QED  BY <1>3, <1>4, <1>7, <2>1 DEF OnNak
<1>8. CASE Head(toTx) = "CAN"
  <2>1. rx = "failed"
    BY <1>8, SenderTail DEF SenderReads, Control, Answers
  <2>. QED  BY <1>1, <1>8, <2>1 DEF SenderReads, Stops, Hears, Ended
<1>. QED  BY <1>2, <1>5, <1>6, <1>7, <1>8 DEF Code

\* Damaging and inventing spoil the packets on the line.
LEMMA SpoiledBy ==
  ASSUME Types
  PROVE  /\ Spoiled(toRx, toRx) /\ Spoiled(Append(toRx, Junk), toRx)
         /\ \A k \in DOMAIN toRx : Spoiled([toRx EXCEPT ![k] = Junk], toRx)
<1>1. toRx \in Seq(Packet) /\ Junk \in Packet
  BY PacketsMade DEF Types
<1>2. Spoiled(toRx, toRx)
  BY <1>1 DEF Spoiled
<1>3. Spoiled(Append(toRx, Junk), toRx)
  BY <1>1, AppendFacts DEF Spoiled
<1>4. ASSUME NEW k \in DOMAIN toRx
      PROVE  Spoiled([toRx EXCEPT ![k] = Junk], toRx)
  <2> DEFINE t == [toRx EXCEPT ![k] = Junk]
  <2>1. Len(t) = Len(toRx) /\ DOMAIN t = DOMAIN toRx /\ Len(toRx) \in Nat
    BY <1>1
  <2>2. \A i \in DOMAIN t : t[i] = Junk \/ t[i] = toRx[i]
    BY <1>1
  <2> HIDE DEF t
  <2>3. Spoiled(t, toRx)
    BY <2>1, <2>2 DEF Spoiled
  <2>. QED  BY <2>3 DEF t
<1>. QED  BY <1>2, <1>3, <1>4

\* One error adds at most one answer that is noise.
LEMMA NoiseOfFault ==
  ASSUME Types, Fault
  PROVE  Count(toTx', Noise) <= Count(toTx, Noise) + 1
<1>1. toTx \in Seq(Code) /\ "CAN" \in Code \ Noise /\ "noise" \in Code
  BY DEF Types, Code, Noise
<1>2. Count(toTx, Noise) \in Nat
  BY <1>1, CountNat
<1>3. CASE UNCHANGED toTx
  BY <1>2, <1>3
<1>4. CASE \E i \in DOMAIN toTx : toTx' = RemoveAt(toTx, i)
  <2>1. PICK i \in DOMAIN toTx : toTx' = RemoveAt(toTx, i)
    BY <1>4
  <2>2. RemoveAt(toTx, i) \in Seq(Code) /\ Thinned(RemoveAt(toTx, i), toTx, "CAN")
    BY <1>1, ThinnedBy
  <2>3. toTx' \in Seq(Code) /\ Count(toTx', Noise) <= Count(toTx, Noise)
    BY <1>1, <2>1, <2>2, CountThinned
  <2>4. Count(toTx', Noise) \in Nat
    BY <2>3, CountNat
  <2>. QED  BY <1>2, <2>3, <2>4
<1>5. CASE \E i \in DOMAIN toTx : toTx' = [toTx EXCEPT ![i] = "noise"]
  <2>1. PICK i \in DOMAIN toTx : toTx' = [toTx EXCEPT ![i] = "noise"]
    BY <1>5
  <2>2. Count([toTx EXCEPT ![i] = "noise"], Noise) <= Count(toTx, Noise) + 1
    BY <1>1, CountSpoiled
  <2>. QED  BY <2>1, <2>2
<1>6. CASE toTx' = Append(toTx, "noise")
  <2>1. Count(Append(toTx, "noise"), Noise) = Count(toTx, Noise) + 1
    BY <1>1, CountAppend DEF Noise
  <2>. QED  BY <1>2, <1>6, <2>1
<1>. QED  BY <1>3, <1>4, <1>5, <1>6 DEF Fault, Loses, Damages, Invents

\* A fault is the move of the line.
LEMMA FaultMoves ==
  ASSUME Types, Fault
  PROVE  Disturbs
<1>1. gone' \/ (gone' = gone /\ Spoiled(toRx', toRx))
  <2>1. CASE Loses
    <3>1. CASE gone' = TRUE
      BY <3>1
    <3>2. CASE UNCHANGED <<toRx, gone>>
      BY <3>2, SpoiledBy
    <3>. QED  BY <2>1, <3>1, <3>2 DEF Loses
  <2>2. CASE Damages
    <3>1. ASSUME NEW i \in DOMAIN toRx, toRx' = [toRx EXCEPT ![i] = Junk]
          PROVE  Spoiled(toRx', toRx)
      <4>1. Spoiled([toRx EXCEPT ![i] = Junk], toRx)
        BY SpoiledBy
      <4>. QED  BY <3>1, <4>1
    <3>2. CASE UNCHANGED toRx
      <4>1. Spoiled(toRx', toRx)
        BY <3>2, SpoiledBy
      <4>. QED  BY <2>2, <4>1 DEF Damages
    <3>. QED  BY <2>2, <3>1, <3>2 DEF Damages
  <2>3. CASE Invents
    <3>1. Spoiled(toRx', toRx)
      BY <2>3, SpoiledBy DEF Invents
    <3>. QED  BY <2>3, <3>1 DEF Invents
  <2>. QED  BY <2>1, <2>2, <2>3 DEF Fault
<1>2. Count(toTx', Noise) <= Count(toTx, Noise) + 1
  BY NoiseOfFault
<1>. QED  BY <1>1, <1>2, FaultTypes DEF Fault, Disturbs, rxVars, txVars

\* Every step is one of the moves.
LEMMA Moves ==
  ASSUME Types, Control, YmodemNext
  PROVE  \/ Fails \/ Asks \/ Skips \/ Begins \/ Writes
         \/ FileEnds \/ FileConfirmed \/ BatchEnds
         \/ Ignores \/ Resends \/ HeadAcked \/ Advances \/ EotAcked \/ NullAcked
         \/ Heads \/ Closes \/ Stops
         \/ Disturbs
<1>1. CASE SenderGivesUp
  BY <1>1 DEF SenderGivesUp, Stops, rxVars
<1>. QED  BY <1>1, ReceiveMoves, TimeoutMoves, FlashFailsMoves, SenderMoves, FaultMoves
          DEF YmodemNext

-----------------------------------------------------------------------------
(* Control is kept                                                         *)

\* A sequence that is not touched, or loses its first element.
LEMMA Kept ==
  ASSUME Types
  PROVE  /\ toRx' = toRx \/ (toRx # << >> /\ toRx' = Tail(toRx)) => Thinned(toRx', toRx, Junk)
         /\ toTx' = toTx \/ (toTx # << >> /\ toTx' = Tail(toTx)) => Thinned(toTx', toTx, "noise")
<1>1. toRx \in Seq(Packet) /\ toTx \in Seq(Code) /\ Junk \in Packet /\ "noise" \in Code
  BY PacketsMade DEF Types, Code
<1>. QED  BY <1>1, ThinnedBy

\* Nothing but the line has changed.
LEMMA LineControl ==
  ASSUME Types, Types', Control, UNCHANGED <<rx, fresh, got, tx, file, block>>,
         Thinned(toRx', toRx, Junk), Thinned(toTx', toTx, "noise")
  PROVE  Control'
<1>1. /\ \A x \in {"ACK", "C", "NAK", "CAN"} : Without(toTx, x) => Without(toTx', x)
      /\ NoReply(toTx) => NoReply(toTx')
      /\ EndsInC(toTx) => EndsInC(toTx')
      /\ EndsInAckC(toTx) => EndsInAckC(toTx')
  BY ThinnedCodes DEF Types, Code
<1>2. /\ \A kind \in {"head", "data", "eot", "null"} : NoKind(toRx, kind) => NoKind(toRx', kind)
      /\ \A k, l \in {"head", "data", "eot", "null"} : Never(toRx, k, l) => Never(toRx', k, l)
  BY ThinnedPackets DEF Types
<1>3. Places'
  BY DEF Control, Places
<1>4. Answers'
  BY <1>1 DEF Control, Answers
<1>5. First'
  BY <1>1 DEF Control, First
<1>6. Packets'
  BY <1>2 DEF Control, Packets
<1>7. \A i \in DOMAIN toRx' : toRx'[i].kind = "data" => \E j \in DOMAIN toRx : toRx'[i] = toRx[j]
  BY PacketsMade DEF Thinned
<1>8. Numbers'
  BY <1>7 DEF Control, Numbers
<1>. QED  BY <1>3, <1>4, <1>5, <1>6, <1>8 DEF Control

\* The receiver gives up.
LEMMA FailsControl ==
  ASSUME Types, Types', Control, Fails
  PROVE  Control'
<1>. USE DEF Fails
<1>1. /\ \A x \in {"ACK", "C", "NAK"} : Without(toTx, x) => Without(toTx', x)
      /\ EndsInC(toTx) => EndsInC(toTx')
      /\ EndsInAckC(toTx) => EndsInAckC(toTx')
  BY CodesWith DEF Types, Code, Reply
<1>2. NoKind(toRx, "head") => NoKind(toRx', "head")
  BY Kept, ThinnedPackets DEF Types
<1>3. Places'
  BY DEF Control, Places, Ended, Types
<1>4. Answers'
  BY <1>1 DEF Control, Answers, Ended
<1>5. First' /\ Numbers'
  BY DEF First, Numbers
<1>6. Packets'
  BY <1>2 DEF Control, Packets
<1>. QED  BY <1>3, <1>4, <1>5, <1>6 DEF Control

\* It asks again for the first packet.
LEMMA AsksControl ==
  ASSUME Types, Types', Control, Asks
  PROVE  Control'
<1>. USE DEF Asks
<1>1. \A x \in {"ACK", "NAK", "CAN"} : Without(toTx, x) => Without(toTx', x)
  <2>1. PICK n \in Nat : toTx' = toTx \o [i \in 1 .. n |-> "C"]
    OBVIOUS
  <2>. QED  BY <2>1, CsWith DEF Types, Code
<1>2. \A kind \in {"head", "data", "eot", "null"} : NoKind(toRx, kind) => NoKind(toRx', kind)
  BY Kept, ThinnedPackets DEF Types
<1>3. Places'
  BY DEF Control, Places
<1>4. tx = "head" => EndsInAckC(toTx')
  BY <1>1, AbsentEnds DEF Control, Answers, Types
<1>5. Answers'
  BY <1>1, <1>4 DEF Control, Answers, Places
<1>6. First' /\ Numbers'
  BY DEF First, Numbers
<1>7. Packets'
  BY <1>2 DEF Control, Packets
<1>. QED  BY <1>3, <1>5, <1>6, <1>7 DEF Control

\* A header begins a file.
LEMMA BeginsControl ==
  ASSUME Types, Types', Control, Begins
  PROVE  Control'
<1>. USE DEF Begins, Reads
<1>1. tx = "head"
  BY Remaining DEF Control, Packets, Places
<1>2. toTx' = Append(Append(toTx, "ACK"), "C")
  BY AckCIsTwoMore DEF Types
<1>3. Without(toTx, "ACK") /\ Without(toTx, "CAN")
  BY <1>1 DEF Control, Answers, NoReply
<1>4. EndsInAckC(toTx')
  BY <1>2, <1>3, AckCWith DEF Types
<1>5. Without(toTx', "CAN")
  BY <1>2, <1>3, CodesWith DEF Types, Code
<1>6. NoKind(toRx', "null") /\ NoKind(toRx', "data") /\ NoKind(toRx', "eot")
  BY <1>1, Remaining DEF Control, Packets
<1>7. Places'
  BY <1>1 DEF Control, Places
<1>8. Answers'
  BY <1>1, <1>4, <1>5 DEF Answers
<1>9. First'
  BY <1>1 DEF First
<1>10. Packets'
  BY <1>1, <1>6, AbsentNever DEF Packets
<1>11. Numbers'
  BY <1>6 DEF Numbers, NoKind
<1>. QED  BY <1>7, <1>8, <1>9, <1>10, <1>11 DEF Control

\* A block is written.
LEMMA WritesControl ==
  ASSUME Types, Types', Control, Writes
  PROVE  Control'
<1>. USE DEF Writes, Reads
<1>1. Head(toRx).n \in Nat
  <2>1. Head(toRx) \in Packet
    BY Remaining
  <2>. QED  BY <2>1, PacketRead
<1>2. tx \in {"data", "eot", "over"} /\ Without(toTx, "C") /\ Without(toTx, "CAN")
  BY Remaining DEF Control, Packets, Places, Answers
<1>3. Without(toTx', "C") /\ Without(toTx', "CAN")
  BY <1>2, CodesWith DEF Types, Code
<1>4. EndsInC(toTx')
  BY <1>3, AbsentEnds DEF Types
<1>5. NoKind(toRx', "head")
  BY Remaining DEF Control, Packets
<1>6. Places'
  BY DEF Control, Places
<1>7. Answers'
  BY <1>2, <1>3, <1>4 DEF Control, Answers
<1>8. First'
  BY DEF First
<1>9. PICK n \in Nat : n = Head(toRx).n
  BY <1>1
<1>10. /\ got' # << >> /\ DOMAIN got' = 1 .. Len(got) + 1
       /\ \A i \in DOMAIN got' : got'[i] = IF i \in DOMAIN got THEN got[i] ELSE n
  <2>1. got \in Seq(Nat) /\ got' = Append(got, n)
    BY <1>9 DEF Types
  <2>2. /\ Append(got, n) # << >> /\ DOMAIN Append(got, n) = 1 .. Len(got) + 1
        /\ \A i \in DOMAIN Append(got, n) :
             Append(got, n)[i] = IF i \in DOMAIN got THEN got[i] ELSE n
    BY <2>1, GotWith
  <2>. QED  BY <2>1, <2>2
<1>11. Packets'
  BY <1>2, <1>5, <1>9, <1>10, Remaining DEF Control, Packets
<1>12. \A i \in DOMAIN got' : (i \in DOMAIN got /\ got'[i] = got[i]) \/ got'[i] = Head(toRx).n
  BY <1>9, <1>10
<1>13. Numbers'
  BY <1>12, Remaining DEF Control, Numbers
<1>. QED  BY <1>6, <1>7, <1>8, <1>11, <1>13 DEF Control

\* The first EOT.
LEMMA FileEndsControl ==
  ASSUME Types, Types', Control, FileEnds
  PROVE  Control'
<1>. USE DEF FileEnds, Reads
<1>1. tx \in {"eot", "over"} /\ Without(toTx, "C") /\ Without(toTx, "CAN")
  BY Remaining DEF Control, Packets, Places, Answers
<1>2. Without(toTx', "C") /\ Without(toTx', "CAN")
  BY <1>1, CodesWith DEF Types, Code
<1>3. EndsInC(toTx')
  BY <1>2, AbsentEnds DEF Types
<1>4. NoKind(toRx', "head") /\ NoKind(toRx', "data") /\ NoKind(toRx', "null")
  BY Remaining DEF Control, Packets
<1>5. Places'
  BY <1>1 DEF Control, Places
<1>6. Answers'
  BY <1>1, <1>2, <1>3 DEF Control, Answers
<1>7. Packets'
  BY <1>1, <1>4 DEF Packets
<1>8. First' /\ Numbers'
  BY DEF First, Numbers
<1>. QED  BY <1>5, <1>6, <1>7, <1>8 DEF Control

\* The second one.
LEMMA FileConfirmedControl ==
  ASSUME Types, Types', Control, FileConfirmed
  PROVE  Control'
<1>. USE DEF FileConfirmed, Reads
<1>1. tx \in {"eot", "over"} /\ Without(toTx, "C") /\ Without(toTx, "CAN")
  BY DEF Control, Places, Answers
<1>2. toTx' = Append(Append(toTx, "ACK"), "C")
  BY AckCIsTwoMore DEF Types
<1>3. /\ Append(toTx, "ACK") \in Seq(Code)
      /\ Without(Append(toTx, "ACK"), "C") /\ Without(Append(toTx, "ACK"), "CAN")
  BY <1>1, CodesWith DEF Types, Code
<1>4. EndsInC(Append(toTx, "ACK"))
  BY <1>3, AbsentEnds
<1>5. EndsInC(toTx') /\ Without(toTx', "CAN")
  BY <1>2, <1>3, <1>4, CodesWith DEF Code
<1>6. NoKind(toRx', "head") /\ NoKind(toRx', "data") /\ NoKind(toRx', "null")
  BY Remaining DEF Control, Packets
<1>7. Places'
  BY <1>1 DEF Control, Places
<1>8. Answers'
  BY <1>1, <1>5 DEF Answers
<1>9. Packets'
  BY <1>1, <1>6, AbsentNever DEF Packets
<1>10. First' /\ Numbers'
  BY DEF First, Numbers
<1>. QED  BY <1>7, <1>8, <1>9, <1>10 DEF Control

\* The empty header.
LEMMA BatchEndsControl ==
  ASSUME Types, Types', Control, BatchEnds
  PROVE  Control'
<1>. USE DEF BatchEnds, Reads
<1>1. tx = "null" /\ Without(toTx, "CAN")
  BY Remaining DEF Control, Packets, Answers
<1>2. Without(toTx', "CAN")
  BY <1>1, CodesWith DEF Types, Code
<1>. QED  BY <1>1, <1>2 DEF Control, Places, Answers, First, Packets, Numbers
-----------------------------------------------------------------------------
\* What a packet more on the line changes for the receiver.
LEMMA SenderAdds ==
  ASSUME Types, NEW p \in Packet, toRx' = Append(toRx, p)
  PROVE  /\ \A k \in {"head", "data", "eot", "null"} :
              NoKind(toRx, k) /\ p.kind # k => NoKind(toRx', k)
         /\ \A k, l \in {"head", "data", "eot", "null"} :
              Never(toRx, k, l) /\ (p.kind # l \/ NoKind(toRx, k)) => Never(toRx', k, l)
         /\ \A i \in DOMAIN toRx' : toRx'[i] = p \/ (i \in DOMAIN toRx /\ toRx'[i] = toRx[i])
<1>1. toRx \in Seq(Packet)
  BY DEF Types
<1>. QED  BY <1>1, PacketsWith, AppendFacts

\* The sender sends again what is not acknowledged.
LEMMA ResendsControl ==
  ASSUME Types, Types', Control, Resends
  PROVE  Control'
<1>. USE DEF Resends, Hears
<1>1. /\ Current \in Packet /\ Current.kind = tx
      /\ Current.kind = "data" => Current.n \in 1 .. block
  <2>1. block \in Nat
    BY DEF Types
  <2>. QED  BY <2>1, CurrentIs
<1>2. Places'
  BY DEF Control, Places
<1>3. Answers'
  BY SenderTail DEF Control, Answers
<1>4. First'
  BY SenderTail DEF Control, First
<1>5. Packets'
  BY <1>1, SenderAdds DEF Control, Packets, Places
<1>6. Numbers'
  BY <1>1, SenderAdds DEF Control, Numbers
<1>. QED  BY <1>2, <1>3, <1>4, <1>5, <1>6 DEF Control

\* Its header is acknowledged.
LEMMA HeadAckedControl ==
  ASSUME Types, Types', Control, HeadAcked
  PROVE  Control'
<1>. USE DEF HeadAcked, Hears
<1>1. rx \in {"trans", "failed"}
  BY SenderTail DEF Control, Places, Answers, Types, Reply
<1>2. Places'
  BY <1>1 DEF Control, Places
<1>3. Answers'
  BY <1>1, SenderTail DEF Control, Answers
<1>. QED  BY <1>1, <1>2, <1>3 DEF Control, First, Packets, Numbers

\* It goes on to the next block or to the end of the file.
LEMMA AdvancesControl ==
  ASSUME Types, Types', Control, Advances
  PROVE  Control'
<1>. USE DEF Advances, Hears
<1>1. rx \in {"trans", "failed"}
  BY DEF Control, Places, Types
<1>2. Without(toTx', "C")
  BY SenderTail DEF Control, Answers, NoReply
<1>3. rx = "trans" /\ fresh => tx = "go" /\ NoReply(toTx') /\ block = 0
  BY <1>1, SenderTail DEF Control, Answers, First, Places, Reply
<1>4. EndsInC(toTx')
  BY <1>2, SenderTail, AbsentEnds
<1>5. CASE block < Blocks[file]
  <2>1. /\ tx' = "data" /\ block' = block + 1 /\ file' = file
        /\ toRx' = Append(toRx, Pkt("data", block + 1))
    BY <1>5 DEF SendNext, Sends
  <2>2. Pkt("data", block + 1) \in Packet
    <3>1. file \in DOMAIN Blocks /\ block + 1 \in 1 .. Blocks[file]
      BY <1>5, Position
    <3>. QED  BY <3>1, PacketsMade
  <2>3. Places'
    BY <1>1, <2>1 DEF Control, Places, Types
  <2>4. Answers'
    BY <1>1, <1>2, <2>1, SenderTail DEF Control, Answers
  <2>5. First'
    BY <1>3, <2>1 DEF Control, First
  <2>6. Packets'
    BY <1>1, <2>1, <2>2, PacketsMade, SenderAdds DEF Control, Packets
  <2>7. Numbers'
    <3>1. PICK p \in Packet : p = Pkt("data", block + 1) /\ p.n = block + 1
      BY <2>2, PacketsMade
    <3>2. \A i \in DOMAIN toRx' : toRx'[i] = p \/ (i \in DOMAIN toRx /\ toRx'[i] = toRx[i])
      BY <2>1, <3>1, SenderAdds
    <3>3. block \in Nat /\ 1 .. block \subseteq 1 .. block' /\ block + 1 \in 1 .. block'
      BY <2>1 DEF Types
    <3>. QED  BY <1>1, <2>1, <3>1, <3>2, <3>3 DEF Control, Numbers
  <2>. QED  BY <2>3, <2>4, <2>5, <2>6, <2>7 DEF Control
<1>6. CASE ~ (block < Blocks[file])
  <2>1. /\ tx' = "eot" /\ block' = block /\ file' = file
        /\ toRx' = Append(toRx, Eot)
    BY <1>6 DEF SendNext, Sends
  <2>2. block = Blocks[file]
    BY <1>6, Position
  <2>3. Places'
    BY <1>1, <2>1, <2>2 DEF Control, Places
  <2>4. Answers'
    BY <1>1, <1>2, <1>4, <2>1, SenderTail DEF Control, Answers
  <2>5. First'
    BY <1>3, <2>1, <2>2 DEF Control, First
  <2>6. Packets'
    BY <1>1, <2>1, PacketsMade, SenderAdds DEF Control, Packets
  <2>7. Numbers'
    BY <1>1, <2>1, PacketsMade, SenderAdds DEF Control, Numbers
  <2>. QED  BY <2>3, <2>4, <2>5, <2>6, <2>7 DEF Control
<1>. QED  BY <1>5, <1>6

\* Its EOT is acknowledged.
LEMMA EotAckedControl ==
  ASSUME Types, Types', Control, EotAcked
  PROVE  Control'
<1>. USE DEF EotAcked, Hears
<1>1. rx \in {"trans", "eot", "next", "failed"} /\ ~ (rx = "trans" /\ fresh)
  BY SenderTail DEF Control, Places, First, Types, Reply
<1>2. Places'
  BY <1>1 DEF Control, Places
<1>3. Answers'
  BY <1>1, SenderTail DEF Control, Answers
<1>. QED  BY <1>1, <1>2, <1>3 DEF Control, First, Packets, Numbers

\* The batch is acknowledged.
LEMMA NullAckedControl ==
  ASSUME Types, Types', Control, NullAcked
  PROVE  Control'
<1>. USE DEF NullAcked, Hears
<1>1. rx = "done"
  BY SenderTail DEF Control, Answers
<1>2. Answers'
  BY <1>1, SenderTail DEF Control, Answers
<1>. QED  BY <1>1, <1>2 DEF Control, Places, First, Packets, Numbers

\* The first packet of a file, and the one that ends the batch.
LEMMA HeadsControl ==
  ASSUME Types, Types', Control, Heads
  PROVE  Control'
<1>. USE DEF Heads, Hears
<1>1. PICK f \in DOMAIN Blocks : SendHead(f) /\ ((tx = "start" /\ f = 1) \/ tx = "over")
  OBVIOUS
<1>2. /\ tx' = "head" /\ file' = f /\ block' = 0 /\ toRx' = Append(toRx, Pkt("head", f))
      /\ Pkt("head", f) \in Packet /\ Pkt("head", f).kind = "head"
  BY <1>1, PacketsMade DEF SendHead, Sends
<1>3. /\ tx = "start" => rx \in {"handshake", "failed"} /\ Without(toTx', "ACK")
      /\ tx = "over" => rx \in {"next", "failed"} /\ NoReply(toTx')
  BY <1>1, SenderTail DEF Control, Places, Answers, Types
<1>4. EndsInAckC(toTx')
  BY <1>1, <1>3, SenderTail, AbsentEnds DEF NoReply
<1>5. Places'
  BY <1>1, <1>2, <1>3 DEF Control, Places
<1>6. Answers'
  BY <1>1, <1>2, <1>3, <1>4, SenderTail DEF Control, Answers
<1>7. Packets'
  BY <1>1, <1>2, <1>3, SenderAdds DEF Control, Packets
<1>. QED  BY <1>1, <1>2, <1>3, <1>5, <1>6, <1>7 DEF Control, First, Numbers

\* The empty header is sent.
LEMMA ClosesControl ==
  ASSUME Types, Types', Control, Closes
  PROVE  Control'
<1>. USE DEF Closes, Hears
<1>1. rx \in {"next", "failed"} /\ NoReply(toTx')
  BY SenderTail DEF Control, Places, Answers, Types
<1>2. Places'
  BY <1>1 DEF Control, Places
<1>3. Answers'
  BY <1>1, SenderTail DEF Control, Answers, NoReply
<1>4. Packets'
  BY <1>1, PacketsMade, SenderAdds DEF Control, Packets
<1>. QED  BY <1>1, <1>2, <1>3, <1>4 DEF Control, First, Numbers

\* The sender gives up.
LEMMA StopsControl ==
  ASSUME Types, Types', Control, Stops
  PROVE  Control'
<1>. USE DEF Stops
<1>1. Without(toTx, "CAN") => Without(toTx', "CAN")
  BY Kept, ThinnedCodes DEF Types, Code
<1>. QED  BY <1>1 DEF Control, Places, Answers, First, Packets, Numbers, Ended

\* Every step keeps Control.
LEMMA ControlStep ==
  ASSUME Types, Types', Control, YmodemNext
  PROVE  Control'
<1>1. CASE Skips \/ Ignores \/ Disturbs
  <2>1. UNCHANGED <<rx, fresh, got, tx, file, block>>
    BY <1>1 DEF Skips, Reads, Ignores, Hears, Disturbs
  <2>2. Thinned(toRx', toRx, Junk) /\ Thinned(toTx', toTx, "noise")
    BY <1>1, Kept DEF Skips, Reads, Ignores, Hears, Disturbs
  <2>. QED  BY <2>1, <2>2, LineControl
<1>. QED  BY <1>1, Moves, FailsControl, AsksControl, BeginsControl, WritesControl, FileEndsControl,
             FileConfirmedControl, BatchEndsControl, ResendsControl, HeadAckedControl,
             AdvancesControl, EotAckedControl, NullAckedControl, HeadsControl, ClosesControl,
             StopsControl

-----------------------------------------------------------------------------
(* The order of the blocks is kept                                         *)

\* The receiver no longer takes blocks, or has not yet taken the first one.
LEMMA NotInFlight ==
  ASSUME rx' # "trans" \/ fresh' = TRUE
  PROVE  InFlight'
BY DEF InFlight

\* Damage cuts the chain of numbers where it strikes; a lost packet ends the
\* promise.
LEMMA SpoiledFlight ==
  ASSUME Types, Types', Ordered, Disturbs
  PROVE  Ordered'
<1>. USE DEF Disturbs
<1>1. CASE gone'
  BY <1>1 DEF Ordered, InFlight, InOrder, Whole
<1>2. CASE ~ gone'
  <2>1. gone' = gone /\ Spoiled(toRx', toRx)
    BY <1>2
  <2>2. InOrder' /\ Whole'
    BY <2>1 DEF Ordered, InOrder, Whole
  <2>3. ASSUME ~ gone, rx = "trans", ~ fresh
        PROVE  InSteps' /\ AtLevel'
    <3>1. /\ Len(toRx) \in Nat /\ Len(toRx') \in Nat /\ Len(toRx') >= Len(toRx)
          /\ DOMAIN toRx = 1 .. Len(toRx) /\ DOMAIN toRx' = 1 .. Len(toRx')
          /\ \A i \in DOMAIN toRx' : toRx'[i] = Junk \/ (i \in DOMAIN toRx /\ toRx'[i] = toRx[i])
      BY <2>1 DEF Spoiled, Types
    <3>2. ASSUME NEW i \in 0 .. Len(toRx'), Intact(i)'
          PROVE  i <= Len(toRx) /\ Intact(i) /\ \A k \in 1 .. i : toRx'[k] = toRx[k]
      <4>1. \A k \in 1 .. i : k \in DOMAIN toRx /\ toRx'[k] = toRx[k] /\ toRx[k] # Junk
        BY <3>1, <3>2 DEF Intact
      <4>2. i <= Len(toRx)
        <5>1. CASE i = 0
          BY <3>1, <5>1
        <5>2. CASE i # 0
          <6>1. i \in 1 .. i
            BY <5>2
          <6>. QED  BY <3>1, <4>1, <6>1
        <5>. QED  BY <5>1, <5>2
      <4>. QED  BY <4>1, <4>2 DEF Intact
    <3>3. ASSUME NEW i \in 0 .. Len(toRx'), Intact(i)', NEW k \in 0 .. i
          PROVE  Reached(k)' = Reached(k)
      BY <3>2, <3>3 DEF Reached, Num
    <3>4. ASSUME NEW i \in DOMAIN toRx', Intact(i)'
          PROVE  Reached(i)' \in {Reached(i - 1)', Reached(i - 1)' + 1}
      <4>1. i \in 0 .. Len(toRx') /\ i \in 0 .. i /\ i - 1 \in 0 .. i /\ i \in 1 .. Len(toRx')
        BY <3>1
      <4>2. Reached(i)' = Reached(i) /\ Reached(i - 1)' = Reached(i - 1)
        BY <3>3, <3>4, <4>1
      <4>3. i \in DOMAIN toRx /\ Intact(i)
        BY <3>1, <3>2, <3>4, <4>1
      <4>. QED  BY <2>1, <2>3, <4>2, <4>3 DEF Ordered, InFlight, InSteps
    <3>5. ASSUME NEW n \in {Len(toRx')}, Intact(n)'
          PROVE  Reached(n)' = Level'
      <4>1. n = Len(toRx') /\ n \in 0 .. Len(toRx') /\ n \in 0 .. n
        BY <3>1
      <4>2. n <= Len(toRx) /\ Intact(n)
        BY <3>2, <3>5, <4>1
      <4>3. Reached(n)' = Reached(n)
        BY <3>3, <3>5, <4>1
      <4>4. n = Len(toRx)
        <5>1. n \in Nat /\ Len(toRx) \in Nat /\ n >= Len(toRx) /\ n <= Len(toRx)
          BY <3>1, <4>1, <4>2
        <5>. QED  BY <5>1
      <4>5. Reached(n) = Level
        BY <2>1, <2>3, <4>2, <4>4 DEF Ordered, InFlight, AtLevel
      <4>. QED  BY <4>3, <4>5 DEF Level
    <3>. QED  BY <3>4, <3>5 DEF InSteps, AtLevel
  <2>4. InFlight'
    BY <2>1, <2>3 DEF InFlight
  <2>. QED  BY <2>2, <2>4 DEF Ordered
<1>. QED  BY <1>1, <1>2

\* The sender adds a packet: the one it is at, or the one after.
LEMMA AddedFlight ==
  ASSUME Types, Types', InFlight, UNCHANGED <<rx, fresh, got, file, gone>>,
         NEW p \in Packet, toRx' = Append(toRx, p),
         rx = "trans" /\ ~ fresh => Num(p) = Level' /\ Level' \in {Level, Level + 1}
  PROVE  InFlight'
<1> SUFFICES ASSUME ~ gone, rx = "trans", ~ fresh
             PROVE  InSteps' /\ AtLevel'
  BY DEF InFlight
<1>1. /\ Len(toRx) \in Nat /\ Len(toRx') = Len(toRx) + 1
      /\ DOMAIN toRx = 1 .. Len(toRx) /\ DOMAIN toRx' = 1 .. Len(toRx) + 1
      /\ \A i \in 1 .. Len(toRx) : toRx'[i] = toRx[i]
      /\ toRx'[Len(toRx) + 1] = p
  BY DEF Types
<1>2. \A i \in 0 .. Len(toRx) : Reached(i)' = Reached(i) /\ (Intact(i)' <=> Intact(i))
  BY <1>1 DEF Reached, Num, Intact
<1>. PICK n \in Nat : n = Len(toRx)
  BY <1>1
<1>3. Reached(n + 1)' = Num(p)
  BY <1>1 DEF Reached, Num
<1>4. Intact(n + 1)' => Intact(n)
  BY <1>1, <1>2 DEF Intact
<1>5. InSteps /\ (Intact(n) => Reached(n) = Level)
  BY DEF InFlight, AtLevel
<1>6. ASSUME NEW i \in DOMAIN toRx', Intact(i)'
      PROVE  Reached(i)' \in {Reached(i - 1)', Reached(i - 1)' + 1}
  <2>1. CASE i = n + 1
    <3>1. i - 1 = n /\ n \in 0 .. Len(toRx)
      BY <2>1
    <3>2. Reached(n)' = Level
      BY <1>2, <1>4, <1>5, <1>6, <2>1, <3>1
    <3>. QED  BY <1>3, <2>1, <3>1, <3>2
  <2>2. CASE i # n + 1
    <3>1. i \in 1 .. Len(toRx) /\ i \in 0 .. Len(toRx) /\ i - 1 \in 0 .. Len(toRx)
      BY <1>1, <2>2
    <3>2. Reached(i)' = Reached(i) /\ Reached(i - 1)' = Reached(i - 1) /\ Intact(i)
      BY <1>2, <1>6, <3>1
    <3>. QED  BY <1>1, <1>5, <3>1, <3>2 DEF InSteps
  <2>. QED  BY <2>1, <2>2
<1>7. Len(toRx') = n + 1 /\ Reached(n + 1)' = Level'
  BY <1>1, <1>3
<1>. QED  BY <1>6, <1>7 DEF InSteps, AtLevel

\* A block is written after the ones before it.
LEMMA WritesOrdered ==
  ASSUME Types, Types', Control, Ordered, Writes
  PROVE  Ordered'
<1>. USE DEF Writes, Reads
<1>1. Whole'
  BY DEF Whole
<1> SUFFICES ASSUME ~ gone
             PROVE  InFlight' /\ InOrder'
  BY <1>1 DEF Ordered, InFlight, InOrder
<1>2. PICK n \in Nat : n = Head(toRx).n /\ n > 0
  <2>1. Head(toRx) \in Packet
    BY Remaining
  <2>. QED  BY <2>1, PacketRead
<1>3. /\ toRx[1] = Head(toRx) /\ toRx[1] # Junk /\ Num(toRx[1]) = n
      /\ Len(toRx) \in Nat /\ Len(toRx) > 0 /\ Len(toRx') = Len(toRx) - 1
      /\ DOMAIN toRx = 1 .. Len(toRx) /\ DOMAIN toRx' = 1 .. Len(toRx')
      /\ \A i \in 1 .. Len(toRx') : toRx'[i] = toRx[i + 1]
  <2>1. toRx \in Seq(Packet) /\ toRx # << >> /\ toRx' = Tail(toRx)
    BY DEF Types
  <2>2. toRx[1] = Head(toRx) /\ toRx[1].kind = "data"
    BY Remaining
  <2>3. toRx[1] # Junk /\ Num(toRx[1]) = n
    BY <1>2, <2>2, PacketsMade DEF Num
  <2>4. /\ Len(toRx) \in Nat /\ Len(toRx) > 0 /\ Len(toRx') = Len(toRx) - 1
        /\ DOMAIN toRx = 1 .. Len(toRx) /\ DOMAIN toRx' = 1 .. Len(toRx')
    BY <2>1
  <2>5. \A i \in 1 .. Len(toRx') : toRx'[i] = toRx[i + 1]
    BY <2>1
  <2>. QED  BY <2>2, <2>3, <2>4, <2>5
<1>4. /\ got' # << >> /\ DOMAIN got' = 1 .. Len(got) + 1 /\ Len(got') = Len(got) + 1
      /\ Len(got) \in Nat /\ DOMAIN got = 1 .. Len(got)
      /\ \A i \in DOMAIN got' : got'[i] = IF i \in DOMAIN got THEN got[i] ELSE n
  <2>1. got \in Seq(Nat) /\ got' = Append(got, n)
    BY <1>2 DEF Types
  <2>2. /\ Append(got, n) # << >> /\ DOMAIN Append(got, n) = 1 .. Len(got) + 1
        /\ Len(Append(got, n)) = Len(got) + 1 /\ Len(got) \in Nat /\ DOMAIN got = 1 .. Len(got)
        /\ \A i \in DOMAIN Append(got, n) :
             Append(got, n)[i] = IF i \in DOMAIN got THEN got[i] ELSE n
    BY <2>1, GotWith
  <2>. QED  BY <2>1, <2>2
<1>5. Last(got') = n
  BY <1>4 DEF Last
<1>6. CASE fresh
  <2>1. got = << >> /\ tx = "data" /\ block = 1
    <3>1. n \in 1 .. block
      BY <1>2, <1>3 DEF Control, Numbers
    <3>2. tx \in {"data", "eot"}
      BY <1>6, Remaining DEF Control, Places, First, Packets
    <3>3. tx = "eot" => block = 0
      BY <1>6 DEF Control, First, Places
    <3>. QED  BY <1>6, <3>1, <3>2, <3>3 DEF Control, First
  <2>2. n = 1
    BY <1>2, <1>3, <2>1 DEF Control, Numbers
  <2>3. InOrder'
    BY <1>4, <2>1, <2>2 DEF InOrder
  <2>4. \A i \in DOMAIN toRx' : toRx'[i] # Junk => Num(toRx'[i]) = 1
    <3>1. NoKind(toRx', "head") /\ NoKind(toRx', "eot") /\ NoKind(toRx', "null")
      BY <2>1, Remaining DEF Control, Packets
    <3>2. ASSUME NEW i \in DOMAIN toRx', toRx'[i] # Junk
          PROVE  toRx'[i].kind = "data"
      <4>1. toRx' \in Seq(Packet)
        BY DEF Types
      <4>2. toRx'[i] \in Packet
        BY <4>1
      <4>. QED  BY <3>1, <3>2, <4>2, PacketRead DEF NoKind
    <3>3. ASSUME NEW i \in DOMAIN toRx', toRx'[i].kind = "data"
          PROVE  toRx'[i].n = 1
      <4>1. i + 1 \in DOMAIN toRx /\ toRx'[i] = toRx[i + 1]
        BY <1>3
      <4>. QED  BY <2>1, <3>3, <4>1 DEF Control, Numbers
    <3>. QED  BY <3>2, <3>3 DEF Num
  <2>5. \A i \in 0 .. Len(toRx') : Intact(i)' => Reached(i)' = 1
    <3>1. ASSUME NEW i \in 0 .. Len(toRx'), Intact(i)'
          PROVE  Reached(i)' = 1
      <4>1. CASE i = 0
        BY <1>5, <2>2, <4>1 DEF Reached
      <4>2. CASE i # 0
        <5>1. i \in 1 .. i /\ i \in DOMAIN toRx'
          BY <1>3, <4>2
        <5>2. toRx'[i] # Junk
          BY <3>1, <5>1 DEF Intact
        <5>. QED  BY <2>4, <4>2, <5>1, <5>2 DEF Reached, Num
      <4>. QED  BY <4>1, <4>2
    <3>. QED  BY <3>1
  <2>6. ASSUME NEW i \in DOMAIN toRx', Intact(i)'
        PROVE  Reached(i)' = Reached(i - 1)'
    <3>1. i \in 0 .. Len(toRx') /\ i - 1 \in 0 .. Len(toRx') /\ 1 .. i - 1 \subseteq 1 .. i
      BY <1>3
    <3>2. Intact(i - 1)'
      BY <2>6, <3>1 DEF Intact
    <3>. QED  BY <2>5, <2>6, <3>1, <3>2
  <2>7. ASSUME NEW m \in {Len(toRx')}, Intact(m)'
        PROVE  Reached(m)' = Level'
    <3>1. m \in 0 .. Len(toRx')
      BY <1>3
    <3>. QED  BY <2>1, <2>5, <2>7, <3>1 DEF Level
  <2>8. InFlight'
    BY <2>6, <2>7 DEF InFlight, InSteps, AtLevel
  <2>. QED  BY <2>3, <2>8
<1>7. CASE ~ fresh
  <2>1. /\ got # << >>
        /\ \A i \in DOMAIN toRx : Intact(i) => Reached(i) \in {Reached(i - 1), Reached(i - 1) + 1}
        /\ \A m \in {Len(toRx)} : Intact(m) => Reached(m) = Level
    BY <1>7 DEF Control, Packets, Ordered, InFlight, InSteps, AtLevel
  <2>2. n \in {Last(got), Last(got) + 1}
    <3>1. Intact(1) /\ 1 \in DOMAIN toRx /\ Reached(1) = n /\ Reached(1 - 1) = Last(got)
      BY <1>3 DEF Intact, Reached
    <3>. QED  BY <2>1, <3>1
  <2>3. Len(got) > 0
    BY <1>4, <2>1 DEF Types
  <2>4. InOrder'
    BY <1>4, <2>2, <2>3 DEF Ordered, InOrder, Last
  <2>5. \A i \in 0 .. Len(toRx') : Reached(i)' = Reached(i + 1) /\ (Intact(i)' <=> Intact(i + 1))
    <3>1. ASSUME NEW i \in 0 .. Len(toRx')
          PROVE  Reached(i)' = Reached(i + 1)
      BY <1>3, <1>5 DEF Reached, Num
    <3>2. ASSUME NEW i \in 0 .. Len(toRx')
          PROVE  Intact(i)' <=> Intact(i + 1)
      <4>1. ASSUME Intact(i)', NEW k \in 1 .. i + 1
            PROVE  toRx[k] # Junk
        <5>1. CASE k = 1
          BY <1>3, <5>1
        <5>2. CASE k # 1
          <6>1. k - 1 \in 1 .. i /\ toRx'[k - 1] = toRx[k]
            BY <1>3, <5>2
          <6>. QED  BY <4>1, <6>1 DEF Intact
        <5>. QED  BY <5>1, <5>2
      <4>2. ASSUME Intact(i + 1), NEW k \in 1 .. i
            PROVE  toRx'[k] # Junk
        <5>1. k + 1 \in 1 .. i + 1 /\ toRx'[k] = toRx[k + 1]
          BY <1>3
        <5>. QED  BY <4>2, <5>1 DEF Intact
      <4>. QED  BY <4>1, <4>2 DEF Intact
    <3>. QED  BY <3>1, <3>2
  <2>6. ASSUME NEW i \in DOMAIN toRx', Intact(i)'
        PROVE  Reached(i)' \in {Reached(i - 1)', Reached(i - 1)' + 1}
    <3>1. /\ i \in 0 .. Len(toRx') /\ i - 1 \in 0 .. Len(toRx') /\ (i - 1) + 1 = i
          /\ i + 1 \in DOMAIN toRx /\ (i + 1) - 1 = i
      BY <1>3
    <3>2. Intact(i + 1) /\ Reached(i)' = Reached(i + 1) /\ Reached(i - 1)' = Reached(i)
      BY <2>5, <2>6, <3>1
    <3>. QED  BY <2>1, <3>1, <3>2
  <2>7. ASSUME NEW m \in {Len(toRx')}, Intact(m)'
        PROVE  Reached(m)' = Level'
    <3>1. m \in 0 .. Len(toRx') /\ m + 1 = Len(toRx) /\ Level' = Level
      BY <1>3 DEF Level
    <3>2. Intact(m + 1) /\ Reached(m)' = Reached(m + 1)
      BY <2>5, <2>7, <3>1
    <3>. QED  BY <2>1, <3>1, <3>2
  <2>8. InFlight'
    BY <2>6, <2>7 DEF InFlight, InSteps, AtLevel
  <2>. QED  BY <2>4, <2>8
<1>. QED  BY <1>6, <1>7

\* The end of the file arrives: the last block has been written.
LEMMA FileEndsOrdered ==
  ASSUME Types, Types', Control, Ordered, FileEnds
  PROVE  Ordered'
<1>. USE DEF FileEnds, Reads
<1>1. InFlight'
  BY NotInFlight
<1>2. InOrder'
  BY DEF Ordered, InOrder
<1>3. tx \in {"eot", "over"} /\ block = Blocks[file] /\ Blocks[file] \in Nat
  <2>1. tx \in {"start", "head", "go", "data", "eot", "over", "null", "done", "failed"}
    BY DEF Types
  <2>2. ~ NoKind(toRx, "eot")
    BY Remaining
  <2>. QED  BY <2>1, <2>2, Position DEF Control, Packets, Places
<1>4. ASSUME fresh
      PROVE  Blocks[file] = 0 /\ got = << >>
  BY <1>3, <1>4 DEF Control, First
<1>5. ASSUME ~ fresh, ~ gone
      PROVE  got # << >> /\ Blocks[file] # 0 /\ Last(got) = Blocks[file]
  <2>1. got # << >> /\ Last(got) \in 1 .. Blocks[file]
    <3>1. got # << >> /\ got \in Seq(Nat)
      BY <1>5 DEF Control, Packets, Types
    <3>2. Len(got) \in DOMAIN got
      BY <3>1
    <3>. QED  BY <1>3, <3>1, <3>2 DEF Control, Numbers, Last
  <2>2. toRx[1] = Head(toRx) /\ toRx[1] # Junk /\ 1 \in DOMAIN toRx
    BY Remaining, PacketsMade
  <2>3. Intact(1) /\ Reached(1) = Blocks[file] + 1 /\ Reached(1 - 1) = Last(got)
    BY <2>2 DEF Intact, Reached, Num
  <2>4. Blocks[file] + 1 \in {Last(got), Last(got) + 1}
    BY <1>5, <2>2, <2>3 DEF Ordered, InFlight, InSteps
  <2>. QED  BY <1>3, <2>1, <2>4
<1>6. Whole'
  BY <1>4, <1>5 DEF Whole
<1>. QED  BY <1>1, <1>2, <1>6 DEF Ordered

\* The sender sends a packet again, or the next.
LEMMA SendsOrdered ==
  ASSUME Types, Types', Control, Ordered, Resends \/ Advances
  PROVE  Ordered'
<1>1. InOrder'
  BY DEF Resends, Advances, Hears, Ordered, InOrder
<1>2. CASE Resends
  <2>. USE DEF Resends, Hears
  <2>1. Whole'
    BY <1>2 DEF Ordered, Whole
  <2>2. Current \in Packet /\ Current.kind = tx /\ (tx = "data" => Current.n = block)
    BY <1>2, CurrentIs
  <2>3. rx = "trans" /\ ~ fresh => tx \in {"data", "eot"}
    BY <1>2 DEF Control, Places, Packets
  <2>4. rx = "trans" /\ ~ fresh => Num(Current) = Level' /\ Level' = Level
    BY <1>2, <2>2, <2>3 DEF Num, Level
  <2>5. InFlight'
    BY <1>2, <2>2, <2>4, AddedFlight DEF Ordered
  <2>. QED  BY <1>1, <2>1, <2>5 DEF Ordered
<1>3. CASE Advances
  <2>. USE DEF Advances, Hears
  <2>1. UNCHANGED <<rx, fresh, got, file, gone>>
    BY <1>3 DEF SendNext
  <2>2. Whole'
    BY <1>3 DEF Control, Places, Whole
  <2>3. rx = "trans" /\ ~ fresh => tx = "data"
    BY <1>3 DEF Control, Packets
  <2>4. Blocks[file] \in Nat /\ block \in 0 .. Blocks[file] /\ file \in DOMAIN Blocks
    BY Position
  <2>5. CASE block < Blocks[file]
    <3>1. tx' = "data" /\ block' = block + 1 /\ toRx' = Append(toRx, Pkt("data", block + 1))
      BY <1>3, <2>5 DEF SendNext, Sends
    <3>2. PICK p \in Packet : p = Pkt("data", block + 1)
      <4>1. block + 1 \in 1 .. Blocks[file]
        BY <2>4, <2>5
      <4>. QED  BY <2>4, <4>1, PacketsMade
    <3>3. Num(p) = block + 1
      BY <3>2, PacketsMade DEF Num
    <3>4. rx = "trans" /\ ~ fresh => Num(p) = Level' /\ Level' = Level + 1
      BY <2>3, <3>1, <3>3 DEF Level
    <3>5. InFlight'
      BY <2>1, <3>1, <3>2, <3>4, AddedFlight DEF Ordered
    <3>. QED  BY <1>1, <2>2, <3>5 DEF Ordered
  <2>6. CASE ~ (block < Blocks[file])
    <3>1. tx' = "eot" /\ toRx' = Append(toRx, Eot) /\ block = Blocks[file]
      BY <1>3, <2>4, <2>6 DEF SendNext, Sends
    <3>2. PICK p \in Packet : p = Eot
      BY PacketsMade
    <3>3. Num(p) = Blocks[file] + 1
      BY <3>2, PacketsMade DEF Num
    <3>4. rx = "trans" /\ ~ fresh => Num(p) = Level' /\ Level' = Level + 1
      BY <2>1, <2>3, <3>1, <3>3 DEF Level
    <3>5. InFlight'
      BY <2>1, <3>1, <3>2, <3>4, AddedFlight DEF Ordered
    <3>. QED  BY <1>1, <2>2, <3>5 DEF Ordered
  <2>. QED  BY <2>5, <2>6
<1>. QED  BY <1>2, <1>3

\* Every step keeps the order.
LEMMA OrderedStep ==
  ASSUME Types, Types', Control, Ordered, YmodemNext
  PROVE  Ordered'
<1>1. CASE Fails
  BY <1>1 DEF Fails, Ordered, InFlight, InOrder, Whole
<1>2. CASE Asks
  BY <1>2 DEF Asks, Ordered, InFlight, InOrder, Whole
<1>3. CASE Skips
  BY <1>3 DEF Skips, Reads, Ordered, InFlight, InOrder, Whole
<1>4. CASE Begins
  BY <1>4 DEF Begins, Reads, Ordered, InFlight, InOrder, Whole
<1>5. CASE FileConfirmed
  BY <1>5 DEF FileConfirmed, Reads, Ordered, InFlight, InOrder, Whole
<1>6. CASE BatchEnds
  BY <1>6 DEF BatchEnds, Reads, Ordered, InFlight, InOrder, Whole
<1>7. ASSUME UNCHANGED <<rx, fresh, got, file, toRx, gone>>,
             rx = "trans" /\ ~ fresh => Level' = Level,
             tx' # "head" => tx # "head" \/ rx = "trans" \/ rx = "failed"
      PROVE  Ordered'
  <2>1. InOrder' /\ Whole'
    BY <1>7 DEF Ordered, InOrder, Whole
  <2>2. \A i : (Intact(i)' <=> Intact(i)) /\ Reached(i)' = Reached(i)
    BY <1>7 DEF Intact, Reached, Num
  <2>3. InFlight'
    BY <1>7, <2>2 DEF Ordered, InFlight, InSteps, AtLevel
  <2>. QED  BY <2>1, <2>3 DEF Ordered
<1>8. CASE Ignores
  BY <1>7, <1>8 DEF Ignores, Hears, Level
<1>9. CASE HeadAcked
  <2>1. rx \in {"trans", "failed"} /\ (rx = "trans" => fresh)
    BY <1>9, SenderTail DEF HeadAcked, Hears, Control, Places, Answers, Packets, Types, Reply
  <2>. QED  BY <1>7, <1>9, <2>1 DEF HeadAcked, Hears
<1>10. CASE EotAcked
  BY <1>7, <1>10 DEF EotAcked, Hears, Level
<1>11. CASE NullAcked
  BY <1>7, <1>11 DEF NullAcked, Hears, Level
<1>12. CASE Heads
  <2>1. rx # "trans" /\ tx' = "head" /\ UNCHANGED <<rx, got, gone>>
    BY <1>12, SenderTail DEF Heads, Hears, SendHead, Control, Places, Answers
  <2>. QED  BY <2>1 DEF Ordered, InFlight, InOrder, Whole
<1>13. CASE Closes
  <2>1. rx # "trans" /\ tx # "head" /\ UNCHANGED <<rx, got, file, gone>>
    BY <1>13, SenderTail DEF Closes, Hears, Control, Answers
  <2>. QED  BY <2>1 DEF Ordered, InFlight, InOrder, Whole
<1>14. CASE Stops
  <2>1. rx # "trans" /\ (rx = "failed" \/ tx # "head") /\ UNCHANGED <<rx, got, file, gone>>
    BY <1>14 DEF Stops, Ended, Control, Places
  <2>. QED  BY <2>1 DEF Ordered, InFlight, InOrder, Whole
<1>. QED  BY <1>1, <1>2, <1>3, <1>4, <1>5, <1>6, <1>8, <1>9, <1>10, <1>11, <1>12, <1>13, <1>14,
             Moves, WritesOrdered, FileEndsOrdered, SendsOrdered, SpoiledFlight

-----------------------------------------------------------------------------
(* Without errors                                                          *)

\* Headers and then a block: what is left when the first of them is read.
LEMMA Flight ==
  ASSUME NEW s \in Seq(Packet), s # << >>, \A i \in 1 .. Len(s) - 1 : s[i].kind = "head",
         s[Len(s)].kind = "data"
  PROVE  /\ Head(s).kind = "data" => Tail(s) = << >> /\ Head(s) = s[Len(s)]
         /\ Head(s).kind # "data" =>
              /\ Tail(s) # << >> /\ Tail(s)[Len(Tail(s))] = s[Len(s)]
              /\ \A i \in 1 .. Len(Tail(s)) - 1 : Tail(s)[i].kind = "head"
<1>1. PICK n \in Nat : n = Len(s)
  OBVIOUS
<1>2. n > 0 /\ Head(s) = s[1] /\ Tail(s) \in Seq(Packet) /\ Len(Tail(s)) = n - 1
  BY <1>1
<1>3. \A i \in 1 .. n - 1 : Tail(s)[i] = s[i + 1]
  BY <1>1
<1>4. \A i \in 1 .. n - 1 : s[i].kind = "head"
  BY <1>1
<1>5. ASSUME Head(s).kind = "data"
      PROVE  Tail(s) = << >> /\ Head(s) = s[Len(s)]
  <2>1. ~ (1 \in 1 .. n - 1)
    BY <1>2, <1>4, <1>5
  <2>2. n = 1
    BY <1>2, <2>1
  <2>3. Len(Tail(s)) = 0
    BY <1>2, <2>2
  <2>4. \A t \in Seq(Packet) : Len(t) = 0 => t = << >>
    OBVIOUS
  <2>. QED  BY <1>1, <1>2, <2>2, <2>3, <2>4
<1>6. ASSUME Head(s).kind # "data"
      PROVE  /\ Tail(s) # << >> /\ Tail(s)[Len(Tail(s))] = s[Len(s)]
             /\ \A i \in 1 .. Len(Tail(s)) - 1 : Tail(s)[i].kind = "head"
  <2>1. n # 1
    BY <1>1, <1>2, <1>6
  <2>2. n - 1 \in 1 .. n - 1 /\ (n - 1) + 1 = n /\ n - 1 # 0
    BY <1>2, <2>1
  <2>3. Tail(s)[n - 1] = s[n] /\ Tail(s) # << >>
    BY <1>2, <1>3, <2>2
  <2>4. \A i \in 1 .. (n - 1) - 1 : i \in 1 .. n - 1 /\ i + 1 \in 1 .. n - 1
    BY <1>2
  <2>5. \A i \in 1 .. (n - 1) - 1 : Tail(s)[i].kind = "head"
    BY <1>3, <1>4, <2>4
  <2>. QED  BY <1>1, <1>2, <2>3, <2>5
<1>. QED  BY <1>5, <1>6

\* Headers and then a block that is added.
LEMMA FlightWith ==
  ASSUME NEW s \in Seq(Packet), NEW p \in Packet, \A i \in 1 .. Len(s) : s[i].kind = "head"
  PROVE  /\ Append(s, p) # << >> /\ Append(s, p)[Len(Append(s, p))] = p
         /\ \A i \in 1 .. Len(Append(s, p)) - 1 : Append(s, p)[i].kind = "head"
<1> DEFINE t == Append(s, p)
<1>1. PICK n \in Nat : n = Len(s)
  OBVIOUS
<1>2. t # << >> /\ Len(t) = n + 1 /\ DOMAIN t = 1 .. n + 1
  BY <1>1, AppendFacts
<1>3. DOMAIN s = 1 .. n
  BY <1>1
<1>4. \A i \in DOMAIN t : t[i] = IF i \in DOMAIN s THEN s[i] ELSE p
  BY AppendFacts
<1> HIDE DEF t
<1>5. n + 1 \in 1 .. n + 1 /\ n + 1 \notin 1 .. n /\ (n + 1) - 1 = n
      /\ \A i \in 1 .. n : i \in 1 .. n + 1
  OBVIOUS
<1>. QED  BY <1>1, <1>2, <1>3, <1>4, <1>5 DEF t

\* The codes and the packets on the line, when nothing disturbs it.
LEMMA CleanLine ==
  ASSUME Types, Types', Control, NoKind(toRx, "junk"), Without(toTx, "noise"),
         YmodemNext, faults' = faults
  PROVE  NoKind(toRx', "junk") /\ Without(toTx', "noise")
<1>1. /\ toRx \in Seq(Packet) /\ toTx \in Seq(Code) /\ Null.kind # "junk" /\ Eot.kind # "junk"
      /\ {Null, Eot} \subseteq Packet /\ faults \in Nat
  BY PacketsMade DEF Types
<1>2. /\ toRx # << >> => NoKind(Tail(toRx), "junk")
      /\ \A p \in Packet : p.kind # "junk" => NoKind(Append(toRx, p), "junk")
  <2>1. toRx # << >> =>
          \A i \in DOMAIN Tail(toRx) : i + 1 \in DOMAIN toRx /\ Tail(toRx)[i] = toRx[i + 1]
    BY <1>1
  <2>2. toRx # << >> => NoKind(Tail(toRx), "junk")
    BY <2>1 DEF NoKind
  <2>. QED  BY <1>1, <2>2, PacketsWith
<1>3. /\ toTx # << >> => Without(Tail(toTx), "noise")
      /\ \A x \in {"ACK", "NAK", "CAN"} : Without(Append(toTx, x), "noise")
      /\ Without(toTx \o <<"ACK", "C">>, "noise")
      /\ \A n \in Nat : Without(toTx \o [i \in 1 .. n |-> "C"], "noise")
  <2>1. toTx # << >> =>
          \A i \in DOMAIN Tail(toTx) : i + 1 \in DOMAIN toTx /\ Tail(toTx)[i] = toTx[i + 1]
    BY <1>1
  <2>2. toTx # << >> => Without(Tail(toTx), "noise")
    BY <2>1 DEF Without
  <2>3. \A x \in {"ACK", "NAK", "CAN"} :
          Append(toTx, x) \in Seq(Code) /\ Without(Append(toTx, x), "noise")
    BY <1>1, CodesWith DEF Code
  <2>4. Without(Append(Append(toTx, "ACK"), "C"), "noise")
    BY <2>3, CodesWith DEF Code
  <2>. QED  BY <1>1, <2>2, <2>3, <2>4, CsWith, AckCIsTwoMore
<1>4. CASE Fails \/ Asks \/ Skips \/ Begins \/ Writes \/ FileEnds \/ FileConfirmed \/ BatchEnds
  BY <1>2, <1>3, <1>4
  DEF Fails, Asks, Skips, Begins, Writes, FileEnds, FileConfirmed, BatchEnds, Reads
<1>5. CASE Ignores \/ HeadAcked \/ EotAcked \/ NullAcked \/ Stops
  BY <1>2, <1>3, <1>5 DEF Ignores, HeadAcked, EotAcked, NullAcked, Stops, Hears
<1>6. CASE Resends
  <2>1. Current \in Packet /\ Current.kind # "junk"
    BY <1>6, CurrentIs DEF Resends
  <2>. QED  BY <1>2, <1>3, <1>6, <2>1 DEF Resends, Hears
<1>7. CASE Advances
  <2>1. PICK p \in Packet : p.kind # "junk" /\ toRx' = Append(toRx, p)
    <3>1. file \in DOMAIN Blocks /\ (block < Blocks[file] => block + 1 \in 1 .. Blocks[file])
      BY Position
    <3>. QED  BY <1>7, <3>1, PacketsMade DEF Advances, SendNext, Sends
  <2>. QED  BY <1>2, <1>3, <1>7, <2>1 DEF Advances, Hears
<1>8. CASE Heads \/ Closes
  BY <1>1, <1>2, <1>3, <1>8, PacketsMade DEF Heads, SendHead, Sends, Closes, Hears
<1>9. ~ Disturbs
  BY <1>1 DEF Disturbs
<1>. QED  BY <1>4, <1>5, <1>6, <1>7, <1>8, <1>9, Moves

\* Each block is written once.
LEMMA CleanGot ==
  ASSUME Types, Control, Clean, faults = 0, YmodemNext
  PROVE  \A i \in DOMAIN got' : got'[i] = i
<1>1. \A i \in DOMAIN got : got[i] = i
  BY DEF Clean
<1>2. CASE Writes
  <2>. USE DEF Writes, Reads
  <2>1. tx = "data" /\ OnTheWay
    <3>1. tx \in {"data", "eot", "over"} /\ ~ NoKind(toRx, "data")
      BY <1>2, Remaining DEF Control, Places, Packets
    <3>. QED  BY <1>2, <3>1 DEF Clean, Acknowledged
  <2>2. Head(toRx) = toRx[Len(toRx)]
    <3>1. /\ toRx \in Seq(Packet) /\ toRx # << >> /\ Head(toRx).kind = "data"
          /\ \A i \in 1 .. Len(toRx) - 1 : toRx[i].kind = "head"
          /\ toRx[Len(toRx)].kind = "data"
      BY <1>2, <2>1, PacketsMade DEF OnTheWay, Types
    <3>. QED  BY <3>1, Flight
  <2>3. Head(toRx).n = block
    BY <2>1, <2>2, PacketsMade DEF OnTheWay
  <2>4. block \in Nat /\ Len(got) = block - 1 /\ got \in Seq(Nat)
    BY <2>1 DEF OnTheWay, Types
  <2>5. \A i \in DOMAIN Append(got, block) : Append(got, block)[i] = i
    BY <1>1, <2>4, GotWith
  <2>. QED  BY <1>2, <2>3, <2>5
<1>3. CASE UNCHANGED got
  BY <1>1, <1>3
<1>4. CASE got' = << >>
  BY <1>4
<1>. QED  BY <1>2, <1>3, <1>4, Moves
          DEF Fails, Asks, Skips, Begins, FileEnds, FileConfirmed, BatchEnds,
              Ignores, Resends, HeadAcked, Advances, EotAcked, NullAcked,
              Heads, Closes, Stops, Disturbs, Hears

\* While a file is sent: one packet or one answer.
LEMMA CleanData ==
  ASSUME Types, Types', Control, Control', Clean, faults = 0, faults' = 0, YmodemNext,
         rx' = "trans", tx' = "data"
  PROVE  OnTheWay' \/ Acknowledged'
<1>1. /\ toRx \in Seq(Packet) /\ toTx \in Seq(Code) /\ got \in Seq(Nat)
      /\ file \in DOMAIN Blocks /\ Blocks[file] \in Nat /\ block \in 0 .. Blocks[file]
  BY Position DEF Types
<1>2. rx = "trans" /\ tx = "data" => OnTheWay \/ Acknowledged
  BY DEF Clean
<1>3. CASE Begins
  <2>1. tx = "head"
    BY <1>3, Remaining DEF Begins, Reads, Control, Packets, Places
  <2>. QED  BY <1>3, <2>1 DEF Begins, Reads
<1>4. CASE Skips
  <2>. USE DEF Skips, Reads
  <2>1. OnTheWay
    BY <1>2, <1>4 DEF Acknowledged
  <2>2. /\ toRx # << >> /\ Head(toRx).kind # "data"
        /\ \A i \in 1 .. Len(toRx) - 1 : toRx[i].kind = "head"
        /\ toRx[Len(toRx)] = Pkt("data", block) /\ toRx[Len(toRx)].kind = "data"
    BY <1>4, <2>1, PacketsMade DEF OnTheWay
  <2>3. /\ Tail(toRx) # << >> /\ Tail(toRx)[Len(Tail(toRx))] = Pkt("data", block)
        /\ \A i \in 1 .. Len(Tail(toRx)) - 1 : Tail(toRx)[i].kind = "head"
    BY <1>1, <2>2, Flight
  <2>. QED  BY <1>4, <2>1, <2>3 DEF OnTheWay
<1>5. CASE Writes
  <2>. USE DEF Writes, Reads
  <2>1. OnTheWay
    BY <1>2, <1>5 DEF Acknowledged
  <2>2. /\ toRx # << >> /\ Head(toRx).kind = "data"
        /\ \A i \in 1 .. Len(toRx) - 1 : toRx[i].kind = "head"
        /\ toRx[Len(toRx)].kind = "data"
    BY <1>5, <2>1, PacketsMade DEF OnTheWay
  <2>3. Tail(toRx) = << >>
    BY <1>1, <2>2, Flight
  <2>4. toRx' = << >>
    BY <1>5, <2>3
  <2>5. toTx' = <<"ACK">>
    BY <1>5, <2>1 DEF OnTheWay
  <2>6. Len(got') = block'
    <3>1. PICK n \in Nat : n = Head(toRx).n
      BY <1>5, Remaining, PacketRead
    <3>2. Len(Append(got, n)) = Len(got) + 1
      BY <1>1, GotWith
    <3>. QED  BY <1>1, <1>5, <2>1, <3>1, <3>2 DEF OnTheWay
  <2>. QED  BY <2>4, <2>5, <2>6 DEF Acknowledged
<1>6. CASE Advances
  <2>. USE DEF Advances, Hears
  <2>1. /\ block < Blocks[file] /\ block' = block + 1 /\ got' = got
        /\ toRx' = Append(toRx, Pkt("data", block + 1))
    BY <1>6 DEF SendNext, Sends
  <2>2. /\ toTx' = << >> /\ Len(got) = block
        /\ \A i \in 1 .. Len(toRx) : toRx[i].kind = "head"
    <3>1. CASE tx = "data"
      <4>1. Acknowledged
        BY <1>2, <1>6, <3>1 DEF OnTheWay
      <4>2. toTx' = << >> /\ Len(toRx) = 0
        BY <1>6, <4>1 DEF Acknowledged
      <4>. QED  BY <4>1, <4>2 DEF Acknowledged
    <3>2. CASE tx = "go"
      <4>1. fresh /\ got = << >> /\ block = 0
        BY <1>6, <3>2 DEF Control, Places, First, Packets
      <4>2. \A i \in DOMAIN toRx : toRx[i].kind = "head"
        <5>1. /\ NoKind(toRx, "data") /\ NoKind(toRx, "eot") /\ NoKind(toRx, "null")
              /\ NoKind(toRx, "junk")
          BY <1>6, <3>2 DEF Control, Packets, Clean
        <5>2. ASSUME NEW i \in DOMAIN toRx
              PROVE  toRx[i].kind = "head"
          <6>1. toRx[i] \in Packet
            BY <1>1
          <6>. QED  BY <5>1, <6>1, PacketRead DEF NoKind
        <5>. QED  BY <5>2
      <4>3. NoReply(toTx') /\ Without(toTx', "CAN") /\ Without(toTx', "noise")
        <5>1. NoReply(toTx') /\ Without(toTx', "CAN")
          BY <1>6, <3>2, SenderTail DEF Control, Answers
        <5>2. Without(toTx, "noise") /\ NoKind(toRx, "junk") /\ faults' = faults
          BY DEF Clean
        <5>. QED  BY <5>1, <5>2, CleanLine
      <4>4. toTx' = << >>
        <5>1. toTx' \in Seq(Code)
          BY DEF Types
        <5>2. ASSUME toTx' # << >> PROVE FALSE
          <6>1. 1 \in DOMAIN toTx' /\ toTx'[1] \in Code
            BY <5>1, <5>2
          <6>. QED  BY <4>3, <6>1 DEF NoReply, Without, Code
        <5>. QED  BY <5>2
      <4>5. DOMAIN toRx = 1 .. Len(toRx) /\ Len(got) = 0
        BY <1>1, <4>1
      <4>. QED  BY <4>1, <4>2, <4>4, <4>5
    <3>. QED  BY <1>6, <3>1, <3>2
  <2>3. PICK p \in Packet : p = Pkt("data", block + 1)
    <3>1. block + 1 \in 1 .. Blocks[file]
      BY <1>1, <2>1
    <3>. QED  BY <1>1, <3>1, PacketsMade
  <2>4. /\ toRx' # << >> /\ toRx'[Len(toRx')] = p
        /\ \A i \in 1 .. Len(toRx') - 1 : toRx'[i].kind = "head"
    <3>1. toRx \in Seq(Packet) /\ toRx' = Append(toRx, p)
      BY <1>1, <2>1, <2>3
    <3>. QED  BY <2>2, <3>1, FlightWith
  <2>5. Len(got') = block' - 1
    BY <1>1, <2>1, <2>2
  <2>. QED  BY <2>1, <2>2, <2>3, <2>4, <2>5 DEF OnTheWay
<1>7. CASE Ignores \/ Resends
  <2>1. tx = "data" /\ rx = "trans" /\ toTx # << >>
    BY <1>7 DEF Ignores, Resends, Hears
  <2>2. Acknowledged
    BY <1>2, <2>1 DEF OnTheWay
  <2>3. Head(toTx) = "ACK"
    BY <2>2 DEF Acknowledged
  <2>. QED  BY <1>7, <2>1, <2>3 DEF Ignores, Resends
<1>8. ~ Disturbs
  BY DEF Disturbs
<1>. QED  BY <1>3, <1>4, <1>5, <1>6, <1>7, <1>8, Moves
          DEF Fails, Asks, FileEnds, FileConfirmed, BatchEnds, HeadAcked, EotAcked, NullAcked,
              Heads, SendHead, Closes, Stops, Hears, Reads

\* After the file no block is left.
LEMMA CleanEnd ==
  ASSUME Types, Types', Control, Control', Clean, faults = 0, faults' = 0, YmodemNext,
         rx' = "trans", tx' \in {"eot", "over"}
  PROVE  NoKind(toRx', "data")
<1>1. rx = "trans" /\ tx \in {"eot", "over"} => NoKind(toRx, "data")
  BY DEF Clean
<1>2. toRx \in Seq(Packet) /\ Eot \in Packet /\ Eot.kind = "eot"
  BY PacketsMade DEF Types
<1>3. CASE Begins
  <2>1. tx = "head"
    BY <1>3, Remaining DEF Begins, Reads, Control, Packets, Places
  <2>. QED  BY <1>3, <2>1 DEF Begins, Reads
<1>4. CASE Skips \/ Writes
  <2>1. NoKind(toRx, "data") /\ toRx # << >> /\ toRx' = Tail(toRx)
    BY <1>1, <1>4 DEF Skips, Writes, Reads
  <2>. QED  BY <2>1, Remaining
<1>5. CASE Ignores \/ EotAcked
  BY <1>1, <1>5 DEF Ignores, EotAcked, Hears
<1>6. CASE Resends
  <2>1. Current = Eot /\ NoKind(toRx, "data") /\ toRx' = Append(toRx, Eot)
    BY <1>1, <1>6 DEF Resends, Hears, Current
  <2>. QED  BY <1>2, <2>1, PacketsWith
<1>7. CASE Advances
  <2>1. NoKind(toRx, "data")
    <3>1. CASE tx = "data"
      <4>1. Acknowledged
        BY <1>7, <3>1 DEF Advances, Hears, Clean, OnTheWay
      <4>. QED  BY <4>1 DEF Acknowledged, NoKind
    <3>2. CASE tx = "go"
      BY <1>7, <3>2 DEF Advances, Hears, Control, Packets
    <3>. QED  BY <1>7, <3>1, <3>2 DEF Advances
  <2>2. toRx' = Append(toRx, Eot)
    BY <1>7 DEF Advances, SendNext, Sends
  <2>. QED  BY <1>2, <2>1, <2>2, PacketsWith
<1>8. ~ Disturbs
  BY DEF Disturbs
<1>. QED  BY <1>3, <1>4, <1>5, <1>6, <1>7, <1>8, Moves
          DEF Fails, Asks, FileEnds, FileConfirmed, BatchEnds, HeadAcked, NullAcked,
              Heads, SendHead, Closes, Stops, Hears, Reads

\* Every step keeps what holds without errors.
LEMMA CleanStep ==
  ASSUME Types, Types', Control, Control', Clean, YmodemNext
  PROVE  Clean'
<1> SUFFICES ASSUME faults' = 0
             PROVE  /\ NoKind(toRx', "junk") /\ Without(toTx', "noise")
                    /\ \A i \in DOMAIN got' : got'[i] = i
                    /\ rx' = "trans" /\ tx' = "data" => OnTheWay' \/ Acknowledged'
                    /\ rx' = "trans" /\ tx' \in {"eot", "over"} => NoKind(toRx', "data")
  BY DEF Clean
<1>1. faults \in Nat /\ faults' \in Nat
  BY DEF Types
<1>2. faults' = faults \/ faults' = faults + 1
  BY Moves DEF Fails, Asks, Skips, Begins, Writes, FileEnds, FileConfirmed, BatchEnds,
               Reads, Ignores, Resends, HeadAcked, Advances, EotAcked, NullAcked, Heads, Closes,
               Stops, Hears, Disturbs
<1>3. faults = 0
  BY <1>1, <1>2
<1>4. NoKind(toRx, "junk") /\ Without(toTx, "noise")
  BY <1>3 DEF Clean
<1>. QED  BY <1>3, <1>4, CleanLine, CleanGot, CleanData, CleanEnd

-----------------------------------------------------------------------------
(* The room is kept                                                        *)

\* No packet that is sent but a block counts, and no answer is noise.
LEMMA CountsAre ==
  ASSUME Types, Types', Control, YmodemNext
  PROVE  /\ Count(toTx, Noise) \in Nat /\ Count(toTx', Noise) \in Nat
         /\ Count(toRx, Data) \in Nat /\ Count(toRx', Data) \in Nat
         /\ Len(got) \in Nat /\ Len(got') \in Nat /\ erased \in Nat /\ erased' \in Nat
         /\ faults \in Nat /\ faults' \in Nat /\ faults <= faults'
         /\ ~ Disturbs => Count(toTx', Noise) <= Count(toTx, Noise)
         /\ Disturbs => faults' = faults + 1
<1>1. /\ toTx \in Seq(Code) /\ toTx' \in Seq(Code) /\ toRx \in Seq(Packet) /\ toRx' \in Seq(Packet)
      /\ got \in Seq(Nat) /\ got' \in Seq(Nat) /\ faults \in Nat /\ faults' \in Nat
      /\ erased \in Nat /\ erased' \in Nat
  BY DEF Types
<1>2. /\ Count(toTx, Noise) \in Nat /\ Count(toTx', Noise) \in Nat
      /\ Count(toRx, Data) \in Nat /\ Count(toRx', Data) \in Nat
  BY <1>1, CountNat
<1>3. Len(got) \in Nat /\ Len(got') \in Nat
  BY <1>1
<1>4. faults' \in {faults, faults + 1} /\ (Disturbs => faults' = faults + 1)
  BY Moves DEF Fails, Asks, Skips, Begins, Writes, FileEnds, FileConfirmed, BatchEnds,
               Reads, Ignores, Resends, HeadAcked, Advances, EotAcked, NullAcked, Heads, Closes,
               Stops, Hears, Disturbs
<1>5. faults <= faults'
  BY <1>1, <1>4
<1>6. \A x \in Code \ Noise : Count(Append(toTx, x), Noise) = Count(toTx, Noise)
  BY <1>1, CountAppend
<1>7. Count(toTx \o <<"ACK", "C">>, Noise) = Count(toTx, Noise)
  <2>1. Append(toTx, "ACK") \in Seq(Code) /\ "ACK" \in Code \ Noise /\ "C" \in Code \ Noise
    BY <1>1 DEF Code, Noise
  <2>2. Count(Append(Append(toTx, "ACK"), "C"), Noise) = Count(Append(toTx, "ACK"), Noise)
    BY <2>1, CountAppend
  <2>. QED  BY <1>1, <1>6, <2>1, <2>2, AckCIsTwoMore
<1>8. toTx # << >> => Count(Tail(toTx), Noise) <= Count(toTx, Noise)
  <2> SUFFICES ASSUME toTx # << >>
               PROVE  Count(Tail(toTx), Noise) <= Count(toTx, Noise)
    OBVIOUS
  <2>1. "CAN" \in Code /\ "CAN" \notin Noise
    BY DEF Code, Noise
  <2>2. Tail(toTx) \in Seq(Code) /\ Thinned(Tail(toTx), toTx, "CAN")
    BY <1>1, <2>1, ThinnedBy
  <2>. QED  BY <1>1, <2>1, <2>2, CountThinned
<1>9. ~ Disturbs =>
        \/ toTx' = toTx
        \/ \E x \in Code \ Noise : toTx' = Append(toTx, x)
        \/ toTx' = toTx \o <<"ACK", "C">>
        \/ \E n \in Nat : toTx' = toTx \o [i \in 1 .. n |-> "C"]
        \/ toTx # << >> /\ toTx' = Tail(toTx)
  <2>1. {"CAN", "ACK", "NAK"} \subseteq Code \ Noise
    BY DEF Code, Noise
  <2>. QED  BY <2>1, Moves
            DEF Fails, Asks, Skips, Begins, Writes, FileEnds, FileConfirmed, BatchEnds,
                Ignores, Resends, HeadAcked, Advances, EotAcked, NullAcked, Heads, Closes,
                Stops, Hears
<1>10. ASSUME ~ Disturbs
       PROVE  Count(toTx', Noise) <= Count(toTx, Noise)
  <2>1. ASSUME Count(toTx', Noise) = Count(toTx, Noise)
        PROVE  Count(toTx', Noise) <= Count(toTx, Noise)
    BY <1>2, <2>1
  <2>2. CASE \E n \in Nat : toTx' = toTx \o [i \in 1 .. n |-> "C"]
    <3>1. PICK n \in Nat : toTx' = toTx \o [i \in 1 .. n |-> "C"]
      BY <2>2
    <3>2. Count(toTx \o [i \in 1 .. n |-> "C"], Noise) = Count(toTx, Noise)
      BY <1>1, NoiseWithCs
    <3>. QED  BY <2>1, <3>1, <3>2
  <2>3. CASE \E x \in Code \ Noise : toTx' = Append(toTx, x)
    BY <1>6, <2>1, <2>3
  <2>4. CASE toTx' = toTx \o <<"ACK", "C">>
    BY <1>7, <2>1, <2>4
  <2>5. CASE toTx' = toTx
    BY <2>1, <2>5
  <2>6. CASE toTx # << >> /\ toTx' = Tail(toTx)
    BY <1>8, <2>6
  <2>. QED  BY <1>9, <1>10, <2>2, <2>3, <2>4, <2>5, <2>6
<1>. QED  BY <1>1, <1>2, <1>3, <1>4, <1>5, <1>10

\* No more answers are noise than there were errors.
LEMMA NoisyStep ==
  ASSUME Types, Types', Control, Noisy, YmodemNext
  PROVE  Noisy'
<1>1. PICK m \in Nat, n \in Nat : m = Count(toTx, Noise) /\ n = Count(toTx', Noise)
  BY CountsAre
<1>2. PICK e \in Nat, d \in Nat : e = faults /\ d = faults'
  BY CountsAre
<1>3. m <= e /\ e <= d
  BY <1>1, <1>2, CountsAre DEF Noisy
<1>4. n <= m \/ (n <= m + 1 /\ d = e + 1)
  <2>1. CASE Disturbs
    <3>1. n <= m + 1
      BY <1>1, <2>1 DEF Disturbs
    <3>2. d = e + 1
      BY <1>2, <2>1, CountsAre
    <3>. QED  BY <3>1, <3>2
  <2>2. CASE ~ Disturbs
    BY <1>1, <2>2, CountsAre
  <2>. QED  BY <2>1, <2>2
<1>5. n <= d
  BY <1>3, <1>4
<1>. QED  BY <1>1, <1>2, <1>5 DEF Noisy, Noise

\* The headers on the line, where the receiver waits for one.
LEMMA NamedStep ==
  ASSUME Types, Types', Control, Control', Named, YmodemNext
  PROVE  Named'
<1> SUFFICES ASSUME rx' \in {"handshake", "next"},
                    NEW i \in DOMAIN toRx', toRx'[i].kind = "head"
             PROVE  toRx'[i].n = file'
  BY DEF Named
<1>1. toRx \in Seq(Packet) /\ toRx' \in Seq(Packet)
  BY DEF Types
<1>2. \A f : Pkt("head", f).n = f /\ Pkt("head", f).kind = "head"
  BY DEF Pkt
<1>3. CASE FileConfirmed
  <2>1. NoKind(toRx', "head")
    BY <1>3, Remaining DEF FileConfirmed, Reads, Control, Packets
  <2>. QED  BY <2>1 DEF NoKind
<1>4. CASE Asks
  <2>1. \E j \in DOMAIN toRx : toRx'[i] = toRx[j]
    BY <1>4, Remaining DEF Asks
  <2>. QED  BY <1>4, <2>1 DEF Asks, Named
<1>5. CASE Disturbs
  <2>1. \E j \in DOMAIN toRx : toRx'[i] = toRx[j]
    BY <1>5, PacketsMade DEF Disturbs, Thinned
  <2>. QED  BY <1>5, <2>1 DEF Disturbs, Named
<1>6. CASE Ignores \/ HeadAcked \/ EotAcked \/ NullAcked
  BY <1>6 DEF Ignores, HeadAcked, EotAcked, NullAcked, Hears, Named
<1>7. ASSUME NEW p \in Packet, toRx' = Append(toRx, p), i \notin DOMAIN toRx
      PROVE  toRx'[i] = p
  BY <1>1, <1>7, AppendFacts
<1>8. ASSUME NEW p \in Packet, toRx' = Append(toRx, p), i \in DOMAIN toRx
      PROVE  toRx'[i] = toRx[i]
  BY <1>1, <1>8, AppendFacts
<1>9. CASE Resends
  <2>1. Current \in Packet /\ Current.kind = tx /\ toRx' = Append(toRx, Current)
    BY <1>9, CurrentIs DEF Resends
  <2>2. CASE i \in DOMAIN toRx
    BY <1>8, <1>9, <2>1, <2>2 DEF Resends, Hears, Named
  <2>3. CASE i \notin DOMAIN toRx
    <3>1. toRx'[i] = Current /\ tx = "head"
      BY <1>7, <2>1, <2>3
    <3>2. Current = Pkt("head", file)
      BY <3>1 DEF Current
    <3>. QED  BY <1>2, <1>9, <3>1, <3>2 DEF Resends
  <2>. QED  BY <2>2, <2>3
<1>10. CASE Heads
  <2>1. PICK f \in DOMAIN Blocks : SendHead(f) /\ tx \in {"start", "over"}
    BY <1>10 DEF Heads
  <2>2. NoKind(toRx, "head")
    BY <1>10, <2>1 DEF Heads, Hears, Control, Packets, Places
  <2>3. toRx' = Append(toRx, Pkt("head", f)) /\ Pkt("head", f) \in Packet /\ file' = f
    BY <2>1, PacketsMade DEF SendHead, Sends
  <2>4. i \notin DOMAIN toRx
    BY <1>8, <2>2, <2>3 DEF NoKind
  <2>. QED  BY <1>2, <1>7, <2>3, <2>4
<1>11. CASE Closes
  <2>1. Null \in Packet /\ Null.kind = "null" /\ toRx' = Append(toRx, Null)
    BY <1>11, PacketsMade DEF Closes
  <2>2. i \in DOMAIN toRx
    BY <1>7, <2>1
  <2>. QED  BY <1>8, <1>11, <2>1, <2>2 DEF Closes, Hears, Named
<1>12. CASE Advances
  BY <1>12 DEF Advances, Hears, Control, Places
<1>. QED  BY <1>3, <1>4, <1>5, <1>6, <1>9, <1>10, <1>11, <1>12, Moves
          DEF Fails, Skips, Begins, Writes, FileEnds, BatchEnds, Stops, Ended, Reads

\* The pages that are erased for a file hold it.
LEMMA RoundUpEnough ==
  ASSUME NEW n \in Nat
  PROVE  n <= RoundUp(n)
<1>1. PICK b \in Nat \ {0} : b = PageBlocks
  OBVIOUS
<1>2. PICK m \in Nat : m = n + b - 1
  BY <1>1
<1>3. PICK q \in Nat : q = m \div b
  <2>1. \A x \in Nat, y \in Nat \ {0} : x \div y \in Nat
    OBVIOUS
  <2>. QED  BY <1>1, <2>1
<1>4. m = b * q + (m % b) /\ m % b \in 0 .. b - 1
  BY <1>1, <1>2, <1>3
<1>5. b * q = q * b /\ q * b \in Nat
  OBVIOUS
<1>6. n <= q * b
  <2>1. PICK w \in Nat : w = q * b
    BY <1>5
  <2>2. PICK r \in 0 .. b - 1 : r = m % b
    BY <1>4
  <2>3. m = w + r
    BY <1>4, <1>5, <2>1, <2>2
  <2>. QED  BY <1>2, <2>1, <2>2, <2>3
<1>. QED  BY <1>1, <1>2, <1>3, <1>6 DEF RoundUp

\* Where blocks are received, the sender sends its next header or closes only
\* after the receiver has seen the end of the file.
LEMMA FillingMoves ==
  ASSUME Types, Types', Control, Control', YmodemNext, rx' = "trans"
  PROVE  \/ Begins
         \/ /\ rx = "trans" /\ UNCHANGED <<file, erased>>
            /\ Skips \/ Writes \/ Ignores \/ Resends \/ HeadAcked \/ Advances \/ EotAcked \/ Disturbs
<1>1. ~ (Heads /\ rx = "trans")
  BY SenderTail DEF Heads, Hears, Control, Places, Answers
<1>2. ~ (Closes /\ rx = "trans") /\ ~ (NullAcked /\ rx = "trans")
  BY SenderTail DEF Closes, NullAcked, Hears, Control, Places, Answers
<1>. QED  BY <1>1, <1>2, Moves
          DEF Fails, Asks, Skips, Writes, FileEnds, FileConfirmed, BatchEnds, Reads,
              Ignores, Resends, HeadAcked, Advances, SendNext, EotAcked, NullAcked, Heads, Closes,
              Stops, Ended, Hears, Disturbs

\* No answer asks for a block again, and the erased pages hold the file.
LEMMA FillingPages ==
  ASSUME Types, Types', Control, Control', Filling, Named, YmodemNext, rx' = "trans"
  PROVE  Without(toTx', "NAK") /\ Blocks[file'] <= erased'
<1>1. toTx \in Seq(Code) /\ "ACK" \in Code /\ "C" \in Code
  BY DEF Types, Code
<1>2. ASSUME Without(toTx, "NAK")
      PROVE  /\ Without(Append(toTx, "ACK"), "NAK")
             /\ Without(toTx \o <<"ACK", "C">>, "NAK")
  <2>1. Append(toTx, "ACK") \in Seq(Code) /\ Without(Append(toTx, "ACK"), "NAK")
    BY <1>1, <1>2, CodesWith
  <2>2. Without(Append(Append(toTx, "ACK"), "C"), "NAK")
    BY <1>1, <2>1, CodesWith
  <2>. QED  BY <1>1, <2>1, <2>2, AckCIsTwoMore
<1>3. CASE Begins
  <2>1. Without(toTx, "NAK")
    BY <1>3, Remaining DEF Begins, Reads, Control, Answers, Packets, Places, NoReply
  <2>2. Head(toRx).n = file
    BY <1>3, Remaining DEF Begins, Reads, Named
  <2>3. Blocks[file] <= RoundUp(Blocks[file])
    BY Position, RoundUpEnough
  <2>. QED  BY <1>2, <1>3, <2>1, <2>2, <2>3 DEF Begins, Reads
<1>4. CASE /\ rx = "trans" /\ UNCHANGED <<file, erased>>
           /\ Skips \/ Writes \/ Ignores \/ Resends \/ HeadAcked \/ Advances \/ EotAcked \/ Disturbs
  <2>1. Without(toTx, "NAK") /\ Blocks[file] <= erased
    BY <1>4 DEF Filling
  <2>2. toTx' = toTx \/ toTx' = Append(toTx, "ACK") \/ Thinned(toTx', toTx, "noise")
    BY <1>4, Kept DEF Skips, Writes, Ignores, Resends, HeadAcked, Advances, EotAcked, Disturbs, Hears
  <2>3. Thinned(toTx', toTx, "noise") => Without(toTx', "NAK")
    BY <2>1, ThinnedCodes DEF Types, Code
  <2>. QED  BY <1>2, <1>4, <2>1, <2>2, <2>3
<1>. QED  BY <1>3, <1>4, FillingMoves

\* A block written is one less on the way, and one sent again is one less
\* answer that was noise.
LEMMA FillingCount ==
  ASSUME Types, Types', Control, Control', Filling, Noisy, YmodemNext, rx' = "trans"
  PROVE  Len(got') + Count(toRx', Data) + Count(toTx', Noise) <= block' + faults'
<1>1. /\ toTx \in Seq(Code) /\ toRx \in Seq(Packet) /\ toRx' \in Seq(Packet) /\ got \in Seq(Nat)
      /\ block \in Nat /\ block' \in Nat /\ faults \in Nat /\ faults' \in Nat
  <2>1. \A f \in DOMAIN Blocks : 0 .. Blocks[f] \subseteq Nat
    OBVIOUS
  <2>. QED  BY <2>1 DEF Types
<1>2. PICK g \in Nat, d \in Nat, n \in Nat :
        g = Len(got) /\ d = Count(toRx, Data) /\ n = Count(toTx, Noise)
  BY CountsAre
<1>3. PICK h \in Nat, e \in Nat, m \in Nat :
        h = Len(got') /\ e = Count(toRx', Data) /\ m = Count(toTx', Noise)
  BY CountsAre
<1>4. PICK b \in Nat, c \in Nat, x \in Nat, y \in Nat :
        b = block /\ c = block' /\ x = faults /\ y = faults'
  BY <1>1
<1>5. x <= y /\ (Disturbs => y = x + 1 /\ m <= n + 1) /\ (~ Disturbs => m <= n)
  BY <1>2, <1>3, <1>4, CountsAre DEF Disturbs
<1>6. n <= x /\ (rx = "trans" => g + d + n <= b + x)
  BY <1>2, <1>4 DEF Filling, Noisy
<1>7. Thinned(toRx', toRx, Junk) => e <= d
  <2>1. Junk \notin Data
    BY PacketsMade DEF Data
  <2>. QED  BY <1>1, <1>2, <1>3, <2>1, CountThinned
<1>8. toRx # << >> /\ toRx' = Tail(toRx) => e <= d /\ (Head(toRx) \in Data => e + 1 <= d)
  <2>1. toRx # << >> /\ toRx' = Tail(toRx) => e <= d
    BY <1>7, Kept
  <2>. QED  BY <1>1, <1>2, <1>3, <2>1, CountTail
<1>9. \A p \in Packet : toRx' = Append(toRx, p) => e = IF p.kind = "data" THEN d + 1 ELSE d
  BY <1>1, <1>2, <1>3, CountAppend DEF Data
<1>10. toRx' = toRx => e = d
  BY <1>2, <1>3
<1>11. SUFFICES h + e + m <= c + y
  BY <1>3, <1>4
<1>12. CASE Begins
  <2>1. NoKind(toRx, "data")
    BY <1>12 DEF Begins, Reads, Control, Packets
  <2>2. d = 0
    BY <1>2, <2>1, CountNone DEF NoKind, Data
  <2>3. h = 0 /\ e <= d /\ b = c
    BY <1>3, <1>4, <1>8, <1>12 DEF Begins, Reads
  <2>4. ~ Disturbs
    BY <1>12 DEF Begins, Disturbs
  <2>. QED  BY <1>5, <1>6, <2>2, <2>3, <2>4
<1>13. CASE rx = "trans" /\ Skips
  <2>1. h = g /\ e <= d /\ b = c
    BY <1>2, <1>3, <1>4, <1>8, <1>13 DEF Skips, Reads
  <2>2. m <= n
    BY <1>2, <1>3, <1>13 DEF Skips
  <2>. QED  BY <1>5, <1>6, <1>13, <2>1, <2>2
<1>14. CASE rx = "trans" /\ Writes
  <2>1. Head(toRx) \in Data
    BY <1>14, Remaining DEF Writes, Reads, Data
  <2>2. e + 1 <= d /\ b = c
    BY <1>4, <1>8, <1>14, <2>1 DEF Writes, Reads
  <2>3. h = g + 1
    <3>1. PICK k \in Nat : k = Head(toRx).n
      BY <1>14, Remaining, PacketRead DEF Writes, Reads
    <3>2. got' = Append(got, k)
      BY <1>14, <3>1 DEF Writes
    <3>. QED  BY <1>1, <1>2, <1>3, <3>2, GotWith
  <2>4. m <= n
    <3>1. "ACK" \in Code /\ "ACK" \notin Noise /\ toTx' = Append(toTx, "ACK")
      BY <1>14 DEF Code, Noise, Writes
    <3>2. m = n
      BY <1>1, <1>2, <1>3, <3>1, CountAppend
    <3>. QED  BY <3>2
  <2>. QED  BY <1>5, <1>6, <1>14, <2>2, <2>3, <2>4
<1>15. ASSUME rx = "trans", Ignores \/ HeadAcked \/ EotAcked
       PROVE  h + e + m <= c + y
  <2>1. h = g /\ e = d /\ b = c
    BY <1>2, <1>3, <1>4, <1>10, <1>15 DEF Ignores, HeadAcked, EotAcked, Hears
  <2>2. ~ Disturbs
    BY <1>1, <1>15 DEF Ignores, HeadAcked, EotAcked, Hears, Disturbs
  <2>. QED  BY <1>5, <1>6, <1>15, <2>1, <2>2
<1>16. CASE rx = "trans" /\ Resends
  <2>1. Current \in Packet /\ Current.kind = tx /\ toRx' = Append(toRx, Current)
    BY <1>16, CurrentIs DEF Resends
  <2>2. h = g /\ b = c
    BY <1>2, <1>3, <1>4, <1>16 DEF Resends, Hears
  <2>3. ~ Disturbs
    BY <1>1, <1>16 DEF Resends, Hears, Disturbs
  <2>4. CASE tx # "data"
    <3>1. e = d
      BY <1>9, <2>1, <2>4
    <3>. QED  BY <1>5, <1>6, <1>16, <2>2, <2>3, <3>1
  <2>5. CASE tx = "data"
    <3>1. e = d + 1
      BY <1>9, <2>1, <2>5
    <3>2. Without(toTx, "NAK") /\ Without(toTx, "C") /\ Without(toTx, "CAN")
      BY <1>16, <2>5 DEF Filling, Control, Answers
    <3>3. Head(toTx) \in Noise /\ toTx # << >> /\ toTx' = Tail(toTx)
      BY <1>16, <3>2, SenderTail, AnswerTypes DEF Resends, Hears, Code, Noise, Types
    <3>4. m + 1 <= n
      BY <1>1, <1>2, <1>3, <3>3, CountTail
    <3>. QED  BY <1>5, <1>6, <1>16, <2>2, <3>1, <3>4
  <2>. QED  BY <2>4, <2>5
<1>17. CASE rx = "trans" /\ Advances
  <2>1. h = g
    BY <1>2, <1>3, <1>17 DEF Advances, Hears
  <2>2. ~ Disturbs
    BY <1>1, <1>17 DEF Advances, Hears, Disturbs
  <2>3. CASE block < Blocks[file]
    <3>1. block' = block + 1 /\ toRx' = Append(toRx, Pkt("data", block + 1))
      BY <1>17, <2>3 DEF Advances, SendNext, Sends
    <3>2. Pkt("data", block + 1) \in Packet /\ Pkt("data", block + 1).kind = "data"
      BY <2>3, Position, PacketsMade
    <3>3. e = d + 1 /\ c = b + 1
      BY <1>4, <1>9, <3>1, <3>2
    <3>. QED  BY <1>5, <1>6, <1>17, <2>1, <2>2, <3>3
  <2>4. CASE ~ (block < Blocks[file])
    <3>1. block' = block /\ toRx' = Append(toRx, Eot)
      BY <1>17, <2>4 DEF Advances, SendNext, Sends
    <3>2. e = d /\ c = b
      BY <1>4, <1>9, <3>1, PacketsMade
    <3>. QED  BY <1>5, <1>6, <1>17, <2>1, <2>2, <3>2
  <2>. QED  BY <2>3, <2>4
<1>18. CASE rx = "trans" /\ Disturbs
  <2>1. h = g /\ b = c /\ e <= d
    BY <1>2, <1>3, <1>4, <1>7, <1>18 DEF Disturbs
  <2>. QED  BY <1>5, <1>6, <1>18, <2>1
<1>. QED  BY <1>12, <1>13, <1>14, <1>15, <1>16, <1>17, <1>18, FillingMoves

\* No more is written than was erased and errors account for.
LEMMA RoomStep ==
  ASSUME Types, Types', Control, Control', Room, Filling', YmodemNext
  PROVE  Room'
<1>1. PICK g \in Nat, h \in Nat, x \in Nat, y \in Nat, p \in Nat, q \in Nat :
        /\ g = Len(got) /\ h = Len(got') /\ x = faults /\ y = faults'
        /\ p = erased /\ q = erased'
  BY CountsAre
<1>2. g <= p + x /\ x <= y
  BY <1>1, CountsAre DEF Room
<1>3. CASE rx' = "trans"
  <2>1. PICK d \in Nat, n \in Nat : d = Count(toRx', Data) /\ n = Count(toTx', Noise)
    BY CountsAre
  <2>2. PICK b \in Nat, c \in Nat : b = Blocks[file'] /\ c = block' /\ c <= b
    <3>1. file' \in DOMAIN Blocks /\ block' \in 0 .. Blocks[file']
      BY DEF Types
    <3>2. Blocks[file'] \in Nat
      BY <3>1
    <3>. QED  BY <3>1, <3>2
  <2>3. b <= q /\ h + d + n <= c + y
    BY <1>1, <1>3, <2>1, <2>2 DEF Filling
  <2>4. h <= q + y
    <3>1. c <= b
      BY <2>2
    <3>2. c <= q
      BY <2>3, <3>1
    <3>3. h <= c + y
      BY <2>3
    <3>. QED  BY <3>2, <3>3
  <2>. QED  BY <1>1, <2>4 DEF Room
<1>4. CASE rx' # "trans"
  <2>1. UNCHANGED <<got, erased>>
    BY <1>4, Moves
       DEF Fails, Asks, Skips, Begins, Writes, FileEnds, FileConfirmed, BatchEnds, Reads,
           Ignores, Resends, HeadAcked, Advances, EotAcked, NullAcked, Heads, Closes,
           Stops, Hears, Disturbs
  <2>2. h <= q + y
    BY <1>1, <1>2, <2>1
  <2>. QED  BY <1>1, <2>2 DEF Room
<1>. QED  BY <1>3, <1>4

\* Every step keeps the room.
LEMMA SparseStep ==
  ASSUME Types, Types', Control, Control', Sparse, YmodemNext
  PROVE  Sparse'
<1>1. Noisy' /\ Named'
  BY NoisyStep, NamedStep DEF Sparse
<1>2. Filling'
  <2>1. ASSUME rx' = "trans"
        PROVE  /\ Without(toTx', "NAK") /\ Blocks[file'] <= erased'
               /\ Len(got') + Count(toRx', Data) + Count(toTx', Noise) <= block' + faults'
    BY <2>1, FillingPages, FillingCount DEF Sparse
  <2>. QED  BY <2>1 DEF Filling
<1>3. Room'
  BY <1>2, RoomStep DEF Sparse
<1>. QED  BY <1>1, <1>2, <1>3 DEF Sparse

-----------------------------------------------------------------------------
(* The theorems                                                            *)

\* The invariant holds at the start
LEMMA IInvInit ==
  ASSUME YmodemInit
  PROVE  IInv
<1>. USE DEF YmodemInit
<1>1. file \in DOMAIN Blocks /\ 0 \in 0 .. Blocks[file]
  OBVIOUS
<1>2. Types
  <2>1. got \in Seq(Nat) /\ toRx \in Seq(Packet) /\ toTx \in Seq(Code) /\ Len(got) = 0
    BY DEF Code
  <2>2. 1 \in 1 .. MaxTries /\ 0 \in 0 .. MaxFaults /\ 0 \in Nat /\ 0 <= 0
    OBVIOUS
  <2>3. {gone, late} \subseteq BOOLEAN
    OBVIOUS
  <2>. QED  BY <1>1, <2>1, <2>2, <2>3 DEF Types
<1>3. Control
  <2>1. \A x : x # "C" => Without(toTx, x)
    BY DEF Without
  <2>2. \A k : NoKind(toRx, k)
    BY DEF NoKind
  <2>. QED  BY <2>1, <2>2 DEF Control, Places, Answers, First, Packets, Numbers
<1>4. Ordered
  BY DEF Ordered, InFlight, InOrder, Whole
<1>5. Clean
  BY DEF Clean, NoKind, Without
<1>6. Sparse
  <2>1. Count(toTx, Noise) = 0 /\ \A i \in DOMAIN toRx : FALSE
    <3>1. \A i \in DOMAIN toTx : toTx[i] \notin Noise
      BY DEF Noise
    <3>. QED  BY <3>1, CountNone
  <2>2. Len(got) = 0
    OBVIOUS
  <2>. QED  BY <2>1, <2>2 DEF Sparse, Noisy, Named, Filling, Room
<1>. QED  BY <1>2, <1>3, <1>4, <1>5, <1>6 DEF IInv

\* and does not depend on anything else
LEMMA IInvKept ==
  ASSUME IInv, UNCHANGED vars
  PROVE  IInv'
<1>. USE DEF vars, rxVars, txVars
<1>1. Types'
  BY DEF IInv, Types
<1>2. Control'
  BY DEF IInv, Control, Places, Answers, First, Packets, Numbers
<1>3. Ordered'
  <2>1. \A i : (Intact(i)' <=> Intact(i)) /\ Reached(i)' = Reached(i)
    BY DEF Intact, Reached, Num
  <2>. QED  BY <2>1 DEF IInv, Ordered, InFlight, InSteps, AtLevel, Level, InOrder, Whole
<1>4. Clean'
  BY DEF IInv, Clean, OnTheWay, Acknowledged
<1>5. Sparse'
  BY DEF IInv, Sparse, Noisy, Named, Filling, Room
<1>. QED  BY <1>1, <1>2, <1>3, <1>4, <1>5 DEF IInv

\* so it always holds.
LEMMA IInvHolds == YmodemSpec => []IInv
<1>1. YmodemInit => IInv
  BY IInvInit
<1>2. IInv /\ [YmodemNext]_vars => IInv'
  BY IInvKept, TypeStep, ControlStep, OrderedStep, CleanStep, SparseStep DEF IInv
<1>. QED  BY <1>1, <1>2, PTL DEF YmodemSpec

\* What the receiver and the sender keep, and what is on the line, has the
\* types that the code gives it; and although ymodem_on_data compares no
\* length, no more blocks are written behind the pages erased for the file
\* than there were errors.
THEOREM TypeCorrect == YmodemSpec => []TypeOK
<1>1. IInv => TypeOK
  BY DEF IInv, Sparse, Room, TypeOK
<1>. QED  BY <1>1, IInvHolds, PTL

\* Unless a whole packet vanishes, the blocks in flash are those of the file
\* in their order, a block repeated at most behind itself; without errors
\* each is there once (_rym_trans_data).
THEOREM WrittenInOrderHolds == YmodemSpec => []WrittenInOrder
<1>1. ASSUME IInv
      PROVE  WrittenInOrder
  <2>1. got \in Seq(Nat)
    BY <1>1 DEF IInv, Types
  <2>2. ASSUME \A i \in DOMAIN got : got[i] = i
        PROVE  got = [i \in DOMAIN got |-> i]
    BY <2>1, <2>2
  <2>. QED  BY <1>1, <2>2 DEF IInv, Ordered, InOrder, Clean, WrittenInOrder
<1>. QED  BY <1>1, IInvHolds, PTL

\* With the same exception, a transfer that the receiver reports as complete
\* has the last file of the batch in flash to its end (_rym_do_fin).
THEOREM SuccessIsWholeHolds == YmodemSpec => []SuccessIsWhole
<1>1. ASSUME IInv
      PROVE  SuccessIsWhole
  <2> SUFFICES ASSUME rx = "done", ~ gone
               PROVE  IF Last(Blocks) = 0 THEN got = << >>
                      ELSE got # << >> /\ Last(got) = Last(Blocks)
    BY DEF SuccessIsWhole
  <2>1. tx # "head" /\ file = Len(Blocks)
    BY <1>1 DEF IInv, Control, Places
  <2>2. Blocks[file] = Last(Blocks)
    BY <2>1 DEF Last
  <2>. QED  BY <1>1, <2>1, <2>2 DEF IInv, Ordered, Whole
<1>. QED  BY <1>1, IInvHolds, PTL

\* A sender that ends with success has a receiver that did (the last answer
\* of _rym_do_fin is sent only for the empty header).
THEOREM SenderNotFooledHolds == YmodemSpec => []SenderNotFooled
<1>1. ASSUME IInv
      PROVE  SenderNotFooled
  <2>1. rx \in {"handshake", "trans", "eot", "next", "done", "failed"}
    BY <1>1 DEF IInv, Types
  <2>. QED  BY <1>1, <2>1 DEF IInv, Control, Places, SenderNotFooled
<1>. QED  BY <1>1, IInvHolds, PTL
=============================================================================
