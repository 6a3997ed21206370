----------------------------- MODULE RingBuffer -----------------------------
(***************************************************************************)
(* The byte ring of rt-thread/components/drivers/src/ringbuffer.c.  Read   *)
(* and write positions are an index and a mirror bit each: equal indexes   *)
(* mean empty on the same side of the mirror and full on opposite sides.   *)
(*                                                                         *)
(* The operations are operators on the structure, and RingNext performs     *)
(* them one at a time, as the callers that mask interrupts around each     *)
(* call do.  RingIsr adds the callers that do not.                         *)
(***************************************************************************)
EXTENDS Naturals, Sequences

CONSTANTS
  Size,      \* buffer_size, after RT_ALIGN_DOWN
  Byte,      \* the byte values told apart
  MaxBlock   \* the longest block a caller passes (model bound)

ASSUME RingAssumption == Size \in Nat \ {0} /\ Size < 2^15 /\ MaxBlock \in Nat \ {0}

Cell == 0 .. Size - 1
Blocks == UNION { [1..n -> Byte] : n \in 0..MaxBlock }

\* struct rt_ringbuffer: read_mirror, read_index, write_mirror, write_index,
\* and the bytes of buffer_ptr.
RingType == [rm : {0, 1}, ri : Cell, wm : {0, 1}, wi : Cell, buf : [Cell -> Byte]]

-----------------------------------------------------------------------------
DataLen(rb) ==
  IF rb.ri # rb.wi
    THEN IF rb.wi > rb.ri THEN rb.wi - rb.ri ELSE Size - (rb.ri - rb.wi)
    ELSE IF rb.rm = rb.wm THEN 0 ELSE Size

Full(rb) == rb.ri = rb.wi /\ rb.rm # rb.wm

SpaceLen(rb) == Size - DataLen(rb)

\* memcpy of s to the cells from at on, and of n cells from at on.
CopyIn(buf, at, s) ==
  [i \in Cell |-> IF i \in at .. at + Len(s) - 1 THEN s[i - at + 1] ELSE buf[i]]
CopyOut(buf, at, n) == [k \in 1..n |-> buf[at + k - 1]]

\* Variant: a block that ends exactly at the end of the buffer does not wrap.
BadWraps(index, n) == Size - index < n

\* A block of n bytes that starts at index reaches the end of the buffer.
Wraps(index, n) == Size - index <= n

\* Variant: the mirror bit is not flipped at a wrap.
BadWrite(rb, s) ==
  IF ~Wraps(rb.wi, Len(s))
    THEN [rb EXCEPT !.buf = CopyIn(@, rb.wi, s), !.wi = @ + Len(s)]
    ELSE LET room == Size - rb.wi
         IN  [rb EXCEPT !.buf = CopyIn(CopyIn(@, rb.wi, SubSeq(s, 1, room)), 0,
                                       SubSeq(s, room + 1, Len(s))),
                        !.wi = Len(s) - room]

\* The copying and the write position, common to the block operations.
Write(rb, s) ==
  IF ~Wraps(rb.wi, Len(s))
    THEN [rb EXCEPT !.buf = CopyIn(@, rb.wi, s), !.wi = @ + Len(s)]
    ELSE LET room == Size - rb.wi
         IN  [rb EXCEPT !.buf = CopyIn(CopyIn(@, rb.wi, SubSeq(s, 1, room)), 0,
                                       SubSeq(s, room + 1, Len(s))),
                        !.wm = 1 - @,
                        !.wi = Len(s) - room]

Put(rb, s) ==
  LET room == SpaceLen(rb)
  IN  IF room = 0 THEN rb
      ELSE Write(rb, IF room < Len(s) THEN SubSeq(s, 1, room) ELSE s)

\* Variant: the read position follows without its mirror bit.
BadPutForce(rb, s) ==
  LET kept == IF Len(s) > Size THEN SubSeq(s, Len(s) - Size + 1, Len(s)) ELSE s
      written == Write(rb, kept)
  IN  IF Len(kept) <= SpaceLen(rb) THEN written
      ELSE [written EXCEPT !.ri = written.wi]

\* When it overwrites, the read position follows the write position.
PutForce(rb, s) ==
  LET kept == IF Len(s) > Size THEN SubSeq(s, Len(s) - Size + 1, Len(s)) ELSE s
      written == Write(rb, kept)
  IN  IF Len(kept) <= SpaceLen(rb) THEN written
      ELSE [written EXCEPT !.ri = written.wi,
                           !.rm = IF Wraps(rb.wi, Len(kept)) THEN 1 - @ ELSE @]

\* How many bytes a get of length n hands out, which ones, and what it leaves.
Length(rb, n) == IF DataLen(rb) < n THEN DataLen(rb) ELSE n
Taken(rb, n) ==
  IF ~Wraps(rb.ri, n) THEN CopyOut(rb.buf, rb.ri, n)
  ELSE CopyOut(rb.buf, rb.ri, Size - rb.ri) \o CopyOut(rb.buf, 0, n - (Size - rb.ri))
Consumed(rb, n) ==
  IF ~Wraps(rb.ri, n) THEN [rb EXCEPT !.ri = @ + n]
  ELSE [rb EXCEPT !.rm = 1 - @, !.ri = n - (Size - @)]

\* One byte further: the character operations.
Step(index) == IF index = Size - 1 THEN 0 ELSE index + 1
Flip(mirror, index) == IF index = Size - 1 THEN 1 - mirror ELSE mirror

Store(rb, ch) ==
  [rb EXCEPT !.buf[rb.wi] = ch, !.wi = Step(@), !.wm = Flip(@, rb.wi)]

PutChar(rb, ch) == IF SpaceLen(rb) = 0 THEN rb ELSE Store(rb, ch)

PutCharForce(rb, ch) ==
  LET stored == Store(rb, ch)
  IN  IF Full(rb)
        THEN [stored EXCEPT !.ri = stored.wi, !.rm = Flip(@, rb.wi)]
        ELSE stored

\* What rt_ringbuffer_getchar leaves of a buffer that is not empty.
NextChar(rb) == [rb EXCEPT !.ri = Step(@), !.rm = Flip(@, rb.ri)]

Cleared(rb) == [rb EXCEPT !.rm = 0, !.ri = 0, !.wm = 0, !.wi = 0]

-----------------------------------------------------------------------------
VARIABLES
  ring,   \* the rt_ringbuffer
  out,    \* the bytes the last call copied to its caller
  call    \* history: that call, with its block or its length

\* rt_ringbuffer_init does not touch the pool.
RingInit ==
  /\ ring \in {rb \in RingType : rb = Cleared(rb)}
  /\ out = << >> /\ call = [op |-> "reset"]

Puts(op, s) == call' = [op |-> op, block |-> s] /\ out' = << >>
Gets(n) == call' = [op |-> "get", length |-> n]

DoPut(s) == Puts("put", s) /\ ring' = Put(ring, s)
DoPutForce(s) == Puts("put_force", s) /\ ring' = PutForce(ring, s)
DoPutChar(ch) == Puts("put", <<ch>>) /\ ring' = PutChar(ring, ch)
DoPutCharForce(ch) == Puts("put_force", <<ch>>) /\ ring' = PutCharForce(ring, ch)

DoGet(n) ==
  LET k == Length(ring, n)
  IN  /\ Gets(n)
      /\ out' = IF DataLen(ring) = 0 THEN << >> ELSE Taken(ring, k)
      /\ ring' = IF DataLen(ring) = 0 THEN ring ELSE Consumed(ring, k)

DoGetChar ==
  /\ Gets(1)
  /\ IF DataLen(ring) = 0
       THEN out' = << >> /\ UNCHANGED ring
       ELSE out' = <<ring.buf[ring.ri]>> /\ ring' = NextChar(ring)

DoReset == call' = [op |-> "reset"] /\ ring' = Cleared(ring) /\ out' = << >>

RingNext ==
  \/ \E s \in Blocks : DoPut(s) \/ DoPutForce(s)
  \/ \E ch \in Byte : DoPutChar(ch) \/ DoPutCharForce(ch)
  \/ \E n \in 0..MaxBlock : DoGet(n)
  \/ DoGetChar
  \/ DoReset

-----------------------------------------------------------------------------
\* The bytes in the buffer, oldest first.
Content(rb) == [k \in 1..DataLen(rb) |-> rb.buf[(rb.ri + k - 1) % Size]]

(* The write position is never behind the read position, nor more than one  *)
(* buffer ahead of it: on the same side of the mirror the read index comes  *)
(* first, on opposite sides the write index does (ringbuffer.h:22-38).      *)
MirrorOrdered(rb) == IF rb.rm = rb.wm THEN rb.ri <= rb.wi ELSE rb.wi <= rb.ri
=============================================================================
