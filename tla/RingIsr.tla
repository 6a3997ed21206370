------------------------------ MODULE RingIsr ------------------------------
(***************************************************************************)
(* A ring between a thread and an interrupt.  The thread calls any          *)
(* operation of the ring with interrupts masked, and rt_ringbuffer_getchar  *)
(* also without masking them, against rt_ringbuffer_put_force of one byte   *)
(* in the receive indication of the serial device: the two ends of the      *)
(* FIFOs in rt-thread/components/net/at/src/at_cli.c.                       *)
(*                                                                         *)
(* read_mirror and read_index are bit fields of one 16-bit word: a store to *)
(* either one loads the word, changes the field and stores the word.  The   *)
(* thread may be interrupted before each load and each store; the           *)
(* indication is not interrupted.                                           *)
(***************************************************************************)
EXTENDS RingBuffer

CONSTANTS
  KeepsUp,   \* TRUE: the thread reads fast enough that nothing is overwritten
  NoWord     \* the word is not loaded

VARIABLES
  pc,     \* the statement of rt_ringbuffer_getchar; idle outside it
  at,     \* the index rb->buffer_ptr[rb->read_index] was computed with, else 0
  ch,     \* the character read, as a sequence of at most one byte
  word    \* the loaded read word, or NoWord

ringVars == <<ring, out, call, pc, at, ch, word>>

IsrInit ==
  /\ RingInit
  /\ pc = "idle"
  /\ at = 0
  /\ ch = << >>
  /\ word = NoWord

\* The data_len test.  Its own loads may straddle an interrupt too: what they
\* then see is a buffer with data in it, or one they call empty, in which
\* case the call returns 0 and changes nothing.
Check ==
  /\ pc = "idle"
  /\ DataLen(ring) > 0
  /\ pc' = "address"
  /\ out' = << >>
  /\ UNCHANGED <<ring, call, at, ch, word>>

Address ==
  /\ pc = "address"
  /\ at' = ring.ri
  /\ pc' = "fetch"
  /\ UNCHANGED <<ring, out, call, ch, word>>

\* Past the end of the buffer any byte may be there.
Fetch ==
  /\ pc = "fetch"
  /\ IF at \in Cell THEN ch' = <<ring.buf[at]>> ELSE ch' \in {<<c>> : c \in Byte}
  /\ at' = 0
  /\ pc' = "test"
  /\ UNCHANGED <<ring, out, call, word>>

Test ==
  /\ pc = "test"
  /\ pc' = IF ring.ri = Size - 1 THEN "flip" ELSE "step"
  /\ UNCHANGED <<ring, out, call, at, ch, word>>

LoadWord ==
  /\ pc \in {"flip", "clear", "step"}
  /\ word = NoWord
  /\ word' = [rm |-> ring.rm, ri |-> ring.ri]
  /\ UNCHANGED <<ring, out, call, pc, at, ch>>

\* The word with the field changed: the mirror flipped, the index cleared or
\* incremented in its 15 bits.
Changed ==
  CASE pc = "flip" -> [word EXCEPT !.rm = 1 - @]
    [] pc = "clear" -> [word EXCEPT !.ri = 0]
    [] pc = "step" -> [word EXCEPT !.ri = (@ + 1) % 2^15]

\* Variant: the index is cleared and the mirror left alone.
BadStoreWord ==
  /\ word # NoWord
  /\ ring' = IF pc = "flip" THEN ring
             ELSE [ring EXCEPT !.rm = Changed.rm, !.ri = Changed.ri]
  /\ word' = NoWord
  /\ IF pc = "flip" THEN pc' = "clear" /\ UNCHANGED <<out, call, ch>>
                    ELSE pc' = "idle" /\ out' = ch /\ Gets(1) /\ ch' = << >>
  /\ UNCHANGED at

StoreWord ==
  /\ word # NoWord
  /\ ring' = [ring EXCEPT !.rm = Changed.rm, !.ri = Changed.ri]
  /\ word' = NoWord
  /\ IF pc = "flip" THEN pc' = "clear" /\ UNCHANGED <<out, call, ch>>
                    ELSE pc' = "idle" /\ out' = ch /\ Gets(1) /\ ch' = << >>
  /\ UNCHANGED at

\* The read position the thread has reached: between the two stores of a wrap
\* the mirror bit is ahead of the index.
Settled == IF pc = "clear" THEN [ring EXCEPT !.rm = 1 - @] ELSE ring

\* The receive indication puts one byte.
Receive ==
  /\ KeepsUp => DataLen(Settled) < Size
  /\ \E c \in Byte : ring' = PutForce(ring, <<c>>) /\ call' = [op |-> "put_force", block |-> <<c>>]
  /\ UNCHANGED <<out, pc, at, ch, word>>

\* A masked call.
Masked == pc = "idle" /\ RingNext /\ UNCHANGED <<pc, at, ch, word>>

IsrNext ==
  Masked \/ Check \/ Address \/ Fetch \/ Test \/ LoadWord \/ StoreWord \/ Receive

IsrSpec == IsrInit /\ [][IsrNext]_ringVars

-----------------------------------------------------------------------------
(* Type invariant: positions stay inside the buffer, so the 15 bits of an   *)
(* index hold them, and the read position stays behind the write position   *)
(* at every instruction.                                                    *)
RingTypeOK ==
  /\ ring \in RingType
  /\ out \in Seq(Byte)
  /\ pc \in {"idle", "address", "fetch", "test", "flip", "clear", "step"}
  /\ at \in Cell
  /\ ch \in {<< >>} \cup {<<c>> : c \in Byte}
  /\ word \in [rm : {0, 1}, ri : Cell] \cup {NoWord}
  /\ MirrorOrdered(Settled)

QueueView == INSTANCE Fifo WITH queue <- Content(Settled), Capacity <- Size

\* A forced put has left nothing to read.
LosesAll == call.op = "put_force" /\ call.block # << >> /\ Content(Settled) = << >>

(* The ring is a queue of at most Size bytes.  No operation loses,          *)
(* duplicates or reorders a byte at a wrap.  A forced put discards exactly  *)
(* the oldest bytes that do not fit if the unread bytes already run across  *)
(* the end of the buffer, as those of a full ring that was filled byte by   *)
(* byte; otherwise it may leave the ring empty (ringbuffer.c:139).  As long *)
(* as the indication overwrites nothing, reader and indication need no      *)
(* lock: wherever it comes, each byte is delivered once and in order        *)
(* (ringbuffer.c:264-286 against 98-146).                                   *)
IsQueue ==
  /\ QueueView!LossySpec
  /\ [][LosesAll' /\ ~LosesAll => ring.rm = ring.wm]_ringVars

(* "When the buffer is full, it will discard the old data"                  *)
(* (ringbuffer.c:96): the bytes a forced put of s leaves are the newest of  *)
(* those that were there and s.  Does not hold.                             *)
ForceKeepsNewest ==
  \A s \in QueueView!Blocks :
    Content(PutForce(Settled, s)) = QueueView!Last(Content(Settled) \o s, Size)
=============================================================================
