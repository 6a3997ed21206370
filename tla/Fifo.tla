-------------------------------- MODULE Fifo --------------------------------
(***************************************************************************)
(* What rt-thread/components/drivers/src/ringbuffer.c promises: a queue of *)
(* at most Capacity bytes.  A put keeps the bytes that fit, a forced put   *)
(* keeps all of them and discards the oldest ones, a get hands out the     *)
(* oldest ones in order.                                                   *)
(***************************************************************************)
EXTENDS Naturals, Sequences

CONSTANTS Capacity, Byte, MaxBlock

VARIABLES
  queue,   \* the bytes in the buffer, oldest first
  out,     \* the bytes the last call handed to its caller
  call     \* that call, with its block or its length

vars == <<queue, out, call>>

Smaller(a, b) == IF a < b THEN a ELSE b
First(s, n) == SubSeq(s, 1, Smaller(n, Len(s)))
Last(s, n) == SubSeq(s, Len(s) - Smaller(n, Len(s)) + 1, Len(s))

Blocks == UNION { [1..n -> Byte] : n \in 0..MaxBlock }

Reset == [op |-> "reset"]
Put(s) == [op |-> "put", block |-> s]
PutForce(s) == [op |-> "put_force", block |-> s]
Get(n) == [op |-> "get", length |-> n]

FifoInit == queue = << >> /\ out = << >> /\ call = Reset

\* A call that hands out nothing; one in an interrupt leaves out alone.
Silent == out' \in {out, << >>}

DoPut(s) ==
  /\ call' = Put(s)
  /\ queue' = First(queue \o s, Capacity)
  /\ Silent

\* The oldest bytes are discarded for the new ones.
DoPutForce(s) ==
  /\ call' = PutForce(s)
  /\ queue' = Last(queue \o s, Capacity)
  /\ Silent

DoGet(n) ==
  /\ call' = Get(n)
  /\ out' = First(queue, n)
  /\ queue' = Last(queue, Len(queue) - Len(out'))

DoReset == call' = Reset /\ queue' = << >> /\ Silent

\* A call that has only begun.
Idle == UNCHANGED <<queue, call>> /\ Silent

FifoNext ==
  \/ Idle
  \/ DoReset
  \/ \E n \in 0..MaxBlock : DoGet(n)
  \/ \E s \in Blocks : DoPut(s) \/ DoPutForce(s)

FifoSpec == FifoInit /\ [][FifoNext]_vars

\* A weaker promise: a forced put that overwrites may keep nothing at all.
LoseAll(s) ==
  /\ call' = PutForce(s)
  /\ Len(queue) + Len(s) > Capacity
  /\ queue' = << >>
  /\ Silent

LossyNext == FifoNext \/ \E s \in Blocks : LoseAll(s)

LossySpec == FifoInit /\ [][LossyNext]_vars
=============================================================================
