------------------------------ MODULE RingBlock ------------------------------
(***************************************************************************)
(* The ring block buffer of                                                 *)
(* rt-thread/components/drivers/src/ringblk_buf.c: a producer allocates     *)
(* blocks of a byte buffer, fills and puts them; a consumer gets them one   *)
(* by one, or several at once as a block queue, and frees them.             *)
(*                                                                         *)
(* Every operation masks interrupts or is a single store, so each is one    *)
(* step.  A block is its index in blk_set; blk_list is the sequence of the  *)
(* blocks on it.                                                            *)
(***************************************************************************)
EXTENDS Naturals, Sequences, FiniteSets, FiniteSetsExt, SequencesExt

CONSTANTS
  BufSize,    \* buf_size
  MaxNum,     \* blk_max_num
  AllocSizes, \* the sizes callers allocate: never more than the buffer holds,
              \* which nothing here checks (ulog.c:1239 asserts room for two lines)
  Limits,     \* the queue_data_len values callers pass
  NoQueue     \* no block queue is held

ASSUME RingBlockAssumption ==
  /\ BufSize \in Nat \ {0} /\ MaxNum \in Nat \ {0}
  /\ AllocSizes \subseteq 1 .. BufSize
  /\ Limits \subseteq Nat
  /\ NoQueue \notin [blocks : 0 .. MaxNum - 1, num : Nat]

Blk == 0 .. MaxNum - 1
Status == {"UNUSED", "INITED", "PUT", "GET"}

VARIABLES
  status, buf, size,  \* the fields of every block; buf as an offset
  list,               \* blk_list
  queue,              \* the block queue the consumer holds: first block and count
  total               \* what rt_rbb_blk_queue_get returned for it

vars == <<status, buf, size, list, queue, total>>

RbbInit ==
  /\ status = [b \in Blk |-> "UNUSED"]
  /\ buf = [b \in Blk |-> 0]
  /\ size = [b \in Blk |-> 0]
  /\ list = << >>
  /\ queue = NoQueue
  /\ total = 0

-----------------------------------------------------------------------------
End(b) == buf[b] + size[b]
Used(b) == status[b] # "UNUSED"

\* find_empty_blk_in_set: the first unused block of the set.
EmptyBlk == {b \in Blk : ~Used(b) /\ \A c \in Blk : c < b => Used(c)}

\* Variant: in the wrapped layout the space up to the end of the buffer is
\* used.
BadRoom(n) ==
  IF list = << >> THEN {0}
  ELSE IF End(Last(list)) + n <= BufSize THEN {End(Last(list))}
  ELSE IF n <= buf[Head(list)] THEN {0} ELSE {}

\* Where a block of n bytes goes: behind the tail, or else at the start of the
\* buffer, in front of the head.  An empty list takes any size.
Room(n) ==
  IF list = << >> THEN {0}
  ELSE IF buf[Head(list)] <= buf[Last(list)]
    THEN IF End(Last(list)) + n <= BufSize THEN {End(Last(list))}
         ELSE IF n <= buf[Head(list)] THEN {0} ELSE {}
  ELSE IF End(Last(list)) + n <= buf[Head(list)] THEN {End(Last(list))} ELSE {}

\* rt_rbb_blk_alloc.  A failed allocation changes nothing.
Alloc(n) ==
  /\ Len(list) < MaxNum
  /\ \E b \in EmptyBlk, at \in Room(n) :
       /\ list' = Append(list, b)
       /\ status' = [status EXCEPT ![b] = "INITED"]
       /\ buf' = [buf EXCEPT ![b] = at]
       /\ size' = [size EXCEPT ![b] = n]
  /\ UNCHANGED <<queue, total>>

BlkPut(b) ==
  /\ status[b] = "INITED"
  /\ status' = [status EXCEPT ![b] = "PUT"]
  /\ UNCHANGED <<buf, size, list, queue, total>>

\* The first position of blk_list that holds a PUT block.
FirstPut ==
  {i \in DOMAIN list :
     status[list[i]] = "PUT" /\ \A j \in 1 .. i - 1 : status[list[j]] # "PUT"}

\* Variant: takes the most recent block.
BadBlkGet ==
  /\ \E i \in DOMAIN list :
       /\ status[list[i]] = "PUT"
       /\ \A j \in i + 1 .. Len(list) : status[list[j]] # "PUT"
       /\ status' = [status EXCEPT ![list[i]] = "GET"]
  /\ UNCHANGED <<buf, size, list, queue, total>>

BlkGet ==
  /\ \E i \in FirstPut : status' = [status EXCEPT ![list[i]] = "GET"]
  /\ UNCHANGED <<buf, size, list, queue, total>>

\* Variant: the blocks stay on the list.
BadFreed(S) ==
  /\ UNCHANGED list
  /\ status' = [b \in Blk |-> IF b \in S THEN "UNUSED" ELSE status[b]]

\* Variant: the list keeps a place for the freed blocks.
BadFreedTwice(S) ==
  /\ list' = [i \in DOMAIN list |-> IF list[i] \in S THEN MaxNum ELSE list[i]]
  /\ status' = [b \in Blk |-> IF b \in S THEN "UNUSED" ELSE status[b]]

\* The sequence s without the members of S: its other elements, in order.
Without(s, S) ==
  LET kept == {i \in DOMAIN s : s[i] \notin S}
      at == CHOOSE f \in [1 .. Cardinality(kept) -> kept] :
              \A m, n \in DOMAIN f : m < n => f[m] < f[n]
  IN  [n \in 1 .. Cardinality(kept) |-> s[at[n]]]

\* rt_rbb_blk_free of the blocks of S, in any order.
Freed(S) ==
  /\ list' = Without(list, S)
  /\ status' = [b \in Blk |-> IF b \in S THEN "UNUSED" ELSE status[b]]

\* The consumer frees a block it got.
BlkFree(b) ==
  /\ status[b] = "GET"
  /\ queue = NoQueue
  /\ Freed({b})
  /\ UNCHANGED <<buf, size, queue, total>>

-----------------------------------------------------------------------------
(* Block queues                                                            *)

\* The sizes of the blocks at positions i to k of blk_list, added up.
Bytes(i, k) ==
  LET sum[j \in Nat] == IF j < i THEN 0 ELSE sum[j - 1] + size[list[j]]
  IN  sum[k]

\* Where a run of PUT blocks at ascending addresses that starts at position i
\* may end.
RunEnds(i) ==
  {j \in i .. Len(list) :
     \A k \in i + 1 .. j :
       status[list[k]] = "PUT" /\ buf[list[k - 1]] <= buf[list[k]]}

\* The loop of rt_rbb_blk_queue_get from position i: the longest such run
\* whose sizes stay within the limit.  The first block is taken whatever its
\* size.
RunEnd(i, limit) ==
  Max({j \in RunEnds(i) : \A k \in i + 1 .. j : Bytes(i, k) <= limit})

\* rt_rbb_blk_queue_get: the blocks taken leave blk_list and become GET.
QueueGet(limit) ==
  /\ queue = NoQueue
  /\ \E i \in FirstPut :
       LET last == RunEnd(i, limit)
           run == {list[k] : k \in i .. last}
       IN  /\ queue' = [blocks |-> list[i], num |-> last - i + 1]
           /\ total' = Bytes(i, last)
           /\ status' = [b \in Blk |-> IF b \in run THEN "GET" ELSE status[b]]
           /\ list' = Without(list, run)
  /\ UNCHANGED <<buf, size>>

\* The blocks a queue stands for: num consecutive elements of blk_set.
QueueBlocks == queue.blocks .. queue.blocks + queue.num - 1

\* rt_rbb_blk_queue_free.  Its assertions stop the system on an unused block,
\* and past the end of blk_set there is no block: neither has a next step.
QueueFree ==
  /\ queue # NoQueue
  /\ \A b \in QueueBlocks : b \in Blk /\ Used(b)
  /\ Freed(QueueBlocks)
  /\ queue' = NoQueue
  /\ total' = 0
  /\ UNCHANGED <<buf, size>>

\* rt_rbb_next_blk_queue_len.
NextQueueLen ==
  IF FirstPut = {} THEN 0
  ELSE LET i == CHOOSE i \in FirstPut : TRUE IN Bytes(i, Max(RunEnds(i)))

-----------------------------------------------------------------------------
BlockNext ==
  \/ \E n \in AllocSizes : Alloc(n)
  \/ \E b \in Blk : BlkPut(b) \/ BlkFree(b)
  \/ BlkGet

QueueNext == QueueFree \/ \E limit \in Limits : QueueGet(limit)

RbbNext == BlockNext \/ QueueNext

RbbSpec == RbbInit /\ [][RbbNext]_vars

-----------------------------------------------------------------------------
(* Type invariant. *)
TypeOK ==
  /\ status \in [Blk -> Status]
  /\ buf \in [Blk -> Nat] /\ size \in [Blk -> Nat]
  /\ list \in Seq(Blk)
  /\ queue \in [blocks : Blk, num : Nat] \cup {NoQueue}
  /\ total \in Nat

Overlap(a, b) == buf[a] < End(b) /\ buf[b] < End(a)

(* The memory of a block is inside the buffer and its own, for any order in *)
(* which blocks are freed, although allocation looks at the first and the   *)
(* last block of the list alone (ringblk_buf.c:152-206): two used blocks    *)
(* share memory only if one of them has left the list in a block queue      *)
(* that the consumer is still reading (ringblk_buf.c:414).                  *)
OverlapOnlyHeld ==
  /\ \A b \in Blk : Used(b) => End(b) <= BufSize
  /\ \A b, c \in Blk :
       b # c /\ Used(b) /\ Used(c) /\ Overlap(b, c)
         => \E d \in {b, c} : status[d] = "GET" /\ d \notin ToSet(list)

(* The list holds blocks in ring order: addresses ascend along it, with at  *)
(* most one step back to the start of the buffer, after which they stay     *)
(* below the first block.                                                   *)
RingOrder ==
  \E k \in 0 .. Len(list) :
    /\ \A i, j \in 1 .. Len(list) :
         i < j /\ (j <= k \/ i > k) => End(list[i]) <= buf[list[j]]
    /\ \A i \in k + 1 .. Len(list) : End(list[i]) <= buf[list[1]]

(* A block is on the list at most once and in its place, and a block the    *)
(* producer has allocated but the consumer not got is on it.                *)
ListHoldsPending ==
  /\ IsInjective(list) /\ RingOrder
  /\ \A b \in Blk : status[b] \in {"INITED", "PUT"} => b \in ToSet(list)
  /\ \A b \in ToSet(list) : Used(b)

(* Blocks reach the consumer in the order in which they were allocated,     *)
(* although they may be put in any order: when one is got, every PUT block  *)
(* that stays was allocated after it.  A block queue holds no more than     *)
(* rt_rbb_next_blk_queue_len announced (ringblk_buf.c:489).                 *)
GetsOldest ==
  [][/\ \A i, j \in DOMAIN list :
          i < j /\ status[list[j]] = "PUT" /\ status[list[i]] = "PUT" /\ status'[list[j]] = "GET"
            => status'[list[i]] = "GET"
     /\ queue = NoQueue => total' <= NextQueueLen]_vars
=============================================================================
