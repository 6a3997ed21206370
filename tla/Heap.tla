-------------------------------- MODULE Heap --------------------------------
(***************************************************************************)
(* The small memory heap of rt-thread/src/mem.c: one chain of items in the *)
(* order of their addresses, each a header followed by the caller's bytes. *)
(* An address is an offset from heap_ptr.  A header that leaves the chain  *)
(* is dropped from items.  mem.c masks no interrupts, so it is for threads *)
(* only, and these are cooperative: a call is one step.                    *)
(***************************************************************************)
EXTENDS Integers, FiniteSets, FiniteSetsExt

CONSTANTS
  MemSize,   \* mem_size_aligned
  Hdr,       \* SIZEOF_STRUCT_MEM
  MinSize,   \* MIN_SIZE_ALIGNED
  Unit,      \* RT_ALIGN_SIZE
  Requests,  \* the numbers of bytes callers ask for
  Null

\* rt_system_heap_init accepts any size; below MinSize the bound of the search
\* in rt_malloc would wrap.
ASSUME HeapAssumption ==
  /\ {MemSize, Hdr, MinSize, Unit} \subseteq Nat \ {0}
  /\ MinSize < MemSize
  /\ \A n \in {MemSize, Hdr, MinSize} : n % Unit = 0
  /\ Requests \subseteq Nat \ {0}
  /\ Null \notin Nat

VARIABLES
  heap,   \* items (the headers by address), lfree, used_mem, max_mem
  owned,  \* the requests behind the blocks in use, by address of the header
  shrunk  \* whether rt_realloc has split a block since the heap was empty

vars == <<heap, owned, shrunk>>

HeapEnd == MemSize + Hdr
Item(used, next, prev) == [used |-> used, next |-> next, prev |-> prev]

HeapInit ==
  /\ heap = [items |-> [o \in {0, HeapEnd} |->
                          IF o = 0 THEN Item(FALSE, HeapEnd, 0)
                                   ELSE Item(TRUE, HeapEnd, HeapEnd)],
             lfree |-> 0, used_mem |-> 0, max_mem |-> 0]
  /\ owned = << >>
  /\ shrunk = FALSE

-----------------------------------------------------------------------------
(* Operators on the heap h.                                                *)

Larger(a, b) == IF a > b THEN a ELSE b
Aligned(n) == ((n + Unit - 1) \div Unit) * Unit
Room(h, o) == h.items[o].next - (o + Hdr)
Whole(h, o) == h.items[o].next - o

\* Item q becomes part of item p, its predecessor.
Merge(h, p, q) ==
  LET after == h.items[q].next IN
  [h EXCEPT !.lfree = IF @ = q THEN p ELSE @,
            !.items = [o \in DOMAIN @ \ {q} |->
                         IF o = p THEN [@[o] EXCEPT !.next = after]
                         ELSE IF o = after THEN [@[o] EXCEPT !.prev = p]
                         ELSE @[o]]]

PlugForward(h, m) ==
  LET n == h.items[m].next IN
  IF m # n /\ ~h.items[n].used /\ n # HeapEnd THEN Merge(h, m, n) ELSE h

PlugBackward(h, m) ==
  LET p == h.items[m].prev IN
  IF p # m /\ ~h.items[p].used THEN Merge(h, p, m) ELSE h

\* Variant: only the hole behind the item is plugged.
BadPlugHoles(h, m) == PlugForward(h, m)

\* plug_holes
PlugHoles(h, m) == PlugBackward(PlugForward(h, m), m)

\* Item m ends after size bytes, and a free item m2 takes the rest.
Split(h, m, size) ==
  LET m2 == m + Hdr + size
      after == h.items[m].next
  IN [h EXCEPT !.items =
        [o \in DOMAIN @ \cup {m2} |->
           IF o = m2 THEN Item(FALSE, after, m)
           ELSE IF o = m THEN [@[o] EXCEPT !.next = m2]
           ELSE IF o = after /\ after # HeapEnd THEN [@[o] EXCEPT !.prev = m2]
           ELSE @[o]]]

\* Variant: the search goes on to the end of the heap and also takes an item
\* that is only with its header as large as the block.
BadFirstFit(h, size) ==
  LET fit == {o \in DOMAIN h.items :
                h.lfree <= o /\ ~h.items[o].used /\ Whole(h, o) >= size}
  IN IF fit = {} THEN Null ELSE Min(fit)

\* The search of rt_malloc from lfree along the chain, which is in the order of
\* the addresses: it stops at the first address that is too high.
FirstFit(h, size) ==
  LET fit == {o \in DOMAIN h.items :
                /\ h.lfree <= o /\ o < MemSize - size
                /\ ~h.items[o].used /\ Room(h, o) >= size}
  IN IF fit = {} THEN Null ELSE Min(fit)

\* The first item from o that is free, or the end of the heap.
NextFree(h, o) ==
  Min({p \in DOMAIN h.items : o <= p /\ (~h.items[p].used \/ p = HeapEnd)})

\* Variant: an item is cut as soon as the header of the rest fits.
BadTake(h, m, size) ==
  LET cut == Room(h, m) >= size + Hdr
      s == IF cut THEN Split(h, m, size) ELSE h
      t == [s EXCEPT !.items[m].used = TRUE,
                     !.used_mem = @ + IF cut THEN size ELSE Whole(h, m)]
      u == [t EXCEPT !.max_mem = Larger(@, t.used_mem)]
  IN IF m = u.lfree THEN [u EXCEPT !.lfree = NextFree(u, m)] ELSE u

\* The part of rt_malloc behind the search: cut the item if the rest can hold
\* a block, mark it used, and move lfree on if it was the lowest.
Take(h, m, size) ==
  LET cut == Room(h, m) >= size + Hdr + MinSize
      s == IF cut THEN Split(h, m, size) ELSE h
      t == [s EXCEPT !.items[m].used = TRUE,
                     !.used_mem = @ + IF cut THEN size + Hdr ELSE Whole(h, m)]
      u == [t EXCEPT !.max_mem = Larger(@, t.used_mem)]
  IN IF m = u.lfree THEN [u EXCEPT !.lfree = NextFree(u, m)] ELSE u

\* Where rt_malloc puts n bytes, if anywhere.
Place(h, n) ==
  IF Aligned(n) > MemSize THEN Null
  ELSE FirstFit(h, Larger(Aligned(n), MinSize))

Allocated(h, n) == Take(h, Place(h, n), Larger(Aligned(n), MinSize))

\* Variant: lfree is not lowered.
BadFreed(h, m) ==
  PlugHoles([h EXCEPT !.items[m].used = FALSE,
                      !.used_mem = @ - Whole(h, m)], m)

\* rt_free
Freed(h, m) ==
  PlugHoles([h EXCEPT !.items[m].used = FALSE,
                      !.lfree = IF m < @ THEN m ELSE @,
                      !.used_mem = @ - Whole(h, m)], m)

\* The part of rt_realloc that makes a block smaller where it is.  Unlike
\* rt_free it leaves lfree where it is.
Shrunk(h, m, size) ==
  PlugHoles([Split(h, m, size) EXCEPT !.used_mem = @ - (Room(h, m) - size)],
            m + Hdr + size)

-----------------------------------------------------------------------------
(* The calls.  m is the header of a block in use.                          *)

With(o, n) == [p \in DOMAIN owned \cup {o} |-> IF p = o THEN n ELSE owned[p]]
Drop(f, o) == [p \in DOMAIN f \ {o} |-> f[p]]

\* rt_malloc, rt_calloc, and rt_realloc of no block.  Nothing changes when the
\* caller gets NULL.
Malloc(n) ==
  /\ Place(heap, n) # Null
  /\ heap' = Allocated(heap, n)
  /\ owned' = With(Place(heap, n), n)
  /\ UNCHANGED shrunk

\* rt_free, and rt_realloc to no bytes.
Free(m) ==
  /\ heap' = Freed(heap, m)
  /\ owned' = Drop(owned, m)
  /\ shrunk' = (shrunk /\ owned' # << >>)

\* rt_realloc that returns the block it was given: the aligned size is
\* already that of the block.
Keep(m, n) ==
  /\ Room(heap, m) = Aligned(n)
  /\ owned' = With(m, n)
  /\ UNCHANGED <<heap, shrunk>>

Cuts(m, n) == Aligned(n) + Hdr + MinSize < Room(heap, m)

\* rt_realloc that splits the block.
Shrink(m, n) ==
  /\ Cuts(m, n)
  /\ heap' = Shrunk(heap, m, Aligned(n))
  /\ owned' = With(m, n)
  /\ shrunk' = TRUE

\* rt_realloc that allocates another block, copies, and frees the old one;
\* without room it returns NULL and the old block stays.
Move(m, n) ==
  /\ Room(heap, m) # Aligned(n)
  /\ ~Cuts(m, n)
  /\ Place(heap, n) # Null
  /\ heap' = Freed(Allocated(heap, n), m)
  /\ owned' = Drop(With(Place(heap, n), n), m)
  /\ UNCHANGED shrunk

HeapNext ==
  \/ \E n \in Requests : Malloc(n)
  \/ \E m \in DOMAIN owned : Free(m)
  \/ \E m \in DOMAIN owned, n \in Requests :
       Keep(m, n) \/ Shrink(m, n) \/ Move(m, n)

HeapSpec == HeapInit /\ [][HeapNext]_vars

-----------------------------------------------------------------------------
(* Properties.                                                             *)

Items == DOMAIN heap.items
FreeItems == {o \in Items : ~heap.items[o].used}

\* The chain leads from 0 to the end of the heap through every item, forwards
\* and backwards; only the back pointer of the end is not kept.
ChainIntact ==
  /\ heap.items[0].prev = 0
  /\ heap.items[HeapEnd].next = HeapEnd
  /\ \A o \in Items \ {HeapEnd} :
       LET n == heap.items[o].next IN
       /\ n \in Items /\ n >= o + Hdr
       /\ \A p \in Items : ~(o < p /\ p < n)
       /\ n # HeapEnd => heap.items[n].prev = o

\* What mem.c:351-357 relies on: two free items are never neighbours, so that
\* whatever the order of allocations, reallocations and frees, no memory is
\* lost between blocks; with nothing in use the heap is one free item again
\* and is searched from its start.
NoHoles ==
  /\ ChainIntact
  /\ \A o \in FreeItems : heap.items[o].next \notin FreeItems
  /\ owned = << >> => Items = {0, HeapEnd} /\ heap.lfree = 0

\* The figures of rt_memory_info (mem.c:598-608): used_mem is what the blocks
\* in use take with their headers, across splits, near fits and the in-place
\* split of rt_realloc, and never more than max_mem.
StatsExact ==
  /\ heap.used_mem = MapThenSumSet(LAMBDA o : Whole(heap, o), DOMAIN owned)
  /\ heap.used_mem <= heap.max_mem

\* mem.c:131 calls lfree the pointer to the lowest free block.  It always
\* names a free item of the chain or the end; it is the lowest one as long as
\* rt_realloc has not split a block, since rt_realloc does not lower it.
LfreeLowest ==
  /\ heap.lfree \in FreeItems \cup {HeapEnd}
  /\ ~shrunk => \A o \in FreeItems : heap.lfree <= o

Promise == INSTANCE Allocator
  WITH Space <- HeapEnd,
       grants <- [p \in {o + Hdr : o \in DOMAIN owned} |-> owned[p - Hdr]]

\* The heap implements Allocator: whatever rt_malloc and rt_realloc return is
\* as large as was asked for, inside the heap, and shared with no other block
\* in use, the block being reallocated included.
IsAllocator == Promise!Spec
=============================================================================
