----------------------------- MODULE HeapProofs -----------------------------
(***************************************************************************)
(* What is proved of Heap, for every size of the heap, header, alignment   *)
(* and set of requests.  Merging an item with its neighbour and splitting  *)
(* one keep the chain (MergedChain, SplitChain).  Taking a free item       *)
(* (TakenHeap), freeing one (FreedHeap) and cutting one in use (ShrunkHeap)*)
(* therefore keep HeapInv: between two calls no two free items are         *)
(* neighbours, and the items in use are the blocks of the callers, each at *)
(* least as large as was asked for.  While plug_holes runs the item it was *)
(* given may have a free neighbour on either side: HolesApart(h, {m}).     *)
(***************************************************************************)
EXTENDS Heap, TLAPS, WellFoundedInduction, FiniteSetTheorems

-----------------------------------------------------------------------------
(* A heap h seen as the set of its items, the free ones, and two functions *)
(* that lead from item to item.                                            *)

ItemsOf(h) == DOMAIN h.items
FreeOf(h) == {o \in DOMAIN h.items : ~h.items[o].used}
NextsOf(h) == [o \in DOMAIN h.items |-> h.items[o].next]
PrevsOf(h) == [o \in DOMAIN h.items |-> h.items[o].prev]

\* h is a record like the one rt_system_heap_init makes, its items too.
HeapOf(I, l, u, x) == [items |-> I, lfree |-> l, used_mem |-> u, max_mem |-> x]
Shape(h) ==
  /\ h = HeapOf(h.items, h.lfree, h.used_mem, h.max_mem)
  /\ h.items = [o \in ItemsOf(h) |-> h.items[o]]
  /\ \A o \in ItemsOf(h) :
       h.items[o] = Item(h.items[o].used, h.items[o].next, h.items[o].prev)

\* The items D lie one after the other from 0 to the end, N leads from each to
\* the one behind it and P back, but P may be wrong at the end.
Chain(D, N, P) ==
  /\ D \subseteq 0..HeapEnd /\ {0, HeapEnd} \subseteq D
  /\ N \in [D -> D] /\ P \in [D -> Nat]
  /\ N[HeapEnd] = HeapEnd /\ P[0] = 0
  /\ \A o \in D \ {HeapEnd} :
       /\ o + Hdr <= N[o]
       /\ \A p \in D : p <= o \/ N[o] <= p
       /\ N[o] # HeapEnd => P[N[o]] = o
  /\ \A o \in D \ {0, HeapEnd} : P[o] \in D \ {HeapEnd} /\ N[P[o]] = o

ChainOf(h) == Chain(ItemsOf(h), NextsOf(h), PrevsOf(h))

\* Two free items are neighbours only if one of them is in except.
HolesApart(h, except) ==
  /\ HeapEnd \notin FreeOf(h)
  /\ \A o \in FreeOf(h) :
       NextsOf(h)[o] \in FreeOf(h) => o \in except \/ NextsOf(h)[o] \in except

LfreeNames(h) == h.lfree \in FreeOf(h) \cup {HeapEnd}
LfreeLeast(h) == \A o \in FreeOf(h) : h.lfree <= o

\* The items in use, and their sizes, are the same in g as in h.
SameBlocks(g, h) ==
  /\ ItemsOf(g) \ FreeOf(g) = ItemsOf(h) \ FreeOf(h)
  /\ \A o \in ItemsOf(h) \ FreeOf(h) : NextsOf(g)[o] = NextsOf(h)[o]

\* The figures of rt_memory_info are the same in g as in h.
SameFigures(g, h) == g.used_mem = h.used_mem /\ g.max_mem = h.max_mem

\* The blocks g, by header, are the items in use but the end, and fit.
Blocks(h, g) ==
  /\ g \in [ItemsOf(h) \ (FreeOf(h) \cup {HeapEnd}) -> Requests]
  /\ \A o \in DOMAIN g : o + Hdr + g[o] <= NextsOf(h)[o]

HeapInv ==
  /\ Shape(heap)
  /\ ChainOf(heap)
  /\ HolesApart(heap, {})
  /\ LfreeNames(heap) /\ (~shrunk => LfreeLeast(heap))
  /\ Blocks(heap, owned)
  /\ DOMAIN owned = {} => ~shrunk

\* A set of numbers has a least element, and Min is it.
LEMMA MinOfNats ==
  ASSUME NEW S \in SUBSET Nat, S # {}
  PROVE  Min(S) \in S /\ \A x \in S : Min(S) <= x
<1>. DEFINE Less == {ss \in Nat \X Nat : ss[1] < ss[2]}
<1>1. IsWellFoundedOn(Less, Nat)
  BY NatLessThanWellFounded, Zenon DEF OpToRel
<1>2. \A x, y \in Nat : x < y => <<x, y>> \in Less
  OBVIOUS
<1>. HIDE DEF Less
<1>3. PICK m \in S : \A x \in S : <<x, m>> \notin Less
  BY <1>1, WFMin
<1>4. ASSUME NEW x \in S PROVE m <= x
  <2>1. m \in Nat /\ x \in Nat
    OBVIOUS
  <2>2. ~ (x < m)
    BY <1>2, <1>3, <2>1
  <2>. QED  BY <2>1, <2>2
<1>. QED  BY <1>4 DEF Min

\* Rounding up to the alignment never makes a request smaller.
LEMMA AlignedUp ==
  ASSUME NEW n \in Nat
  PROVE  Aligned(n) \in Nat /\ n <= Aligned(n)
<1>. DEFINE a == n + Unit - 1
            q == a \div Unit
<1>1. Unit \in Nat \ {0} /\ a \in Nat
  BY HeapAssumption
<1>2. q \in Nat /\ q * Unit <= a /\ a < (q + 1) * Unit
  BY <1>1
<1>3. q * Unit \in Nat /\ (q+1) * Unit = q * Unit + Unit
  BY <1>1, <1>2
<1>. QED  BY <1>1, <1>2, <1>3 DEF Aligned
-----------------------------------------------------------------------------
\* Without q, whose predecessor p now leads to the item behind it, the chain is
\* still a chain; what led back to q leads back to p.
LEMMA MergedChain ==
  ASSUME NEW D, NEW N, NEW P, Chain(D, N, P),
         NEW p \in D \ {HeapEnd}, NEW q, q = N[p], q # HeapEnd
  PROVE  Chain(D \ {q},
               [o \in D \ {q} |-> IF o = p THEN N[q] ELSE N[o]],
               [o \in D \ {q} |-> IF o # p /\ o = N[q] THEN p ELSE P[o]])
<1>. DEFINE E == D \ {q}
            M == [o \in E |-> IF o = p THEN N[q] ELSE N[o]]
            R == [o \in E |-> IF o # p /\ o = N[q] THEN p ELSE P[o]]
<1>1. HeapEnd \in Nat /\ Hdr \in Nat \ {0}
  BY HeapAssumption DEF HeapEnd
<1>2. D \subseteq 0..HeapEnd /\ D \subseteq Nat
  BY <1>1 DEF Chain
<1>3. /\ q \in D /\ q # 0 /\ p < q /\ N[q] \in D /\ q < N[q]
      /\ {p, q, N[q]} \subseteq Nat
  <2>1. q \in D /\ p + Hdr <= q
    BY DEF Chain
  <2>2. N[q] \in D /\ q + Hdr <= N[q]
    BY <2>1 DEF Chain
  <2>3. p \in Nat /\ q \in Nat /\ N[q] \in Nat
    BY <1>2, <2>1, <2>2
  <2>. QED  BY <1>1, <2>1, <2>2, <2>3
<1>4. E \subseteq 0..HeapEnd /\ {0, HeapEnd} \subseteq E
  BY <1>2, <1>3 DEF Chain
<1>5. \A o \in D : N[o] = q => o = p
  BY <1>1, <1>2, <1>3 DEF Chain
<1>6. M \in [E -> E]
  BY <1>3, <1>5 DEF Chain
<1>7. R \in [E -> Nat]
  BY <1>3 DEF Chain
<1>8. M[HeapEnd] = HeapEnd /\ R[0] = 0
  BY <1>3, <1>4 DEF Chain
<1>9. ASSUME NEW o \in E \ {HeapEnd}
      PROVE  /\ o + Hdr <= M[o]
             /\ \A r \in E : r <= o \/ M[o] <= r
             /\ M[o] # HeapEnd => R[M[o]] = o
  <2>1. CASE o = p
    <3>1. M[o] = N[q]
      BY <2>1
    <3>2. o + Hdr <= N[q]
      <4>1. p + Hdr <= q
        BY DEF Chain
      <4>. QED  BY <1>1, <1>3, <2>1, <4>1
    <3>3. ASSUME NEW r \in E  PROVE r <= o \/ N[q] <= r
      <4>1. r <= p \/ q <= r
        BY DEF Chain
      <4>2. r <= q \/ N[q] <= r
        BY <1>3 DEF Chain
      <4>. QED  BY <1>2, <1>3, <2>1, <4>1, <4>2
    <3>4. M[o] # HeapEnd => R[M[o]] = o
      BY <1>2, <1>3, <2>1
    <3>. QED  BY <3>1, <3>2, <3>3, <3>4
  <2>2. CASE o # p
    <3>1. M[o] = N[o] /\ N[o] # q
      BY <1>5, <2>2
    <3>2. N[o] # HeapEnd => N[o] # N[q]
      BY <1>1, <1>2, <1>3, <3>1 DEF Chain
    <3>. QED  BY <1>1, <1>3, <1>6, <2>2, <3>1, <3>2 DEF Chain
  <2>. QED  BY <2>1, <2>2
<1>10. ASSUME NEW o \in E \ {0, HeapEnd}
      PROVE  R[o] \in E \ {HeapEnd} /\ M[R[o]] = o
  BY <1>1, <1>2, <1>3, <1>5 DEF Chain
<1>. QED  BY <1>4, <1>6, <1>7, <1>8, <1>9, <1>10 DEF Chain

SplitNexts(D, N, m, k) ==
  [o \in D \cup {k} |-> IF o = k THEN N[m] ELSE IF o = m THEN k ELSE N[o]]
SplitPrevs(D, N, P, m, k) ==
  [o \in D \cup {k} |->
     IF o = k THEN m ELSE IF o # m /\ o = N[m] /\ N[m] # HeapEnd THEN k ELSE P[o]]

\* With k put between m and the item behind it the chain is still a chain, as
\* long as the header of k fits.
LEMMA SplitChain ==
  ASSUME NEW D, NEW N, NEW P, Chain(D, N, P),
         NEW m \in D \ {HeapEnd}, NEW k \in Nat,
         m + Hdr <= k, k + Hdr <= N[m]
  PROVE  Chain(D \cup {k}, SplitNexts(D, N, m, k), SplitPrevs(D, N, P, m, k))
<1>. DEFINE E == D \cup {k}
            M == [o \in E |-> IF o = k THEN N[m] ELSE IF o = m THEN k ELSE N[o]]
            R == [o \in E |-> IF o = k THEN m
                   ELSE IF o # m /\ o = N[m] /\ N[m] # HeapEnd THEN k ELSE P[o]]
<1>1. HeapEnd \in Nat /\ Hdr \in Nat \ {0}
  BY HeapAssumption DEF HeapEnd
<1>2. D \subseteq 0..HeapEnd /\ D \subseteq Nat
  BY <1>1 DEF Chain
<1>3. N[m] \in D /\ \A r \in D : r <= m \/ N[m] <= r
  BY DEF Chain
<1>4. m \in Nat /\ N[m] \in 0..HeapEnd
  BY <1>2, <1>3
<1>5. m < k /\ k < N[m] /\ k # HeapEnd /\ k <= HeapEnd
  BY <1>1, <1>4
<1>6. k \notin D
  BY <1>3, <1>4, <1>5
<1>7. E \subseteq 0..HeapEnd /\ {0, HeapEnd} \subseteq E
  BY <1>1, <1>2, <1>3, <1>4, <1>5, <1>6 DEF Chain
<1>8. M \in [E -> E] /\ R \in [E -> Nat]
  BY <1>2, <1>3, <1>4, <1>5, <1>6 DEF Chain
<1>9. M[HeapEnd] = HeapEnd /\ R[0] = 0
  BY <1>1, <1>2, <1>3, <1>4, <1>5, <1>6, <1>7 DEF Chain
<1>10. ASSUME NEW o \in E \ {HeapEnd}
      PROVE  /\ o + Hdr <= M[o]
             /\ \A r \in E : r <= o \/ M[o] <= r
             /\ M[o] # HeapEnd => R[M[o]] = o
  <2>1. CASE o = k
    BY <1>1, <1>2, <1>3, <1>4, <1>5, <1>6, <2>1 DEF Chain
  <2>2. CASE o = m
    <3>1. M[o] = k /\ R[k] = m
      BY <1>5, <2>2
    <3>2. \A r \in E : r <= m \/ k <= r
      <4>1. \A r \in D : r \in Nat
        BY <1>2
      <4>. QED  BY <1>3, <1>4, <1>5, <4>1
    <3>. QED  BY <2>2, <3>1, <3>2
  <2>3. CASE o \in D \ {m}
    <3>1. M[o] = N[o] /\ N[o] \in D /\ N[o] # N[m]
      BY <1>1, <1>2, <1>3, <1>4, <1>5, <1>6, <2>3 DEF Chain
    <3>2. o < m \/ N[m] <= o
      BY <1>1, <1>2, <1>3, <1>4, <1>5, <1>6, <2>3 DEF Chain
    <3>3. ASSUME NEW r \in E  PROVE r <= o \/ M[o] <= r
      <4>1. CASE r \in D
        BY <2>3, <3>1, <4>1 DEF Chain
      <4>2. CASE r = k
        <5>1. m <= o \/ N[o] <= m
          BY <2>3 DEF Chain
        <5>2. o \in Nat /\ N[o] \in Nat
          BY <1>2, <2>3, <3>1
        <5>. QED  BY <1>4, <1>5, <3>1, <3>2, <4>2, <5>1, <5>2
      <4>. QED  BY <4>1, <4>2
    <3>4. M[o] # HeapEnd => R[M[o]] = o
      BY <1>1, <1>2, <1>3, <1>4, <1>5, <1>6, <2>3, <3>1, <3>2 DEF Chain
    <3>. QED  BY <1>1, <1>2, <1>3, <1>4, <1>5, <1>6, <2>3, <3>1, <3>3, <3>4 DEF Chain
  <2>. QED  BY <2>1, <2>2, <2>3
<1>11. ASSUME NEW o \in E \ {0, HeapEnd}
      PROVE  R[o] \in E \ {HeapEnd} /\ M[R[o]] = o
  BY <1>1, <1>2, <1>3, <1>4, <1>5, <1>6 DEF Chain
<1>. QED  BY <1>5, <1>6, <1>7, <1>8, <1>9, <1>10, <1>11 DEF Chain, SplitNexts, SplitPrevs

-----------------------------------------------------------------------------
(* What the operators of the heap do, seen in this way.                    *)

\* What merging changes: the two links over q, and lfree if it named q.
LEMMA MergeEffect ==
  ASSUME NEW h, Shape(h), NEW p \in ItemsOf(h), NEW q \in ItemsOf(h), p # q,
         NEW g, g = Merge(h, p, q)
  PROVE  /\ Shape(g)
         /\ ItemsOf(g) = ItemsOf(h) \ {q}
         /\ FreeOf(g) = FreeOf(h) \ {q}
         /\ \A o \in ItemsOf(g) :
              /\ NextsOf(g)[o] = IF o = p THEN NextsOf(h)[q] ELSE NextsOf(h)[o]
              /\ PrevsOf(g)[o] = IF o # p /\ o = NextsOf(h)[q] THEN p ELSE PrevsOf(h)[o]
         /\ g.lfree = IF h.lfree = q THEN p ELSE h.lfree
         /\ SameFigures(g, h)
<1>. DEFINE I == h.items
            after == I[q].next
            J == [o \in DOMAIN I \ {q} |->
                    IF o = p THEN [I[o] EXCEPT !.next = after]
                    ELSE IF o = after THEN [I[o] EXCEPT !.prev = p] ELSE I[o]]
            l == IF h.lfree = q THEN p ELSE h.lfree
<1>1. g = HeapOf(J, l, h.used_mem, h.max_mem)
  <2>1. PICK i, k, u, x : h = HeapOf(i, k, u, x)
    BY DEF Shape
  <2>2. g = [[h EXCEPT !.lfree = l] EXCEPT !.items = J]
    BY DEF Merge
  <2>. HIDE DEF l, J, I
  <2>3. [HeapOf(i, k, u, x) EXCEPT !.lfree = l] = HeapOf(i, l, u, x)
    BY DEF HeapOf
  <2>4. [HeapOf(i, l, u, x) EXCEPT !.items = J] = HeapOf(J, l, u, x)
    BY DEF HeapOf
  <2>5. g = HeapOf(J, l, u, x)
    BY <2>1, <2>2, <2>3, <2>4, Zenon
  <2>. QED  BY <2>1, <2>5 DEF HeapOf
<1>2. \A o \in DOMAIN I \ {q} :
        J[o] = Item(I[o].used, IF o = p THEN after ELSE I[o].next,
                    IF o # p /\ o = after THEN p ELSE I[o].prev)
  <2>1. \A o \in DOMAIN I : I[o] = [used |-> I[o].used, next |-> I[o].next, prev |-> I[o].prev]
    BY DEF Shape, Item, ItemsOf
  <2>. HIDE DEF I, after
  <2>. QED  BY <2>1 DEF Item
<1>3. /\ g.items = J /\ DOMAIN J = DOMAIN I \ {q} /\ g.lfree = l
      /\ SameFigures(g, h)
  BY <1>1 DEF HeapOf, SameFigures
<1>4. \A o \in DOMAIN I \ {q} :
        /\ J[o].used = I[o].used
        /\ J[o].next = IF o = p THEN after ELSE I[o].next
        /\ J[o].prev = IF o # p /\ o = after THEN p ELSE I[o].prev
  BY <1>2 DEF Item
<1>. HIDE DEF J, after, l
<1>5. Shape(g)
  BY <1>1, <1>2, <1>3, <1>4 DEF Shape, ItemsOf, J, HeapOf
<1>. QED  BY <1>3, <1>4, <1>5 DEF ItemsOf, FreeOf, NextsOf, PrevsOf, l, after

\* Merging an item with the one behind it leaves a chain.
LEMMA MergedHeap ==
  ASSUME NEW h, Shape(h), ChainOf(h), NEW p \in ItemsOf(h) \ {HeapEnd},
         NEW q, q = NextsOf(h)[p], q # HeapEnd, NEW g, g = Merge(h, p, q)
  PROVE  /\ Shape(g) /\ ChainOf(g)
         /\ ItemsOf(g) = ItemsOf(h) \ {q}
         /\ FreeOf(g) = FreeOf(h) \ {q}
         /\ \A o \in ItemsOf(g) :
              NextsOf(g)[o] = IF o = p THEN NextsOf(h)[q] ELSE NextsOf(h)[o]
         /\ g.lfree = IF h.lfree = q THEN p ELSE h.lfree
         /\ SameFigures(g, h)
<1>1. q \in ItemsOf(h) /\ p # q
  BY HeapAssumption DEF ChainOf, Chain, HeapEnd
<1>2. /\ Shape(g)
      /\ ItemsOf(g) = ItemsOf(h) \ {q}
      /\ FreeOf(g) = FreeOf(h) \ {q}
      /\ \A o \in ItemsOf(g) :
           /\ NextsOf(g)[o] = IF o = p THEN NextsOf(h)[q] ELSE NextsOf(h)[o]
           /\ PrevsOf(g)[o] = IF o # p /\ o = NextsOf(h)[q] THEN p ELSE PrevsOf(h)[o]
      /\ g.lfree = IF h.lfree = q THEN p ELSE h.lfree
      /\ SameFigures(g, h)
  BY <1>1, MergeEffect
<1>3. /\ NextsOf(g) = [o \in ItemsOf(g) |-> NextsOf(g)[o]]
      /\ PrevsOf(g) = [o \in ItemsOf(g) |-> PrevsOf(g)[o]]
  BY DEF NextsOf, PrevsOf, ItemsOf
<1>. DEFINE D == ItemsOf(h)
            N == NextsOf(h)
            P == PrevsOf(h)
<1>4. Chain(D \ {q}, [o \in D \ {q} |-> IF o = p THEN N[q] ELSE N[o]],
            [o \in D \ {q} |-> IF o # p /\ o = N[q] THEN p ELSE P[o]])
  BY MergedChain DEF ChainOf
<1>5. /\ NextsOf(g) = [o \in D \ {q} |-> IF o = p THEN N[q] ELSE N[o]]
      /\ PrevsOf(g) = [o \in D \ {q} |-> IF o # p /\ o = N[q] THEN p ELSE P[o]]
  BY <1>2, <1>3
<1>. QED  BY <1>2, <1>4, <1>5 DEF ChainOf

\* The fields of an item determine it.
LEMMA ItemFields ==
  ASSUME NEW i, NEW u, NEW n, NEW p, i = Item(u, n, p)
  PROVE  i.used = u /\ i.next = n /\ i.prev = p /\ i = Item(i.used, i.next, i.prev)
<1>1. Item(u, n, p).used = u /\ Item(u, n, p).next = n /\ Item(u, n, p).prev = p
  BY DEF Item
<1>. QED  BY <1>1, Zenon

\* What splitting changes: a free item k and the two links to it.
LEMMA SplitEffect ==
  ASSUME NEW h, Shape(h), NEW m \in ItemsOf(h), NEW size, NEW k, k = m + Hdr + size,
         k \notin ItemsOf(h), NEW g, g = Split(h, m, size)
  PROVE  /\ Shape(g)
         /\ ItemsOf(g) = ItemsOf(h) \cup {k}
         /\ FreeOf(g) = FreeOf(h) \cup {k}
         /\ \A o \in ItemsOf(g) :
              /\ NextsOf(g)[o] = IF o = k THEN NextsOf(h)[m]
                                 ELSE IF o = m THEN k ELSE NextsOf(h)[o]
              /\ PrevsOf(g)[o] = IF o = k THEN m
                                 ELSE IF o # m /\ o = NextsOf(h)[m] /\ NextsOf(h)[m] # HeapEnd
                                 THEN k ELSE PrevsOf(h)[o]
         /\ g.lfree = h.lfree /\ SameFigures(g, h)
<1>. DEFINE I == h.items
            after == I[m].next
            J == [o \in DOMAIN I \cup {k} |->
                    IF o = k THEN Item(FALSE, after, m)
                    ELSE IF o = m THEN [I[o] EXCEPT !.next = k]
                    ELSE IF o = after /\ after # HeapEnd THEN [I[o] EXCEPT !.prev = k]
                    ELSE I[o]]
<1>1. g = HeapOf(J, h.lfree, h.used_mem, h.max_mem)
  <2>1. PICK i, l, u, x : h = HeapOf(i, l, u, x)
    BY DEF Shape
  <2>2. g = [h EXCEPT !.items = J]
    BY DEF Split
  <2>. HIDE DEF J, I
  <2>3. [HeapOf(i, l, u, x) EXCEPT !.items = J] = HeapOf(J, l, u, x)
    BY DEF HeapOf
  <2>4. g = HeapOf(J, l, u, x)
    BY <2>1, <2>2, <2>3, Zenon
  <2>. QED  BY <2>1, <2>4 DEF HeapOf
<1>2. /\ J[k] = Item(FALSE, after, m)
      /\ \A o \in DOMAIN I :
           J[o] = Item(I[o].used, IF o = m THEN k ELSE I[o].next,
                       IF o # m /\ o = after /\ after # HeapEnd THEN k ELSE I[o].prev)
  <2>1. \A o \in DOMAIN I : I[o] = [used |-> I[o].used, next |-> I[o].next, prev |-> I[o].prev]
    BY DEF Shape, Item, ItemsOf
  <2>2. k \notin DOMAIN I
    BY DEF ItemsOf
  <2>. HIDE DEF I, after
  <2>. QED  BY <2>1, <2>2 DEF Item
<1>3. /\ g.items = J /\ DOMAIN J = DOMAIN I \cup {k}
      /\ g.lfree = h.lfree /\ SameFigures(g, h)
  BY <1>1 DEF HeapOf, SameFigures
<1>4. /\ ~J[k].used /\ J[k].next = after /\ J[k].prev = m
      /\ \A o \in DOMAIN I :
           /\ J[o].used = I[o].used
           /\ J[o].next = IF o = m THEN k ELSE I[o].next
           /\ J[o].prev = IF o # m /\ o = after /\ after # HeapEnd THEN k ELSE I[o].prev
  <2>. HIDE DEF I, J, after
  <2>1. PICK b : b = FALSE /\ J[k] = Item(b, after, m)
    BY <1>2
  <2>2. J[k].used = FALSE /\ J[k].next = after /\ J[k].prev = m
    BY <2>1, ItemFields
  <2>3. ASSUME NEW o \in DOMAIN I
        PROVE  /\ J[o].used = I[o].used
               /\ J[o].next = IF o = m THEN k ELSE I[o].next
               /\ J[o].prev = IF o # m /\ o = after /\ after # HeapEnd THEN k ELSE I[o].prev
    BY <1>2, ItemFields
  <2>. QED  BY <2>2, <2>3, Zenon
<1>5. k \notin DOMAIN I /\ m \in DOMAIN I
  BY DEF ItemsOf
<1>. HIDE DEF J, after
<1>6. Shape(g)
  <2>1. \A o \in DOMAIN J : J[o] = Item(J[o].used, J[o].next, J[o].prev)
    <3>1. \A o \in DOMAIN I : J[o] = Item(J[o].used, J[o].next, J[o].prev)
      BY <1>2, ItemFields
    <3>2. PICK b : J[k] = Item(b, after, m)
      BY <1>2
    <3>3. J[k] = Item(J[k].used, J[k].next, J[k].prev)
      BY <3>2, ItemFields
    <3>. QED  BY <1>3, <3>1, <3>3, Zenon
  <2>2. J = [o \in DOMAIN J |-> J[o]]
    BY DEF J
  <2>. QED  BY <1>1, <1>3, <2>1, <2>2 DEF Shape, ItemsOf, HeapOf
<1>. QED  BY <1>3, <1>4, <1>5, <1>6 DEF ItemsOf, FreeOf, NextsOf, PrevsOf, after

\* Cutting an item into two that both have room for a header leaves a chain.
LEMMA SplitHeap ==
  ASSUME NEW h, Shape(h), ChainOf(h), NEW m \in ItemsOf(h) \ {HeapEnd},
         NEW size \in Nat, NEW k, k = m + Hdr + size, k + Hdr <= NextsOf(h)[m],
         NEW g, g = Split(h, m, size)
  PROVE  /\ Shape(g) /\ ChainOf(g)
         /\ k \in Nat /\ k \notin ItemsOf(h)
         /\ ItemsOf(g) = ItemsOf(h) \cup {k}
         /\ FreeOf(g) = FreeOf(h) \cup {k}
         /\ \A o \in ItemsOf(g) :
              NextsOf(g)[o] = IF o = k THEN NextsOf(h)[m]
                              ELSE IF o = m THEN k ELSE NextsOf(h)[o]
         /\ g.lfree = h.lfree /\ PrevsOf(g)[k] = m
         /\ SameFigures(g, h)
<1>. DEFINE D == ItemsOf(h)
            N == NextsOf(h)
            P == PrevsOf(h)
<1>1. HeapEnd \in Nat /\ Hdr \in Nat \ {0}
  BY HeapAssumption DEF HeapEnd
<1>2. /\ D \subseteq Nat /\ m \in Nat /\ k \in Nat /\ m + Hdr <= k
      /\ N[m] \in Nat /\ \A r \in D : r <= m \/ N[m] <= r
  BY <1>1 DEF ChainOf, Chain
<1>3. k \notin D
  BY <1>1, <1>2
<1>4. /\ Shape(g)
      /\ ItemsOf(g) = D \cup {k}
      /\ FreeOf(g) = FreeOf(h) \cup {k}
      /\ \A o \in ItemsOf(g) :
           /\ NextsOf(g)[o] = IF o = k THEN N[m] ELSE IF o = m THEN k ELSE N[o]
           /\ PrevsOf(g)[o] = IF o = k THEN m
                ELSE IF o # m /\ o = N[m] /\ N[m] # HeapEnd THEN k ELSE P[o]
      /\ g.lfree = h.lfree /\ SameFigures(g, h)
  BY <1>3, SplitEffect
<1>5. /\ NextsOf(g) = [o \in ItemsOf(g) |-> NextsOf(g)[o]]
      /\ PrevsOf(g) = [o \in ItemsOf(g) |-> PrevsOf(g)[o]]
  BY DEF NextsOf, PrevsOf, ItemsOf
<1>6. ChainOf(g)
  <2>1. /\ NextsOf(g) = SplitNexts(D, N, m, k)
        /\ PrevsOf(g) = SplitPrevs(D, N, P, m, k)
    BY <1>4, <1>5 DEF SplitNexts, SplitPrevs
  <2>2. Chain(D \cup {k}, SplitNexts(D, N, m, k), SplitPrevs(D, N, P, m, k))
    BY <1>2, SplitChain DEF ChainOf
  <2>. QED  BY <1>4, <2>1, <2>2 DEF ChainOf
<1>. QED  BY <1>2, <1>3, <1>4, <1>6

\* g differs from h in the used flag of m, in lfree and in the statistics.
Marked(I, m, b) == [I EXCEPT ![m].used = b]
Remarked(g, h, m, b) ==
  /\ g.items = Marked(h.items, m, b)
  /\ g = HeapOf(g.items, g.lfree, g.used_mem, g.max_mem)

\* Setting used of one item leaves the links alone.
LEMMA MarkEffect ==
  ASSUME NEW h, Shape(h), NEW m \in ItemsOf(h), NEW b, NEW g, Remarked(g, h, m, b)
  PROVE  /\ Shape(g) /\ ItemsOf(g) = ItemsOf(h)
         /\ NextsOf(g) = NextsOf(h) /\ PrevsOf(g) = PrevsOf(h)
         /\ g.items[m].used = b
         /\ \A o \in ItemsOf(h) : o # m => g.items[o].used = h.items[o].used
<1>. DEFINE I == h.items
            J == [I EXCEPT ![m].used = b]
<1>1. g.items = J /\ g = HeapOf(J, g.lfree, g.used_mem, g.max_mem)
  BY DEF Remarked, Marked
<1>2. \A o \in DOMAIN I : J[o] = Item(IF o = m THEN b ELSE I[o].used, I[o].next, I[o].prev)
  <2>1. \A o \in DOMAIN I : I[o] = [used |-> I[o].used, next |-> I[o].next, prev |-> I[o].prev]
    BY DEF Shape, Item, ItemsOf
  <2>. HIDE DEF I
  <2>. QED  BY <2>1 DEF Item
<1>3. DOMAIN J = DOMAIN I /\ m \in DOMAIN I /\ J = [o \in DOMAIN I |-> J[o]]
  BY DEF Shape, ItemsOf
<1>. HIDE DEF J
<1>4. \A o \in DOMAIN I : /\ J[o].used = (IF o = m THEN b ELSE I[o].used)
                          /\ J[o].next = I[o].next /\ J[o].prev = I[o].prev
  BY <1>2, ItemFields
<1>5. Shape(g)
  <2>1. \A o \in DOMAIN J : J[o] = Item(J[o].used, J[o].next, J[o].prev)
    BY <1>2, <1>3, ItemFields
  <2>2. J = [o \in DOMAIN J |-> J[o]]
    BY <1>3, Zenon
  <2>. QED  BY <1>1, <2>1, <2>2 DEF Shape, ItemsOf
<1>. QED  BY <1>1, <1>3, <1>4, <1>5 DEF ItemsOf, NextsOf, PrevsOf

\* Marking m used takes it from the free items and changes no link.
LEMMA MarkUsed ==
  ASSUME NEW h, Shape(h), NEW m \in ItemsOf(h), NEW g, Remarked(g, h, m, TRUE)
  PROVE  /\ Shape(g) /\ ItemsOf(g) = ItemsOf(h) /\ FreeOf(g) = FreeOf(h) \ {m}
         /\ NextsOf(g) = NextsOf(h) /\ PrevsOf(g) = PrevsOf(h)
<1>1. PICK b : b = TRUE
  OBVIOUS
<1>2. Remarked(g, h, m, b)
  BY <1>1
<1>3. /\ Shape(g) /\ ItemsOf(g) = ItemsOf(h)
      /\ NextsOf(g) = NextsOf(h) /\ PrevsOf(g) = PrevsOf(h)
      /\ g.items[m].used = b
      /\ \A o \in ItemsOf(h) : o # m => g.items[o].used = h.items[o].used
  BY <1>2, MarkEffect
<1>4. FreeOf(g) = FreeOf(h) \ {m}
  BY <1>1, <1>3 DEF FreeOf, ItemsOf
<1>. QED  BY <1>3, <1>4

\* Marking m free adds it to the free items and changes no link.
LEMMA MarkFree ==
  ASSUME NEW h, Shape(h), NEW m \in ItemsOf(h), NEW g, Remarked(g, h, m, FALSE)
  PROVE  /\ Shape(g) /\ ItemsOf(g) = ItemsOf(h) /\ FreeOf(g) = FreeOf(h) \cup {m}
         /\ NextsOf(g) = NextsOf(h) /\ PrevsOf(g) = PrevsOf(h)
<1>1. PICK b : b = FALSE
  OBVIOUS
<1>2. Remarked(g, h, m, b)
  BY <1>1
<1>3. /\ Shape(g) /\ ItemsOf(g) = ItemsOf(h)
      /\ NextsOf(g) = NextsOf(h) /\ PrevsOf(g) = PrevsOf(h)
      /\ g.items[m].used = b
      /\ \A o \in ItemsOf(h) : o # m => g.items[o].used = h.items[o].used
  BY <1>2, MarkEffect
<1>4. FreeOf(g) = FreeOf(h) \cup {m}
  BY <1>1, <1>3 DEF FreeOf, ItemsOf
<1>. QED  BY <1>3, <1>4

-----------------------------------------------------------------------------
(* plug_holes: whatever was free next to m becomes one item with it.       *)

\* The first half of plug_holes: the freed item m takes in the item behind it if
\* that one is free, so that afterwards only the item before m can touch m.
LEMMA Forward ==
  ASSUME NEW h, Shape(h), ChainOf(h), NEW m \in FreeOf(h), HolesApart(h, {m}),
         LfreeNames(h), NEW g, g = PlugForward(h, m)
  PROVE  /\ Shape(g) /\ ChainOf(g) /\ m \in FreeOf(g) /\ HeapEnd \notin FreeOf(g)
         /\ \A o \in FreeOf(g) : NextsOf(g)[o] \in FreeOf(g) => NextsOf(g)[o] = m
         /\ LfreeNames(g) /\ (LfreeLeast(h) => LfreeLeast(g))
         /\ SameBlocks(g, h) /\ (h.lfree # HeapEnd => g.lfree # HeapEnd)
         /\ SameFigures(g, h)
<1>. DEFINE D == ItemsOf(h)
            F == FreeOf(h)
            N == NextsOf(h)
            n == N[m]
<1>1. HeapEnd \in Nat /\ Hdr \in Nat \ {0}
  BY HeapAssumption DEF HeapEnd
<1>2. /\ D \subseteq Nat /\ F \subseteq D /\ m \in D \ {HeapEnd}
      /\ \A o \in D : N[o] \in D
      /\ \A o \in D \ {HeapEnd} : o < N[o]
  <2>1. D \subseteq Nat /\ F \subseteq D /\ m \in D \ {HeapEnd}
    BY <1>1 DEF ChainOf, Chain, HolesApart, FreeOf, ItemsOf
  <2>2. \A o \in D : N[o] \in D
    BY DEF ChainOf, Chain
  <2>3. \A o \in D \ {HeapEnd} : o + Hdr <= N[o]
    BY DEF ChainOf, Chain
  <2>4. \A o \in D \ {HeapEnd} : o < N[o]
    BY <1>1, <2>1, <2>2, <2>3
  <2>. QED  BY <2>1, <2>2, <2>4
<1>3. h.items[m].next = n /\ (n # HeapEnd => (~h.items[n].used <=> n \in F))
  BY <1>2 DEF ItemsOf, FreeOf, NextsOf
<1>4. CASE n \in F
  <2>1. n # HeapEnd /\ m # n /\ n \in D \ {HeapEnd}
    BY <1>2, <1>4 DEF HolesApart
  <2>2. g = Merge(h, m, n)
    BY <1>3, <1>4, <2>1 DEF PlugForward
  <2>3. /\ Shape(g) /\ ChainOf(g)
        /\ ItemsOf(g) = D \ {n}
        /\ FreeOf(g) = F \ {n}
        /\ \A o \in D \ {n} : NextsOf(g)[o] = IF o = m THEN N[n] ELSE N[o]
        /\ g.lfree = IF h.lfree = n THEN m ELSE h.lfree
        /\ SameFigures(g, h)
    BY <1>2, <2>1, <2>2, MergedHeap
  <2>4. N[n] \notin F
    BY <1>2, <1>4, <2>1 DEF HolesApart
  <2>5. \A o \in FreeOf(g) : NextsOf(g)[o] \in FreeOf(g) => NextsOf(g)[o] = m
    BY <1>2, <2>3, <2>4 DEF HolesApart
  <2>6. LfreeNames(g) /\ (LfreeLeast(h) => LfreeLeast(g))
    BY <1>1, <1>2, <1>4, <2>1, <2>3 DEF LfreeNames, LfreeLeast
  <2>7. SameBlocks(g, h)
    BY <1>4, <2>3 DEF SameBlocks
  <2>. QED  BY <2>1, <2>3, <2>5, <2>6, <2>7 DEF HolesApart
<1>5. CASE n \notin F
  <2>1. g = h
    BY <1>3, <1>5 DEF PlugForward
  <2>. QED  BY <1>5, <2>1 DEF HolesApart, SameBlocks, SameFigures
<1>. QED  BY <1>4, <1>5

\* The second half: the item before m takes m in if it is free.
LEMMA Backward ==
  ASSUME NEW h, Shape(h), ChainOf(h), NEW m \in FreeOf(h), HeapEnd \notin FreeOf(h),
         \A o \in FreeOf(h) : NextsOf(h)[o] \in FreeOf(h) => NextsOf(h)[o] = m,
         LfreeNames(h), NEW g, g = PlugBackward(h, m)
  PROVE  /\ Shape(g) /\ ChainOf(g) /\ HolesApart(g, {})
         /\ LfreeNames(g) /\ (LfreeLeast(h) => LfreeLeast(g))
         /\ SameBlocks(g, h) /\ (h.lfree # HeapEnd => g.lfree # HeapEnd)
         /\ SameFigures(g, h)
<1>. DEFINE D == ItemsOf(h)
            F == FreeOf(h)
            N == NextsOf(h)
            P == PrevsOf(h)
            p == P[m]
<1>1. HeapEnd \in Nat /\ Hdr \in Nat \ {0}
  BY HeapAssumption DEF HeapEnd
<1>2. /\ D \subseteq Nat /\ F \subseteq D /\ m \in D \ {HeapEnd}
      /\ \A o \in D : N[o] \in D
      /\ \A o \in D \ {HeapEnd} : o < N[o]
  <2>1. D \subseteq Nat /\ F \subseteq D /\ m \in D \ {HeapEnd}
    BY <1>1 DEF ChainOf, Chain, FreeOf, ItemsOf
  <2>2. \A o \in D : N[o] \in D
    BY DEF ChainOf, Chain
  <2>3. \A o \in D \ {HeapEnd} : o + Hdr <= N[o]
    BY DEF ChainOf, Chain
  <2>4. \A o \in D \ {HeapEnd} : o < N[o]
    BY <1>1, <2>1, <2>2, <2>3
  <2>. QED  BY <2>1, <2>2, <2>4
<1>3. h.items[m].prev = p /\ (p \in D => (~h.items[p].used <=> p \in F))
  BY <1>2 DEF ItemsOf, FreeOf, PrevsOf
<1>4. m = 0 => p = m
  BY DEF ChainOf, Chain
<1>5. m # 0 => p \in D \ {HeapEnd} /\ N[p] = m /\ p # m
  BY <1>2 DEF ChainOf, Chain
<1>6. CASE m # 0 /\ p \in F
  <2>1. g = Merge(h, p, m)
    BY <1>3, <1>5, <1>6 DEF PlugBackward
  <2>2. /\ Shape(g) /\ ChainOf(g)
        /\ ItemsOf(g) = D \ {m}
        /\ FreeOf(g) = F \ {m}
        /\ \A o \in D \ {m} : NextsOf(g)[o] = IF o = p THEN N[m] ELSE N[o]
        /\ g.lfree = IF h.lfree = m THEN p ELSE h.lfree
        /\ SameFigures(g, h)
    BY <1>2, <1>5, <1>6, <2>1, MergedHeap
  <2>3. N[m] \notin F
    BY <1>2
  <2>4. HolesApart(g, {})
    BY <1>2, <2>2, <2>3 DEF HolesApart
  <2>5. LfreeNames(g) /\ (LfreeLeast(h) => LfreeLeast(g))
    BY <1>1, <1>2, <1>5, <1>6, <2>2 DEF LfreeNames, LfreeLeast
  <2>6. SameBlocks(g, h)
    BY <1>2, <1>6, <2>2 DEF SameBlocks
  <2>. QED  BY <1>5, <1>6, <2>2, <2>4, <2>5, <2>6
<1>7. CASE ~ (m # 0 /\ p \in F)
  <2>1. g = h
    BY <1>3, <1>4, <1>5, <1>7 DEF PlugBackward
  <2>2. \A o \in F : N[o] # m
    BY <1>1, <1>2, <1>5, <1>7 DEF ChainOf, Chain
  <2>. QED  BY <2>1, <2>2 DEF HolesApart, SameBlocks, SameFigures
<1>. QED  BY <1>6, <1>7

\* plug_holes for a freed item m whose neighbours may be free on both sides:
\* afterwards no two free items are neighbours.
LEMMA PluggedHeap ==
  ASSUME NEW h, Shape(h), ChainOf(h), NEW m \in FreeOf(h), HolesApart(h, {m}),
         LfreeNames(h), NEW g, g = PlugHoles(h, m)
  PROVE  /\ Shape(g) /\ ChainOf(g) /\ HolesApart(g, {})
         /\ LfreeNames(g) /\ (LfreeLeast(h) => LfreeLeast(g))
         /\ SameBlocks(g, h) /\ (h.lfree # HeapEnd => g.lfree # HeapEnd)
         /\ SameFigures(g, h)
<1>. DEFINE f == PlugForward(h, m)
<1>1. /\ Shape(f) /\ ChainOf(f) /\ m \in FreeOf(f) /\ HeapEnd \notin FreeOf(f)
      /\ \A o \in FreeOf(f) : NextsOf(f)[o] \in FreeOf(f) => NextsOf(f)[o] = m
      /\ LfreeNames(f) /\ (LfreeLeast(h) => LfreeLeast(f))
      /\ SameBlocks(f, h) /\ (h.lfree # HeapEnd => f.lfree # HeapEnd)
      /\ SameFigures(f, h)
  BY Forward
<1>2. g = PlugBackward(f, m)
  BY DEF PlugHoles
<1>. HIDE DEF f
<1>3. /\ Shape(g) /\ ChainOf(g) /\ HolesApart(g, {})
      /\ LfreeNames(g) /\ (LfreeLeast(f) => LfreeLeast(g))
      /\ SameBlocks(g, f) /\ (f.lfree # HeapEnd => g.lfree # HeapEnd)
      /\ SameFigures(g, f)
  BY <1>1, <1>2, Backward
<1>. QED  BY <1>1, <1>3 DEF SameBlocks, SameFigures

-----------------------------------------------------------------------------
(* rt_malloc behind the search, and the search itself.                     *)

\* What the search finds is free and has the room that was asked for.
LEMMA FirstFitRoom ==
  ASSUME NEW h, Shape(h), ChainOf(h), NEW size \in Nat,
         NEW m, m = FirstFit(h, size), m # Null
  PROVE  m \in FreeOf(h) /\ m \in Nat /\ m + Hdr + size <= NextsOf(h)[m]
<1>. DEFINE fit == {o \in DOMAIN h.items :
                      /\ h.lfree <= o /\ o < MemSize - size
                      /\ ~h.items[o].used /\ Room(h, o) >= size}
<1>1. HeapEnd \in Nat /\ Hdr \in Nat \ {0}
  BY HeapAssumption DEF HeapEnd
<1>2. fit # {} /\ m = Min(fit)
  BY DEF FirstFit
<1>3. ItemsOf(h) \subseteq Nat /\ fit \subseteq Nat
  BY <1>1 DEF ChainOf, Chain, ItemsOf
<1>4. m \in fit
  BY <1>2, <1>3, MinOfNats
<1>5. m \in Nat /\ m \in ItemsOf(h) /\ NextsOf(h)[m] \in Nat
  BY <1>3, <1>4 DEF ChainOf, Chain, ItemsOf
<1>6. NextsOf(h)[m] - (m + Hdr) >= size
  BY <1>4 DEF Room, NextsOf
<1>. QED  BY <1>1, <1>4, <1>5, <1>6 DEF FreeOf

\* NextFree stops at the first free item, and there is always the end to stop at.
LEMMA NextFreeLeast ==
  ASSUME NEW h, ChainOf(h), NEW m \in ItemsOf(h), NEW l, l = NextFree(h, m)
  PROVE  /\ l \in FreeOf(h) \cup {HeapEnd}
         /\ \A o \in FreeOf(h) : m <= o => l <= o
<1>. DEFINE S == {p \in DOMAIN h.items : m <= p /\ (~h.items[p].used \/ p = HeapEnd)}
<1>1. ItemsOf(h) \subseteq Nat /\ HeapEnd \in ItemsOf(h) /\ m <= HeapEnd
  BY HeapAssumption DEF HeapEnd, ChainOf, Chain
<1>2. S \subseteq Nat /\ HeapEnd \in S
  BY <1>1 DEF ItemsOf
<1>3. l \in S /\ \A o \in S : l <= o
  BY <1>2, MinOfNats DEF NextFree
<1>. QED  BY <1>3 DEF FreeOf

\* What the item m is when it is taken, cut or whole.
LEMMA CutHeap ==
  ASSUME NEW h, Shape(h), ChainOf(h), HolesApart(h, {}), LfreeNames(h),
         NEW m \in FreeOf(h), NEW size \in Nat, m + Hdr + size <= NextsOf(h)[m],
         NEW s, s = IF Room(h, m) >= size + Hdr + MinSize THEN Split(h, m, size) ELSE h
  PROVE  /\ Shape(s) /\ ChainOf(s) /\ m \in FreeOf(s)
         /\ HeapEnd \notin FreeOf(s)
         /\ \A o \in FreeOf(s) : NextsOf(s)[o] \in FreeOf(s) => o = m
         /\ s.lfree = h.lfree /\ FreeOf(h) \subseteq FreeOf(s)
         /\ \A o \in FreeOf(s) : o \in FreeOf(h) \/ m < o
         /\ SameBlocks(s, h) /\ m + Hdr + size <= NextsOf(s)[m]
         /\ SameFigures(s, h)
         /\ NextsOf(s)[m] - m = IF Room(h, m) >= size + Hdr + MinSize
                               THEN size + Hdr ELSE Whole(h, m)
<1>. DEFINE k == m + Hdr + size
<1>1. {Hdr, MinSize} \subseteq Nat \ {0} /\ HeapEnd \in Nat
  BY HeapAssumption DEF HeapEnd
<1>2. /\ m \in ItemsOf(h) \ {HeapEnd} /\ m \in Nat /\ k \in Nat
      /\ FreeOf(h) \subseteq ItemsOf(h) /\ NextsOf(h)[m] \in Nat
  BY <1>1 DEF ChainOf, Chain, FreeOf, ItemsOf, HolesApart
<1>3. CASE Room(h, m) >= size + Hdr + MinSize
  <2>1. k + Hdr <= NextsOf(h)[m]
    BY <1>1, <1>2, <1>3 DEF Room, NextsOf, ItemsOf
  <2>2. s = Split(h, m, size)
    BY <1>3
  <2>3. /\ Shape(s) /\ ChainOf(s)
        /\ k \in Nat /\ k \notin ItemsOf(h)
        /\ ItemsOf(s) = ItemsOf(h) \cup {k}
        /\ FreeOf(s) = FreeOf(h) \cup {k}
        /\ \A o \in ItemsOf(s) :
             NextsOf(s)[o] = IF o = k THEN NextsOf(h)[m]
                             ELSE IF o = m THEN k ELSE NextsOf(h)[o]
        /\ s.lfree = h.lfree /\ SameFigures(s, h)
    BY <1>2, <2>1, <2>2, SplitHeap
  <2>4. HeapEnd \in ItemsOf(h) /\ \A o \in ItemsOf(h) : NextsOf(h)[o] \in ItemsOf(h)
    BY DEF ChainOf, Chain
  <2>5. HeapEnd \notin FreeOf(s) /\ k # m /\ m < k
    BY <1>1, <1>2, <2>3, <2>4 DEF HolesApart
  <2>6. \A o \in FreeOf(s) : NextsOf(s)[o] \in FreeOf(s) => o = m
    BY <1>2, <2>3, <2>4, <2>5 DEF HolesApart
  <2>7. SameBlocks(s, h)
    BY <1>2, <2>3 DEF SameBlocks
  <2>8. m + Hdr + size <= NextsOf(s)[m]
    BY <1>2, <2>3, <2>5
  <2>9. NextsOf(s)[m] - m = size + Hdr
    BY <1>1, <1>2, <2>3, <2>5
  <2>. QED  BY <1>3, <2>3, <2>5, <2>6, <2>7, <2>8, <2>9
<1>4. CASE ~ (Room(h, m) >= size + Hdr + MinSize)
  <2>1. s = h /\ NextsOf(h)[m] - m = Whole(h, m)
    BY <1>2, <1>4 DEF Whole, NextsOf, ItemsOf
  <2>. QED  BY <1>4, <2>1 DEF HolesApart, SameBlocks, SameFigures
<1>. QED  BY <1>3, <1>4

\* rt_malloc behind the search: m joins the items in use and lfree moves on.
LEMMA TakenHeap ==
  ASSUME NEW h, Shape(h), ChainOf(h), HolesApart(h, {}), LfreeNames(h),
         NEW m \in FreeOf(h), NEW size \in Nat, m + Hdr + size <= NextsOf(h)[m],
         NEW g, g = Take(h, m, size)
  PROVE  /\ Shape(g) /\ ChainOf(g) /\ HolesApart(g, {})
         /\ LfreeNames(g) /\ (LfreeLeast(h) => LfreeLeast(g))
         /\ ItemsOf(g) \ FreeOf(g) = (ItemsOf(h) \ FreeOf(h)) \cup {m}
         /\ \A o \in ItemsOf(h) \ FreeOf(h) : NextsOf(g)[o] = NextsOf(h)[o]
         /\ m + Hdr + size <= NextsOf(g)[m]
         /\ g.used_mem = h.used_mem + (NextsOf(g)[m] - m)
         /\ g.max_mem = Larger(h.max_mem, g.used_mem)
<1>. DEFINE cut == Room(h, m) >= size + Hdr + MinSize
            s == IF cut THEN Split(h, m, size) ELSE h
            added == IF cut THEN size + Hdr ELSE Whole(h, m)
            t == [s EXCEPT !.items[m].used = TRUE, !.used_mem = @ + added]
            u == [t EXCEPT !.max_mem = Larger(@, t.used_mem)]
<1>1. HeapEnd \in Nat /\ HeapEnd \in ItemsOf(h)
  BY HeapAssumption DEF HeapEnd, ChainOf, Chain
<1>2. /\ Shape(s) /\ ChainOf(s) /\ m \in FreeOf(s)
      /\ HeapEnd \notin FreeOf(s)
      /\ \A o \in FreeOf(s) : NextsOf(s)[o] \in FreeOf(s) => o = m
      /\ s.lfree = h.lfree /\ FreeOf(h) \subseteq FreeOf(s)
      /\ \A o \in FreeOf(s) : o \in FreeOf(h) \/ m < o
      /\ SameBlocks(s, h) /\ m + Hdr + size <= NextsOf(s)[m]
      /\ SameFigures(s, h) /\ NextsOf(s)[m] - m = added
  BY CutHeap
<1>3. g = IF m = u.lfree THEN [u EXCEPT !.lfree = NextFree(u, m)] ELSE u
  BY DEF Take
<1>. HIDE DEF s, added
<1>4. PICK I, l, v, x : /\ s = HeapOf(I, l, v, x) /\ s.items = I /\ s.lfree = l
                       /\ s.used_mem = v /\ s.max_mem = x
  BY <1>2 DEF Shape, HeapOf
<1>. DEFINE J == Marked(I, m, TRUE)
<1>5. \E w, y : u = HeapOf(J, l, w, y) /\ w = v + added /\ y = Larger(x, w)
  <2>1. t = [[s EXCEPT !.items = J] EXCEPT !.used_mem = v + added]
    BY <1>4 DEF HeapOf, Marked
  <2>. HIDE DEF J
  <2>2. [HeapOf(I, l, v, x) EXCEPT !.items = J] = HeapOf(J, l, v, x)
    BY DEF HeapOf
  <2>3. [HeapOf(J, l, v, x) EXCEPT !.used_mem = v + added] = HeapOf(J, l, v + added, x)
    BY DEF HeapOf
  <2>4. t = HeapOf(J, l, v + added, x)
    BY <1>4, <2>1, <2>2, <2>3, Zenon
  <2>. HIDE DEF t
  <2>. DEFINE y == Larger(x, t.used_mem)
  <2>5. u = [t EXCEPT !.max_mem = y]
    BY <2>4 DEF HeapOf
  <2>. HIDE DEF y
  <2>6. [HeapOf(J, l, v + added, x) EXCEPT !.max_mem = y] = HeapOf(J, l, v + added, y)
    BY DEF HeapOf
  <2>7. u = HeapOf(J, l, v + added, y)
    BY <2>4, <2>5, <2>6, Zenon
  <2>8. t.used_mem = v + added
    BY <2>4 DEF HeapOf
  <2>. QED  BY <2>7, <2>8 DEF y
<1>. HIDE DEF u
<1>6. PICK w, y : u = HeapOf(J, l, w, y) /\ w = v + added /\ y = Larger(x, w)
  BY <1>5
<1>7. m \in ItemsOf(s) /\ FreeOf(s) \subseteq ItemsOf(s) /\ ItemsOf(s) \subseteq Nat
      /\ m \in Nat
  BY <1>1, <1>2 DEF FreeOf, ItemsOf, ChainOf, Chain
<1>8. /\ ItemsOf(u) = ItemsOf(s) /\ FreeOf(u) = FreeOf(s) \ {m}
      /\ NextsOf(u) = NextsOf(s) /\ PrevsOf(u) = PrevsOf(s) /\ u.lfree = l
  <2>1. u.lfree = l /\ Remarked(u, s, m, TRUE)
    BY <1>4, <1>6 DEF Remarked, HeapOf
  <2>. QED  BY <1>2, <1>7, <2>1, MarkUsed
<1>9. ChainOf(u)
  BY <1>2, <1>8 DEF ChainOf
<1>. DEFINE n == IF m = l THEN NextFree(u, m) ELSE l
<1>10. g = HeapOf(J, n, w, y)
  <2>. HIDE DEF J
  <2>1. CASE m = l
    <3>. HIDE DEF n
    <3>1. [HeapOf(J, l, w, y) EXCEPT !.lfree = n] = HeapOf(J, n, w, y)
      BY DEF HeapOf
    <3>2. g = [u EXCEPT !.lfree = n]
      BY <1>3, <1>8, <2>1 DEF n
    <3>. QED  BY <1>6, <3>1, <3>2, Zenon
  <2>2. CASE m # l
    BY <1>3, <1>6, <1>8, <2>2
  <2>. QED  BY <2>1, <2>2
<1>11. /\ Shape(g) /\ ItemsOf(g) = ItemsOf(s) /\ FreeOf(g) = FreeOf(s) \ {m}
       /\ NextsOf(g) = NextsOf(s) /\ PrevsOf(g) = PrevsOf(s) /\ g.lfree = n
  <2>. HIDE DEF n
  <2>1. g.lfree = n /\ Remarked(g, s, m, TRUE)
    BY <1>4, <1>10 DEF Remarked, HeapOf
  <2>. QED  BY <1>2, <1>7, <2>1, MarkUsed
<1>12. ChainOf(g) /\ HolesApart(g, {})
  BY <1>2, <1>11 DEF ChainOf, HolesApart
<1>13. LfreeNames(g) /\ (LfreeLeast(h) => LfreeLeast(g))
  <2>1. CASE m = l
    <3>1. n \in FreeOf(u) \cup {HeapEnd} /\ \A o \in FreeOf(u) : m <= o => n <= o
      BY <1>7, <1>8, <1>9, <2>1, NextFreeLeast
    <3>. QED  BY <1>2, <1>4, <1>7, <1>8, <1>11, <2>1, <3>1 DEF LfreeNames, LfreeLeast
  <2>2. CASE m # l
    BY <1>1, <1>2, <1>4, <1>7, <1>11, <2>2 DEF LfreeNames, LfreeLeast
  <2>. QED  BY <2>1, <2>2
<1>14. /\ ItemsOf(g) \ FreeOf(g) = (ItemsOf(h) \ FreeOf(h)) \cup {m}
       /\ \A o \in ItemsOf(h) \ FreeOf(h) : NextsOf(g)[o] = NextsOf(h)[o]
       /\ m + Hdr + size <= NextsOf(g)[m]
  BY <1>2, <1>7, <1>11 DEF SameBlocks
<1>15. /\ g.used_mem = h.used_mem + (NextsOf(g)[m] - m)
       /\ g.max_mem = Larger(h.max_mem, g.used_mem)
  <2>1. g.used_mem = w /\ g.max_mem = y
    BY <1>10 DEF HeapOf
  <2>2. h.used_mem = v /\ h.max_mem = x
    BY <1>2, <1>4 DEF SameFigures
  <2>. QED  BY <1>2, <1>6, <1>11, <2>1, <2>2
<1>. QED  BY <1>11, <1>12, <1>13, <1>14, <1>15

-----------------------------------------------------------------------------
(* rt_free, and the in-place split of rt_realloc.                          *)

\* rt_free: m leaves the items in use, and lfree is lowered to it.
LEMMA FreedHeap ==
  ASSUME NEW h, Shape(h), ChainOf(h), HolesApart(h, {}), LfreeNames(h),
         NEW m \in ItemsOf(h) \ FreeOf(h), m # HeapEnd, NEW g, g = Freed(h, m)
  PROVE  /\ Shape(g) /\ ChainOf(g) /\ HolesApart(g, {})
         /\ LfreeNames(g) /\ (LfreeLeast(h) => LfreeLeast(g))
         /\ g.lfree # HeapEnd
         /\ ItemsOf(g) \ FreeOf(g) = (ItemsOf(h) \ FreeOf(h)) \ {m}
         /\ \A o \in (ItemsOf(h) \ FreeOf(h)) \ {m} : NextsOf(g)[o] = NextsOf(h)[o]
         /\ g.used_mem = h.used_mem - (NextsOf(h)[m] - m)
         /\ g.max_mem = h.max_mem
<1>. DEFINE f == [h EXCEPT !.items[m].used = FALSE,
                           !.lfree = IF m < @ THEN m ELSE @,
                           !.used_mem = @ - Whole(h, m)]
<1>1. g = PlugHoles(f, m)
  BY DEF Freed
<1>2. /\ Remarked(f, h, m, FALSE) /\ f.lfree = IF m < h.lfree THEN m ELSE h.lfree
      /\ f.used_mem = h.used_mem - Whole(h, m) /\ f.max_mem = h.max_mem
  <2>1. PICK I, l, v, x : /\ h = HeapOf(I, l, v, x) /\ h.items = I /\ h.lfree = l
                         /\ h.used_mem = v /\ h.max_mem = x
    BY DEF Shape, HeapOf
  <2>. DEFINE J == Marked(I, m, FALSE)
              n == IF m < l THEN m ELSE l
              w == v - Whole(h, m)
  <2>2. f = [[[h EXCEPT !.items = J] EXCEPT !.lfree = n] EXCEPT !.used_mem = w]
    BY <2>1 DEF Marked
  <2>. HIDE DEF J, n, w, f
  <2>3. [HeapOf(I, l, v, x) EXCEPT !.items = J] = HeapOf(J, l, v, x)
    BY DEF HeapOf
  <2>4. [HeapOf(J, l, v, x) EXCEPT !.lfree = n] = HeapOf(J, n, v, x)
    BY DEF HeapOf
  <2>5. [HeapOf(J, n, v, x) EXCEPT !.used_mem = w] = HeapOf(J, n, w, x)
    BY DEF HeapOf
  <2>6. f = HeapOf(J, n, w, x)
    BY <2>1, <2>2, <2>3, <2>4, <2>5, Zenon
  <2>. QED  BY <2>1, <2>6 DEF Remarked, HeapOf, J, n, w
<1>. HIDE DEF f
<1>3. /\ Shape(f) /\ ItemsOf(f) = ItemsOf(h) /\ FreeOf(f) = FreeOf(h) \cup {m}
      /\ NextsOf(f) = NextsOf(h) /\ PrevsOf(f) = PrevsOf(h)
  BY <1>2, MarkFree
<1>4. ChainOf(f) /\ m \in FreeOf(f)
  BY <1>3 DEF ChainOf
<1>5. HolesApart(f, {m})
  BY <1>3 DEF HolesApart
<1>6. LfreeNames(f) /\ (LfreeLeast(h) => LfreeLeast(f)) /\ f.lfree # HeapEnd
  <2>1. m <= HeapEnd /\ m \in Nat /\ h.lfree \in Nat /\ FreeOf(h) \subseteq Nat
    BY HeapAssumption DEF ChainOf, Chain, LfreeNames, FreeOf, ItemsOf, HeapEnd
  <2>. QED  BY <1>2, <1>3, <2>1 DEF LfreeNames, LfreeLeast
<1>7. /\ Shape(g) /\ ChainOf(g) /\ HolesApart(g, {})
      /\ LfreeNames(g) /\ (LfreeLeast(f) => LfreeLeast(g))
      /\ SameBlocks(g, f) /\ (f.lfree # HeapEnd => g.lfree # HeapEnd)
      /\ SameFigures(g, f)
  BY <1>1, <1>3, <1>4, <1>5, <1>6, PluggedHeap
<1>8. Whole(h, m) = NextsOf(h)[m] - m
  BY DEF Whole, NextsOf, ItemsOf
<1>. QED  BY <1>2, <1>3, <1>6, <1>7, <1>8 DEF SameBlocks, SameFigures

\* The in-place split of rt_realloc: m keeps size bytes, the rest joins the holes.
\* lfree need not be the lowest free item any more.
LEMMA ShrunkHeap ==
  ASSUME NEW h, Shape(h), ChainOf(h), HolesApart(h, {}), LfreeNames(h),
         NEW m \in ItemsOf(h) \ FreeOf(h), m # HeapEnd,
         NEW size \in Nat, m + Hdr + size + Hdr <= NextsOf(h)[m],
         NEW g, g = Shrunk(h, m, size)
  PROVE  /\ Shape(g) /\ ChainOf(g) /\ HolesApart(g, {})
         /\ LfreeNames(g)
         /\ ItemsOf(g) \ FreeOf(g) = ItemsOf(h) \ FreeOf(h)
         /\ \A o \in (ItemsOf(h) \ FreeOf(h)) \ {m} : NextsOf(g)[o] = NextsOf(h)[o]
         /\ NextsOf(g)[m] = m + Hdr + size
         /\ g.used_mem = h.used_mem - (Room(h, m) - size)
         /\ g.max_mem = h.max_mem
<1>. DEFINE k == m + Hdr + size
            s == Split(h, m, size)
            w == s.used_mem - (Room(h, m) - size)
            f == [s EXCEPT !.used_mem = w]
<1>1. g = PlugHoles(f, k)
  BY DEF Shrunk
<1>2. /\ Shape(s) /\ ChainOf(s)
      /\ k \in Nat /\ k \notin ItemsOf(h)
      /\ ItemsOf(s) = ItemsOf(h) \cup {k}
      /\ FreeOf(s) = FreeOf(h) \cup {k}
      /\ \A o \in ItemsOf(s) :
           NextsOf(s)[o] = IF o = k THEN NextsOf(h)[m]
                           ELSE IF o = m THEN k ELSE NextsOf(h)[o]
      /\ s.lfree = h.lfree /\ SameFigures(s, h)
  BY SplitHeap
<1>. HIDE DEF s, w
<1>3. /\ f.items = s.items /\ f.lfree = s.lfree
      /\ f = HeapOf(s.items, f.lfree, f.used_mem, f.max_mem)
      /\ f.used_mem = w /\ f.max_mem = s.max_mem
  <2>1. PICK I, l, v, x : s = HeapOf(I, l, v, x)
    BY <1>2 DEF Shape
  <2>2. [HeapOf(I, l, v, x) EXCEPT !.used_mem = w] = HeapOf(I, l, w, x)
    BY DEF HeapOf
  <2>3. f = HeapOf(I, l, w, x)
    BY <2>1, <2>2, Zenon
  <2>. HIDE DEF f
  <2>. QED  BY <2>1, <2>3 DEF HeapOf
<1>. HIDE DEF f
<1>4. /\ Shape(f) /\ ItemsOf(f) = ItemsOf(s) /\ FreeOf(f) = FreeOf(s)
      /\ NextsOf(f) = NextsOf(s) /\ PrevsOf(f) = PrevsOf(s)
  BY <1>2, <1>3 DEF Shape, ItemsOf, FreeOf, NextsOf, PrevsOf
<1>5. ChainOf(f) /\ k \in FreeOf(f) /\ LfreeNames(f)
  BY <1>2, <1>3, <1>4 DEF ChainOf, LfreeNames
<1>6. HeapEnd \in ItemsOf(h) /\ FreeOf(h) \subseteq ItemsOf(h) /\ k # m
  BY <1>2 DEF ChainOf, Chain, FreeOf, ItemsOf
<1>7. HolesApart(f, {k})
  BY <1>2, <1>4, <1>6 DEF HolesApart
<1>. HIDE DEF k
<1>8. /\ Shape(g) /\ ChainOf(g) /\ HolesApart(g, {}) /\ LfreeNames(g)
      /\ SameBlocks(g, f) /\ SameFigures(g, f)
  BY <1>1, <1>4, <1>5, <1>7, PluggedHeap
<1>9. /\ ItemsOf(g) \ FreeOf(g) = ItemsOf(h) \ FreeOf(h)
      /\ \A o \in ItemsOf(h) \ FreeOf(h) : NextsOf(g)[o] = NextsOf(s)[o]
  BY <1>2, <1>4, <1>8 DEF SameBlocks
<1>. QED  BY <1>2, <1>3, <1>6, <1>8, <1>9 DEF k, w, SameFigures
-----------------------------------------------------------------------------
(* The initial heap, and one lemma for each call.                          *)

\* The heap of rt_system_heap_init: one free item and the end.
LEMMA InitialHeap == HeapInit => HeapInv
<1>. SUFFICES ASSUME HeapInit PROVE HeapInv
  OBVIOUS
<1>. DEFINE I == [o \in {0, HeapEnd} |->
                    IF o = 0 THEN Item(FALSE, HeapEnd, 0)
                             ELSE Item(TRUE, HeapEnd, HeapEnd)]
<1>1. HeapEnd \in Nat /\ HeapEnd # 0 /\ Hdr \in Nat /\ Hdr <= HeapEnd
  BY HeapAssumption DEF HeapEnd
<1>2. /\ I[0] = Item(FALSE, HeapEnd, 0) /\ I[HeapEnd] = Item(TRUE, HeapEnd, HeapEnd)
      /\ DOMAIN I = {0, HeapEnd} /\ I = [o \in {0, HeapEnd} |-> I[o]]
  BY <1>1
<1>. HIDE DEF I
<1>3. heap = HeapOf(I, 0, 0, 0) /\ heap.items = I /\ heap.lfree = 0
  BY DEF HeapInit, HeapOf, I
<1>4. /\ ~I[0].used /\ I[0].next = HeapEnd /\ I[0].prev = 0
      /\ I[HeapEnd].used /\ I[HeapEnd].next = HeapEnd /\ I[HeapEnd].prev = HeapEnd
  BY <1>2 DEF Item
<1>5. Shape(heap)
  <2>1. I[0] = Item(I[0].used, I[0].next, I[0].prev)
    BY <1>2, ItemFields
  <2>2. I[HeapEnd] = Item(I[HeapEnd].used, I[HeapEnd].next, I[HeapEnd].prev)
    BY <1>2, ItemFields
  <2>3. heap = HeapOf(heap.items, heap.lfree, heap.used_mem, heap.max_mem)
    BY <1>3 DEF HeapOf
  <2>. QED  BY <1>2, <1>3, <2>1, <2>2, <2>3 DEF Shape, ItemsOf
<1>6. /\ ItemsOf(heap) = {0, HeapEnd} /\ FreeOf(heap) = {0}
      /\ NextsOf(heap)[0] = HeapEnd /\ NextsOf(heap)[HeapEnd] = HeapEnd
      /\ PrevsOf(heap)[0] = 0 /\ PrevsOf(heap)[HeapEnd] = HeapEnd
      /\ NextsOf(heap) = [o \in {0, HeapEnd} |-> NextsOf(heap)[o]]
      /\ PrevsOf(heap) = [o \in {0, HeapEnd} |-> PrevsOf(heap)[o]]
  BY <1>1, <1>2, <1>3, <1>4 DEF ItemsOf, FreeOf, NextsOf, PrevsOf
<1>7. ChainOf(heap)
  BY <1>1, <1>6 DEF ChainOf, Chain
<1>8. HolesApart(heap, {}) /\ LfreeNames(heap) /\ LfreeLeast(heap)
  BY <1>1, <1>3, <1>6 DEF HolesApart, LfreeNames, LfreeLeast
<1>9. owned = << >> /\ shrunk = FALSE
  BY DEF HeapInit
<1>10. Blocks(heap, owned)
  BY <1>6, <1>9 DEF Blocks
<1>. QED  BY <1>5, <1>7, <1>8, <1>9, <1>10 DEF HeapInv

\* What rt_malloc asks the search for is enough, and the search finds it.
LEMMA Placed ==
  ASSUME HeapInv, NEW n \in Requests, NEW m, m = Place(heap, n), m # Null
  PROVE  LET size == Larger(Aligned(n), MinSize) IN
         /\ size \in Nat /\ n \in Nat /\ n <= size
         /\ m \in FreeOf(heap) /\ m \in Nat
         /\ m + Hdr + size <= NextsOf(heap)[m]
         /\ Allocated(heap, n) = Take(heap, m, size)
<1>. DEFINE size == Larger(Aligned(n), MinSize)
<1>1. n \in Nat /\ MinSize \in Nat
  BY HeapAssumption
<1>2. size \in Nat /\ n <= size
  BY <1>1, AlignedUp DEF Larger
<1>3. m = FirstFit(heap, size)
  BY DEF Place
<1>4. Allocated(heap, n) = Take(heap, m, size)
  BY DEF Allocated
<1>. HIDE DEF size
<1>5. m \in FreeOf(heap) /\ m \in Nat /\ m + Hdr + size <= NextsOf(heap)[m]
  BY <1>2, <1>3, FirstFitRoom DEF HeapInv
<1>. QED  BY <1>1, <1>2, <1>4, <1>5 DEF size

\* The heap after an allocation, with the request for it among the blocks g.
LEMMA AllocatedHeap ==
  ASSUME HeapInv, NEW n \in Requests, NEW m, m = Place(heap, n), m # Null,
         NEW h, h = Allocated(heap, n), NEW g, g = With(m, n)
  PROVE  /\ Shape(h) /\ ChainOf(h) /\ HolesApart(h, {}) /\ LfreeNames(h)
         /\ (LfreeLeast(heap) => LfreeLeast(h))
         /\ Blocks(h, g) /\ m \notin DOMAIN owned /\ m \in DOMAIN g
<1>. DEFINE size == Larger(Aligned(n), MinSize)
<1>1. /\ size \in Nat /\ n \in Nat /\ n <= size
      /\ m \in FreeOf(heap) /\ m \in Nat
      /\ m + Hdr + size <= NextsOf(heap)[m]
      /\ h = Take(heap, m, size)
  BY Placed
<1>. HIDE DEF size
<1>2. /\ Shape(h) /\ ChainOf(h) /\ HolesApart(h, {})
      /\ LfreeNames(h) /\ (LfreeLeast(heap) => LfreeLeast(h))
      /\ ItemsOf(h) \ FreeOf(h) = (ItemsOf(heap) \ FreeOf(heap)) \cup {m}
      /\ \A o \in ItemsOf(heap) \ FreeOf(heap) : NextsOf(h)[o] = NextsOf(heap)[o]
      /\ m + Hdr + size <= NextsOf(h)[m]
  BY <1>1, TakenHeap DEF HeapInv
<1>3. /\ owned \in [ItemsOf(heap) \ (FreeOf(heap) \cup {HeapEnd}) -> Requests]
      /\ \A o \in DOMAIN owned : o + Hdr + owned[o] <= NextsOf(heap)[o]
  BY DEF HeapInv, Blocks
<1>4. m # HeapEnd
  BY <1>1 DEF HeapInv, HolesApart
<1>5. m \notin DOMAIN owned
  BY <1>1, <1>3
<1>6. /\ g = [o \in DOMAIN owned \cup {m} |-> IF o = m THEN n ELSE owned[o]]
      /\ DOMAIN g = DOMAIN owned \cup {m}
  BY DEF With
<1>7. g \in [ItemsOf(h) \ (FreeOf(h) \cup {HeapEnd}) -> Requests]
  BY <1>2, <1>3, <1>4, <1>6
<1>8. ASSUME NEW o \in DOMAIN g  PROVE o + Hdr + g[o] <= NextsOf(h)[o]
  <2>1. CASE o = m
    <3>1. g[o] = n /\ Hdr \in Nat /\ NextsOf(h)[m] \in 0..HeapEnd
      BY <1>1, <1>2, <1>6, <2>1, HeapAssumption DEF ChainOf, Chain, HeapEnd
    <3>. QED  BY <1>1, <1>2, <2>1, <3>1
  <2>2. CASE o # m
    BY <1>2, <1>3, <1>6, <2>2
  <2>. QED  BY <2>1, <2>2
<1>. QED  BY <1>2, <1>5, <1>6, <1>7, <1>8 DEF Blocks

\* The heap after a block is freed, and the blocks g but that one.
LEMMA DroppedHeap ==
  ASSUME NEW h, Shape(h), ChainOf(h), HolesApart(h, {}), LfreeNames(h),
         NEW g, Blocks(h, g), NEW m \in DOMAIN g, NEW f, f = Freed(h, m)
  PROVE  /\ Shape(f) /\ ChainOf(f) /\ HolesApart(f, {}) /\ LfreeNames(f)
         /\ (LfreeLeast(h) => LfreeLeast(f)) /\ f.lfree # HeapEnd
         /\ Blocks(f, Drop(g, m)) /\ DOMAIN Drop(g, m) = DOMAIN g \ {m}
<1>1. /\ g \in [ItemsOf(h) \ (FreeOf(h) \cup {HeapEnd}) -> Requests]
      /\ \A o \in DOMAIN g : o + Hdr + g[o] <= NextsOf(h)[o]
  BY DEF Blocks
<1>2. m \in ItemsOf(h) \ FreeOf(h) /\ m # HeapEnd
  BY <1>1
<1>3. /\ Shape(f) /\ ChainOf(f) /\ HolesApart(f, {})
      /\ LfreeNames(f) /\ (LfreeLeast(h) => LfreeLeast(f)) /\ f.lfree # HeapEnd
      /\ ItemsOf(f) \ FreeOf(f) = (ItemsOf(h) \ FreeOf(h)) \ {m}
      /\ \A o \in (ItemsOf(h) \ FreeOf(h)) \ {m} : NextsOf(f)[o] = NextsOf(h)[o]
  BY <1>2, FreedHeap
<1>4. /\ Drop(g, m) \in [ItemsOf(f) \ (FreeOf(f) \cup {HeapEnd}) -> Requests]
      /\ DOMAIN Drop(g, m) = DOMAIN g \ {m}
  BY <1>1, <1>2, <1>3 DEF Drop
<1>5. \A o \in DOMAIN Drop(g, m) : o + Hdr + Drop(g, m)[o] <= NextsOf(f)[o]
  BY <1>1, <1>3, <1>4 DEF Drop
<1>. QED  BY <1>3, <1>4, <1>5 DEF Blocks

\* A heap without a block in use is one free item.
LEMMA EmptyHeap ==
  ASSUME NEW h, ChainOf(h), HolesApart(h, {}), FreeOf(h) = ItemsOf(h) \ {HeapEnd}
  PROVE  ItemsOf(h) = {0, HeapEnd} /\ FreeOf(h) = {0}
<1>1. HeapEnd \in Nat \ {0} /\ ItemsOf(h) \subseteq 0..HeapEnd
  BY HeapAssumption DEF ChainOf, Chain, HeapEnd
<1>2. {0, HeapEnd} \subseteq ItemsOf(h) /\ NextsOf(h)[0] \in ItemsOf(h)
  BY DEF ChainOf, Chain
<1>3. NextsOf(h)[0] = HeapEnd
  BY <1>1, <1>2 DEF HolesApart
<1>4. \A p \in ItemsOf(h) : p <= 0 \/ HeapEnd <= p
  BY <1>1, <1>2, <1>3 DEF ChainOf, Chain
<1>. QED  BY <1>1, <1>2, <1>4

\* rt_malloc keeps the invariant.
LEMMA MallocStep ==
  ASSUME HeapInv, NEW n \in Requests, Malloc(n)
  PROVE  HeapInv'
<1>1. PICK m : m = Place(heap, n)
  OBVIOUS
<1>2. PICK g : g = With(m, n)
  OBVIOUS
<1>3. m # Null /\ heap' = Allocated(heap, n) /\ owned' = g /\ shrunk' = shrunk
  BY <1>1, <1>2 DEF Malloc
<1>4. PICK h : h = heap'
  OBVIOUS
<1>5. /\ Shape(h) /\ ChainOf(h) /\ HolesApart(h, {}) /\ LfreeNames(h)
      /\ (LfreeLeast(heap) => LfreeLeast(h))
      /\ Blocks(h, g) /\ m \in DOMAIN g
  BY <1>1, <1>2, <1>3, <1>4, AllocatedHeap
<1>. QED  BY <1>3, <1>4, <1>5 DEF HeapInv

\* rt_free does, and a heap without blocks has its lowest lfree back.
LEMMA FreeStep ==
  ASSUME HeapInv, NEW m \in DOMAIN owned, Free(m)
  PROVE  HeapInv'
<1>1. PICK h, g : h = heap' /\ g = owned'
  OBVIOUS
<1>2. h = Freed(heap, m) /\ g = Drop(owned, m)
  BY <1>1 DEF Free
<1>3. /\ Shape(h) /\ ChainOf(h) /\ HolesApart(h, {}) /\ LfreeNames(h)
      /\ (LfreeLeast(heap) => LfreeLeast(h)) /\ h.lfree # HeapEnd
      /\ Blocks(h, g)
  BY <1>2, DroppedHeap DEF HeapInv
<1>4. shrunk' = (shrunk /\ g # << >>)
  BY <1>1 DEF Free
<1>5. DOMAIN g = {} <=> g = << >>
  BY <1>3 DEF Blocks
<1>6. g = << >> => LfreeLeast(h)
  <2>1. SUFFICES ASSUME DOMAIN g = {} PROVE LfreeLeast(h)
    BY <1>5
  <2>2. FreeOf(h) = ItemsOf(h) \ {HeapEnd}
    BY <1>3, <2>1 DEF Blocks, HolesApart, FreeOf, ItemsOf
  <2>3. FreeOf(h) = {0}
    BY <1>3, <2>2, EmptyHeap
  <2>. QED  BY <1>3, <2>3 DEF LfreeNames, LfreeLeast
<1>7. ~shrunk => LfreeLeast(heap)
  BY DEF HeapInv
<1>8. ~shrunk' => LfreeLeast(h)
  BY <1>3, <1>4, <1>6, <1>7, Zenon
<1>9. DOMAIN g = {} => ~shrunk'
  BY <1>4, <1>5, Zenon
<1>. QED  BY <1>1, <1>3, <1>8, <1>9 DEF HeapInv

\* rt_realloc to the same aligned size only changes what was asked for.
LEMMA KeepStep ==
  ASSUME HeapInv, NEW m \in DOMAIN owned, NEW n \in Requests, Keep(m, n)
  PROVE  HeapInv'
<1>1. /\ owned \in [ItemsOf(heap) \ (FreeOf(heap) \cup {HeapEnd}) -> Requests]
      /\ \A o \in DOMAIN owned : o + Hdr + owned[o] <= NextsOf(heap)[o]
  BY DEF HeapInv, Blocks
<1>2. heap' = heap /\ shrunk' = shrunk /\ owned' = With(m, n)
  BY DEF Keep
<1>3. /\ owned' = [o \in DOMAIN owned |-> IF o = m THEN n ELSE owned[o]]
      /\ DOMAIN owned' = DOMAIN owned
  BY <1>2 DEF With
<1>4. m + Hdr + n <= NextsOf(heap)[m]
  <2>1. n \in Nat /\ Hdr \in Nat /\ m \in Nat /\ NextsOf(heap)[m] \in Nat
    BY <1>1, HeapAssumption DEF HeapInv, ChainOf, Chain, HeapEnd
  <2>2. NextsOf(heap)[m] - (m + Hdr) = Aligned(n)
    BY <1>1 DEF Keep, Room, NextsOf, ItemsOf
  <2>. QED  BY <2>1, <2>2, AlignedUp
<1>5. Blocks(heap, owned')
  BY <1>1, <1>3, <1>4 DEF Blocks
<1>. QED  BY <1>2, <1>3, <1>5 DEF HeapInv

\* rt_realloc in place cuts a block that keeps at least what was asked for.
LEMMA ShrinkStep ==
  ASSUME HeapInv, NEW m \in DOMAIN owned, NEW n \in Requests, Shrink(m, n)
  PROVE  HeapInv'
<1>1. /\ owned \in [ItemsOf(heap) \ (FreeOf(heap) \cup {HeapEnd}) -> Requests]
      /\ \A o \in DOMAIN owned : o + Hdr + owned[o] <= NextsOf(heap)[o]
  BY DEF HeapInv, Blocks
<1>2. PICK h, size : h = heap' /\ size = Aligned(n)
  OBVIOUS
<1>3. h = Shrunk(heap, m, size) /\ shrunk' /\ owned' = With(m, n)
  BY <1>2 DEF Shrink
<1>4. n \in Nat /\ size \in Nat /\ n <= size
  BY <1>2, AlignedUp, HeapAssumption
<1>5. m \in ItemsOf(heap) \ FreeOf(heap) /\ m # HeapEnd
  BY <1>1
<1>6. m + Hdr + size + Hdr <= NextsOf(heap)[m]
  <2>1. {Hdr, MinSize} \subseteq Nat /\ m \in Nat /\ NextsOf(heap)[m] \in Nat
    BY <1>5, HeapAssumption DEF HeapInv, ChainOf, Chain, HeapEnd
  <2>2. size + Hdr + MinSize < NextsOf(heap)[m] - (m + Hdr)
    BY <1>2, <1>5 DEF Shrink, Cuts, Room, NextsOf, ItemsOf
  <2>. QED  BY <1>4, <2>1, <2>2
<1>7. /\ Shape(h) /\ ChainOf(h) /\ HolesApart(h, {})
      /\ LfreeNames(h)
      /\ ItemsOf(h) \ FreeOf(h) = ItemsOf(heap) \ FreeOf(heap)
      /\ \A o \in (ItemsOf(heap) \ FreeOf(heap)) \ {m} : NextsOf(h)[o] = NextsOf(heap)[o]
      /\ NextsOf(h)[m] = m + Hdr + size
  BY <1>3, <1>4, <1>5, <1>6, ShrunkHeap DEF HeapInv
<1>8. /\ owned' = [o \in DOMAIN owned |-> IF o = m THEN n ELSE owned[o]]
      /\ DOMAIN owned' = DOMAIN owned
  BY <1>3 DEF With
<1>9. m + Hdr + n <= NextsOf(h)[m]
  BY <1>4, <1>5, <1>7, HeapAssumption DEF HeapInv, ChainOf, Chain, HeapEnd
<1>10. Blocks(h, owned')
  BY <1>1, <1>7, <1>8, <1>9 DEF Blocks
<1>. QED  BY <1>2, <1>3, <1>7, <1>8, <1>10 DEF HeapInv

\* rt_realloc elsewhere takes a new block before it frees the old one.
LEMMA MoveStep ==
  ASSUME HeapInv, NEW m \in DOMAIN owned, NEW n \in Requests, Move(m, n)
  PROVE  HeapInv'
<1>1. PICK p, g, h : p = Place(heap, n) /\ g = With(p, n) /\ h = Allocated(heap, n)
  OBVIOUS
<1>2. p # Null /\ heap' = Freed(h, m) /\ owned' = Drop(g, m) /\ shrunk' = shrunk
  BY <1>1 DEF Move
<1>3. /\ Shape(h) /\ ChainOf(h) /\ HolesApart(h, {}) /\ LfreeNames(h)
      /\ (LfreeLeast(heap) => LfreeLeast(h))
      /\ Blocks(h, g) /\ p \notin DOMAIN owned /\ p \in DOMAIN g
  BY <1>1, <1>2, AllocatedHeap
<1>4. m \in DOMAIN g /\ m # p
  BY <1>1, <1>3 DEF With
<1>5. PICK f : f = heap'
  OBVIOUS
<1>6. /\ Shape(f) /\ ChainOf(f) /\ HolesApart(f, {}) /\ LfreeNames(f)
      /\ (LfreeLeast(h) => LfreeLeast(f))
      /\ Blocks(f, Drop(g, m)) /\ DOMAIN Drop(g, m) = DOMAIN g \ {m}
  BY <1>2, <1>3, <1>4, <1>5, DroppedHeap
<1>7. DOMAIN owned' # {}
  BY <1>2, <1>3, <1>4, <1>6
<1>. QED  BY <1>2, <1>3, <1>5, <1>6, <1>7 DEF HeapInv

-----------------------------------------------------------------------------
\* Every reachable heap is a chain in the order of the addresses, holds exactly
\* the blocks callers own, each as large as they asked for, and has no two free
\* neighbours: whatever the order of rt_malloc, rt_free and rt_realloc.
THEOREM HeapInvariant == HeapSpec => []HeapInv
<1>1. HeapInit => HeapInv
  BY InitialHeap
<1>2. HeapInv /\ [HeapNext]_vars => HeapInv'
  <2>. SUFFICES ASSUME HeapInv, [HeapNext]_vars  PROVE HeapInv'
    OBVIOUS
  <2>1. ASSUME NEW n \in Requests, Malloc(n)  PROVE HeapInv'
    BY <2>1, MallocStep
  <2>2. ASSUME NEW m \in DOMAIN owned, Free(m)  PROVE HeapInv'
    BY <2>2, FreeStep
  <2>3. ASSUME NEW m \in DOMAIN owned, NEW n \in Requests,
               Keep(m, n) \/ Shrink(m, n) \/ Move(m, n)
        PROVE  HeapInv'
    BY <2>3, KeepStep, ShrinkStep, MoveStep
  <2>4. CASE UNCHANGED vars
    BY <2>4 DEF vars, HeapInv
  <2>. QED  BY <2>1, <2>2, <2>3, <2>4 DEF HeapNext
<1>. QED  BY <1>1, <1>2, PTL DEF HeapSpec

\* plug_holes leaves no two free neighbours and the chain whole, and a heap
\* with nothing in use is one free item that rt_malloc searches from its start.
THEOREM NoHolesHold == HeapSpec => []NoHoles
<1>1. HeapInv => NoHoles
  <2>. SUFFICES ASSUME HeapInv  PROVE NoHoles
    OBVIOUS
  <2>1. /\ Items = ItemsOf(heap) /\ FreeItems = FreeOf(heap)
        /\ FreeOf(heap) \subseteq ItemsOf(heap)
        /\ \A o \in Items : /\ heap.items[o].next = NextsOf(heap)[o]
                            /\ heap.items[o].prev = PrevsOf(heap)[o]
    BY DEF Items, FreeItems, ItemsOf, FreeOf, NextsOf, PrevsOf
  <2>2. ChainIntact
    <3>1. /\ {0, HeapEnd} \subseteq Items /\ Items \subseteq Nat
          /\ \A o \in Items : NextsOf(heap)[o] \in Items
      BY <2>1, HeapAssumption DEF HeapInv, ChainOf, Chain, HeapEnd
    <3>2. heap.items[0].prev = 0 /\ heap.items[HeapEnd].next = HeapEnd
      BY <2>1, <3>1 DEF HeapInv, ChainOf, Chain
    <3>3. ASSUME NEW o \in Items \ {HeapEnd}
          PROVE  LET n == heap.items[o].next IN
                 /\ n \in Items /\ n >= o + Hdr
                 /\ \A p \in Items : ~(o < p /\ p < n)
                 /\ n # HeapEnd => heap.items[n].prev = o
      <4>. DEFINE n == NextsOf(heap)[o]
      <4>1. /\ o + Hdr <= n
            /\ \A p \in Items : p <= o \/ n <= p
            /\ n # HeapEnd => PrevsOf(heap)[n] = o
        BY <2>1 DEF HeapInv, ChainOf, Chain
      <4>2. n \in Items /\ n \in Nat /\ o \in Nat /\ heap.items[o].next = n
        BY <2>1, <3>1
      <4>3. \A p \in Items : ~(o < p /\ p < n)
        BY <3>1, <4>1, <4>2
      <4>4. n >= o + Hdr
        BY <4>1, <4>2, HeapAssumption
      <4>5. n # HeapEnd => heap.items[n].prev = o
        BY <2>1, <4>1, <4>2
      <4>. QED  BY <4>2, <4>3, <4>4, <4>5
    <3>. QED  BY <3>2, <3>3 DEF ChainIntact
  <2>3. \A o \in FreeItems : heap.items[o].next \notin FreeItems
    BY <2>1 DEF HeapInv, HolesApart
  <2>4. ASSUME owned = << >>  PROVE Items = {0, HeapEnd} /\ heap.lfree = 0
    <3>1. DOMAIN owned = {}
      BY <2>4
    <3>2. FreeOf(heap) = ItemsOf(heap) \ {HeapEnd}
      BY <2>1, <3>1 DEF HeapInv, Blocks, HolesApart
    <3>3. ItemsOf(heap) = {0, HeapEnd} /\ FreeOf(heap) = {0}
      BY <3>2, EmptyHeap DEF HeapInv
    <3>4. LfreeNames(heap) /\ LfreeLeast(heap)
      BY <3>1, Zenon DEF HeapInv
    <3>. QED  BY <2>1, <3>3, <3>4, HeapAssumption DEF LfreeNames, LfreeLeast, HeapEnd
  <2>. QED  BY <2>2, <2>3, <2>4 DEF NoHoles
<1>. QED  BY <1>1, HeapInvariant, PTL

\* lfree names a free item or the end after every call, and the lowest free
\* item as long as rt_realloc has not split a block.
THEOREM LfreeLowestHolds == HeapSpec => []LfreeLowest
<1>1. HeapInv => LfreeLowest
  BY DEF HeapInv, LfreeNames, LfreeLeast, LfreeLowest, Items, FreeItems, FreeOf
<1>. QED  BY <1>1, HeapInvariant, PTL
-----------------------------------------------------------------------------
(* Sums over a set.  MapThenSumSet takes the elements of a set in an order  *)
(* that CHOOSE makes; the sum does not depend on it.                        *)

Some(s) == CHOOSE x \in s : TRUE
BytesOf(h, S) == MapThenSumSet(LAMBDA o : Whole(h, o), S)

\* t gives the sum of w for every subset of S, whatever element comes last;
Totals(t, w, S) ==
  /\ t \in [SUBSET S -> Nat] /\ t[{}] = 0
  /\ \A T \in SUBSET S : \A x \in T : t[T] = w[x] + t[T \ {x}]
\* or if the last is the one that CHOOSE takes.
SumsUp(t, w, S) ==
  \A T \in SUBSET S : t[T] = IF T = {} THEN 0 ELSE w[Some(T)] + t[T \ {Some(T)}]

\* There are such sums: with one element more, they are the old ones and the
\* old ones with it.
LEMMA TotalsExist ==
  ASSUME NEW S, IsFiniteSet(S), NEW w \in [S -> Nat]
  PROVE  \E t : Totals(t, w, S)
<1>. DEFINE Bad(n) == \E R : /\ IsFiniteSet(R) /\ Cardinality(R) = n
                             /\ \E v \in [R -> Nat] : ~ \E t : Totals(t, v, R)
            D == {n \in Nat : Bad(n)}
<1>1. SUFFICES ASSUME D # {} PROVE FALSE
  <2>1. Cardinality(S) \in Nat
    BY FS_CardinalityType
  <2>2. ~ Bad(Cardinality(S))
    BY <1>1, <2>1
  <2>. QED  BY <2>2
<1>2. PICK n \in D : \A k \in D : n <= k
  <2>1. D \in SUBSET Nat
    OBVIOUS
  <2>. HIDE DEF D
  <2>. QED  BY <1>1, <2>1, MinOfNats
<1>3. PICK R : /\ IsFiniteSet(R) /\ Cardinality(R) = n
               /\ \E v \in [R -> Nat] : ~ \E t : Totals(t, v, R)
  BY <1>2
<1>4. PICK v \in [R -> Nat] : ~ \E t : Totals(t, v, R)
  BY <1>3
<1>5. CASE R = {}
  <2>. DEFINE t == [T \in SUBSET R |-> 0]
  <2>1. Totals(t, v, R)
    BY <1>5 DEF Totals
  <2>. QED  BY <1>4, <2>1
<1>6. CASE R # {}
  <2>1. PICK x \in R : TRUE
    BY <1>6
  <2>2. IsFiniteSet(R \ {x}) /\ Cardinality(R \ {x}) = n - 1 /\ n - 1 \in Nat
    <3>1. IsFiniteSet(R \ {x}) /\ Cardinality(R \ {x}) = Cardinality(R) - 1
      BY <1>3, FS_RemoveElement
    <3>2. Cardinality(R \ {x}) \in Nat
      BY <3>1, FS_CardinalityType
    <3>. QED  BY <1>3, <3>1, <3>2
  <2>3. n - 1 \notin D
    BY <1>2, <2>2
  <2>4. [y \in R \ {x} |-> v[y]] \in [R \ {x} -> Nat]
    OBVIOUS
  <2>5. PICK s : Totals(s, [y \in R \ {x} |-> v[y]], R \ {x})
    BY <2>2, <2>3, <2>4
  <2>6. /\ s \in [SUBSET (R \ {x}) -> Nat] /\ s[{}] = 0
        /\ \A T \in SUBSET (R \ {x}) : \A y \in T : s[T] = v[y] + s[T \ {y}]
    BY <2>5 DEF Totals
  <2>. DEFINE t == [T \in SUBSET R |-> IF x \in T THEN v[x] + s[T \ {x}] ELSE s[T]]
  <2>7. \A T \in SUBSET R : T \ {x} \in SUBSET (R \ {x}) /\ (x \notin T => T \in SUBSET (R \ {x}))
    OBVIOUS
  <2>8. t \in [SUBSET R -> Nat] /\ t[{}] = 0
    BY <2>6, <2>7
  <2>9. ASSUME NEW T \in SUBSET R, NEW y \in T
        PROVE  t[T] = v[y] + t[T \ {y}]
    <3>1. T \ {y} \in SUBSET R
      OBVIOUS
    <3>2. CASE y = x
      BY <3>1, <3>2
    <3>3. CASE y # x /\ x \in T
      <4>1. t[T] = v[x] + s[T \ {x}] /\ t[T \ {y}] = v[x] + s[(T \ {y}) \ {x}]
        BY <3>1, <3>3
      <4>2. s[T \ {x}] = v[y] + s[(T \ {x}) \ {y}]
        BY <2>6, <2>7, <3>3
      <4>3. (T \ {x}) \ {y} = (T \ {y}) \ {x}
        OBVIOUS
      <4>4. PICK a \in Nat, b \in Nat, c \in Nat :
              a = v[x] /\ b = v[y] /\ c = s[(T \ {y}) \ {x}]
        BY <2>6, <2>7, <3>1
      <4>. HIDE DEF t
      <4>5. t[T] = a + (b + c) /\ t[T \ {y}] = a + c
        BY <4>1, <4>2, <4>3, <4>4
      <4>6. a + (b + c) = b + (a + c)
        OBVIOUS
      <4>. QED  BY <4>4, <4>5, <4>6
    <3>4. CASE x \notin T
      <4>1. t[T] = s[T] /\ t[T \ {y}] = s[T \ {y}]
        BY <3>1, <3>4
      <4>. QED  BY <2>6, <2>7, <3>4, <4>1
    <3>. QED  BY <3>2, <3>3, <3>4
  <2>. HIDE DEF t
  <2>10. Totals(t, v, R)
    BY <2>8, <2>9 DEF Totals
  <2>. QED  BY <1>4, <2>10
<1>. QED  BY <1>5, <1>6

\* Such sums can be taken in the order of CHOOSE.
LEMMA TotalsSumUp ==
  ASSUME NEW t, NEW w, NEW S, Totals(t, w, S)
  PROVE  SumsUp(t, w, S)
BY DEF Totals, SumsUp, Some

\* And no others.
LEMMA SumsAgree ==
  ASSUME NEW S, IsFiniteSet(S), NEW t, NEW u, NEW v, NEW w, SumsUp(t, v, S), SumsUp(u, w, S),
         \A x \in S : v[x] = w[x]
  PROVE  t[S] = u[S]
<1>. DEFINE D == {n \in Nat : \E T \in SUBSET S : Cardinality(T) = n /\ t[T] # u[T]}
<1>1. \A T \in SUBSET S : IsFiniteSet(T) /\ Cardinality(T) \in Nat
  BY FS_Subset, FS_CardinalityType
<1>2. SUFFICES ASSUME D # {} PROVE FALSE
  <2>1. Cardinality(S) \in Nat /\ S \in SUBSET S
    BY <1>1
  <2>. QED  BY <1>2, <2>1
<1>3. PICK n \in D : \A k \in D : n <= k
  <2>1. D \in SUBSET Nat
    OBVIOUS
  <2>. HIDE DEF D
  <2>. QED  BY <1>2, <2>1, MinOfNats
<1>4. PICK T \in SUBSET S : Cardinality(T) = n /\ t[T] # u[T]
  BY <1>3
<1>5. T # {} /\ Some(T) \in T
  BY <1>4 DEF SumsUp, Some
<1>6. T \ {Some(T)} \in SUBSET S /\ Cardinality(T \ {Some(T)}) = n - 1 /\ n - 1 \in Nat
  <2>1. T \ {Some(T)} \in SUBSET S
    OBVIOUS
  <2>2. Cardinality(T \ {Some(T)}) = Cardinality(T) - 1
    BY <1>1, <1>5, FS_RemoveElement
  <2>. QED  BY <1>1, <1>4, <2>1, <2>2
<1>7. n - 1 \notin D
  BY <1>3, <1>6
<1>8. t[T \ {Some(T)}] = u[T \ {Some(T)}]
  BY <1>6, <1>7
<1>9. /\ t[T] = v[Some(T)] + t[T \ {Some(T)}]
      /\ u[T] = w[Some(T)] + u[T \ {Some(T)}]
      /\ v[Some(T)] = w[Some(T)]
  BY <1>5 DEF SumsUp
<1>. QED  BY <1>4, <1>8, <1>9

\* What the fold computes.
LEMMA BytesAre ==
  ASSUME NEW h, NEW S, IsFiniteSet(S), NEW w \in [S -> Nat], \A o \in S : w[o] = Whole(h, o),
         NEW t, Totals(t, w, S)
  PROVE  BytesOf(h, S) = t[S] /\ t[S] \in Nat
<1>. DEFINE Folds(f) == f = [s \in SUBSET S |->
                               IF s = {} THEN 0 ELSE Whole(h, Some(s)) + f[s \ {Some(s)}]]
            f0 == CHOOSE f : Folds(f)
<1>1. BytesOf(h, S) = f0[S]
  BY Zenon DEF BytesOf, MapThenSumSet, MapThenFoldSet, Some
<1>2. \A T \in SUBSET S : T # {} => Some(T) \in S
  BY DEF Some
<1>3. Folds(t)
  <2>1. \A T \in SUBSET S : t[T] = IF T = {} THEN 0 ELSE Whole(h, Some(T)) + t[T \ {Some(T)}]
    <3>1. SumsUp(t, w, S)
      BY TotalsSumUp
    <3>2. \A T \in SUBSET S : T # {} => w[Some(T)] = Whole(h, Some(T))
      BY <1>2
    <3>. QED  BY <3>1, <3>2 DEF SumsUp
  <2>2. t \in [SUBSET S -> Nat]
    BY DEF Totals
  <2>. QED  BY <2>1, <2>2
<1>4. Folds(f0)
  BY <1>3, Zenon
<1>. HIDE DEF f0
<1>5. SumsUp(f0, w, S)
  BY <1>2, <1>4 DEF SumsUp
<1>6. f0[S] = t[S]
  BY <1>5, TotalsSumUp, SumsAgree
<1>. QED  BY <1>1, <1>6 DEF Totals

\* The bytes of one item more.
LEMMA BytesMore ==
  ASSUME NEW h, NEW g, NEW S, IsFiniteSet(S), NEW m, m \notin S,
         \A o \in S : Whole(g, o) = Whole(h, o),
         \A o \in S \cup {m} : Whole(g, o) \in Nat
  PROVE  BytesOf(h, S) \in Nat /\ BytesOf(g, S \cup {m}) = BytesOf(h, S) + Whole(g, m)
<1>. DEFINE w == [o \in S \cup {m} |-> Whole(g, o)]
            v == [o \in S |-> Whole(g, o)]
<1>1. w \in [S \cup {m} -> Nat] /\ v \in [S -> Nat] /\ IsFiniteSet(S \cup {m})
  BY FS_AddElement
<1>2. /\ \A o \in S \cup {m} : w[o] = Whole(g, o)
      /\ \A o \in S : v[o] = Whole(h, o) /\ v[o] = w[o]
  OBVIOUS
<1>. HIDE DEF w, v
<1>3. PICK t : Totals(t, w, S \cup {m})
  BY <1>1, TotalsExist
<1>4. PICK u : Totals(u, v, S)
  BY <1>1, TotalsExist
<1>5. BytesOf(g, S \cup {m}) = t[S \cup {m}]
  BY <1>1, <1>2, <1>3, BytesAre
<1>6. BytesOf(h, S) = u[S] /\ u[S] \in Nat
  BY <1>1, <1>2, <1>4, BytesAre
<1>7. t[S \cup {m}] = w[m] + t[S]
  <2>1. (S \cup {m}) \ {m} = S
    OBVIOUS
  <2>. QED  BY <1>3, <2>1 DEF Totals
<1>8. t[S] = u[S]
  <2>1. SumsUp(t, w, S)
    BY <1>3, TotalsSumUp DEF SumsUp
  <2>. QED  BY <1>2, <1>4, <2>1, TotalsSumUp, SumsAgree
<1>9. w[m] \in Nat /\ w[m] = Whole(g, m)
  BY <1>1, <1>2
<1>. QED  BY <1>5, <1>6, <1>7, <1>8, <1>9

-----------------------------------------------------------------------------
(* The figures are exact.                                                  *)

\* used_mem is the sum over the blocks S, and max_mem has not been passed.
Exact(h, S) ==
  /\ h.used_mem = BytesOf(h, S)
  /\ h.max_mem \in Nat /\ h.used_mem <= h.max_mem

\* In a chain there are finitely many items, and none is larger than the heap.
LEMMA ItemsAre ==
  ASSUME NEW h, ChainOf(h), NEW S, S \subseteq ItemsOf(h)
  PROVE  /\ IsFiniteSet(S)
         /\ \A o \in S : Whole(h, o) \in Nat /\ Whole(h, o) = NextsOf(h)[o] - o
<1>1. HeapEnd \in Nat /\ Hdr \in Nat
  BY HeapAssumption DEF HeapEnd
<1>2. S \subseteq 0..HeapEnd
  BY DEF ChainOf, Chain
<1>3. IsFiniteSet(S)
  <2>1. 0 \in Int /\ HeapEnd \in Int
    BY <1>1
  <2>2. IsFiniteSet(0..HeapEnd)
    BY <2>1, FS_Interval
  <2>. QED  BY <1>2, <2>2, FS_Subset
<1>4. ASSUME NEW o \in S
      PROVE  Whole(h, o) \in Nat /\ Whole(h, o) = NextsOf(h)[o] - o
  <2>1. Whole(h, o) = NextsOf(h)[o] - o
    BY DEF Whole, NextsOf, ItemsOf
  <2>2. NextsOf(h)[o] \in 0..HeapEnd /\ o \in 0..HeapEnd
    BY DEF ChainOf, Chain
  <2>3. o <= NextsOf(h)[o]
    <3>1. CASE o = HeapEnd
      BY <1>1, <3>1 DEF ChainOf, Chain
    <3>2. CASE o # HeapEnd
      <4>1. o + Hdr <= NextsOf(h)[o]
        BY <3>2 DEF ChainOf, Chain
      <4>. QED  BY <1>1, <2>2, <4>1
    <3>. QED  BY <3>1, <3>2
  <2>. QED  BY <1>1, <2>1, <2>2, <2>3
<1>. QED  BY <1>3, <1>4

\* One block m more, and m larger by what used_mem grows by.
LEMMA ExactWith ==
  ASSUME NEW h, ChainOf(h), NEW g, ChainOf(g), NEW S, S \subseteq ItemsOf(h),
         NEW m \in ItemsOf(g), m \notin S, S \subseteq ItemsOf(g),
         \A o \in S : NextsOf(g)[o] = NextsOf(h)[o],
         Exact(h, S), g.used_mem = h.used_mem + (NextsOf(g)[m] - m),
         g.max_mem = Larger(h.max_mem, g.used_mem)
  PROVE  Exact(g, S \cup {m})
<1>1. IsFiniteSet(S) /\ \A o \in S : Whole(h, o) = NextsOf(h)[o] - o
  BY ItemsAre
<1>2. \A o \in S \cup {m} : Whole(g, o) \in Nat /\ Whole(g, o) = NextsOf(g)[o] - o
  <2>1. S \cup {m} \subseteq ItemsOf(g)
    OBVIOUS
  <2>. QED  BY <2>1, ItemsAre
<1>3. \A o \in S : Whole(g, o) = Whole(h, o)
  BY <1>1, <1>2
<1>4. BytesOf(h, S) \in Nat /\ BytesOf(g, S \cup {m}) = BytesOf(h, S) + Whole(g, m)
  BY <1>1, <1>2, <1>3, BytesMore
<1>5. PICK a \in Nat, b \in Nat, c \in Nat :
        a = BytesOf(h, S) /\ b = Whole(g, m) /\ c = h.max_mem
  BY <1>2, <1>4 DEF Exact
<1>6. g.used_mem = a + b /\ BytesOf(g, S \cup {m}) = a + b
  BY <1>2, <1>4, <1>5 DEF Exact
<1>7. g.max_mem = Larger(c, a + b)
  BY <1>5, <1>6
<1>8. Larger(c, a + b) \in Nat /\ a + b <= Larger(c, a + b)
  BY DEF Larger
<1>. QED  BY <1>6, <1>7, <1>8 DEF Exact

\* One block m less, and used_mem smaller by what m was.
LEMMA ExactWithout ==
  ASSUME NEW h, ChainOf(h), NEW g, ChainOf(g), NEW S, S \subseteq ItemsOf(h),
         NEW m \in S, S \ {m} \subseteq ItemsOf(g),
         \A o \in S \ {m} : NextsOf(g)[o] = NextsOf(h)[o],
         Exact(h, S), g.used_mem = h.used_mem - (NextsOf(h)[m] - m),
         g.max_mem = h.max_mem
  PROVE  Exact(g, S \ {m})
<1>. DEFINE R == S \ {m}
<1>1. /\ IsFiniteSet(R) /\ m \notin R /\ S = R \cup {m}
      /\ \A o \in R : Whole(g, o) = NextsOf(g)[o] - o
  BY ItemsAre
<1>2. \A o \in S : Whole(h, o) \in Nat /\ Whole(h, o) = NextsOf(h)[o] - o
  BY ItemsAre
<1>3. \A o \in R : Whole(h, o) = Whole(g, o)
  BY <1>1, <1>2
<1>. HIDE DEF R
<1>4. BytesOf(g, R) \in Nat /\ BytesOf(h, R \cup {m}) = BytesOf(g, R) + Whole(h, m)
  BY <1>1, <1>2, <1>3, BytesMore
<1>5. PICK a \in Nat, b \in Nat : a = BytesOf(g, R) /\ b = Whole(h, m)
  BY <1>2, <1>4
<1>6. /\ h.used_mem = a + b /\ h.max_mem \in Nat /\ h.used_mem <= h.max_mem
      /\ g.used_mem = h.used_mem - b
  BY <1>1, <1>2, <1>4, <1>5 DEF Exact
<1>7. g.used_mem = a /\ a <= g.max_mem
  BY <1>6
<1>. QED  BY <1>5, <1>6, <1>7 DEF Exact, R

\* The block m gets smaller by as much as used_mem.
LEMMA ExactLess ==
  ASSUME NEW h, ChainOf(h), NEW g, ChainOf(g), NEW S, S \subseteq ItemsOf(h),
         NEW m \in S, S \subseteq ItemsOf(g),
         \A o \in S \ {m} : NextsOf(g)[o] = NextsOf(h)[o],
         NextsOf(g)[m] <= NextsOf(h)[m],
         Exact(h, S), g.used_mem = h.used_mem - (NextsOf(h)[m] - NextsOf(g)[m]),
         g.max_mem = h.max_mem
  PROVE  Exact(g, S)
<1>. DEFINE R == S \ {m}
<1>1. /\ IsFiniteSet(R) /\ m \notin R /\ S = R \cup {m}
      /\ \A o \in S : Whole(g, o) \in Nat /\ Whole(g, o) = NextsOf(g)[o] - o
  BY ItemsAre
<1>2. \A o \in S : Whole(h, o) \in Nat /\ Whole(h, o) = NextsOf(h)[o] - o
  BY ItemsAre
<1>3. \A o \in R : Whole(h, o) = Whole(g, o) /\ Whole(g, o) = Whole(h, o)
  BY <1>1, <1>2
<1>. HIDE DEF R
<1>4. BytesOf(g, R) \in Nat /\ BytesOf(h, R \cup {m}) = BytesOf(g, R) + Whole(h, m)
  BY <1>1, <1>2, <1>3, BytesMore
<1>5. BytesOf(g, R \cup {m}) = BytesOf(g, R) + Whole(g, m)
  BY <1>1, BytesMore
<1>6. PICK a \in Nat, b \in Nat, c \in Nat :
        a = BytesOf(g, R) /\ b = Whole(h, m) /\ c = Whole(g, m)
  BY <1>1, <1>2, <1>4
<1>7. PICK i \in Nat, x \in Nat, y \in Nat : i = m /\ x = NextsOf(h)[m] /\ y = NextsOf(g)[m]
  BY HeapAssumption DEF HeapEnd, ChainOf, Chain
<1>8. b = x - i /\ c = y - i /\ y <= x
  BY <1>1, <1>2, <1>6, <1>7
<1>9. /\ h.used_mem = a + b /\ h.max_mem \in Nat /\ h.used_mem <= h.max_mem
      /\ g.used_mem = h.used_mem - (x - y)
  BY <1>1, <1>4, <1>6, <1>7 DEF Exact
<1>10. g.used_mem = a + c /\ g.used_mem <= g.max_mem
  BY <1>8, <1>9
<1>11. BytesOf(g, S) = a + c
  BY <1>1, <1>5, <1>6
<1>. QED  BY <1>9, <1>10, <1>11 DEF Exact

\* The figures after an allocation.
LEMMA AllocatedExact ==
  ASSUME HeapInv, Exact(heap, DOMAIN owned),
         NEW n \in Requests, NEW m, m = Place(heap, n), m # Null,
         NEW h, h = Allocated(heap, n)
  PROVE  Exact(h, DOMAIN owned \cup {m})
<1>1. PICK size : size = Larger(Aligned(n), MinSize)
  OBVIOUS
<1>2. /\ size \in Nat /\ m \in FreeOf(heap) /\ m \in Nat
      /\ m + Hdr + size <= NextsOf(heap)[m] /\ h = Take(heap, m, size)
  BY <1>1, Placed
<1>3. Shape(heap) /\ ChainOf(heap) /\ HolesApart(heap, {}) /\ LfreeNames(heap)
  BY DEF HeapInv
<1>4. /\ ChainOf(h)
      /\ ItemsOf(h) \ FreeOf(h) = (ItemsOf(heap) \ FreeOf(heap)) \cup {m}
      /\ \A o \in ItemsOf(heap) \ FreeOf(heap) : NextsOf(h)[o] = NextsOf(heap)[o]
      /\ h.used_mem = heap.used_mem + (NextsOf(h)[m] - m)
      /\ h.max_mem = Larger(heap.max_mem, h.used_mem)
  BY <1>2, <1>3, TakenHeap
<1>5. DOMAIN owned \subseteq ItemsOf(heap) \ FreeOf(heap)
  BY DEF HeapInv, Blocks
<1>. DEFINE S == DOMAIN owned
<1>6. /\ S \subseteq ItemsOf(heap) /\ S \subseteq ItemsOf(h) /\ m \in ItemsOf(h) /\ m \notin S
      /\ \A o \in S : NextsOf(h)[o] = NextsOf(heap)[o]
  BY <1>2, <1>4, <1>5
<1>. HIDE DEF S
<1>7. Exact(heap, S)
  BY DEF S
<1>8. Exact(h, S \cup {m})
  BY <1>3, <1>4, <1>6, <1>7, ExactWith
<1>. QED  BY <1>8 DEF S

\* The figures after a block is freed.
LEMMA FreedExact ==
  ASSUME NEW h, Shape(h), ChainOf(h), HolesApart(h, {}), LfreeNames(h),
         NEW g, Blocks(h, g), NEW m \in DOMAIN g, NEW f, f = Freed(h, m),
         NEW S, S = DOMAIN g, Exact(h, S)
  PROVE  Exact(f, S \ {m})
<1>1. S \subseteq ItemsOf(h) \ FreeOf(h) /\ m \in S /\ HeapEnd \notin S
  BY DEF Blocks
<1>2. /\ ChainOf(f)
      /\ ItemsOf(f) \ FreeOf(f) = (ItemsOf(h) \ FreeOf(h)) \ {m}
      /\ \A o \in (ItemsOf(h) \ FreeOf(h)) \ {m} : NextsOf(f)[o] = NextsOf(h)[o]
      /\ f.used_mem = h.used_mem - (NextsOf(h)[m] - m)
      /\ f.max_mem = h.max_mem
  BY <1>1, FreedHeap
<1>3. /\ S \subseteq ItemsOf(h) /\ S \ {m} \subseteq ItemsOf(f)
      /\ \A o \in S \ {m} : NextsOf(f)[o] = NextsOf(h)[o]
  BY <1>1, <1>2
<1>. QED  BY <1>1, <1>2, <1>3, ExactWithout

\* rt_malloc adds to used_mem the block it takes, cut or whole.
LEMMA MallocExact ==
  ASSUME HeapInv, Exact(heap, DOMAIN owned), NEW n \in Requests, Malloc(n)
  PROVE  Exact(heap', DOMAIN owned')
<1>1. PICK m, h : m = Place(heap, n) /\ h = heap'
  OBVIOUS
<1>2. m # Null /\ h = Allocated(heap, n) /\ owned' = With(m, n)
  BY <1>1 DEF Malloc
<1>3. Exact(h, DOMAIN owned \cup {m})
  BY <1>1, <1>2, AllocatedExact
<1>4. DOMAIN owned' = DOMAIN owned \cup {m}
  BY <1>2 DEF With
<1>. QED  BY <1>1, <1>3, <1>4

\* rt_free takes off used_mem the block it gives back.
LEMMA FreeExact ==
  ASSUME HeapInv, Exact(heap, DOMAIN owned), NEW m \in DOMAIN owned, Free(m)
  PROVE  Exact(heap', DOMAIN owned')
<1>1. PICK f, S : f = heap' /\ S = DOMAIN owned
  OBVIOUS
<1>2. f = Freed(heap, m) /\ DOMAIN owned' = S \ {m}
  BY <1>1 DEF Free, Drop
<1>3. Exact(f, S \ {m})
  BY <1>1, <1>2, FreedExact DEF HeapInv
<1>. QED  BY <1>1, <1>2, <1>3

\* The in-place split of rt_realloc takes off what it cuts, header included.
LEMMA ShrinkExact ==
  ASSUME HeapInv, Exact(heap, DOMAIN owned),
         NEW m \in DOMAIN owned, NEW n \in Requests, Shrink(m, n)
  PROVE  Exact(heap', DOMAIN owned')
<1>1. PICK h, S, size : h = heap' /\ S = DOMAIN owned /\ size = Aligned(n)
  OBVIOUS
<1>2. h = Shrunk(heap, m, size) /\ DOMAIN owned' = S
  BY <1>1 DEF Shrink, With
<1>3. size \in Nat
  BY <1>1, AlignedUp, HeapAssumption
<1>4. S \subseteq ItemsOf(heap) \ FreeOf(heap) /\ m \in S /\ m # HeapEnd
  BY <1>1 DEF HeapInv, Blocks
<1>5. /\ {Hdr, MinSize} \subseteq Nat /\ m \in Nat /\ NextsOf(heap)[m] \in Nat
      /\ Room(heap, m) = NextsOf(heap)[m] - (m + Hdr)
  <2>1. {Hdr, MinSize} \subseteq Nat /\ m \in Nat /\ NextsOf(heap)[m] \in Nat
    BY <1>4, HeapAssumption DEF HeapInv, ChainOf, Chain, HeapEnd
  <2>2. Room(heap, m) = NextsOf(heap)[m] - (m + Hdr)
    BY <1>4 DEF Room, NextsOf, ItemsOf
  <2>. QED  BY <2>1, <2>2
<1>6. m + Hdr + size + Hdr <= NextsOf(heap)[m]
  <2>1. size + Hdr + MinSize < NextsOf(heap)[m] - (m + Hdr)
    BY <1>1, <1>5 DEF Shrink, Cuts
  <2>. QED  BY <1>3, <1>5, <2>1
<1>7. /\ ChainOf(h)
      /\ ItemsOf(h) \ FreeOf(h) = ItemsOf(heap) \ FreeOf(heap)
      /\ \A o \in (ItemsOf(heap) \ FreeOf(heap)) \ {m} : NextsOf(h)[o] = NextsOf(heap)[o]
      /\ NextsOf(h)[m] = m + Hdr + size
      /\ h.used_mem = heap.used_mem - (Room(heap, m) - size)
      /\ h.max_mem = heap.max_mem
  BY <1>2, <1>3, <1>4, <1>6, ShrunkHeap DEF HeapInv
<1>8. /\ NextsOf(h)[m] <= NextsOf(heap)[m]
      /\ Room(heap, m) - size = NextsOf(heap)[m] - NextsOf(h)[m]
  BY <1>3, <1>5, <1>6, <1>7
<1>9. /\ S \subseteq ItemsOf(heap) /\ S \subseteq ItemsOf(h)
      /\ \A o \in S \ {m} : NextsOf(h)[o] = NextsOf(heap)[o]
      /\ Exact(heap, S) /\ ChainOf(heap)
      /\ h.used_mem = heap.used_mem - (NextsOf(heap)[m] - NextsOf(h)[m])
  BY <1>1, <1>4, <1>7, <1>8 DEF HeapInv
<1>10. Exact(h, S)
  BY <1>4, <1>7, <1>8, <1>9, ExactLess
<1>. QED  BY <1>1, <1>2, <1>10

\* rt_realloc that moves adds the new block and takes off the old one.
LEMMA MoveExact ==
  ASSUME HeapInv, Exact(heap, DOMAIN owned),
         NEW m \in DOMAIN owned, NEW n \in Requests, Move(m, n)
  PROVE  Exact(heap', DOMAIN owned')
<1>1. PICK p, g, h, f, S :
        /\ p = Place(heap, n) /\ g = With(p, n) /\ h = Allocated(heap, n)
        /\ f = heap' /\ S = DOMAIN g
  OBVIOUS
<1>2. p # Null /\ f = Freed(h, m) /\ owned' = Drop(g, m)
  BY <1>1 DEF Move
<1>3. Shape(h) /\ ChainOf(h) /\ HolesApart(h, {}) /\ LfreeNames(h) /\ Blocks(h, g)
  BY <1>1, <1>2, AllocatedHeap
<1>4. S = DOMAIN owned \cup {p}
  BY <1>1 DEF With
<1>5. Exact(h, S)
  BY <1>1, <1>2, <1>4, AllocatedExact
<1>6. Exact(f, S \ {m})
  BY <1>1, <1>2, <1>3, <1>4, <1>5, FreedExact
<1>7. DOMAIN owned' = S \ {m}
  BY <1>1, <1>2 DEF Drop
<1>. QED  BY <1>1, <1>6, <1>7

\* used_mem, which every call adjusts by what it cuts, takes or gives back, is
\* always the sum of the blocks in use with their headers, and at most max_mem.
THEOREM StatsExactHolds == HeapSpec => []StatsExact
<1>1. HeapInit => Exact(heap, DOMAIN owned)
  <2>. SUFFICES ASSUME HeapInit  PROVE Exact(heap, DOMAIN owned)
    OBVIOUS
  <2>1. PICK S : S = {}
    OBVIOUS
  <2>2. DOMAIN owned = S /\ heap.used_mem = 0 /\ heap.max_mem = 0
    BY <2>1 DEF HeapInit
  <2>. DEFINE w == [o \in S |-> 0]
  <2>3. IsFiniteSet(S) /\ w \in [S -> Nat] /\ \A o \in S : w[o] = Whole(heap, o)
    BY <2>1, FS_EmptySet
  <2>. HIDE DEF w
  <2>4. PICK t : Totals(t, w, S)
    BY <2>3, TotalsExist
  <2>5. BytesOf(heap, S) = t[S]
    BY <2>3, <2>4, BytesAre
  <2>6. t[S] = 0
    BY <2>1, <2>4 DEF Totals
  <2>. QED  BY <2>2, <2>5, <2>6 DEF Exact
<1>2. HeapInv /\ Exact(heap, DOMAIN owned) /\ [HeapNext]_vars => Exact(heap, DOMAIN owned)'
  <2>. SUFFICES ASSUME HeapInv, Exact(heap, DOMAIN owned), [HeapNext]_vars
                PROVE  Exact(heap', DOMAIN owned')
    OBVIOUS
  <2>1. ASSUME NEW n \in Requests, Malloc(n)  PROVE Exact(heap', DOMAIN owned')
    BY <2>1, MallocExact
  <2>2. ASSUME NEW m \in DOMAIN owned, Free(m)  PROVE Exact(heap', DOMAIN owned')
    BY <2>2, FreeExact
  <2>3. ASSUME NEW m \in DOMAIN owned, NEW n \in Requests, Keep(m, n)
        PROVE  Exact(heap', DOMAIN owned')
    <3>1. heap' = heap /\ DOMAIN owned' = DOMAIN owned
      BY <2>3 DEF Keep, With
    <3>. QED  BY <3>1
  <2>4. ASSUME NEW m \in DOMAIN owned, NEW n \in Requests, Shrink(m, n) \/ Move(m, n)
        PROVE  Exact(heap', DOMAIN owned')
    BY <2>4, ShrinkExact, MoveExact
  <2>5. CASE UNCHANGED vars
    BY <2>5 DEF vars
  <2>. QED  BY <2>1, <2>2, <2>3, <2>4, <2>5 DEF HeapNext
<1>3. Exact(heap, DOMAIN owned) => StatsExact
  BY Zenon DEF Exact, StatsExact, BytesOf
<1>. QED  BY <1>1, <1>2, <1>3, HeapInvariant, PTL DEF HeapSpec

-----------------------------------------------------------------------------
(* The heap keeps the promise of Allocator.  A grant starts behind the     *)
(* header of its block.                                                    *)

GrantsOf(g) == [p \in {o + Hdr : o \in DOMAIN g} |-> g[p - Hdr]]

\* Headers and grants correspond one to one.
LEMMA GrantsFacts ==
  ASSUME NEW g, DOMAIN g \subseteq Nat
  PROVE  /\ DOMAIN GrantsOf(g) = {o + Hdr : o \in DOMAIN g}
         /\ \A o \in DOMAIN g : GrantsOf(g)[o + Hdr] = g[o]
         /\ \A o \in Nat : o + Hdr \in DOMAIN GrantsOf(g) <=> o \in DOMAIN g
<1>1. DOMAIN GrantsOf(g) = {o + Hdr : o \in DOMAIN g}
  BY DEF GrantsOf
<1>2. \A o \in DOMAIN g : (o + Hdr) - Hdr = o
  BY HeapAssumption
<1>3. \A o \in DOMAIN g : GrantsOf(g)[o + Hdr] = g[o]
  BY <1>2 DEF GrantsOf
<1>4. \A o, r \in Nat : o + Hdr = r + Hdr => o = r
  BY HeapAssumption
<1>. QED  BY <1>1, <1>3, <1>4

\* Adding a block adds a grant.
LEMMA GrantsMore ==
  ASSUME NEW g, DOMAIN g \subseteq Nat, NEW m \in Nat, NEW n,
         NEW f, f = [o \in DOMAIN g \cup {m} |-> IF o = m THEN n ELSE g[o]]
  PROVE  GrantsOf(f) = Promise!Granted(GrantsOf(g), m + Hdr, n)
<1>1. DOMAIN f = DOMAIN g \cup {m} /\ DOMAIN f \subseteq Nat
  OBVIOUS
<1>2. /\ DOMAIN GrantsOf(f) = {o + Hdr : o \in DOMAIN f}
      /\ \A o \in DOMAIN f : GrantsOf(f)[o + Hdr] = f[o]
  BY <1>1, GrantsFacts
<1>3. /\ DOMAIN GrantsOf(g) = {o + Hdr : o \in DOMAIN g}
      /\ \A o \in DOMAIN g : GrantsOf(g)[o + Hdr] = g[o]
  BY GrantsFacts
<1>4. DOMAIN GrantsOf(f) = DOMAIN GrantsOf(g) \cup {m + Hdr}
  BY <1>1, <1>2, <1>3
<1>5. ASSUME NEW p \in DOMAIN GrantsOf(f)
      PROVE  GrantsOf(f)[p] = IF p = m + Hdr THEN n ELSE GrantsOf(g)[p]
  <2>1. PICK o \in DOMAIN f : p = o + Hdr
    BY <1>2
  <2>2. GrantsOf(f)[p] = f[o] /\ (o \in DOMAIN g => GrantsOf(g)[p] = g[o])
    BY <1>2, <1>3, <2>1
  <2>3. p = m + Hdr <=> o = m
    BY <1>1, <2>1, HeapAssumption
  <2>. QED  BY <1>1, <2>2, <2>3
<1>6. GrantsOf(f) = [p \in DOMAIN GrantsOf(f) |-> GrantsOf(f)[p]]
  BY DEF GrantsOf
<1>. QED  BY <1>4, <1>5, <1>6 DEF Promise!Granted

\* Removing a block removes its grant.
LEMMA GrantsLess ==
  ASSUME NEW g, DOMAIN g \subseteq Nat, NEW m \in DOMAIN g
  PROVE  GrantsOf(Drop(g, m)) =
           [p \in DOMAIN GrantsOf(g) \ {m + Hdr} |-> GrantsOf(g)[p]]
<1>. DEFINE f == Drop(g, m)
<1>1. /\ DOMAIN f = DOMAIN g \ {m} /\ DOMAIN f \subseteq Nat
      /\ \A o \in DOMAIN f : f[o] = g[o]
  BY DEF Drop
<1>. HIDE DEF f
<1>2. \A o \in DOMAIN g : o + Hdr = m + Hdr <=> o = m
  BY HeapAssumption
<1>3. /\ DOMAIN GrantsOf(f) = {o + Hdr : o \in DOMAIN f}
      /\ \A o \in DOMAIN f : GrantsOf(f)[o + Hdr] = f[o]
  BY <1>1, GrantsFacts
<1>4. /\ DOMAIN GrantsOf(g) = {o + Hdr : o \in DOMAIN g}
      /\ \A o \in DOMAIN g : GrantsOf(g)[o + Hdr] = g[o]
  BY GrantsFacts
<1>5. DOMAIN GrantsOf(f) = DOMAIN GrantsOf(g) \ {m + Hdr}
  BY <1>1, <1>2, <1>3, <1>4
<1>6. ASSUME NEW p \in DOMAIN GrantsOf(f)  PROVE GrantsOf(f)[p] = GrantsOf(g)[p]
  <2>1. PICK o \in DOMAIN f : p = o + Hdr
    BY <1>3
  <2>. QED  BY <1>1, <1>3, <1>4, <2>1
<1>7. GrantsOf(f) = [p \in DOMAIN GrantsOf(f) |-> GrantsOf(f)[p]]
  BY DEF GrantsOf
<1>8. GrantsOf(f) = [p \in DOMAIN GrantsOf(g) \ {m + Hdr} |-> GrantsOf(g)[p]]
  BY <1>5, <1>6, <1>7
<1>. QED  BY <1>8 DEF f

\* Two blocks of one heap do not overlap, headers included.
LEMMA BlocksApart ==
  ASSUME NEW h, ChainOf(h), NEW g, Blocks(h, g), NEW m \in DOMAIN g
  PROVE  /\ DOMAIN g \subseteq Nat /\ g[m] \in Requests
         /\ m + Hdr \in 0 .. HeapEnd - 1
         /\ (m + Hdr) + g[m] <= HeapEnd
         /\ \A o \in DOMAIN g \ {m} :
              Promise!Apart(m + Hdr, g[m], o + Hdr, g[o])
<1>1. HeapEnd \in Nat /\ Hdr \in Nat \ {0}
  BY HeapAssumption DEF HeapEnd
<1>2. /\ DOMAIN g = ItemsOf(h) \ (FreeOf(h) \cup {HeapEnd})
      /\ \A o \in DOMAIN g : o + Hdr + g[o] <= NextsOf(h)[o] /\ g[o] \in Requests
  BY DEF Blocks
<1>3. /\ ItemsOf(h) \subseteq 0..HeapEnd
      /\ \A o \in ItemsOf(h) : NextsOf(h)[o] \in ItemsOf(h)
      /\ \A o, p \in ItemsOf(h) \ {HeapEnd} : p <= o \/ NextsOf(h)[o] <= p
  BY DEF ChainOf, Chain
<1>4. \A o \in DOMAIN g : /\ o \in Nat /\ g[o] \in Nat \ {0}
                          /\ NextsOf(h)[o] \in 0..HeapEnd
  <2>1. Requests \subseteq Nat \ {0}
    BY HeapAssumption
  <2>2. \A o \in DOMAIN g : o \in ItemsOf(h)
    BY <1>2
  <2>3. \A o \in DOMAIN g : g[o] \in Nat \ {0}
    BY <1>2, <2>1
  <2>4. \A o \in DOMAIN g : o \in Nat /\ NextsOf(h)[o] \in 0..HeapEnd
    BY <1>1, <1>3, <2>2
  <2>. QED  BY <2>3, <2>4
<1>5. DOMAIN g \subseteq Nat /\ g[m] \in Requests
  BY <1>2, <1>4
<1>6. m + Hdr \in 0 .. HeapEnd - 1 /\ (m + Hdr) + g[m] <= HeapEnd
  BY <1>1, <1>2, <1>4
<1>7. ASSUME NEW o \in DOMAIN g \ {m}
      PROVE  Promise!Apart(m + Hdr, g[m], o + Hdr, g[o])
  <2>1. /\ o \in Nat /\ m \in Nat /\ g[o] \in Nat /\ g[m] \in Nat
        /\ NextsOf(h)[o] \in Nat /\ NextsOf(h)[m] \in Nat
    BY <1>1, <1>4
  <2>2. o <= m \/ NextsOf(h)[m] <= o
    BY <1>2, <1>3
  <2>3. m <= o \/ NextsOf(h)[o] <= m
    BY <1>2, <1>3
  <2>4. /\ o + Hdr + g[o] <= NextsOf(h)[o]
        /\ m + Hdr + g[m] <= NextsOf(h)[m]
    BY <1>2
  <2>. QED  BY <1>1, <2>1, <2>2, <2>3, <2>4 DEF Promise!Apart
<1>. QED  BY <1>5, <1>6, <1>7
\* The heap implements Allocator: the memory rt_malloc and rt_realloc return
\* lies inside the heap, is as large as asked for, and overlaps no other block
\* in use, nor the old block rt_realloc copies from.
THEOREM HeapIsAllocator == HeapSpec => IsAllocator
<1>. DEFINE grants == [p \in {o + Hdr : o \in DOMAIN owned} |-> owned[p - Hdr]]
<1>1. HeapInit => Promise!Init
  BY DEF HeapInit, Promise!Init
<1>2. HeapInv /\ HeapInv' /\ [HeapNext]_vars => [Promise!Next]_grants
  <2>. SUFFICES ASSUME HeapInv, HeapInv', [HeapNext]_vars
                PROVE  [Promise!Next]_grants
    OBVIOUS
  <2>1. grants = GrantsOf(owned) /\ grants' = GrantsOf(owned')
    BY DEF GrantsOf
  <2>2. /\ ChainOf(heap) /\ Blocks(heap, owned)
        /\ ChainOf(heap') /\ Blocks(heap', owned')
    BY DEF HeapInv
  <2>3. DOMAIN owned \subseteq Nat
    BY <2>2, HeapAssumption DEF Blocks, ChainOf, Chain, HeapEnd
  <2>4. ASSUME NEW n \in Requests, Malloc(n)
        PROVE  \E p \in Promise!Addresses, r \in Requests : Promise!Grant(p, r)
    <3>1. PICK m : m = Place(heap, n)
      OBVIOUS
    <3>2. m # Null /\ owned' = With(m, n)
      BY <2>4, <3>1 DEF Malloc
    <3>3. m \in Nat
      BY <3>1, <3>2, Placed
    <3>4. m \notin DOMAIN owned
      BY <3>1, <3>2, AllocatedHeap
    <3>5. /\ owned' = [o \in DOMAIN owned \cup {m} |-> IF o = m THEN n ELSE owned[o]]
          /\ DOMAIN owned' = DOMAIN owned \cup {m} /\ owned'[m] = n
          /\ \A o \in DOMAIN owned : o # m /\ owned'[o] = owned[o]
      BY <3>2, <3>4 DEF With
    <3>6. GrantsOf(owned') = Promise!Granted(GrantsOf(owned), m + Hdr, n)
      BY <2>3, <3>3, <3>5, GrantsMore
    <3>7. /\ m + Hdr \in 0 .. HeapEnd - 1 /\ (m + Hdr) + n <= HeapEnd
          /\ \A o \in DOMAIN owned : Promise!Apart(m + Hdr, n, o + Hdr, owned[o])
      BY <2>2, <3>5, BlocksApart
    <3>8. /\ DOMAIN GrantsOf(owned) = {o + Hdr : o \in DOMAIN owned}
          /\ \A o \in DOMAIN owned : GrantsOf(owned)[o + Hdr] = owned[o]
      BY <2>3, GrantsFacts
    <3>9. \A q \in DOMAIN GrantsOf(owned) :
            Promise!Apart(m + Hdr, n, q, GrantsOf(owned)[q])
      BY <3>7, <3>8
    <3>10. Promise!Grant(m + Hdr, n)
      BY <2>1, <3>6, <3>7, <3>9 DEF Promise!Grant, Promise!Vacant
    <3>. QED  BY <3>7, <3>10 DEF Promise!Addresses
  <2>5. ASSUME NEW m \in DOMAIN owned, Free(m)
        PROVE  \E p \in DOMAIN grants : Promise!Return(p)
    <3>1. owned' = Drop(owned, m)
      BY <2>5 DEF Free
    <3>2. GrantsOf(owned') = [p \in DOMAIN GrantsOf(owned) \ {m + Hdr} |-> GrantsOf(owned)[p]]
      BY <2>3, <3>1, GrantsLess
    <3>3. m + Hdr \in DOMAIN grants
      OBVIOUS
    <3>4. Promise!Return(m + Hdr)
      BY <2>1, <3>2 DEF Promise!Return, Promise!Without
    <3>. QED  BY <3>3, <3>4
  <2>6. ASSUME NEW m \in DOMAIN owned, NEW n \in Requests, Keep(m, n) \/ Shrink(m, n)
        PROVE  \E p \in DOMAIN grants, q \in Promise!Addresses, r \in Requests :
                 Promise!Resize(p, q, r)
    <3>1. owned' = With(m, n)
      BY <2>6 DEF Keep, Shrink
    <3>2. /\ owned' = [o \in DOMAIN owned \cup {m} |-> IF o = m THEN n ELSE owned[o]]
          /\ DOMAIN owned' = DOMAIN owned /\ owned'[m] = n
          /\ \A o \in DOMAIN owned \ {m} : owned'[o] = owned[o]
      BY <3>1 DEF With
    <3>3. GrantsOf(owned') = Promise!Granted(GrantsOf(owned), m + Hdr, n)
      BY <2>3, <3>2, GrantsMore
    <3>4. /\ m + Hdr \in 0 .. HeapEnd - 1 /\ (m + Hdr) + n <= HeapEnd
          /\ \A o \in DOMAIN owned \ {m} : Promise!Apart(m + Hdr, n, o + Hdr, owned[o])
      BY <2>2, <3>2, BlocksApart
    <3>5. /\ DOMAIN GrantsOf(owned) = {o + Hdr : o \in DOMAIN owned}
          /\ \A o \in DOMAIN owned : GrantsOf(owned)[o + Hdr] = owned[o]
      BY <2>3, GrantsFacts
    <3>6. \A q \in DOMAIN GrantsOf(owned) \ {m + Hdr} :
            Promise!Apart(m + Hdr, n, q, GrantsOf(owned)[q])
      BY <3>4, <3>5
    <3>7. m + Hdr \in DOMAIN GrantsOf(owned)
      BY <3>5
    <3>8. Promise!Granted(GrantsOf(owned), m + Hdr, n) =
            Promise!Granted([q \in DOMAIN GrantsOf(owned) \ {m + Hdr} |-> GrantsOf(owned)[q]],
                            m + Hdr, n)
      BY <3>7 DEF Promise!Granted
    <3>9. Promise!Resize(m + Hdr, m + Hdr, n)
      BY <2>1, <3>3, <3>4, <3>6, <3>8
      DEF Promise!Resize, Promise!Without, Promise!Vacant
    <3>. QED  BY <2>1, <3>4, <3>7, <3>9 DEF Promise!Addresses
  <2>7. ASSUME NEW m \in DOMAIN owned, NEW n \in Requests, Move(m, n)
        PROVE  \E p \in DOMAIN grants, q \in Promise!Addresses, r \in Requests :
                 Promise!Resize(p, q, r)
    <3>1. PICK k, h, g : k = Place(heap, n) /\ h = Allocated(heap, n) /\ g = With(k, n)
      OBVIOUS
    <3>2. k # Null /\ owned' = Drop(g, m)
      BY <2>7, <3>1 DEF Move
    <3>3. k \in Nat
      BY <3>1, <3>2, Placed
    <3>4. ChainOf(h) /\ Blocks(h, g) /\ k \notin DOMAIN owned
      BY <3>1, <3>2, AllocatedHeap
    <3>5. /\ g = [o \in DOMAIN owned \cup {k} |-> IF o = k THEN n ELSE owned[o]]
          /\ DOMAIN g = DOMAIN owned \cup {k} /\ g[k] = n /\ DOMAIN g \subseteq Nat
          /\ \A o \in DOMAIN owned : o # k /\ g[o] = owned[o]
      BY <2>3, <3>1, <3>3, <3>4 DEF With
    <3>6. GrantsOf(g) = Promise!Granted(GrantsOf(owned), k + Hdr, n)
      BY <2>3, <3>3, <3>5, GrantsMore
    <3>7. GrantsOf(owned') = [p \in DOMAIN GrantsOf(g) \ {m + Hdr} |-> GrantsOf(g)[p]]
      <4>1. m \in DOMAIN g
        BY <3>5
      <4>2. DOMAIN g \subseteq Nat
        BY <3>5
      <4>3. GrantsOf(Drop(g, m)) =
              [p \in DOMAIN GrantsOf(g) \ {m + Hdr} |-> GrantsOf(g)[p]]
        BY <4>1, <4>2, GrantsLess
      <4>. QED  BY <3>2, <4>3
    <3>8. m # k /\ m + Hdr # k + Hdr
      BY <2>3, <3>3, <3>5, HeapAssumption
    <3>9. GrantsOf(owned') =
            Promise!Granted([q \in DOMAIN GrantsOf(owned) \ {m + Hdr} |-> GrantsOf(owned)[q]],
                            k + Hdr, n)
      BY <3>6, <3>7, <3>8 DEF Promise!Granted
    <3>10. /\ k + Hdr \in 0 .. HeapEnd - 1 /\ (k + Hdr) + n <= HeapEnd
           /\ \A o \in DOMAIN owned : Promise!Apart(k + Hdr, n, o + Hdr, owned[o])
      BY <3>4, <3>5, BlocksApart
    <3>11. /\ DOMAIN GrantsOf(owned) = {o + Hdr : o \in DOMAIN owned}
           /\ \A o \in DOMAIN owned : GrantsOf(owned)[o + Hdr] = owned[o]
      BY <2>3, GrantsFacts
    <3>12. \A q \in DOMAIN GrantsOf(owned) :
             Promise!Apart(k + Hdr, n, q, GrantsOf(owned)[q])
      BY <3>10, <3>11
    <3>13. Promise!Resize(m + Hdr, k + Hdr, n)
      BY <2>1, <3>9, <3>10, <3>12
      DEF Promise!Resize, Promise!Without, Promise!Vacant
    <3>. QED  BY <2>1, <3>10, <3>11, <3>13 DEF Promise!Addresses
  <2>8. CASE UNCHANGED vars
    BY <2>8 DEF vars
  <2>. QED
    BY <2>4, <2>5, <2>6, <2>7, <2>8 DEF HeapNext, Promise!Next
<1>. QED
  BY <1>1, <1>2, HeapInvariant, PTL DEF HeapSpec, IsAllocator, Promise!Spec
=============================================================================
