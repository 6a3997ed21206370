------------------------------ MODULE Allocator ------------------------------
(***************************************************************************)
(* What rt-thread/src/mem.c promises its callers: memory it has given out  *)
(* lies inside the heap and belongs to one caller until that caller gives  *)
(* it back.                                                                *)
(***************************************************************************)
EXTENDS Naturals

CONSTANTS
  Space,    \* the addresses of the heap are 0 .. Space - 1
  Requests  \* the numbers of bytes callers ask for

VARIABLE grants  \* the memory given out: first address -> bytes asked for

Apart(p, n, q, m) == p + n <= q \/ q + m <= p

\* The n bytes at p are in the heap and belong to no block but those in mine.
Vacant(p, n, mine) ==
  /\ p + n <= Space
  /\ \A q \in DOMAIN grants \ mine : Apart(p, n, q, grants[q])

Without(p) == [q \in DOMAIN grants \ {p} |-> grants[q]]
Granted(g, p, n) == [q \in DOMAIN g \cup {p} |-> IF q = p THEN n ELSE g[q]]

Init == grants = << >>

Grant(p, n) == grants' = Granted(grants, p, n) /\ Vacant(p, n, {})

Return(p) == grants' = Without(p)

\* The block keeps its place, or moves to memory that is free while the old
\* block is still being copied from.
Resize(p, q, n) ==
  /\ grants' = Granted(Without(p), q, n)
  /\ Vacant(q, n, {p} \cap {q})

Addresses == 0 .. Space - 1

Next ==
  \/ \E p \in Addresses, n \in Requests : Grant(p, n)
  \/ \E p \in DOMAIN grants : Return(p)
  \/ \E p \in DOMAIN grants, q \in Addresses, n \in Requests : Resize(p, q, n)

Spec == Init /\ [][Next]_grants
=============================================================================
