------------------------------ MODULE RtList ------------------------------
(***************************************************************************)
(* The intrusive doubly linked list of rt-thread/include/rtservice.h.      *)
(* A heap of list nodes is a record of two functions from nodes to nodes,  *)
(* one per pointer field; a node that is on no list points to itself.      *)
(*                                                                         *)
(* Every store of the C bodies is an operator of its own, numbered in      *)
(* program order, because the clock interrupt walks the thread list while  *)
(* a thread may be between two of them.  The whole operation is their      *)
(* composition.                                                            *)
(***************************************************************************)
EXTENDS Naturals

\* The links of a set N of nodes.
Links(N) == [next : [N -> N], prev : [N -> N]]

SetNext(L, n, m) == [L EXCEPT !.next[n] = m]
SetPrev(L, n, m) == [L EXCEPT !.prev[n] = m]

\* rt_list_init: a node on no list.
ListInit(L, n) == SetNext(SetPrev(L, n, n), n, n)

\* Variant: the backward link of the old last node is forgotten.
BadInsertStep(L, l, n, k) ==
  CASE k = 1 -> SetNext(L, L.prev[l], n)
    [] k = 2 -> SetPrev(L, n, l)
    [] k = 3 -> SetPrev(L, l, n)
    [] k = 4 -> SetNext(L, n, l)

\* rt_list_insert_before(l, n), store by store.
InsertStep(L, l, n, k) ==
  CASE k = 1 -> SetNext(L, L.prev[l], n)
    [] k = 2 -> SetPrev(L, n, L.prev[l])
    [] k = 3 -> SetPrev(L, l, n)
    [] k = 4 -> SetNext(L, n, l)

\* Variant: the node is made its own successor before it is unlinked.
BadRemoveStep(L, n, k) ==
  CASE k = 1 -> SetPrev(L, L.next[n], L.prev[n])
    [] k = 2 -> SetNext(L, n, n)
    [] k = 3 -> SetNext(L, L.prev[n], L.next[n])
    [] k = 4 -> SetPrev(L, n, n)

\* Variant: the predecessor keeps pointing at the removed node.
BadRemoveNoUnlink(L, n, k) ==
  CASE k = 1 -> SetPrev(L, L.next[n], L.prev[n])
    [] k = 2 -> L
    [] k = 3 -> SetPrev(L, n, n)
    [] k = 4 -> SetNext(L, n, n)

\* rt_list_remove(n), store by store; n->next = n->prev = n stores prev first.
RemoveStep(L, n, k) ==
  CASE k = 1 -> SetPrev(L, L.next[n], L.prev[n])
    [] k = 2 -> SetNext(L, L.prev[n], L.next[n])
    [] k = 3 -> SetPrev(L, n, n)
    [] k = 4 -> SetNext(L, n, n)

LastStore == 4

\* rt_list_insert_before and rt_list_remove as a thread that is not
\* interrupted sees them.
InsertBefore(L, l, n) ==
  InsertStep(InsertStep(InsertStep(InsertStep(L, l, n, 1), l, n, 2), l, n, 3), l, n, 4)

ListRemove(L, n) ==
  RemoveStep(RemoveStep(RemoveStep(RemoveStep(L, n, 1), n, 2), n, 3), n, 4)

\* The test rt_list_isempty makes: a node that points to itself.  Of a list
\* head it says that the list is empty, of a member that it is on no list.
SelfLinked(L, n) == L.next[n] = n

\* S holds with a node its successor.
ClosedUnderNext(L, S) == \A m \in S : L.next[m] \in S

\* The nodes a walk of next pointers from h meets: the least set that holds h
\* and is closed under next.
Ring(L, h) ==
  { n \in DOMAIN L.next :
      \A S \in SUBSET DOMAIN L.next : h \in S /\ ClosedUnderNext(L, S) => n \in S }

(* prev undoes next and next undoes prev. *)
WellLinked(L) ==
  \A n \in DOMAIN L.next : L.prev[L.next[n]] = n /\ L.next[L.prev[n]] = n

(* Every node with links to another one is on the ring of h. *)
OneRingAt(L, h) ==
  \A n \in DOMAIN L.next : L.next[n] # n => n \in Ring(L, h)
=============================================================================
