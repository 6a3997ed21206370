--------------------------- MODULE TickWalkProofs ---------------------------
(***************************************************************************)
(* What the clock interrupt sees between two stores of a list operation,   *)
(* for any number of threads.  Half way through an operation the list is   *)
(* not a ring, so the invariant says which ring the operation started from *)
(* and which of its stores have been made (Between), and what the walk has *)
(* done so far on the links as they stand (Walking).                       *)
(***************************************************************************)
EXTENDS TickWalk, RtListProofs

\* The links L form a ring of Head and the threads in M.
Quiet(L, M) ==
  /\ L \in Links(Node)
  /\ WellLinked(L)
  /\ OneRingAt(L, Head)
  /\ \A t \in Threads : L.next[t] # t <=> t \in M

\* L after the first k stores of rt_list_remove(n).
Removing(L, n, k) ==
  CASE k = 0 -> L
    [] k = 1 -> RemoveStep(L, n, 1)
    [] k = 2 -> RemoveStep(RemoveStep(L, n, 1), n, 2)
    [] k = 3 -> RemoveStep(RemoveStep(RemoveStep(L, n, 1), n, 2), n, 3)

\* L after the first k stores of rt_list_insert_before(Head, n).
Inserting(L, n, k) ==
  CASE k = 0 -> L
    [] k = 1 -> InsertStep(L, Head, n, 1)
    [] k = 2 -> InsertStep(InsertStep(L, Head, n, 1), Head, n, 2)
    [] k = 3 -> InsertStep(InsertStep(InsertStep(L, Head, n, 1), Head, n, 2), Head, n, 3)

\* The threads on the ring the operation in progress started from.
Linked == IF op = "link" THEN members \ {node} ELSE members

Between ==
  \E L : /\ Quiet(L, Linked)
         /\ list = IF op = "link" THEN Inserting(L, node, done)
                   ELSE IF op = "none" THEN L ELSE Removing(L, node, done)

\* The cursor has come from Head along next; every thread it has met was
\* reached from another one, and only the window of the insertion lets it
\* meet a thread again.
Trail == seen \cup {Head}
Walking ==
  walk # NoNode =>
    /\ \A m \in Trail : list.next[m] \in seen \cup {walk}
    /\ \A s \in (seen \cup {walk}) \ {Head} : \E m \in Trail \ {s} : list.next[m] = s
    /\ RevisitOnlyInInsert
    /\ (seen \cup {walk}) \ {Head} \subseteq members \cup {node}

Fields ==
  /\ op \in {"none", "detach", "unlink", "link"}
  /\ node \in Threads \cup {NoNode}
  /\ op = "none" <=> node = NoNode
  /\ op = "none" => done = 0
  /\ op = "detach" => node \in members
  /\ done \in 0..3
  /\ members \subseteq Threads
  /\ walk \in Node \cup {NoNode}
  /\ seen \subseteq Threads

WalkInv == Fields /\ Between /\ Walking

USE TickWalkAssumption DEF Node

-----------------------------------------------------------------------------
\* The next pointers in the middle of a removal.
LEMMA RemovingNext ==
  ASSUME NEW L \in Links(Node), NEW n \in Node, NEW k \in 0..3,
         NEW R, R = Removing(L, n, k)
  PROVE  /\ R \in Links(Node)
         /\ \A m \in Node : R.next[m] =
              IF k \in 2..3 /\ m = L.prev[n] THEN L.next[n] ELSE L.next[m]
<1>1. PICK L1 : L1 = RemoveStep(L, n, 1)
  OBVIOUS
<1>2. PICK L2 : L2 = RemoveStep(L1, n, 2)
  OBVIOUS
<1>3. PICK L3 : L3 = RemoveStep(L2, n, 3)
  OBVIOUS
<1>4. L.next[n] \in Node /\ L.prev[n] \in Node
  BY DEF Links
<1>5. L1 \in Links(Node) /\ L1.next = L.next /\ L1.prev = [L.prev EXCEPT ![L.next[n]] = L.prev[n]]
  <2>1. L1 = SetPrev(L, L.next[n], L.prev[n])
    BY <1>1, StoreOrder
  <2>. QED  BY <1>4, <2>1 DEF Links, SetPrev
<1>6. L1.prev[n] = L.prev[n]
  BY <1>4, <1>5 DEF Links
<1>7. L2 \in Links(Node) /\ L2.next = [L.next EXCEPT ![L.prev[n]] = L.next[n]]
  <2>1. L2 = SetNext(L1, L.prev[n], L.next[n])
    <3>1. L2 = SetNext(L1, L1.prev[n], L1.next[n])
      BY <1>2, StoreOrder
    <3>. QED  BY <1>5, <1>6, <3>1
  <2>. QED  BY <1>4, <1>5, <2>1 DEF Links, SetNext
<1>8. L3 \in Links(Node) /\ L3.next = L2.next
  <2>1. L3 = SetPrev(L2, n, n)
    BY <1>3, StoreOrder
  <2>. QED  BY <1>7, <2>1 DEF Links, SetPrev
<1>9. R = IF k = 0 THEN L ELSE IF k = 1 THEN L1 ELSE IF k = 2 THEN L2 ELSE L3
  BY <1>1, <1>2, <1>3 DEF Removing
<1>10. L.next \in [Node -> Node]
  BY DEF Links
<1>. QED  BY <1>4, <1>5, <1>7, <1>8, <1>9, <1>10

\* The next pointers in the middle of an insertion.
LEMMA InsertingNext ==
  ASSUME NEW L \in Links(Node), NEW n \in Threads, NEW k \in 0..3,
         NEW I, I = Inserting(L, n, k)
  PROVE  /\ I \in Links(Node)
         /\ \A m \in Node : I.next[m] =
              IF k \in 1..3 /\ m = L.prev[Head] THEN n ELSE L.next[m]
<1>1. PICK L1 : L1 = InsertStep(L, Head, n, 1)
  OBVIOUS
<1>2. PICK L2 : L2 = InsertStep(L1, Head, n, 2)
  OBVIOUS
<1>3. PICK L3 : L3 = InsertStep(L2, Head, n, 3)
  OBVIOUS
<1>4. L.prev[Head] \in Node
  BY DEF Links
<1>5. L1 \in Links(Node) /\ L1.next = [L.next EXCEPT ![L.prev[Head]] = n]
  <2>1. L1 = SetNext(L, L.prev[Head], n)
    BY <1>1, StoreOrder
  <2>. QED  BY <1>4, <2>1 DEF Links, SetNext
<1>6. L2 \in Links(Node) /\ L2.next = L1.next
  <2>1. L2 = SetPrev(L1, n, L1.prev[Head])
    BY <1>2, StoreOrder
  <2>2. L1.prev[Head] \in Node
    BY <1>5 DEF Links
  <2>. QED  BY <1>5, <2>1, <2>2 DEF Links, SetPrev
<1>7. L3 \in Links(Node) /\ L3.next = L2.next
  <2>1. L3 = SetPrev(L2, Head, n)
    BY <1>3, StoreOrder
  <2>. QED  BY <1>6, <2>1 DEF Links, SetPrev
<1>8. I = IF k = 0 THEN L ELSE IF k = 1 THEN L1 ELSE IF k = 2 THEN L2 ELSE L3
  BY <1>1, <1>2, <1>3 DEF Inserting
<1>9. L.next \in [Node -> Node]
  BY DEF Links
<1>. QED  BY <1>4, <1>5, <1>6, <1>7, <1>8, <1>9

\* From a linked node, or the head, next leads to a linked node or the head,
\* and prev undoes it.
LEMMA QuietNext ==
  ASSUME NEW M \in SUBSET Threads, NEW L, Quiet(L, M)
  PROVE  /\ L \in Links(Node)
         /\ \A m \in Node : L.next[m] \in Node /\ L.prev[m] \in Node
         /\ \A m \in Node : L.prev[L.next[m]] = m /\ L.next[L.prev[m]] = m
         /\ \A m \in M \cup {Head} : L.next[m] \in M \cup {Head}
         /\ \A S \in SUBSET Node : Head \in S /\ ClosedUnderNext(L, S) => M \subseteq S
<1>1. L \in Links(Node)
  BY DEF Quiet
<1>2. \A m \in Node : L.next[m] \in Node /\ L.prev[m] \in Node
  BY <1>1 DEF Links
<1>3. \A m \in Node : L.prev[L.next[m]] = m /\ L.next[L.prev[m]] = m
  BY <1>1, RingMember DEF Quiet
<1>4. ASSUME NEW m \in M \cup {Head} PROVE L.next[m] \in M \cup {Head}
  <2>1. CASE L.next[m] \in Threads \ M
    <3>1. L.next[L.next[m]] = L.next[m]
      BY <2>1 DEF Quiet
    <3>2. L.next[m] = m
      BY <1>2, <1>3, <3>1
    <3>. QED  BY <2>1, <3>2
  <2>. QED  BY <1>2, <2>1
<1>5. ASSUME NEW S \in SUBSET Node, Head \in S, ClosedUnderNext(L, S) PROVE M \subseteq S
  <2>1. \A m \in Node : L.next[m] # m => m \in S
    BY <1>1, <1>5, RingMember DEF Quiet
  <2>. QED  BY <2>1 DEF Quiet
<1>. QED  BY <1>1, <1>2, <1>3, <1>4, <1>5

\* Everything a walk needs to know of the links at any moment: no thread that
\* stays is cut off from Head; next leads to threads that are on the list or
\* being moved; two threads other than the one being moved have different
\* successors; and that one is either not to be reached or not joined twice.
LEMMA LinksBetween ==
  ASSUME Fields, Between
  PROVE  /\ list \in Links(Node)
         /\ \A m \in Node : list.next[m] \in Node
         /\ \A S \in SUBSET Node :
              Head \in S /\ ClosedUnderNext(list, S) => members \ {node} \subseteq S
         /\ \A m \in (members \cup {node, Head}) \cap Node :
              list.next[m] \in members \cup {node, Head}
         /\ \A m, k \in Node \ {node} : list.next[m] = list.next[k] => m = k
         /\ op = "link" /\ done \in 1..3 => list.next[node] = node
         /\ op \in {"detach", "unlink"} /\ done \in 2..3 =>
              \A m \in Node \ {node} : list.next[m] # node
         /\ node # NoNode /\ ~(op = "link" /\ done \in 1..3)
              /\ ~(op \in {"detach", "unlink"} /\ done \in 2..3) =>
              \A m \in Node \ {node} : list.next[m] # list.next[node]
<1>1. PICK L : /\ Quiet(L, Linked)
               /\ list = IF op = "link" THEN Inserting(L, node, done)
                         ELSE IF op = "none" THEN L ELSE Removing(L, node, done)
  BY DEF Between
<1>2. Linked \in SUBSET Threads
  BY DEF Linked, Fields
<1>3. /\ L \in Links(Node)
      /\ \A m \in Node : L.next[m] \in Node /\ L.prev[m] \in Node
      /\ \A m \in Node : L.prev[L.next[m]] = m /\ L.next[L.prev[m]] = m
      /\ \A m \in Linked \cup {Head} : L.next[m] \in Linked \cup {Head}
      /\ \A S \in SUBSET Node : Head \in S /\ ClosedUnderNext(L, S) => Linked \subseteq S
  BY <1>1, <1>2, QuietNext
<1>4. CASE op = "none"
  <2>1. list = L /\ Linked = members /\ node = NoNode
    BY <1>1, <1>4 DEF Linked, Fields
  <2>2. \A m, k \in Node : list.next[m] = list.next[k] => m = k
    BY <1>3, <2>1
  <2>. QED  BY <1>3, <1>4, <2>1, <2>2
<1>5. CASE op = "link"
  <2>1. node \in Threads /\ done \in 0..3 /\ Linked = members \ {node}
    BY <1>5 DEF Linked, Fields
  <2>2. /\ list \in Links(Node)
        /\ \A m \in Node : list.next[m] =
             IF done \in 1..3 /\ m = L.prev[Head] THEN node ELSE L.next[m]
    <3>1. list = Inserting(L, node, done)
      BY <1>1, <1>5
    <3>2. L \in Links(Node) /\ node \in Threads /\ done \in 0..3
      BY <1>3, <2>1
    <3>3. PICK n, k, I : n = node /\ k = done /\ I = list
      OBVIOUS
    <3>4. I = Inserting(L, n, k) /\ L \in Links(Node) /\ n \in Threads /\ k \in 0..3
      BY <3>1, <3>2, <3>3
    <3>5. I \in Links(Node)
      BY <3>4, InsertingNext
    <3>6. \A m \in Node : I.next[m] =
             IF k \in 1..3 /\ m = L.prev[Head] THEN n ELSE L.next[m]
      BY <3>4, InsertingNext
    <3>. QED  BY <3>3, <3>5, <3>6
  <2>3. L.next[node] = node /\ L.prev[node] = node
    <3>1. L.next[node] = node
      BY <1>1, <2>1 DEF Quiet
    <3>. QED  BY <1>3, <2>1, <3>1
  <2>4. L.next[L.prev[Head]] = Head /\ L.prev[Head] # node
    BY <1>3, <2>1, <2>3
  <2>5. ASSUME NEW S \in SUBSET Node, Head \in S, ClosedUnderNext(list, S)
        PROVE  members \ {node} \subseteq S
    <3>1. ClosedUnderNext(L, S)
      BY <1>3, <2>2, <2>4, <2>5 DEF ClosedUnderNext
    <3>. QED  BY <1>3, <2>1, <2>5, <3>1
  <2>6. ASSUME NEW m \in (members \cup {node, Head}) \cap Node
        PROVE  list.next[m] \in members \cup {node, Head}
    BY <1>3, <2>1, <2>2, <2>3
  <2>7. ASSUME NEW m \in Node \ {node}, NEW k \in Node \ {node}, list.next[m] = list.next[k]
        PROVE  m = k
    <3>1. L.next[m] # node /\ L.next[k] # node
      BY <1>3, <2>1, <2>3
    <3>. QED  BY <1>3, <2>2, <2>7, <3>1
  <2>8. done \in 1..3 => list.next[node] = node
    BY <2>1, <2>2, <2>3, <2>4
  <2>9. done = 0 => \A m \in Node \ {node} : list.next[m] # list.next[node]
    BY <1>3, <2>1, <2>2, <2>3
  <2>10. \A m \in Node : list.next[m] \in Node
    BY <1>3, <2>1, <2>2
  <2>. QED  BY <1>5, <2>1, <2>2, <2>5, <2>6, <2>7, <2>8, <2>9, <2>10
<1>6. CASE op \in {"detach", "unlink"}
  <2>1. node \in Threads /\ done \in 0..3 /\ Linked = members
    BY <1>6 DEF Linked, Fields
  <2>2. /\ list \in Links(Node)
        /\ \A m \in Node : list.next[m] =
             IF done \in 2..3 /\ m = L.prev[node] THEN L.next[node] ELSE L.next[m]
    <3>1. list = Removing(L, node, done)
      BY <1>1, <1>6
    <3>2. L \in Links(Node) /\ node \in Node /\ done \in 0..3
      BY <1>3, <2>1
    <3>3. PICK n, k, R : n = node /\ k = done /\ R = list
      OBVIOUS
    <3>4. R = Removing(L, n, k) /\ L \in Links(Node) /\ n \in Node /\ k \in 0..3
      BY <3>1, <3>2, <3>3
    <3>5. R \in Links(Node)
      BY <3>4, RemovingNext
    <3>6. \A m \in Node : R.next[m] =
             IF k \in 2..3 /\ m = L.prev[n] THEN L.next[n] ELSE L.next[m]
      BY <3>4, RemovingNext
    <3>. QED  BY <3>3, <3>5, <3>6
  <2>3. L.next[L.prev[node]] = node
    BY <1>3, <2>1
  <2>4. ASSUME NEW S \in SUBSET Node, Head \in S, ClosedUnderNext(list, S)
        PROVE  members \ {node} \subseteq S
    <3> DEFINE T == IF L.prev[node] \in S THEN S \cup {node} ELSE S \ {node}
    <3>1. ClosedUnderNext(L, T)
      <4>1. CASE L.prev[node] \in S
        <5>1. L.next[node] \in S \cup {node}
          BY <1>3, <2>1, <2>2, <2>4, <4>1 DEF ClosedUnderNext
        <5>2. \A m \in S : L.next[m] \in S \cup {node}
          BY <1>3, <2>1, <2>2, <2>3, <2>4 DEF ClosedUnderNext
        <5>. QED  BY <4>1, <5>1, <5>2 DEF ClosedUnderNext
      <4>2. CASE L.prev[node] \notin S
        <5>1. \A m \in S \ {node} : L.next[m] \in S /\ L.next[m] # node
          BY <1>3, <2>1, <2>2, <2>3, <2>4, <4>2 DEF ClosedUnderNext
        <5>. QED  BY <4>2, <5>1 DEF ClosedUnderNext
      <4>. QED  BY <4>1, <4>2
    <3>2. Head \in T /\ T \in SUBSET Node
      BY <2>1, <2>4
    <3>3. Linked \subseteq T
      BY <1>3, <3>1, <3>2
    <3>. QED  BY <2>1, <3>3
  <2>5. ASSUME NEW m \in (members \cup {node, Head}) \cap Node
        PROVE  list.next[m] \in members \cup {node, Head}
    <3>1. L.next[node] \in members \cup {node, Head}
      <4>1. CASE node \in Linked
        BY <1>3, <2>1, <4>1
      <4>2. CASE node \notin Linked
        BY <1>1, <2>1, <4>2 DEF Quiet
      <4>. QED  BY <4>1, <4>2
    <3>. QED  BY <1>3, <2>1, <2>2, <3>1
  <2>6. ASSUME NEW m \in Node \ {node}, NEW k \in Node \ {node}, list.next[m] = list.next[k]
        PROVE  m = k
    BY <1>3, <2>1, <2>2, <2>6
  <2>7. done \in 2..3 => \A m \in Node \ {node} : list.next[m] # node
    BY <1>3, <2>1, <2>2
  <2>8. done \notin 2..3 => \A m \in Node \ {node} : list.next[m] # list.next[node]
    BY <1>3, <2>1, <2>2
  <2>9. \A m \in Node : list.next[m] \in Node
    BY <1>3, <2>1, <2>2
  <2>. QED  BY <1>6, <2>1, <2>2, <2>4, <2>5, <2>6, <2>7, <2>8, <2>9
<1>. QED  BY <1>4, <1>5, <1>6 DEF Fields

-----------------------------------------------------------------------------
\* An empty list, and the interrupt outside its walk.
LEMMA InvInit == WalkInit => WalkInv
<1> SUFFICES ASSUME WalkInit PROVE WalkInv
  OBVIOUS
<1>1. Fields /\ Walking
  BY DEF WalkInit, Fields, Walking
<1>2. list \in Links(Node) /\ \A n \in Node : list.next[n] = n /\ list.prev[n] = n
  BY DEF WalkInit, Links
<1>3. DOMAIN list.next = Node
  BY <1>2 DEF Links
<1>4. WellLinked(list) /\ OneRingAt(list, Head)
  BY <1>2, <1>3 DEF WellLinked, OneRingAt
<1>5. Quiet(list, Linked)
  BY <1>2, <1>4 DEF WalkInit, Linked, Quiet
<1>6. Between
  BY <1>5 DEF WalkInit, Between
<1>. QED  BY <1>1, <1>6 DEF WalkInv

\* A completed removal or insertion turns one ring into another.
LEMMA RemovedQuiet ==
  ASSUME NEW M \in SUBSET Threads, NEW L, Quiet(L, M), NEW n \in Threads,
         NEW R, R = ListRemove(L, n)
  PROVE  Quiet(R, M \ {n})
<1>1. /\ R \in Links(Node) /\ WellLinked(R) /\ OneRingAt(R, Head) /\ R.next[n] = n
      /\ \A m \in Node \ {n, Head} : R.next[m] = m <=> L.next[m] = m
  BY RemoveKeepsRing DEF Quiet
<1>. QED  BY <1>1 DEF Quiet

\* rt_list_insert_before makes n a member of the ring.
LEMMA InsertedQuiet ==
  ASSUME NEW M \in SUBSET Threads, NEW L, Quiet(L, M), NEW n \in Threads \ M,
         NEW I, I = InsertBefore(L, Head, n)
  PROVE  Quiet(I, M \cup {n})
<1>1. L.next[n] = n
  BY DEF Quiet
<1>2. /\ I \in Links(Node) /\ WellLinked(I) /\ OneRingAt(I, Head) /\ I.next[n] # n
      /\ \A m \in Node \ {n, Head} : I.next[m] = m <=> L.next[m] = m
  BY <1>1, InsertKeepsRing DEF Quiet
<1>. QED  BY <1>2 DEF Quiet

\* One more store.
LEMMA StoreBetween ==
  ASSUME Fields, Between, Store
  PROVE  Fields' /\ Between'
<1>1. Fields'
  BY DEF Fields, Store, ThreadLevel, LastStore
<1>2. PICK L : /\ Quiet(L, Linked)
               /\ list = IF op = "link" THEN Inserting(L, node, done)
                         ELSE IF op = "none" THEN L ELSE Removing(L, node, done)
  BY DEF Between
<1>3. Linked \in SUBSET Threads /\ node \in Threads /\ done \in 0..3
  BY DEF Linked, Fields, Store
<1>4. CASE done # 3
  <2>1. done + 1 \in 1..3 /\ done' = done + 1
    BY <1>3, <1>4 DEF Store, LastStore
  <2>2. UNCHANGED <<op, node, members>>
    BY <2>1 DEF Store
  <2>3. Linked' = Linked
    BY <2>2 DEF Linked
  <2>4. CASE op = "link"
    <3>1. list' = InsertStep(Inserting(L, node, done), Head, node, done + 1)
      BY <1>2, <2>4 DEF Store
    <3>2. list' = Inserting(L, node, done + 1)
      BY <1>3, <1>4, <3>1 DEF Inserting
    <3>. QED  BY <1>1, <1>2, <2>1, <2>2, <2>3, <2>4, <3>2 DEF Between
  <2>5. CASE op # "link"
    <3>1. op # "none" /\ list' = RemoveStep(Removing(L, node, done), node, done + 1)
      BY <1>2, <2>5 DEF Store
    <3>2. list' = Removing(L, node, done + 1)
      BY <1>3, <1>4, <3>1 DEF Removing
    <3>. QED  BY <1>1, <1>2, <2>1, <2>2, <2>3, <2>5, <3>1, <3>2 DEF Between
  <2>. QED  BY <2>4, <2>5
<1>5. CASE done = 3
  <2>1. done' = 0
    BY <1>5 DEF Store, LastStore
  <2>2. CASE op = "link"
    <3>1. list' = InsertBefore(L, Head, node)
      BY <1>2, <1>5, <2>2 DEF Store, Inserting, InsertBefore
    <3>2. node \notin Linked /\ Linked \cup {node} = members \cup {node}
      BY <2>2 DEF Linked
    <3>3. op' = "none" /\ members' = members \cup {node}
      BY <2>1, <2>2 DEF Store
    <3>4. Quiet(list', Linked \cup {node})
      BY <1>2, <1>3, <3>1, <3>2, InsertedQuiet
    <3>5. Quiet(list', Linked')
      BY <3>2, <3>3, <3>4 DEF Linked
    <3>. QED  BY <1>1, <3>3, <3>5 DEF Between
  <2>3. CASE op # "link"
    <3>1. op \in {"detach", "unlink"} /\ Linked = members
      BY <2>3 DEF Fields, Store, Linked
    <3>2. list' = ListRemove(L, node)
      BY <1>2, <1>5, <3>1 DEF Store, Removing, ListRemove
    <3>3. Quiet(list', members \ {node})
      BY <1>2, <1>3, <3>1, <3>2, RemovedQuiet
    <3>4. Linked' = members \ {node} /\ op' \in {"none", "link"}
      BY <2>1, <3>1 DEF Store, Linked
    <3>5. Quiet(list', Linked')
      BY <3>3, <3>4
    <3>6. list' = IF op' = "link" THEN Inserting(list', node', done')
                  ELSE IF op' = "none" THEN list' ELSE Removing(list', node', done')
      BY <2>1, <3>4 DEF Inserting
    <3>. QED  BY <1>1, <3>5, <3>6 DEF Between
  <2>. QED  BY <2>2, <2>3
<1>. QED  BY <1>4, <1>5

\* The window of rt_list_insert_before in which the new node is reachable.
Window == op = "link" /\ done \in 1..3

\* One step along next.
LEMMA VisitWalking ==
  ASSUME WalkInv, Visit
  PROVE  Walking'
<1>1. /\ walk \in Threads /\ seen' = seen \cup {walk} /\ walk' = list.next[walk]
      /\ UNCHANGED <<list, op, node, done, members>>
  BY DEF Visit
<1>2. /\ \A m \in Trail : list.next[m] \in seen \cup {walk}
      /\ \A s \in (seen \cup {walk}) \ {Head} : \E m \in Trail \ {s} : list.next[m] = s
      /\ walk \in seen => Window /\ walk = node
      /\ (seen \cup {walk}) \ {Head} \subseteq members \cup {node}
  BY <1>1 DEF WalkInv, Walking, RevisitOnlyInInsert, Window
<1>3. /\ \A m \in Node : list.next[m] \in Node
      /\ \A m \in (members \cup {node, Head}) \cap Node :
           list.next[m] \in members \cup {node, Head}
      /\ \A m, k \in Node \ {node} : list.next[m] = list.next[k] => m = k
      /\ Window => list.next[node] = node
      /\ op \in {"detach", "unlink"} /\ done \in 2..3 =>
           \A m \in Node \ {node} : list.next[m] # node
      /\ node # NoNode /\ ~Window /\ ~(op \in {"detach", "unlink"} /\ done \in 2..3) =>
           \A m \in Node \ {node} : list.next[m] # list.next[node]
  BY LinksBetween DEF WalkInv, Window
<1>4. Trail \subseteq Node /\ Trail' = Trail \cup {walk} /\ walk # Head /\ Head \notin seen
  BY <1>1 DEF Trail, WalkInv, Fields
<1>5. \A m \in Trail' : list.next[m] \in seen' \cup {walk'}
  BY <1>1, <1>2, <1>4
<1>6. ASSUME NEW s \in (seen' \cup {walk'}) \ {Head}
      PROVE  \E m \in Trail' \ {s} : list.next[m] = s
  <2>1. CASE s \in seen \cup {walk}
    BY <1>2, <1>4, <1>6, <2>1
  <2>2. CASE s \notin seen \cup {walk}
    BY <1>1, <1>4, <1>6, <2>2
  <2>. QED  BY <2>1, <2>2
<1>7. ASSUME walk' \in seen' PROVE Window /\ walk' = node
  <2>1. CASE walk \in seen
    BY <1>1, <1>2, <1>3, <2>1
  <2>2. CASE walk \notin seen
    <3>1. PICK m \in Trail \ {walk'} : list.next[m] = list.next[walk]
      BY <1>1, <1>2, <1>4, <1>7
    <3>2. m # walk
      BY <1>4, <2>2, <3>1 DEF Trail
    <3>3. m = node \/ walk = node
      BY <1>1, <1>3, <1>4, <3>1, <3>2
    <3>4. m = node => m \in seen
      BY <3>1 DEF Trail, WalkInv, Fields
    <3>5. ~(op \in {"detach", "unlink"} /\ done \in 2..3)
      BY <1>2, <1>3, <1>4, <3>3, <3>4
    <3>6. Window
      BY <1>1, <1>3, <1>4, <3>1, <3>2, <3>3, <3>5
    <3>7. m # node
      BY <1>1, <1>3, <3>1, <3>6
    <3>. QED  BY <1>1, <1>3, <3>3, <3>6, <3>7
  <2>. QED  BY <2>1, <2>2
<1>8. (seen' \cup {walk'}) \ {Head} \subseteq members \cup {node}
  BY <1>1, <1>2, <1>3
<1>. QED
  BY <1>1, <1>4, <1>5, <1>6, <1>7, <1>8 DEF Walking, RevisitOnlyInInsert, Window, Trail

\* The first node behind the head.
LEMMA EnterWalking ==
  ASSUME WalkInv, Enter
  PROVE  Walking'
<1>1. walk' = list.next[Head] /\ seen' = {} /\ UNCHANGED <<list, op, node, done, members>>
  BY DEF Enter
<1>2. list.next[Head] \in Node /\ list.next[Head] \in members \cup {node, Head}
  BY LinksBetween DEF WalkInv
<1>3. Trail' = {Head}
  BY <1>1 DEF Trail
<1>. QED  BY <1>1, <1>2, <1>3 DEF Walking, RevisitOnlyInInsert

\* Every store of the thread level and every step of the interrupt keep WalkInv.
LEMMA InvStep == WalkInv /\ [WalkNext]_vars => WalkInv'
<1> SUFFICES ASSUME WalkInv, [WalkNext]_vars PROVE WalkInv'
  OBVIOUS
<1>1. ASSUME NEW t \in Threads, NEW kind \in {"detach", "unlink"}, Start(t, kind)
      PROVE  WalkInv'
  <2>1. Fields'
    BY <1>1 DEF Start, ThreadLevel, WalkInv, Fields
  <2>2. Linked' = Linked /\ list' = list /\ op = "none" /\ done' = 0 /\ op' \in {"detach", "unlink"}
    BY <1>1 DEF Start, Linked, WalkInv, Fields
  <2>3. PICK L : Quiet(L, Linked) /\ list = L
    BY <2>2 DEF WalkInv, Between
  <2>4. list' = Removing(L, node', done')
    BY <2>2, <2>3 DEF Removing
  <2>5. Between'
    BY <2>2, <2>3, <2>4 DEF Between
  <2>6. Walking'
    BY <1>1 DEF Start, ThreadLevel, Walking
  <2>. QED  BY <2>1, <2>5, <2>6 DEF WalkInv
<1>2. CASE Store
  <2>1. Walking'
    BY <1>2 DEF Store, ThreadLevel, Walking
  <2>. QED  BY <1>2, <2>1, StoreBetween DEF WalkInv
<1>3. CASE Enter
  <2>1. Fields'
    <3>1. list.next[Head] \in Node
      BY LinksBetween DEF WalkInv
    <3>. QED  BY <1>3, <3>1 DEF Enter, WalkInv, Fields
  <2>2. Between'
    BY <1>3 DEF Enter, WalkInv, Between, Linked
  <2>. QED  BY <1>3, <2>1, <2>2, EnterWalking DEF WalkInv
<1>4. CASE Visit
  <2>1. Fields'
    <3>1. walk \in Threads => list.next[walk] \in Node
      BY LinksBetween DEF WalkInv
    <3>. QED  BY <1>4, <3>1 DEF Visit, WalkInv, Fields
  <2>2. Between'
    BY <1>4 DEF Visit, WalkInv, Between, Linked
  <2>. QED  BY <1>4, <2>1, <2>2, VisitWalking DEF WalkInv
<1>5. CASE Leave
  <2>1. Fields' /\ Walking'
    BY <1>5 DEF Leave, WalkInv, Fields, Walking
  <2>2. Between'
    BY <1>5 DEF Leave, WalkInv, Between, Linked
  <2>. QED  BY <2>1, <2>2 DEF WalkInv
<1>6. CASE UNCHANGED vars
  BY <1>6 DEF vars, WalkInv, Fields, Between, Linked, Walking, Trail, RevisitOnlyInInsert
<1>. QED  BY <1>1, <1>2, <1>3, <1>4, <1>5, <1>6 DEF WalkNext, Interrupt

\* WalkInv is an invariant.
LEMMA InvAlways == WalkSpec => []WalkInv
BY InvInit, InvStep, PTL DEF WalkSpec

-----------------------------------------------------------------------------
\* Between two operations the list is a ring of exactly its members: the
\* interrupt, which only reads, cannot spoil the moves it interrupts.
THEOREM TypeCorrect == WalkSpec => []TypeOK
<1>1. ASSUME WalkInv PROVE TypeOK
  <2>1. list \in Links(Node)
    BY <1>1, LinksBetween DEF WalkInv
  <2>2. ASSUME op = "none" PROVE Ring(list, Head) = members \cup {Head}
    <3>1. Quiet(list, members) /\ members \in SUBSET Threads
      BY <1>1, <2>2 DEF WalkInv, Between, Linked, Fields
    <3>2. /\ \A m \in members \cup {Head} : list.next[m] \in members \cup {Head}
          /\ \A S \in SUBSET Node : Head \in S /\ ClosedUnderNext(list, S) => members \subseteq S
      BY <3>1, QuietNext
    <3>3. DOMAIN list.next = Node
      BY <2>1 DEF Links
    <3>4. ClosedUnderNext(list, members \cup {Head}) /\ members \cup {Head} \in SUBSET Node
      BY <3>1, <3>2 DEF ClosedUnderNext
    <3>5. Ring(list, Head) \subseteq members \cup {Head}
      BY <3>3, <3>4 DEF Ring
    <3>6. members \cup {Head} \subseteq Ring(list, Head)
      BY <3>1, <3>2, <3>3 DEF Ring
    <3>. QED  BY <3>5, <3>6
  <2>. QED  BY <1>1, <2>1, <2>2 DEF WalkInv, Fields, TypeOK, QuietRing, LastStore
<1>. QED  BY <1>1, InvAlways, PTL

\* An interrupt at any store counts a tick for every thread but the one being
\* moved, and for no thread that is not on the list.
THEOREM NobodyMissed == WalkSpec => []WalkSeesAll
<1>1. ASSUME WalkInv PROVE WalkSeesAll
  <2> SUFFICES ASSUME walk = Head
               PROVE  members \ {node} \subseteq seen /\ seen \subseteq members \cup {node}
    BY DEF WalkSeesAll
  <2>1. Trail \in SUBSET Node /\ Head \notin seen /\ Head \notin members
    BY <1>1 DEF WalkInv, Fields, Trail
  <2>2. ClosedUnderNext(list, Trail)
    BY <1>1 DEF WalkInv, Walking, Trail, ClosedUnderNext
  <2>3. members \ {node} \subseteq Trail
    BY <1>1, <2>1, <2>2, LinksBetween DEF WalkInv, Trail
  <2>4. seen \subseteq members \cup {node}
    BY <1>1, <2>1 DEF WalkInv, Walking
  <2>. QED  BY <2>1, <2>3, <2>4 DEF Trail
<1>. QED  BY <1>1, InvAlways, PTL

\* Only the window of the insertion counts a tick twice, and traps the walk.
THEOREM OnlyInsertionTraps == WalkSpec => []RevisitOnlyInInsert
<1>1. ASSUME WalkInv PROVE RevisitOnlyInInsert
  BY <1>1 DEF WalkInv, Walking, RevisitOnlyInInsert, Fields
<1>. QED  BY <1>1, InvAlways, PTL
=============================================================================
