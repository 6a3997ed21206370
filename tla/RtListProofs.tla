---------------------------- MODULE RtListProofs ----------------------------
(***************************************************************************)
(* Facts about the list operations of RtList for every set of nodes.       *)
(***************************************************************************)
EXTENDS RtList, TLAPS

(* The stores of rt_list_remove and rt_list_insert_before, one by one.      *)
LEMMA StoreOrder ==
  ASSUME NEW L, NEW h, NEW n
  PROVE  /\ RemoveStep(L, n, 1) = SetPrev(L, L.next[n], L.prev[n])
         /\ RemoveStep(L, n, 2) = SetNext(L, L.prev[n], L.next[n])
         /\ RemoveStep(L, n, 3) = SetPrev(L, n, n)
         /\ RemoveStep(L, n, 4) = SetNext(L, n, n)
         /\ InsertStep(L, h, n, 1) = SetNext(L, L.prev[h], n)
         /\ InsertStep(L, h, n, 2) = SetPrev(L, n, L.prev[h])
         /\ InsertStep(L, h, n, 3) = SetPrev(L, h, n)
         /\ InsertStep(L, h, n, 4) = SetNext(L, n, h)
  BY DEF RemoveStep, InsertStep

(* rt_list_remove joins the neighbours of n and makes n point to itself.    *)
LEMMA RemovePointers ==
  ASSUME NEW N, NEW L \in Links(N), NEW n \in N, NEW R, R = ListRemove(L, n)
  PROVE  /\ R \in Links(N)
         /\ \A m \in N : R.next[m] = IF m = n THEN n
                                     ELSE IF m = L.prev[n] THEN L.next[n] ELSE L.next[m]
         /\ \A m \in N : R.prev[m] = IF m = n THEN n
                                     ELSE IF m = L.next[n] THEN L.prev[n] ELSE L.prev[m]
<1>1. PICK L1 : L1 = RemoveStep(L, n, 1)
  OBVIOUS
<1>2. PICK L2 : L2 = RemoveStep(L1, n, 2)
  OBVIOUS
<1>3. PICK L3 : L3 = RemoveStep(L2, n, 3)
  OBVIOUS
<1>4. L.next[n] \in N /\ L.prev[n] \in N
  BY DEF Links
<1>5. L1 \in Links(N) /\ L1.next = L.next /\ L1.prev = [L.prev EXCEPT ![L.next[n]] = L.prev[n]]
  <2>1. L1 = SetPrev(L, L.next[n], L.prev[n])
    BY <1>1, StoreOrder
  <2> QED
    BY <1>4, <2>1 DEF Links, SetPrev
<1>6. L1.prev[n] = L.prev[n]
  BY <1>4, <1>5 DEF Links
<1>7. L2 \in Links(N) /\ L2.prev = L1.prev /\ L2.next = [L.next EXCEPT ![L.prev[n]] = L.next[n]]
  <2>1. L2 = SetNext(L1, L.prev[n], L.next[n])
    <3>1. L2 = SetNext(L1, L1.prev[n], L1.next[n])
      BY <1>2, StoreOrder
    <3> QED
      BY <1>5, <1>6, <3>1
  <2> QED
    BY <1>4, <1>5, <2>1 DEF Links, SetNext
<1>8. L3 \in Links(N) /\ L3.next = L2.next /\ L3.prev = [L2.prev EXCEPT ![n] = n]
  <2>1. L3 = SetPrev(L2, n, n)
    BY <1>3, StoreOrder
  <2> QED
    BY <1>7, <2>1 DEF Links, SetPrev
<1>9. R = SetNext(L3, n, n)
  BY <1>1, <1>2, <1>3, StoreOrder DEF ListRemove
<1>10. R \in Links(N) /\ R.prev = L3.prev /\ R.next = [L3.next EXCEPT ![n] = n]
  BY <1>8, <1>9 DEF Links, SetNext
<1>11. L.next \in [N -> N] /\ L.prev \in [N -> N]
  BY DEF Links
<1> QED
  BY <1>4, <1>5, <1>7, <1>8, <1>10, <1>11

(* rt_list_insert_before h puts n between the last node and h.              *)
LEMMA InsertPointers ==
  ASSUME NEW N, NEW L \in Links(N), NEW h \in N, NEW n \in N, n # h,
         NEW I, I = InsertBefore(L, h, n)
  PROVE  /\ I \in Links(N)
         /\ \A m \in N : I.next[m] = IF m = n THEN h
                                     ELSE IF m = L.prev[h] THEN n ELSE L.next[m]
         /\ \A m \in N : I.prev[m] = IF m = h THEN n
                                     ELSE IF m = n THEN L.prev[h] ELSE L.prev[m]
<1>1. PICK L1 : L1 = InsertStep(L, h, n, 1)
  OBVIOUS
<1>2. PICK L2 : L2 = InsertStep(L1, h, n, 2)
  OBVIOUS
<1>3. PICK L3 : L3 = InsertStep(L2, h, n, 3)
  OBVIOUS
<1>4. L.prev[h] \in N
  BY DEF Links
<1>5. L1 \in Links(N) /\ L1.prev = L.prev /\ L1.next = [L.next EXCEPT ![L.prev[h]] = n]
  <2>1. L1 = SetNext(L, L.prev[h], n)
    BY <1>1, StoreOrder
  <2> QED
    BY <1>4, <2>1 DEF Links, SetNext
<1>6. L2 \in Links(N) /\ L2.next = L1.next /\ L2.prev = [L.prev EXCEPT ![n] = L.prev[h]]
  <2>1. L2 = SetPrev(L1, n, L1.prev[h])
    BY <1>2, StoreOrder
  <2> QED
    BY <1>4, <1>5, <2>1 DEF Links, SetPrev
<1>7. L3 \in Links(N) /\ L3.next = L2.next /\ L3.prev = [L2.prev EXCEPT ![h] = n]
  <2>1. L3 = SetPrev(L2, h, n)
    BY <1>3, StoreOrder
  <2> QED
    BY <1>6, <2>1 DEF Links, SetPrev
<1>8. I = SetNext(L3, n, h)
  BY <1>1, <1>2, <1>3, StoreOrder DEF InsertBefore
<1>9. I \in Links(N) /\ I.prev = L3.prev /\ I.next = [L3.next EXCEPT ![n] = h]
  BY <1>7, <1>8 DEF Links, SetNext
<1>10. L.next \in [N -> N] /\ L.prev \in [N -> N]
  BY DEF Links
<1> QED
  BY <1>4, <1>5, <1>6, <1>7, <1>9, <1>10

(* Ring membership, and well-linkedness, spelled out over the node set.     *)
LEMMA RingMember ==
  ASSUME NEW N, NEW L \in Links(N), NEW h \in N
  PROVE  /\ OneRingAt(L, h) <=>
              \A S \in SUBSET N : h \in S /\ ClosedUnderNext(L, S)
                 => \A m \in N : L.next[m] # m => m \in S
         /\ WellLinked(L) <=>
              \A m \in N : L.prev[L.next[m]] = m /\ L.next[L.prev[m]] = m
<1>1. DOMAIN L.next = N
  BY DEF Links
<1> QED
  BY <1>1 DEF OneRingAt, Ring, WellLinked

(* Removing a node other than the head keeps the links consistent, the rest *)
(* of the list on the ring of the head, and every other node as linked as   *)
(* it was.                                                                  *)
LEMMA RemoveKeepsRing ==
  ASSUME NEW N, NEW L \in Links(N), NEW h \in N, NEW n \in N, n # h,
         WellLinked(L), OneRingAt(L, h),
         NEW R, R = ListRemove(L, n)
  PROVE  /\ R \in Links(N)
         /\ WellLinked(R)
         /\ OneRingAt(R, h)
         /\ R.next[n] = n
         /\ \A m \in N \ {n, h} : R.next[m] = m <=> L.next[m] = m
<1> DEFINE p == L.prev[n]
           x == L.next[n]
<1>1. L.next \in [N -> N] /\ L.prev \in [N -> N] /\ p \in N /\ x \in N
  BY DEF Links
<1>2. \A m \in N : L.prev[L.next[m]] = m /\ L.next[L.prev[m]] = m
  BY RingMember
<1>3. \A S \in SUBSET N : h \in S /\ ClosedUnderNext(L, S)
         => \A m \in N : L.next[m] # m => m \in S
  BY RingMember
<1>4. /\ R \in Links(N)
      /\ \A m \in N : R.next[m] = IF m = n THEN n ELSE IF m = p THEN x ELSE L.next[m]
      /\ \A m \in N : R.prev[m] = IF m = n THEN n ELSE IF m = x THEN p ELSE L.prev[m]
  BY RemovePointers
<1> HIDE DEF p, x
<1>5. L.next[p] = n /\ L.prev[x] = n /\ L.next[n] = x /\ L.prev[n] = p
  BY <1>2 DEF p, x
<1>6. WellLinked(R)
  <2>1. \A m \in N : R.prev[R.next[m]] = m /\ R.next[R.prev[m]] = m
    BY <1>1, <1>2, <1>4, <1>5
  <2> QED
    BY <1>4, <2>1, RingMember
<1>7. \A m \in N \ {n, h} : R.next[m] = m <=> L.next[m] = m
  <2> SUFFICES ASSUME NEW m \in N \ {n, h}
               PROVE  R.next[m] = m <=> L.next[m] = m
    OBVIOUS
  <2>1. CASE m # p
    BY <1>4, <2>1
  <2>2. CASE m = p
    <3>1. L.next[m] # m
      BY <1>5, <2>2
    <3>2. ASSUME x = m PROVE FALSE
      <4>1. ClosedUnderNext(L, N \ {n, m})
        BY <1>1, <1>2, <1>5, <2>2, <3>2 DEF ClosedUnderNext
      <4> QED
        BY <1>3, <3>1, <4>1
    <3> QED
      BY <1>4, <2>2, <3>1, <3>2
  <2> QED
    BY <2>1, <2>2
<1>8. OneRingAt(R, h)
  <2> SUFFICES ASSUME NEW S \in SUBSET N, h \in S, ClosedUnderNext(R, S),
                      NEW m \in N, R.next[m] # m
               PROVE  m \in S
    BY <1>4, RingMember
  <2>1. m # n /\ L.next[m] # m
    <3>1. m # n
      BY <1>4
    <3> QED
      BY <1>4, <1>5, <3>1
  <2>2. CASE p \in S
    <3>1. x \in S \cup {n}
      BY <1>4, <1>5, <2>2 DEF ClosedUnderNext
    <3>2. ClosedUnderNext(L, S \cup {n})
      BY <1>1, <1>4, <1>5, <3>1 DEF ClosedUnderNext
    <3> QED
      BY <1>3, <2>1, <3>2
  <2>3. CASE p \notin S
    <3>1. ClosedUnderNext(L, S \ {n})
      BY <1>1, <1>2, <1>4, <1>5, <2>3 DEF ClosedUnderNext
    <3> QED
      BY <1>3, <2>1, <3>1
  <2> QED
    BY <2>2, <2>3
<1> QED
  BY <1>4, <1>6, <1>7, <1>8

(* Inserting a node that is on no list puts it, and keeps the others, on    *)
(* the ring of the head.                                                    *)
LEMMA InsertKeepsRing ==
  ASSUME NEW N, NEW L \in Links(N), NEW h \in N, NEW n \in N, n # h,
         WellLinked(L), OneRingAt(L, h), L.next[n] = n,
         NEW I, I = InsertBefore(L, h, n)
  PROVE  /\ I \in Links(N)
         /\ WellLinked(I)
         /\ OneRingAt(I, h)
         /\ I.next[n] # n
         /\ \A m \in N \ {n, h} : I.next[m] = m <=> L.next[m] = m
<1> DEFINE p == L.prev[h]
<1>1. L.next \in [N -> N] /\ L.prev \in [N -> N] /\ p \in N
  BY DEF Links
<1>2. \A m \in N : L.prev[L.next[m]] = m /\ L.next[L.prev[m]] = m
  BY RingMember
<1>3. \A S \in SUBSET N : h \in S /\ ClosedUnderNext(L, S)
         => \A m \in N : L.next[m] # m => m \in S
  BY RingMember
<1>4. /\ I \in Links(N)
      /\ \A m \in N : I.next[m] = IF m = n THEN h ELSE IF m = p THEN n ELSE L.next[m]
      /\ \A m \in N : I.prev[m] = IF m = h THEN n ELSE IF m = n THEN p ELSE L.prev[m]
  BY InsertPointers
<1> HIDE DEF p
<1>5. L.next[p] = h /\ L.prev[h] = p /\ p # n /\ L.prev[n] = n
  <2>1. L.next[p] = h /\ L.prev[h] = p
    BY <1>2 DEF p
  <2> QED
    BY <1>2, <2>1
<1>6. WellLinked(I)
  <2>1. \A m \in N : I.prev[I.next[m]] = m /\ I.next[I.prev[m]] = m
    BY <1>1, <1>2, <1>4, <1>5
  <2> QED
    BY <1>4, <2>1, RingMember
<1>7. \A m \in N \ {n, h} : I.next[m] = m <=> L.next[m] = m
  BY <1>4, <1>5
<1>8. OneRingAt(I, h)
  <2> SUFFICES ASSUME NEW S \in SUBSET N, h \in S, ClosedUnderNext(I, S),
                      NEW m \in N, I.next[m] # m
               PROVE  m \in S
    BY <1>4, RingMember
  <2>1. ClosedUnderNext(L, S \ {n})
    BY <1>1, <1>2, <1>4, <1>5 DEF ClosedUnderNext
  <2>2. \A k \in N : L.next[k] # k => k \in S \ {n}
    BY <1>3, <2>1
  <2>3. p \in S
    BY <1>1, <1>5, <2>2
  <2>4. n \in S
    BY <1>1, <1>4, <1>5, <2>3 DEF ClosedUnderNext
  <2> QED
    BY <1>4, <2>2, <2>3, <2>4
<1> QED
  BY <1>4, <1>6, <1>7, <1>8
=============================================================================
