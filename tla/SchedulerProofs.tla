-------------------------- MODULE SchedulerProofs --------------------------
(***************************************************************************)
(* Proofs about Scheduler for any number of threads, any periods and sleep *)
(* arguments and any number of calls per activation.                       *)
(***************************************************************************)
EXTENDS SchedulerProps, RtListProofs

(* What the list operations of the scheduler do, in its own terms.          *)
LEMMA ResumeLinks ==
  ASSUME TypeOK, WellLinked(list), OneRingAt(list, Head), NEW t \in Threads, NEW L,
         L = InsertBefore(ListRemove(list, t), Head, t)
  PROVE  /\ L \in Links(Node)
         /\ WellLinked(L)
         /\ OneRingAt(L, Head)
         /\ ~SelfLinked(L, t)
         /\ \A u \in Threads \ {t} : SelfLinked(L, u) <=> SelfLinked(list, u)
<1>1. PICK R : R = ListRemove(list, t)
  OBVIOUS
<1>2. list \in Links(Node) /\ Head \in Node /\ t \in Node /\ t # Head /\ Threads \subseteq Node
  BY SchedulerAssumption DEF TypeOK, Node
<1>3. /\ R \in Links(Node) /\ WellLinked(R) /\ OneRingAt(R, Head) /\ R.next[t] = t
      /\ \A m \in Node \ {t, Head} : R.next[m] = m <=> list.next[m] = m
  BY <1>1, <1>2, RemoveKeepsRing
<1>4. L = InsertBefore(R, Head, t)
  BY <1>1
<1>5. /\ L \in Links(Node) /\ WellLinked(L) /\ OneRingAt(L, Head) /\ L.next[t] # t
      /\ \A m \in Node \ {t, Head} : L.next[m] = m <=> R.next[m] = m
  BY <1>2, <1>3, <1>4, InsertKeepsRing
<1> QED
  BY <1>2, <1>3, <1>5, SchedulerAssumption DEF SelfLinked

\* rt_thread_detach takes t, and nobody else, off the list.
LEMMA DetachLinks ==
  ASSUME TypeOK, WellLinked(list), OneRingAt(list, Head), NEW t \in Threads, NEW L,
         L = ListRemove(list, t)
  PROVE  /\ L \in Links(Node)
         /\ WellLinked(L)
         /\ OneRingAt(L, Head)
         /\ SelfLinked(L, t)
         /\ \A u \in Threads \ {t} : SelfLinked(L, u) <=> SelfLinked(list, u)
<1>1. list \in Links(Node) /\ Head \in Node /\ t \in Node /\ t # Head /\ Threads \subseteq Node
  BY SchedulerAssumption DEF TypeOK, Node
<1>2. /\ L \in Links(Node) /\ WellLinked(L) /\ OneRingAt(L, Head) /\ L.next[t] = t
      /\ \A m \in Node \ {t, Head} : L.next[m] = m <=> list.next[m] = m
  BY <1>1, RemoveKeepsRing
<1> QED
  BY <1>1, <1>2, SchedulerAssumption DEF SelfLinked

(* Initialising a node that is on no list changes no link.                  *)
LEMMA InitLinks ==
  ASSUME TypeOK, WellLinked(list), NEW t \in Threads, SelfLinked(list, t)
  PROVE  ListInit(list, t) = list
<1>1. list \in Links(Node) /\ t \in Node
  BY DEF TypeOK, Node
<1>2. list.next[t] = t /\ list.prev[t] = t
  BY <1>1, RingMember DEF SelfLinked, WellLinked, Links
<1> QED
  BY <1>1, <1>2 DEF ListInit, SetNext, SetPrev, Links

(* The successor of a linked node is the head or a linked thread.           *)
LEMMA NextLinked ==
  ASSUME TypeOK, WellLinked(list), NEW n \in Node, n = Head \/ ~SelfLinked(list, n)
  PROVE  /\ list.next[n] \in Node
         /\ list.next[n] # Head => list.next[n] \in Threads /\ ~SelfLinked(list, list.next[n])
<1>1. list \in Links(Node) /\ DOMAIN list.next = Node
  BY DEF TypeOK, Links
<1>2. list.next[n] \in Node
  BY <1>1 DEF Links
<1>3. \A m \in Node : list.prev[list.next[m]] = m
  BY <1>1 DEF WellLinked
<1> QED
  BY <1>2, <1>3 DEF SelfLinked, Node

-----------------------------------------------------------------------------
\* At the start no thread is on the list and none is RUNNING.
LEMMA InitInv == SchedulerInit => IInv
<1> SUFFICES ASSUME SchedulerInit PROVE IInv
  OBVIOUS
<1> USE SchedulerAssumption DEF SchedulerInit
<1>1. TypeOK
  BY DEF TypeOK, Links, Node, States, InEntry, NoSleep
<1>2. list \in Links(Node) /\ Head \in Node /\ \A n \in Node : list.next[n] = n /\ list.prev[n] = n
  BY DEF Links, Node
<1>3. WellLinked(list) /\ OneRingAt(list, Head)
  BY <1>2 DEF WellLinked, OneRingAt, Links
<1>4. \A t \in Threads : ~OnList(t)
  BY <1>2 DEF OnList, SelfLinked, Node
<1>5. LinkedIffLive /\ CursorLinked /\ RunningIsCurrent /\ CurrentStarted
  BY <1>4 DEF LinkedIffLive, CursorLinked, RunningIsCurrent, CurrentStarted, InEntry
<1>6. NeverStranded /\ CounterCoversDue /\ SleepNotShort
  BY <1>4 DEF NeverStranded, CounterCoversDue, SleepNotShort, InEntry
<1> QED
  BY <1>1, <1>3, <1>5, <1>6 DEF IInv

(* The actions that leave the links alone, and the three that do not.       *)
LEMMA Cases ==
  ASSUME [SchedulerNext]_vars, NEW P,
         Schedule => P, Skip => P, Dispatch => P, Return => P,
         SuspendDone => P, SleepDone => P, Tick => P, UNCHANGED vars => P,
         \A t \in Threads : CallSuspend(t) => P,
         \A k \in SleepTicks : CallSleep(k) => P,
         \A t \in Threads : CallResume(t) \/ CallStartup(t) \/ BootStartup(t) => P,
         \A t \in Threads : CallDetach(t) => P,
         \A t \in Threads : CallInit(t) => P
  PROVE  P
  BY DEF SchedulerNext, Walk, Finish, Call, Boot

\* Every step keeps the types.
LEMMA TypeStep == IInv /\ [SchedulerNext]_vars => TypeOK'
<1> SUFFICES ASSUME IInv, [SchedulerNext]_vars PROVE TypeOK'
  OBVIOUS
<1> USE SchedulerAssumption
<1>1. TypeOK /\ WellLinked(list) /\ OneRingAt(list, Head)
  BY DEF IInv
<1>2. ASSUME Schedule PROVE TypeOK'
  BY <1>1, <1>2, NextLinked DEF Schedule, MoveTo, TypeOK, InEntry, Node
<1>3. ASSUME Skip PROVE TypeOK'
  <2>1. list.next[l] \in Node
    BY <1>1, <1>3 DEF TypeOK, Links
  <2> QED
    BY <1>1, <1>3, <2>1 DEF Skip, MoveTo, TypeOK, InEntry, Node
<1>4. ASSUME Dispatch PROVE TypeOK'
  BY <1>1, <1>4 DEF Dispatch, TypeOK, InEntry, Node, States
<1>5. ASSUME Return PROVE TypeOK'
  <2>1. list.next[l] \in Node /\ list.next[list.next[Head]] \in Node
    BY <1>1 DEF TypeOK, Links, Node
  <2>2. PICK n \in Node : l' = n /\ pc' = IF n = Head THEN "main" ELSE "visit"
    BY <1>5, <2>1 DEF Return, MoveTo
  <2>3. stat' \in [Threads -> States]
    BY <1>1, <1>5 DEF Return, TypeOK, States
  <2> QED
    BY <1>1, <1>5, <2>2, <2>3 DEF Return, TypeOK, InEntry, Node
<1>6. ASSUME SuspendDone PROVE TypeOK'
  BY <1>1, <1>6 DEF SuspendDone, TypeOK, InEntry, Node
<1>7. ASSUME SleepDone PROVE TypeOK'
  BY <1>1, <1>7 DEF SleepDone, TypeOK, InEntry, Node, NoSleep
<1>8. ASSUME Tick PROVE TypeOK'
  BY <1>1, <1>8 DEF Tick, Counting, Expiring, TypeOK, InEntry, Node, States
<1>9. ASSUME UNCHANGED vars PROVE TypeOK'
  BY <1>1, <1>9 DEF vars, TypeOK, InEntry
<1>10. ASSUME NEW t \in Threads, CallSuspend(t) PROVE TypeOK'
  BY <1>1, <1>10 DEF CallSuspend, Calling, TypeOK, InEntry, Node, States
<1>11. ASSUME NEW k \in SleepTicks, CallSleep(k) PROVE TypeOK'
  BY <1>1, <1>11 DEF CallSleep, Calling, TypeOK, InEntry, Node, States, NoSleep
<1>12. ASSUME NEW t \in Threads, CallResume(t) \/ CallStartup(t) \/ BootStartup(t) PROVE TypeOK'
  <2>1. list' \in Links(Node)
    BY <1>1, <1>12, ResumeLinks DEF CallResume, CallStartup, BootStartup, Resume
  <2>2. calls' \in 0..MaxCalls
    BY <1>1, <1>12 DEF CallResume, CallStartup, BootStartup, Calling, TypeOK
  <2>3. Resume(t) /\ UNCHANGED <<current, l, pc, target, ticks>>
    BY <1>12 DEF CallResume, CallStartup, BootStartup
  <2>4. /\ stat' \in [Threads -> States] /\ remaining' \in [Threads -> Nat \cup {-1}]
        /\ due' \in [Threads -> Nat]
    BY <1>1, <2>3 DEF Resume, TypeOK, States
  <2>5. parked' \in [Threads -> BOOLEAN]
    BY <1>1, <2>3 DEF Resume, TypeOK
  <2> QED
    BY <1>1, <2>1, <2>2, <2>3, <2>4, <2>5 DEF TypeOK, InEntry
<1>13. ASSUME NEW t \in Threads, CallDetach(t) PROVE TypeOK'
  <2>1. list' \in Links(Node)
    BY <1>1, <1>13, DetachLinks DEF CallDetach, TypeOK
  <2> QED
    BY <1>1, <1>13, <2>1 DEF CallDetach, Calling, TypeOK, InEntry, States
<1>14. ASSUME NEW t \in Threads, CallInit(t) PROVE TypeOK'
  <2>1. SelfLinked(list, t)
    BY <1>14 DEF IInv, CallInit, LinkedIffLive, OnList
  <2>2. list' \in Links(Node)
    BY <1>1, <1>14, <2>1, InitLinks DEF CallInit, TypeOK
  <2> QED
    BY <1>1, <1>14, <2>2 DEF CallInit, Calling, TypeOK, InEntry, States
<1> QED
  BY <1>2, <1>3, <1>4, <1>5, <1>6, <1>7, <1>8, <1>9, <1>10, <1>11, <1>12, <1>13, <1>14, Cases

(* The list stays one ring of exactly the live threads.                     *)
LEMMA RingStep ==
  IInv /\ [SchedulerNext]_vars
    => WellLinked(list)' /\ OneRingAt(list, Head)' /\ LinkedIffLive'
<1> DEFINE Goal == WellLinked(list)' /\ OneRingAt(list, Head)' /\ LinkedIffLive'
           Live == {"READY", "SUSPEND", "RUNNING"}
<1> SUFFICES ASSUME IInv, [SchedulerNext]_vars PROVE Goal
  OBVIOUS
<1> USE SchedulerAssumption
<1>1. /\ TypeOK /\ WellLinked(list) /\ OneRingAt(list, Head)
      /\ \A t \in Threads : ~SelfLinked(list, t) <=> stat[t] \in Live
  BY DEF IInv, LinkedIffLive, OnList
<1>2. ASSUME list' = list, \A t \in Threads : stat'[t] \in Live <=> stat[t] \in Live
      PROVE  Goal
  BY <1>1, <1>2 DEF LinkedIffLive, OnList, WellLinked, OneRingAt, Ring, ClosedUnderNext, SelfLinked
<1>3. ASSUME WellLinked(list'), OneRingAt(list', Head),
             \A t \in Threads : ~SelfLinked(list', t) <=> stat'[t] \in Live
      PROVE  Goal
  BY <1>3 DEF LinkedIffLive, OnList, WellLinked, OneRingAt, Ring, ClosedUnderNext, SelfLinked
<1> HIDE DEF Goal
<1>4. ASSUME Schedule PROVE Goal
  BY <1>4, <1>2 DEF Schedule
<1>5. ASSUME Skip PROVE Goal
  BY <1>5, <1>2 DEF Skip
<1>6. ASSUME Dispatch PROVE Goal
  BY <1>1, <1>6, <1>2 DEF Dispatch, TypeOK
<1>7. ASSUME Return PROVE Goal
  <2>1. current \in Threads /\ stat[current] \in {"READY", "SUSPEND", "RUNNING", "CLOSE"}
    BY <1>1, <1>7 DEF Return, IInv, CurrentStarted, InEntry, TypeOK, States
  <2> QED
    BY <1>1, <1>7, <2>1, <1>2 DEF Return, TypeOK
<1>8. ASSUME SuspendDone PROVE Goal
  BY <1>8, <1>2 DEF SuspendDone
<1>9. ASSUME SleepDone PROVE Goal
  BY <1>9, <1>2 DEF SleepDone
<1>10. ASSUME Tick PROVE Goal
  BY <1>1, <1>10, <1>2 DEF Tick, Counting, Expiring, TypeOK
<1>11. ASSUME UNCHANGED vars PROVE Goal
  BY <1>11, <1>2 DEF vars
<1>12. ASSUME NEW t \in Threads, CallSuspend(t) PROVE Goal
  BY <1>1, <1>12, <1>2 DEF CallSuspend, Suspendable, TypeOK
<1>13. ASSUME NEW k \in SleepTicks, CallSleep(k) PROVE Goal
  BY <1>1, <1>13, <1>2 DEF CallSleep, Suspendable, TypeOK
<1>14. ASSUME NEW t \in Threads, CallResume(t) \/ CallStartup(t) \/ BootStartup(t) PROVE Goal
  <2>1. Resume(t)
    BY <1>14 DEF CallResume, CallStartup, BootStartup
  <2>2. /\ WellLinked(list') /\ OneRingAt(list', Head) /\ ~SelfLinked(list', t)
        /\ \A u \in Threads \ {t} : SelfLinked(list', u) <=> SelfLinked(list, u)
    BY <1>1, <2>1, ResumeLinks DEF Resume
  <2>3. stat'[t] = "READY" /\ \A u \in Threads \ {t} : stat'[u] = stat[u]
    BY <1>1, <2>1 DEF Resume, TypeOK
  <2> QED
    BY <1>1, <2>2, <2>3, <1>3
<1>15. ASSUME NEW t \in Threads, CallDetach(t) PROVE Goal
  <2>1. stat'[t] = "CLOSE" /\ \A u \in Threads \ {t} : stat'[u] = stat[u]
    BY <1>1, <1>15 DEF CallDetach, TypeOK
  <2>2. CASE stat[t] = "INIT"
    BY <1>1, <1>15, <1>2, <2>1, <2>2 DEF CallDetach
  <2>3. CASE stat[t] # "INIT"
    <3>1. list' = ListRemove(list, t)
      BY <1>15, <2>3 DEF CallDetach
    <3>2. /\ WellLinked(list') /\ OneRingAt(list', Head) /\ SelfLinked(list', t)
          /\ \A u \in Threads \ {t} : SelfLinked(list', u) <=> SelfLinked(list, u)
      BY <1>1, <3>1, DetachLinks
    <3> QED
      BY <1>1, <2>1, <3>2, <1>3
  <2> QED
    BY <2>2, <2>3
<1>16. ASSUME NEW t \in Threads, CallInit(t) PROVE Goal
  <2>1. list' = list
    BY <1>1, <1>16, InitLinks DEF CallInit
  <2> QED
    BY <1>1, <1>16, <2>1, <1>2 DEF CallInit, TypeOK
<1> QED
  BY <1>4, <1>5, <1>6, <1>7, <1>8, <1>9, <1>10, <1>11, <1>12, <1>13, <1>14, <1>15, <1>16, Cases

(* The cursor lands on the list after every step of the walk, and only the  *)
(* walk moves it.                                                           *)
LEMMA CursorStep == IInv /\ [SchedulerNext]_vars => CursorLinked'
<1> SUFFICES ASSUME IInv, [SchedulerNext]_vars PROVE CursorLinked'
  OBVIOUS
<1> USE SchedulerAssumption
<1>1. /\ TypeOK /\ WellLinked(list)
      /\ \A t \in Threads : ~SelfLinked(list, t) <=> stat[t] \in {"READY", "SUSPEND", "RUNNING"}
      /\ pc = "visit" => ~SelfLinked(list, l)
  BY DEF IInv, LinkedIffLive, CursorLinked, OnList
<1>2. ASSUME NEW n \in Node, n = Head \/ ~SelfLinked(list, n), MoveTo(list.next[n]), list' = list
      PROVE  CursorLinked'
  BY <1>1, <1>2, NextLinked DEF MoveTo, CursorLinked, OnList
<1>3. ASSUME list' = list, l' = l, pc' = pc PROVE CursorLinked'
  BY <1>1, <1>3 DEF CursorLinked, OnList
<1>4. ASSUME pc' # "visit" PROVE CursorLinked'
  BY <1>4 DEF CursorLinked
<1>5. ASSUME Schedule PROVE CursorLinked'
  BY <1>5, <1>2 DEF Schedule, Node
<1>6. ASSUME Skip PROVE CursorLinked'
  BY <1>1, <1>6, <1>2 DEF Skip, TypeOK
<1>7. ASSUME Dispatch PROVE CursorLinked'
  BY <1>7, <1>4 DEF Dispatch
<1>8. ASSUME Return PROVE CursorLinked'
  <2>1. list' = list /\ current = l /\ l \in Threads /\ stat[current] # "INIT"
    BY <1>1, <1>8 DEF Return, IInv, CurrentStarted, InEntry, TypeOK
  <2>2. CASE stat[current] = "CLOSE"
    <3>1. MoveTo(list.next[list.next[Head]])
      BY <1>8, <2>2 DEF Return
    <3>2. list.next[Head] \in Node /\ (list.next[Head] = Head \/ ~SelfLinked(list, list.next[Head]))
      BY <1>1, NextLinked DEF Node
    <3> QED
      BY <2>1, <3>1, <3>2, <1>2
  <2>3. CASE stat[current] # "CLOSE"
    BY <1>1, <1>8, <2>1, <2>3, <1>2 DEF Return, TypeOK, States, Node
  <2> QED
    BY <2>2, <2>3
<1>9. ASSUME SuspendDone PROVE CursorLinked'
  BY <1>9, <1>4 DEF SuspendDone
<1>10. ASSUME SleepDone PROVE CursorLinked'
  BY <1>10, <1>4 DEF SleepDone
<1>11. ASSUME Tick PROVE CursorLinked'
  BY <1>11, <1>3 DEF Tick
<1>12. ASSUME UNCHANGED vars PROVE CursorLinked'
  BY <1>12, <1>3 DEF vars
<1>13. ASSUME NEW t \in Threads, CallSuspend(t) PROVE CursorLinked'
  BY <1>13, <1>4 DEF CallSuspend
<1>14. ASSUME NEW k \in SleepTicks, CallSleep(k) PROVE CursorLinked'
  BY <1>14, <1>4 DEF CallSleep
<1>15. ASSUME NEW t \in Threads, CallResume(t) \/ CallStartup(t) \/ BootStartup(t) PROVE CursorLinked'
  BY <1>15, <1>4 DEF CallResume, CallStartup, BootStartup, Calling
<1>16. ASSUME NEW t \in Threads, CallDetach(t) PROVE CursorLinked'
  BY <1>16, <1>4 DEF CallDetach, Calling
<1>17. ASSUME NEW t \in Threads, CallInit(t) PROVE CursorLinked'
  BY <1>17, <1>4 DEF CallInit, Calling
<1> QED
  BY <1>5, <1>6, <1>7, <1>8, <1>9, <1>10, <1>11, <1>12, <1>13, <1>14, <1>15, <1>16, <1>17, Cases

(* At most one entry executes, and its thread has been started.             *)
LEMMA RunningStep ==
  IInv /\ [SchedulerNext]_vars => RunningIsCurrent' /\ CurrentStarted'
<1> DEFINE Goal == RunningIsCurrent' /\ CurrentStarted'
<1> SUFFICES ASSUME IInv, [SchedulerNext]_vars PROVE Goal
  OBVIOUS
<1> USE SchedulerAssumption DEF RunningIsCurrent, CurrentStarted, InEntry
<1>1. TypeOK /\ RunningIsCurrent /\ CurrentStarted
  BY DEF IInv
<1>2. ASSUME Schedule PROVE Goal
  BY <1>1, <1>2 DEF Schedule, MoveTo
<1>3. ASSUME Skip PROVE Goal
  BY <1>1, <1>3 DEF Skip, MoveTo
<1>4. ASSUME Dispatch PROVE Goal
  BY <1>1, <1>4 DEF Dispatch, TypeOK
<1>5. ASSUME Return PROVE Goal
  BY <1>1, <1>5 DEF Return, MoveTo, TypeOK
<1>6. ASSUME SuspendDone PROVE Goal
  BY <1>1, <1>6 DEF SuspendDone
<1>7. ASSUME SleepDone PROVE Goal
  BY <1>1, <1>7 DEF SleepDone
<1>8. ASSUME Tick PROVE Goal
  BY <1>1, <1>8 DEF Tick, Counting, Expiring, TypeOK
<1>9. ASSUME UNCHANGED vars PROVE Goal
  BY <1>1, <1>9 DEF vars
<1>10. ASSUME NEW t \in Threads, CallSuspend(t) PROVE Goal
  BY <1>1, <1>10 DEF CallSuspend, Calling, TypeOK
<1>11. ASSUME NEW k \in SleepTicks, CallSleep(k) PROVE Goal
  BY <1>1, <1>11 DEF CallSleep, Calling, TypeOK
<1>12. ASSUME NEW t \in Threads, CallResume(t) \/ CallStartup(t) \/ BootStartup(t) PROVE Goal
  BY <1>1, <1>12 DEF CallResume, CallStartup, BootStartup, Calling, Resume, TypeOK
<1>13. ASSUME NEW t \in Threads, CallDetach(t) PROVE Goal
  BY <1>1, <1>13 DEF CallDetach, Calling, TypeOK
<1>14. ASSUME NEW t \in Threads, CallInit(t) PROVE Goal
  BY <1>1, <1>14 DEF CallInit, Calling, TypeOK
<1> QED
  BY <1>2, <1>3, <1>4, <1>5, <1>6, <1>7, <1>8, <1>9, <1>10, <1>11, <1>12, <1>13, <1>14, Cases

(* A timeout is cancelled only by rt_thread_suspend, and a counter never    *)
(* runs ahead of the ticks a sleep still owes.                              *)
LEMMA TimerStep ==
  IInv /\ [SchedulerNext]_vars => NeverStranded' /\ CounterCoversDue' /\ SleepNotShort'
<1> DEFINE Goal == NeverStranded' /\ CounterCoversDue' /\ SleepNotShort'
<1> SUFFICES ASSUME IInv, [SchedulerNext]_vars PROVE Goal
  OBVIOUS
<1> USE SchedulerAssumption
<1>1. /\ TypeOK
      /\ \A t \in Threads : ~SelfLinked(list, t) <=> stat[t] \in {"READY", "SUSPEND", "RUNNING"}
      /\ \A t \in Threads : ~SelfLinked(list, t) /\ remaining[t] = -1 => parked[t]
      /\ \A t \in Threads : due[t] > 0 => ~SelfLinked(list, t) /\ remaining[t] + 1 >= due[t]
      /\ \A t \in Threads :
           stat[t] \in {"READY", "RUNNING"} /\ ~(InEntry /\ t = current) => due[t] = 0
      /\ InEntry => stat[current] # "INIT"
  BY DEF IInv, LinkedIffLive, OnList, NeverStranded, CounterCoversDue, SleepNotShort, CurrentStarted
<1>2. ASSUME \A t \in Threads : ~SelfLinked(list', t) /\ remaining'[t] = -1 => parked'[t],
             \A t \in Threads : due'[t] > 0 => ~SelfLinked(list', t) /\ remaining'[t] + 1 >= due'[t],
             \A t \in Threads :
               stat'[t] \in {"READY", "RUNNING"} /\ ~(InEntry' /\ t = current') => due'[t] = 0
      PROVE  Goal
  BY <1>2 DEF OnList, NeverStranded, CounterCoversDue, SleepNotShort
<1> HIDE DEF Goal
<1>3. ASSUME Schedule PROVE Goal
  BY <1>1, <1>3, <1>2 DEF Schedule, MoveTo, InEntry
<1>4. ASSUME Skip PROVE Goal
  BY <1>1, <1>4, <1>2 DEF Skip, MoveTo, InEntry
<1>5. ASSUME Dispatch PROVE Goal
  BY <1>1, <1>5, <1>2 DEF Dispatch, InEntry, TypeOK
<1>6. ASSUME Return PROVE Goal
  BY <1>1, <1>6, <1>2 DEF Return, MoveTo, InEntry, TypeOK
<1>7. ASSUME SuspendDone PROVE Goal
  BY <1>1, <1>7, <1>2 DEF SuspendDone, InEntry, TypeOK
<1>8. ASSUME SleepDone PROVE Goal
  <2>1. /\ current \in Threads /\ ticks \in SleepTicks /\ ticks \in Nat \cup {-1}
        /\ list' = list /\ stat' = stat /\ current' = current /\ pc' = "entry"
    BY <1>1, <1>8 DEF SleepDone, InEntry, TypeOK, Node
  <2>2. /\ remaining'[current] = ticks /\ parked'[current] = (ticks = -1)
        /\ due'[current] = IF stat[current] = "CLOSE" THEN 0 ELSE ticks + 1
        /\ \A t \in Threads \ {current} :
             remaining'[t] = remaining[t] /\ parked'[t] = parked[t] /\ due'[t] = due[t]
    BY <1>1, <1>8, <2>1 DEF SleepDone, TypeOK
  <2>3. \A t \in Threads : ~SelfLinked(list', t) /\ remaining'[t] = -1 => parked'[t]
    BY <1>1, <2>1, <2>2
  <2>4. stat[current] # "CLOSE" => ~SelfLinked(list, current)
    BY <1>1, <1>8, <2>1 DEF SleepDone, InEntry, TypeOK, States
  <2>5. \A t \in Threads : due'[t] > 0 => ~SelfLinked(list', t) /\ remaining'[t] + 1 >= due'[t]
    BY <1>1, <2>1, <2>2, <2>4
  <2>6. \A t \in Threads :
               stat'[t] \in {"READY", "RUNNING"} /\ ~(InEntry' /\ t = current') => due'[t] = 0
    BY <1>1, <1>8, <2>1, <2>2 DEF InEntry, SleepDone
  <2> QED
    BY <2>3, <2>5, <2>6, <1>2
<1>9. ASSUME Tick PROVE Goal
  <2>1. list' = list /\ current' = current /\ pc' = pc /\ parked' = parked
    BY <1>9 DEF Tick
  <2>2. \A t \in Threads :
          /\ remaining[t] \in Nat \cup {-1} /\ due[t] \in Nat /\ InitTick[t] \in Nat
          /\ Expiring(t) => remaining'[t] = InitTick[t] /\ stat'[t] = "READY"
          /\ ~Expiring(t) => stat'[t] = stat[t]
          /\ Counting(t) /\ ~Expiring(t) => remaining'[t] = remaining[t] - 1
          /\ ~Counting(t) /\ ~Expiring(t) => remaining'[t] = remaining[t]
          /\ due'[t] = IF due[t] = 0 THEN 0 ELSE due[t] - 1
    BY <1>1, <1>9 DEF Tick, TypeOK
  <2>3. \A t \in Threads : ~SelfLinked(list', t) /\ remaining'[t] = -1 => parked'[t]
    BY <1>1, <2>1, <2>2 DEF Counting, Expiring
  <2>4. \A t \in Threads : due'[t] > 0 => ~SelfLinked(list', t) /\ remaining'[t] + 1 >= due'[t]
    BY <1>1, <2>1, <2>2 DEF Counting, Expiring
  <2>5. \A t \in Threads :
               stat'[t] \in {"READY", "RUNNING"} /\ ~(InEntry' /\ t = current') => due'[t] = 0
    BY <1>1, <2>1, <2>2 DEF Counting, Expiring, InEntry
  <2> QED
    BY <2>3, <2>4, <2>5, <1>2
<1>10. ASSUME UNCHANGED vars PROVE Goal
  BY <1>1, <1>10, <1>2 DEF vars, InEntry
<1>11. ASSUME NEW t \in Threads, CallSuspend(t) PROVE Goal
  BY <1>1, <1>11, <1>2 DEF CallSuspend, Calling, InEntry, TypeOK
<1>12. ASSUME NEW k \in SleepTicks, CallSleep(k) PROVE Goal
  BY <1>1, <1>12, <1>2 DEF CallSleep, Calling, InEntry, TypeOK
<1>13. ASSUME NEW t \in Threads, CallResume(t) \/ CallStartup(t) \/ BootStartup(t) PROVE Goal
  <2>1. Resume(t) /\ current' = current /\ pc' = pc
    BY <1>13 DEF CallResume, CallStartup, BootStartup
  <2>2. /\ ~SelfLinked(list', t)
        /\ \A u \in Threads \ {t} : SelfLinked(list', u) <=> SelfLinked(list, u)
    BY <1>1, <2>1, ResumeLinks DEF Resume, IInv
  <2>3. /\ remaining'[t] = InitTick[t] /\ InitTick[t] \in Nat /\ due'[t] = 0
        /\ \A u \in Threads \ {t} : /\ remaining'[u] = remaining[u] /\ stat'[u] = stat[u]
                                     /\ due'[u] = due[u]
    BY <1>1, <2>1 DEF Resume, TypeOK
  <2>4. \A u \in Threads \ {t} : parked'[u] = parked[u]
    BY <1>1, <2>1 DEF Resume, TypeOK
  <2> QED
    BY <1>1, <2>1, <2>2, <2>3, <2>4, <1>2 DEF InEntry
<1>14. ASSUME NEW t \in Threads, CallDetach(t) PROVE Goal
  <2>1. /\ remaining' = remaining /\ current' = current /\ pc' = pc
        /\ due'[t] = 0 /\ stat'[t] = "CLOSE"
        /\ \A u \in Threads \ {t} : stat'[u] = stat[u] /\ due'[u] = due[u]
    BY <1>1, <1>14 DEF CallDetach, TypeOK
  <2>2. \A u \in Threads \ {t} : parked'[u] = parked[u]
    BY <1>1, <1>14 DEF CallDetach, TypeOK
  <2>3. /\ SelfLinked(list', t)
        /\ \A u \in Threads \ {t} : SelfLinked(list', u) <=> SelfLinked(list, u)
    <3>1. CASE stat[t] = "INIT"
      BY <1>1, <1>14, <3>1 DEF CallDetach
    <3>2. CASE stat[t] # "INIT"
      <4>1. list' = ListRemove(list, t)
        BY <1>14, <3>2 DEF CallDetach
      <4> QED
        BY <4>1, DetachLinks DEF IInv
    <3> QED
      BY <3>1, <3>2
  <2> QED
    BY <1>1, <2>1, <2>2, <2>3, <1>2 DEF InEntry
<1>15. ASSUME NEW t \in Threads, CallInit(t) PROVE Goal
  <2>1. list' = list
    BY <1>1, <1>15, InitLinks DEF CallInit, IInv
  <2> QED
    BY <1>1, <1>15, <2>1, <1>2 DEF CallInit, Calling, InEntry, TypeOK
<1> QED
  BY <1>3, <1>4, <1>5, <1>6, <1>7, <1>8, <1>9, <1>10, <1>11, <1>12, <1>13, <1>14, <1>15, Cases

\* The conjuncts of IInv together are inductive.
LEMMA Invariance == SchedulerSpec => []IInv
<1>1. IInv /\ [SchedulerNext]_vars => IInv'
  BY TypeStep, RingStep, CursorStep, RunningStep, TimerStep DEF IInv
<1> QED
  BY InitInv, <1>1, PTL DEF SchedulerSpec

-----------------------------------------------------------------------------
(* Every variable keeps its type, for every number of threads.              *)
THEOREM TypeCorrect == SchedulerSpec => []TypeOK
<1>1. IInv => TypeOK
  BY DEF IInv
<1> QED
  BY Invariance, <1>1, PTL

(* The thread list stays one well-linked ring of exactly the live threads,  *)
(* through every rt_thread_startup, resume, detach and init, the running    *)
(* thread's own included: the walks of rt_schedule and rt_tick_increase end *)
(* and miss nobody.                                                         *)
THEOREM ListIntegrity == SchedulerSpec => []ListIntact
<1>1. ASSUME IInv PROVE ListIntact
  <2>1. TypeOK /\ WellLinked(list) /\ OneRingAt(list, Head) /\ LinkedIffLive
    BY <1>1 DEF IInv
  <2>2. list \in Links(Node) /\ DOMAIN list.next = Node /\ Head \in Node
    BY <2>1 DEF TypeOK, Links, Node
  <2> DEFINE OnIt == {Head} \cup {t \in Threads : OnList(t)}
  <2>3. OnIt \in SUBSET Node
    BY DEF Node
  <2>4. ClosedUnderNext(list, OnIt)
    <3> SUFFICES ASSUME NEW m \in OnIt PROVE list.next[m] \in OnIt
      BY DEF ClosedUnderNext
    <3>1. m \in Node /\ (m = Head \/ ~SelfLinked(list, m))
      BY <2>3 DEF OnList
    <3> QED
      BY <2>1, <3>1, NextLinked DEF OnList
  <2>5. Ring(list, Head) \subseteq OnIt
    BY <2>2, <2>3, <2>4 DEF Ring
  <2>6. OnIt \subseteq Ring(list, Head)
    <3>1. Head \in Ring(list, Head)
      BY <2>2 DEF Ring
    <3>2. \A t \in Threads : OnList(t) => t \in Ring(list, Head)
      BY <2>1, <2>2 DEF OneRingAt, OnList, SelfLinked, Node
    <3> QED
      BY <3>1, <3>2
  <2> QED
    BY <2>1, <2>5, <2>6 DEF ListIntact, LinksInverse, OneRing
<1> QED
  BY Invariance, <1>1, PTL

(* rt_schedule never reads the next pointer of a thread that has left the   *)
(* list, even when an entry detaches its own thread.                        *)
THEOREM WalkStaysOnList == SchedulerSpec => []CursorLinked
<1>1. IInv => CursorLinked
  BY DEF IInv
<1> QED
  BY Invariance, <1>1, PTL

(* One entry executes at a time, and only its thread is RUNNING: the        *)
(* assertion of rt_thread_suspend never fails.                              *)
THEOREM OneRunner == SchedulerSpec => []RunningIsCurrent
<1>1. IInv => RunningIsCurrent
  BY DEF IInv
<1> QED
  BY Invariance, <1>1, PTL

(* A live thread waits without a timeout only because it was suspended so.  *)
THEOREM NobodyStranded == SchedulerSpec => []NeverStranded
<1>1. IInv => NeverStranded
  BY DEF IInv
<1> QED
  BY Invariance, <1>1, PTL

(* No sleep is cut short, wherever the clock interrupt falls.               *)
THEOREM SleepLowerBound == SchedulerSpec => []SleepNotShort
<1>1. IInv => SleepNotShort
  BY DEF IInv
<1> QED
  BY Invariance, <1>1, PTL

-----------------------------------------------------------------------------
(* Refinement                                                               *)

LiveSet == {t \in Threads : OnList(t)}
ReadySet == {t \in Threads : OnList(t) /\ stat[t] = "READY"}
Runner == IF InEntry THEN current ELSE None

\* Every step is a step of Coop on what it shows, or leaves that alone.
LEMMA ViewStep ==
  IInv /\ IInv' /\ [SchedulerNext]_vars
    => [CoopView!CoopNext]_<<LiveSet, ReadySet, Runner>>
<1> DEFINE Goal == [CoopView!CoopNext]_<<LiveSet, ReadySet, Runner>>
<1> SUFFICES ASSUME IInv, IInv', [SchedulerNext]_vars PROVE Goal
  OBVIOUS
<1> USE SchedulerAssumption
<1>1. /\ TypeOK
      /\ LiveSet = {t \in Threads : stat[t] \in {"READY", "SUSPEND", "RUNNING"}}
      /\ LiveSet' = {t \in Threads : stat'[t] \in {"READY", "SUSPEND", "RUNNING"}}
      /\ ReadySet = {t \in Threads : stat[t] = "READY"}
      /\ ReadySet' = {t \in Threads : stat'[t] = "READY"}
  BY DEF IInv, LinkedIffLive, LiveSet, ReadySet
<1>2. ASSUME LiveSet' = LiveSet, ReadySet' = ReadySet, Runner' = Runner PROVE Goal
  BY <1>2
<1>3. ASSUME NEW t \in Threads, Runner = None, t \in ReadySet, Runner' = t,
             ReadySet' = ReadySet \ {t}, LiveSet' = LiveSet
      PROVE  Goal
  BY <1>3 DEF CoopView!CoopNext, CoopView!Begin, LiveSet, ReadySet, Runner
<1>4. ASSUME Runner # None, Runner' = None, ReadySet' = ReadySet \ {Runner}, LiveSet' = LiveSet
      PROVE  Goal
  BY <1>4 DEF CoopView!CoopNext, CoopView!End, LiveSet, ReadySet, Runner
<1>5. ASSUME NEW t \in Threads, LiveSet' = LiveSet \cup {t}, ReadySet' = ReadySet \cup {t},
             Runner' = Runner
      PROVE  Goal
  BY <1>5 DEF CoopView!CoopNext, CoopView!Activate, LiveSet, ReadySet, Runner
<1>6. ASSUME NEW t \in Threads, Runner # None, LiveSet' = LiveSet, ReadySet' = ReadySet \ {t},
             Runner' = Runner
      PROVE  Goal
  BY <1>6 DEF CoopView!CoopNext, CoopView!Block, LiveSet, ReadySet, Runner
<1>7. ASSUME NEW t \in Threads, Runner # None, LiveSet' = LiveSet \ {t}, ReadySet' = ReadySet \ {t},
             Runner' = Runner
      PROVE  Goal
  BY <1>7 DEF CoopView!CoopNext, CoopView!Close, LiveSet, ReadySet, Runner
<1>8. ASSUME NEW S \in SUBSET LiveSet, LiveSet' = LiveSet, ReadySet' = ReadySet \cup S,
             Runner' = Runner
      PROVE  Goal
  BY <1>8 DEF CoopView!CoopNext, CoopView!Wake, LiveSet, ReadySet, Runner
<1> HIDE DEF Goal
<1>9. InEntry => current \in Threads /\ Runner = current /\ Runner # None
  BY <1>1 DEF TypeOK, InEntry, Runner
<1>10. ASSUME Schedule PROVE Goal
  BY <1>1, <1>10, <1>2 DEF Schedule, MoveTo, Runner, InEntry
<1>11. ASSUME Skip PROVE Goal
  BY <1>1, <1>11, <1>2 DEF Skip, MoveTo, Runner, InEntry
<1>12. ASSUME Dispatch PROVE Goal
  <2>1. l \in Threads /\ l \in ReadySet /\ Runner = None /\ Runner' = l
    BY <1>1, <1>12 DEF Dispatch, Runner, InEntry, TypeOK
  <2>2. stat'[l] = "RUNNING" /\ \A t \in Threads \ {l} : stat'[t] = stat[t]
    BY <1>1, <1>12, <2>1 DEF Dispatch, TypeOK
  <2>3. ReadySet' = ReadySet \ {l} /\ LiveSet' = LiveSet
    BY <1>1, <2>1, <2>2
  <2> QED
    BY <2>1, <2>3, <1>3
<1>13. ASSUME Return PROVE Goal
  <2>1. current \in Threads /\ Runner = current /\ Runner # None
    BY <1>13, <1>9 DEF Return, InEntry
  <2>2. Runner' = None
    BY <1>13 DEF Return, MoveTo, Runner, InEntry
  <2>3. stat[current] # "INIT"
    BY <1>13 DEF Return, IInv, CurrentStarted, InEntry
  <2>4. ReadySet' = ReadySet \ {Runner} /\ LiveSet' = LiveSet
    <3>1. CASE stat[current] = "CLOSE"
      BY <1>1, <1>13, <2>1, <3>1 DEF Return
    <3>2. CASE stat[current] # "CLOSE"
      <4>1. stat'[current] = "SUSPEND" /\ \A t \in Threads \ {current} : stat'[t] = stat[t]
        BY <1>1, <1>13, <2>1, <3>2 DEF Return, TypeOK
      <4>2. stat[current] \in {"READY", "SUSPEND", "RUNNING"}
        BY <1>1, <2>1, <2>3, <3>2 DEF TypeOK, States
      <4> QED
        BY <1>1, <2>1, <4>1, <4>2
    <3> QED
      BY <3>1, <3>2
  <2> QED
    BY <2>1, <2>2, <2>4, <1>4
<1>14. ASSUME SuspendDone PROVE Goal
  BY <1>1, <1>14, <1>2 DEF SuspendDone, Runner, InEntry
<1>15. ASSUME SleepDone PROVE Goal
  BY <1>1, <1>15, <1>2 DEF SleepDone, Runner, InEntry
<1>16. ASSUME Tick PROVE Goal
  <2> DEFINE S == {t \in Threads : Expiring(t)}
  <2>1. \A t \in Threads : stat'[t] = IF Expiring(t) THEN "READY" ELSE stat[t]
    BY <1>16 DEF Tick
  <2>2. \A t \in Threads : Expiring(t) => stat[t] = "SUSPEND"
    BY DEF Expiring, Counting
  <2>3. S \in SUBSET LiveSet /\ LiveSet' = LiveSet /\ ReadySet' = ReadySet \cup S
    BY <1>1, <2>1, <2>2
  <2>4. Runner' = Runner
    BY <1>16 DEF Tick, Runner, InEntry
  <2> QED
    BY <2>3, <2>4, <1>8
<1>17. ASSUME UNCHANGED vars PROVE Goal
  BY <1>1, <1>17, <1>2 DEF vars, Runner, InEntry
<1>18. ASSUME NEW t \in Threads, CallSuspend(t) PROVE Goal
  <2>1. /\ stat[t] \in {"READY", "RUNNING"} /\ stat'[t] = "SUSPEND"
        /\ \A u \in Threads \ {t} : stat'[u] = stat[u]
    BY <1>1, <1>18 DEF CallSuspend, Suspendable, TypeOK
  <2>2. LiveSet' = LiveSet /\ ReadySet' = ReadySet \ {t}
    BY <1>1, <2>1
  <2>3. Runner' = Runner /\ Runner # None
    BY <1>18, <1>9 DEF CallSuspend, Calling, Runner, InEntry
  <2> QED
    BY <2>2, <2>3, <1>6
<1>19. ASSUME NEW k \in SleepTicks, CallSleep(k) PROVE Goal
  <2>1. Runner' = Runner /\ Runner # None /\ current \in Threads
    BY <1>19, <1>9 DEF CallSleep, Calling, Runner, InEntry
  <2>2. CASE Suspendable(current)
    <3>1. /\ stat[current] \in {"READY", "RUNNING"} /\ stat'[current] = "SUSPEND"
          /\ \A u \in Threads \ {current} : stat'[u] = stat[u]
      BY <1>1, <1>19, <2>1, <2>2 DEF CallSleep, Suspendable, TypeOK
    <3>2. LiveSet' = LiveSet /\ ReadySet' = ReadySet \ {current}
      BY <1>1, <2>1, <3>1
    <3> QED
      BY <2>1, <3>2, <1>6
  <2>3. CASE ~Suspendable(current)
    BY <1>1, <1>19, <2>1, <2>3, <1>2 DEF CallSleep
  <2> QED
    BY <2>2, <2>3
<1>20. ASSUME NEW t \in Threads, CallResume(t) \/ CallStartup(t) \/ BootStartup(t) PROVE Goal
  <2>1. Resume(t) /\ current' = current /\ pc' = pc
    BY <1>20 DEF CallResume, CallStartup, BootStartup
  <2>2. stat'[t] = "READY" /\ \A u \in Threads \ {t} : stat'[u] = stat[u]
    BY <1>1, <2>1 DEF Resume, TypeOK
  <2>3. LiveSet' = LiveSet \cup {t} /\ ReadySet' = ReadySet \cup {t} /\ Runner' = Runner
    BY <1>1, <2>1, <2>2 DEF Runner, InEntry
  <2> QED
    BY <2>3, <1>5
<1>21. ASSUME NEW t \in Threads, CallDetach(t) PROVE Goal
  <2>1. stat'[t] = "CLOSE" /\ \A u \in Threads \ {t} : stat'[u] = stat[u]
    BY <1>1, <1>21 DEF CallDetach, TypeOK
  <2>2. LiveSet' = LiveSet \ {t} /\ ReadySet' = ReadySet \ {t}
    BY <1>1, <2>1
  <2>3. Runner' = Runner /\ Runner # None
    BY <1>21, <1>9 DEF CallDetach, Calling, Runner, InEntry
  <2> QED
    BY <2>2, <2>3, <1>7
<1>22. ASSUME NEW t \in Threads, CallInit(t) PROVE Goal
  <2>1. stat[t] = "CLOSE" /\ stat'[t] = "INIT" /\ \A u \in Threads \ {t} : stat'[u] = stat[u]
    BY <1>1, <1>22 DEF CallInit, TypeOK
  <2>2. LiveSet' = LiveSet /\ ReadySet' = ReadySet
    BY <1>1, <2>1
  <2>3. Runner' = Runner
    BY <1>22 DEF CallInit, Calling, Runner, InEntry
  <2> QED
    BY <2>2, <2>3, <1>2
<1> QED
  BY <1>10, <1>11, <1>12, <1>13, <1>14, <1>15, <1>16, <1>17, <1>18, <1>19, <1>20, <1>21, <1>22, Cases

(* The scheduler implements run-to-completion scheduling (module Coop).     *)
THEOREM ImplementsCoop == SchedulerSpec => RunsToCompletion
<1>1. SchedulerInit => CoopView!CoopInit
  <2> SUFFICES ASSUME SchedulerInit PROVE CoopView!CoopInit
    OBVIOUS
  <2>1. \A t \in Threads : list.next[t] = t
    BY DEF SchedulerInit, Node
  <2> QED
    BY <2>1 DEF SchedulerInit, CoopView!CoopInit, OnList, SelfLinked, InEntry
<1>2. IInv /\ IInv' /\ [SchedulerNext]_vars => [CoopView!CoopNext]_CoopView!coopVars
  BY ViewStep DEF CoopView!coopVars, LiveSet, ReadySet, Runner
<1> QED
  BY <1>1, <1>2, Invariance, PTL DEF SchedulerSpec, RunsToCompletion, CoopView!CoopSpec
=============================================================================
