----------------------------- MODULE Scheduler -----------------------------
(***************************************************************************)
(* The run-to-completion scheduler of RTT_NONOS: rt-thread/src/scheduler.c *)
(* (rt_schedule), thread.c (the thread operations) and clock.c             *)
(* (rt_tick_increase, run by the SysTick interrupt).                       *)
(*                                                                         *)
(* A thread is a callback.  rt_schedule walks one list of threads with the *)
(* cursor l and calls the entry of each thread it finds READY; the entry   *)
(* calls the operations of thread.c, on its own thread or on another, and  *)
(* returns.  None of that masks the clock interrupt, so Tick may come      *)
(* between any two stores to stat and remaining_tick that it can tell      *)
(* apart.  The stores of a list operation are one step here; TickWalk      *)
(* models the interrupt between them.                                      *)
(*                                                                         *)
(* A definition whose name starts with Bad is not the code: it is a faulty *)
(* variant of the definition after it, with which TLC confirms that a      *)
(* property would notice the fault.                                        *)
(***************************************************************************)
EXTENDS Integers, RtList

CONSTANTS
  Threads,      \* the struct rt_thread objects
  Head,         \* the list head rt_thread_priority
  None,         \* RT_NULL: rt_current_thread before the first dispatch
  InitTick,     \* the tick argument of rt_thread_init, per thread
  SleepTicks,   \* the arguments entries give rt_thread_sleep; -1 is RT_WAITING_FOREVER
  Ops,          \* the operations of thread.c that entries call
  MaxCalls      \* how many of them one activation of an entry calls at most

ASSUME SchedulerAssumption ==
  /\ Head \notin Threads
  /\ None \notin Threads
  /\ InitTick \in [Threads -> Nat]
  /\ SleepTicks \subseteq Nat \cup {-1}
  /\ MaxCalls \in Nat

VARIABLES
  list,       \* tlist of every thread and the list head, as RtList links
  stat,       \* thread->stat
  remaining,  \* thread->remaining_tick
  current,    \* rt_current_thread
  l,          \* the cursor of rt_schedule; Head outside a walk
  pc,         \* where the thread-level code is
  target,     \* the thread whose rt_thread_suspend is between its two stores
  ticks,      \* the argument of the rt_thread_sleep in progress, else NoSleep
  calls,      \* calls made by the running activation (the MaxCalls bound)
  parked,     \* history: suspended without a timeout and not resumed since
  due         \* history: clock ticks until the last sleep may end

vars == <<list, stat, remaining, current, l, pc, target, ticks, calls, parked, due>>

Node == Threads \cup {Head}
NoSleep == -2

(* pc: main (rt_schedule is not active), visit (about to test the thread at *)
(* the cursor), entry (in the entry of current), suspend (between the two   *)
(* stores of rt_thread_suspend), sleep (before rt_thread_sleep stores the   *)
(* timeout).                                                                *)
InEntry == pc \in {"entry", "suspend", "sleep"}

OnList(t) == ~SelfLinked(list, t)

SchedulerInit ==
  /\ list = [next |-> [n \in Node |-> n], prev |-> [n \in Node |-> n]]
  /\ stat = [t \in Threads |-> "INIT"]
  /\ remaining = InitTick
  /\ current = None
  /\ l = Head
  /\ pc = "main"
  /\ target = None
  /\ ticks = NoSleep
  /\ calls = 0
  /\ parked = [t \in Threads |-> FALSE]
  /\ due = [t \in Threads |-> 0]

-----------------------------------------------------------------------------
(* rt_schedule                                                             *)

\* l = n, and the loop test of rt_list_for_each.
MoveTo(n) ==
  /\ l' = n
  /\ pc' = IF n = Head THEN "main" ELSE "visit"

\* main() calls rt_schedule; on an empty list the call changes nothing.
Schedule ==
  /\ pc = "main"
  /\ ~SelfLinked(list, Head)
  /\ MoveTo(list.next[Head])
  /\ UNCHANGED <<list, stat, remaining, current, target, ticks, calls, parked, due>>

Skip ==
  /\ pc = "visit"
  /\ stat[l] # "READY"
  /\ MoveTo(list.next[l])
  /\ UNCHANGED <<list, stat, remaining, current, target, ticks, calls, parked, due>>

\* Variant: starts any thread it meets.
BadDispatch ==
  /\ pc = "visit"
  /\ stat[l] # "CLOSE"
  /\ current' = l
  /\ stat' = [stat EXCEPT ![l] = "RUNNING"]
  /\ pc' = "entry"
  /\ calls' = 0
  /\ UNCHANGED <<list, remaining, l, target, ticks, parked, due>>

Dispatch ==
  /\ pc = "visit"
  /\ stat[l] = "READY"
  /\ current' = l
  /\ stat' = [stat EXCEPT ![l] = "RUNNING"]
  /\ pc' = "entry"
  /\ calls' = 0
  /\ UNCHANGED <<list, remaining, l, target, ticks, parked, due>>

\* Variant: no restart of the cursor after a close.
BadReturnNoRestart ==
  /\ pc = "entry"
  /\ MoveTo(list.next[l])
  /\ stat' = [stat EXCEPT ![current] = IF @ = "CLOSE" THEN @ ELSE "SUSPEND"]
  /\ UNCHANGED <<list, remaining, current, target, ticks, calls, parked, due>>

\* Variant: the thread is left as its entry left it.
BadReturnKeepsState ==
  /\ pc = "entry"
  /\ MoveTo(list.next[IF stat[current] = "CLOSE" THEN list.next[Head] ELSE l])
  /\ UNCHANGED <<list, stat, remaining, current, target, ticks, calls, parked, due>>

\* Variant: the cursor restarts after every entry.
BadReturnRestarts ==
  /\ pc = "entry"
  /\ MoveTo(list.next[Head])
  /\ stat' = [stat EXCEPT ![current] = IF @ = "CLOSE" THEN @ ELSE "SUSPEND"]
  /\ UNCHANGED <<list, remaining, current, target, ticks, calls, parked, due>>

\* The entry returns.  Whatever made the thread READY during the call is
\* overwritten by SUSPEND; after a close the cursor restarts at the first
\* thread, which the loop increment then steps over.
Return ==
  /\ pc = "entry"
  /\ IF stat[current] = "CLOSE"
       THEN /\ MoveTo(list.next[list.next[Head]])
            /\ UNCHANGED stat
       ELSE /\ MoveTo(list.next[l])
            /\ stat' = [stat EXCEPT ![current] = "SUSPEND"]
  /\ UNCHANGED <<list, remaining, current, target, ticks, calls, parked, due>>

-----------------------------------------------------------------------------
(* Calls of thread.c from an entry                                         *)

Calling(op) ==
  /\ pc = "entry"
  /\ op \in Ops
  /\ calls < MaxCalls
  /\ calls' = calls + 1

Suspendable(t) == stat[t] \in {"READY", "RUNNING"}

\* rt_thread_suspend, up to its first store.  A refused call changes nothing.
CallSuspend(t) ==
  /\ Calling("suspend")
  /\ Suspendable(t)
  /\ stat' = [stat EXCEPT ![t] = "SUSPEND"]
  /\ target' = t
  /\ pc' = "suspend"
  /\ UNCHANGED <<list, remaining, current, l, ticks, parked, due>>

\* rt_thread_sleep on the current thread.  The result of its call of
\* rt_thread_suspend is ignored: a refusal only skips the suspend's stores.
CallSleep(k) ==
  /\ Calling("sleep")
  /\ ticks' = k
  /\ IF Suspendable(current)
       THEN /\ stat' = [stat EXCEPT ![current] = "SUSPEND"]
            /\ target' = current
            /\ pc' = "suspend"
       ELSE /\ pc' = "sleep"
            /\ UNCHANGED <<stat, target>>
  /\ UNCHANGED <<list, remaining, current, l, parked, due>>

\* The second store of rt_thread_suspend.
SuspendDone ==
  /\ pc = "suspend"
  /\ remaining' = [remaining EXCEPT ![target] = -1]
  /\ parked' = [parked EXCEPT ![target] = TRUE]
  /\ due' = [due EXCEPT ![target] = 0]
  /\ target' = None
  /\ pc' = IF ticks = NoSleep THEN "entry" ELSE "sleep"
  /\ UNCHANGED <<list, stat, current, l, ticks, calls>>

\* The store of rt_thread_sleep.
SleepDone ==
  /\ pc = "sleep"
  /\ remaining' = [remaining EXCEPT ![current] = ticks]
  /\ parked' = [parked EXCEPT ![current] = (ticks = -1)]
  /\ due' = [due EXCEPT ![current] = IF stat[current] = "CLOSE" THEN 0 ELSE ticks + 1]
  /\ ticks' = NoSleep
  /\ pc' = "entry"
  /\ UNCHANGED <<list, stat, current, l, target, calls>>

\* Variant: the period is not reloaded.
BadResumeKeepsTimer(t) ==
  /\ list' = InsertBefore(ListRemove(list, t), Head, t)
  /\ stat' = [stat EXCEPT ![t] = "READY"]
  /\ parked' = [parked EXCEPT ![t] = FALSE]
  /\ due' = [due EXCEPT ![t] = 0]
  /\ UNCHANGED remaining

\* Variant: the thread is not unlinked before it is inserted.
BadResumeNoUnlink(t) ==
  /\ list' = InsertBefore(list, Head, t)
  /\ remaining' = [remaining EXCEPT ![t] = InitTick[t]]
  /\ stat' = [stat EXCEPT ![t] = "READY"]
  /\ parked' = [parked EXCEPT ![t] = FALSE]
  /\ due' = [due EXCEPT ![t] = 0]

\* rt_thread_resume past its guard: t moves to the tail of the list, READY.
Resume(t) ==
  /\ list' = InsertBefore(ListRemove(list, t), Head, t)
  /\ remaining' = [remaining EXCEPT ![t] = InitTick[t]]
  /\ stat' = [stat EXCEPT ![t] = "READY"]
  /\ parked' = [parked EXCEPT ![t] = FALSE]
  /\ due' = [due EXCEPT ![t] = 0]

CallResume(t) ==
  /\ Calling("resume")
  /\ stat[t] = "SUSPEND"
  /\ Resume(t)
  /\ UNCHANGED <<current, l, pc, target, ticks>>

\* rt_thread_startup asserts INIT, stores SUSPEND and resumes.
CallStartup(t) ==
  /\ Calling("startup")
  /\ stat[t] = "INIT"
  /\ Resume(t)
  /\ UNCHANGED <<current, l, pc, target, ticks>>

\* Application initialisation starts threads before the first rt_schedule.
BootStartup(t) ==
  /\ pc = "main"
  /\ current = None
  /\ stat[t] = "INIT"
  /\ Resume(t)
  /\ UNCHANGED <<current, l, pc, target, ticks, calls>>

CallDetach(t) ==
  /\ Calling("detach")
  /\ list' = IF stat[t] = "INIT" THEN list ELSE ListRemove(list, t)
  /\ stat' = [stat EXCEPT ![t] = "CLOSE"]
  /\ parked' = [parked EXCEPT ![t] = FALSE]
  /\ due' = [due EXCEPT ![t] = 0]
  /\ UNCHANGED <<remaining, current, l, pc, target, ticks>>

\* rt_thread_init of a closed thread, for a new start.  It relinks the node,
\* so callers do not apply it to a thread that is on the list, nor to the
\* thread that is running.
CallInit(t) ==
  /\ Calling("init")
  /\ t # current
  /\ stat[t] = "CLOSE"
  /\ list' = ListInit(list, t)
  /\ remaining' = [remaining EXCEPT ![t] = InitTick[t]]
  /\ stat' = [stat EXCEPT ![t] = "INIT"]
  /\ UNCHANGED <<current, l, pc, target, ticks, parked, due>>

-----------------------------------------------------------------------------
(* rt_tick_increase, in the SysTick interrupt                              *)

\* Variant: a thread that waits forever is counted down too.
BadCounting(t) == OnList(t) /\ stat[t] = "SUSPEND"

Counting(t) == OnList(t) /\ stat[t] = "SUSPEND" /\ remaining[t] >= 0

\* Variant: wakes one tick early.
BadExpiring(t) == Counting(t) /\ remaining[t] <= 1

\* Variant: waits for the counter to pass below zero.
BadExpiringNever(t) == Counting(t) /\ remaining[t] < 0

Expiring(t) == Counting(t) /\ remaining[t] = 0

Tick ==
  /\ stat' = [t \in Threads |-> IF Expiring(t) THEN "READY" ELSE stat[t]]
  /\ remaining' = [t \in Threads |->
                     IF Expiring(t) THEN InitTick[t]
                     ELSE IF Counting(t) THEN remaining[t] - 1
                     ELSE remaining[t]]
  /\ due' = [t \in Threads |-> IF due[t] = 0 THEN 0 ELSE due[t] - 1]
  /\ UNCHANGED <<list, current, l, pc, target, ticks, calls, parked>>

-----------------------------------------------------------------------------
Walk == Schedule \/ Skip \/ Dispatch \/ Return
Finish == SuspendDone \/ SleepDone
Call ==
  \/ \E t \in Threads :
       \/ CallSuspend(t) \/ CallResume(t) \/ CallStartup(t)
       \/ CallDetach(t) \/ CallInit(t)
  \/ \E k \in SleepTicks : CallSleep(k)
Boot == \E t \in Threads : BootStartup(t)

SchedulerNext == Walk \/ Finish \/ Call \/ Boot \/ Tick

SchedulerSpec == SchedulerInit /\ [][SchedulerNext]_vars

(* main() never stops calling rt_schedule, entries return (they are finite *)
(* code), and the clock keeps ticking.                                     *)
FairSpec ==
  /\ SchedulerSpec
  /\ WF_vars(Walk)
  /\ WF_vars(Finish)
  /\ WF_vars(Tick)
=============================================================================
