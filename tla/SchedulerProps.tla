--------------------------- MODULE SchedulerProps ---------------------------
(* The properties of Scheduler: what TLC checks and SchedulerProofs proves. *)
EXTENDS Scheduler

States == {"INIT", "READY", "SUSPEND", "RUNNING", "CLOSE"}

(* Type invariant: the links are total, the cursor is a node, and a target *)
(* is recorded exactly while rt_thread_suspend is between its stores.       *)
TypeOK ==
  /\ list \in Links(Node)
  /\ stat \in [Threads -> States]
  /\ remaining \in [Threads -> Nat \cup {-1}]
  /\ current \in Threads \cup {None}
  /\ l \in Node
  /\ pc \in {"main", "visit", "entry", "suspend", "sleep"}
  /\ target \in Threads \cup {None}
  /\ ticks \in SleepTicks \cup {NoSleep}
  /\ calls \in 0..MaxCalls
  /\ parked \in [Threads -> BOOLEAN]
  /\ due \in [Threads -> Nat]
  /\ (pc = "suspend") <=> (target \in Threads)
  /\ pc = "sleep" => ticks # NoSleep
  /\ (InEntry \/ pc = "visit") => l \in Threads
  /\ pc = "main" => l = Head
  /\ InEntry => current = l

(* The thread list stays one well-formed ring whatever the entries do to    *)
(* their own thread and to others: prev undoes next, and every thread that  *)
(* has links to another node is reached by the walks of rt_schedule and     *)
(* rt_tick_increase (scheduler.c:30, clock.c:68).                           *)
LinksInverse == WellLinked(list)

OneRing == Ring(list, Head) = {Head} \cup {t \in Threads : OnList(t)}

(* A thread is linked exactly while it is live: an initialised or closed    *)
(* thread is never left on the list, a started one never falls off it.      *)
LinkedIffLive ==
  \A t \in Threads : OnList(t) <=> stat[t] \in {"READY", "SUSPEND", "RUNNING"}

(* The walk never stands on a removed node when it reads l->next: after an  *)
(* entry detaches its own thread the cursor is moved back onto the list     *)
(* (scheduler.c:40-41).                                                     *)
CursorLinked == pc = "visit" => OnList(l)

(* Only the thread whose entry is executing is RUNNING, which is what the   *)
(* assertion in rt_thread_suspend (thread.c:254-258) relies on.             *)
RunningIsCurrent ==
  \A t \in Threads : stat[t] = "RUNNING" => InEntry /\ t = current

(* A live thread waits without a timeout only because rt_thread_suspend, or *)
(* a sleep of RT_WAITING_FOREVER, put it there after its last resume: no    *)
(* interleaving of sleep, tick and return leaves it stranded.               *)
NeverStranded ==
  \A t \in Threads :
    OnList(t) /\ remaining[t] = -1 => parked[t]

(* A sleep is never cut short: a thread that is not executing and was not   *)
(* resumed becomes READY only after all the ticks it asked for.             *)
SleepNotShort ==
  \A t \in Threads :
    stat[t] \in {"READY", "RUNNING"} /\ ~(InEntry /\ t = current) => due[t] = 0

(* The three together: what the walks of the scheduler and of the tick need *)
(* of the list at every moment they may run.                                *)
ListIntact == LinksInverse /\ OneRing /\ LinkedIffLive

(* While a thread still owes ticks its counter has at least as many left;   *)
(* this is the inductive core of SleepNotShort.                             *)
CounterCoversDue ==
  \A t \in Threads : due[t] > 0 => OnList(t) /\ remaining[t] + 1 >= due[t]

(* The thread whose entry is executing has been started: with the invariants *)
(* above this makes them inductive.                                         *)
CurrentStarted == InEntry => stat[current] # "INIT"

IInv ==
  /\ TypeOK
  /\ WellLinked(list)
  /\ OneRingAt(list, Head)
  /\ LinkedIffLive
  /\ CursorLinked
  /\ RunningIsCurrent
  /\ CurrentStarted
  /\ NeverStranded
  /\ CounterCoversDue
  /\ SleepNotShort

(* A thread that was made READY is not put back to sleep except by a call   *)
(* of rt_thread_suspend (thread.c:271: This function will resume a thread   *)
(* and put it to system ready queue).  Does not hold: the return of its own *)
(* entry overwrites READY.                                                  *)
WakeKept ==
  [][\A t \in Threads :
       stat[t] = "READY" /\ stat'[t] = "SUSPEND" => pc' = "suspend"]_vars

-----------------------------------------------------------------------------
(* Refinement: the scheduler implements run-to-completion scheduling.       *)
CoopView == INSTANCE Coop WITH
  live <- {t \in Threads : OnList(t)},
  ready <- {t \in Threads : OnList(t) /\ stat[t] = "READY"},
  running <- IF InEntry THEN current ELSE None

RunsToCompletion == CoopView!CoopSpec

-----------------------------------------------------------------------------
(* Liveness *)

(* One pass of rt_schedule re-reads the list as it goes, so entries that    *)
(* keep appending each other (rt_thread_resume, rt_thread_startup) can make *)
(* it endless, and nothing in the code forbids it: the liveness properties  *)
(* are about executions in which the requeueing calls stop.                 *)
Requeue == \E t \in Threads : CallResume(t) \/ CallStartup(t)

RequeuesStop == <>[][~ Requeue]_vars

(* Nothing starves: a READY thread is dispatched or stopped.                *)
ReadyRuns ==
  RequeuesStop => \A t \in Threads : (stat[t] = "READY") ~> (stat[t] # "READY")

(* A thread that waits with a timeout runs again, or is stopped.            *)
TimedRuns ==
  RequeuesStop =>
    \A t \in Threads :
      (stat[t] = "SUSPEND" /\ remaining[t] >= 0 /\ pc = "main")
        ~> (stat[t] \in {"RUNNING", "CLOSE"} \/ parked[t])

(* Both: while the clock runs, a live thread that is not parked gets its     *)
(* entry called again and again.                                            *)
ThreadsRun == ReadyRuns /\ TimedRuns

(* Each call of rt_schedule ends: the main loop gets control back, whatever *)
(* the entries detach, suspend or put to sleep during the pass.             *)
ScheduleReturns == RequeuesStop => ((pc # "main") ~> (pc = "main"))
=============================================================================
