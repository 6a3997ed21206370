-------------------------------- MODULE Coop --------------------------------
(***************************************************************************)
(* What the scheduler of RTT_NONOS promises its threads, without the list, *)
(* the cursor, the timers or the interrupt: entries run one at a time and  *)
(* to completion, only a ready thread is started, only a live thread can   *)
(* become ready, and a thread that is neither started nor stopped by the   *)
(* running entry keeps its place.                                          *)
(***************************************************************************)
CONSTANTS Threads, None

VARIABLES
  live,     \* threads that have been started and not closed
  ready,    \* those the scheduler may start
  running   \* the thread whose entry is executing, or None

coopVars == <<live, ready, running>>

CoopTypeOK ==
  /\ live \subseteq Threads
  /\ ready \subseteq live
  /\ running \in Threads \cup {None}

CoopInit == live = {} /\ ready = {} /\ running = None

Begin(t) ==
  /\ running = None
  /\ t \in ready
  /\ running' = t
  /\ ready' = ready \ {t}
  /\ UNCHANGED live

\* An entry that returns leaves its thread waiting, whatever woke it meanwhile.
End ==
  /\ running # None
  /\ running' = None
  /\ ready' = ready \ {running}
  /\ UNCHANGED live

\* Application initialisation, or the running entry, starts or wakes t.
Activate(t) ==
  /\ live' = live \cup {t}
  /\ ready' = ready \cup {t}
  /\ UNCHANGED running

\* The running entry stops t.
Block(t) ==
  /\ running # None
  /\ ready' = ready \ {t}
  /\ UNCHANGED <<live, running>>

Close(t) ==
  /\ running # None
  /\ live' = live \ {t}
  /\ ready' = ready \ {t}
  /\ UNCHANGED running

\* A clock tick wakes any number of live threads.
Wake(S) ==
  /\ ready' = ready \cup S
  /\ UNCHANGED <<live, running>>

CoopNext ==
  \/ \E t \in Threads : Begin(t) \/ Activate(t) \/ Block(t) \/ Close(t)
  \/ \E S \in SUBSET live : Wake(S)
  \/ End

CoopSpec == CoopInit /\ [][CoopNext]_coopVars
=============================================================================
