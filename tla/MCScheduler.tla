---------------------------- MODULE MCScheduler ----------------------------
(* Instances of Scheduler for TLC. *)
EXTENDS SchedulerProps, TLC

CONSTANTS a, b, c

\* The idle thread is initialised with tick 0 (idle.c:131-134).
TicksABC == [t \in Threads |-> IF t = b THEN 1 ELSE 0]
OneTick == [t \in Threads |-> 1]
Sleeps == {-1, 0, 1}
AllOps == {"suspend", "sleep", "resume", "startup", "detach", "init"}
============================================================================
