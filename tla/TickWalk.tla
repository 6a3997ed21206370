------------------------------ MODULE TickWalk ------------------------------
(***************************************************************************)
(* The clock interrupt between the stores of a list operation.  Scheduler  *)
(* takes rt_list_remove and rt_list_insert_before as single steps; here    *)
(* the thread-level code performs them store by store, as                  *)
(* rt_thread_resume, rt_thread_startup and rt_thread_detach do with        *)
(* interrupts enabled, and rt_tick_increase may walk the list in between.  *)
(* The walk runs to its end before the thread-level code continues.        *)
(***************************************************************************)
EXTENDS RtList

CONSTANTS
  Threads,   \* the threads
  Head,      \* rt_thread_priority
  NoNode     \* no operation, or no walk, in progress

ASSUME TickWalkAssumption == Head \notin Threads /\ NoNode \notin Threads \cup {Head}

VARIABLES
  list,      \* the links
  op,        \* the list operation in progress: detach; unlink then link for a
             \* resume; none
  node,      \* the thread it moves, or NoNode
  done,      \* how many of its stores are performed
  members,   \* history: threads the completed operations left on the list
  walk,      \* the cursor of rt_tick_increase, or NoNode outside the interrupt
  seen       \* history: threads this walk has visited

vars == <<list, op, node, done, members, walk, seen>>

Node == Threads \cup {Head}

WalkInit ==
  /\ list = [next |-> [n \in Node |-> n], prev |-> [n \in Node |-> n]]
  /\ op = "none"
  /\ node = NoNode
  /\ done = 0
  /\ members = {}
  /\ walk = NoNode
  /\ seen = {}

ThreadLevel == walk = NoNode

\* rt_thread_resume, or rt_thread_startup of a thread on no list, reaches its
\* rt_list_remove; rt_thread_detach of a linked thread reaches its own.
Start(t, kind) ==
  /\ ThreadLevel
  /\ op = "none"
  /\ kind = "detach" => t \in members
  /\ op' = kind
  /\ node' = t
  /\ UNCHANGED <<list, done, members, walk, seen>>

Store ==
  /\ ThreadLevel
  /\ op # "none"
  /\ list' = IF op = "link" THEN InsertStep(list, Head, node, done + 1)
                            ELSE RemoveStep(list, node, done + 1)
  /\ done' = (done + 1) % LastStore
  /\ IF done' = 0
       THEN /\ op' = IF op = "unlink" THEN "link" ELSE "none"
            /\ members' = CASE op = "detach" -> members \ {node}
                            [] op = "link" -> members \cup {node}
                            [] OTHER -> members
            /\ node' = IF op = "unlink" THEN node ELSE NoNode
       ELSE UNCHANGED <<op, members, node>>
  /\ UNCHANGED <<walk, seen>>

\* SysTick fires: l = rt_thread_priority.next.
Enter ==
  /\ ThreadLevel
  /\ walk' = list.next[Head]
  /\ seen' = {}
  /\ UNCHANGED <<list, op, node, done, members>>

\* One iteration of rt_list_for_each.
Visit ==
  /\ walk \in Threads
  /\ seen' = seen \cup {walk}
  /\ walk' = list.next[walk]
  /\ UNCHANGED <<list, op, node, done, members>>

\* The cursor is back at the list head: the interrupt returns.
Leave ==
  /\ walk = Head
  /\ walk' = NoNode
  /\ UNCHANGED <<list, op, node, done, members, seen>>

Interrupt == Visit \/ Leave

WalkNext ==
  \/ \E t \in Threads, kind \in {"detach", "unlink"} : Start(t, kind)
  \/ Store
  \/ Enter
  \/ Interrupt

WalkSpec == WalkInit /\ [][WalkNext]_vars

(* An interrupt handler runs until it returns. *)
FairWalkSpec == WalkSpec /\ WF_vars(Interrupt)

-----------------------------------------------------------------------------
(* Between operations the list is a ring of exactly the member threads.     *)
QuietRing == op = "none" => Ring(list, Head) = members \cup {Head}

(* Type invariant, with the shape of the list between two operations.       *)
TypeOK ==
  /\ list \in Links(Node)
  /\ op \in {"none", "detach", "unlink", "link"}
  /\ node \in Threads \cup {NoNode}
  /\ (op = "none") <=> (node = NoNode)
  /\ done \in 0 .. LastStore - 1
  /\ members \subseteq Threads
  /\ walk \in Node \cup {NoNode}
  /\ seen \subseteq Threads
  /\ QuietRing

(* Every walk that ends has counted a tick for each thread that was on the  *)
(* list and is not the one being moved, wherever between two stores the     *)
(* interrupt came (clock.c:68 against rtservice.h:73-92).                   *)
WalkSeesAll ==
  walk = Head => /\ members \ {node} \subseteq seen
                 /\ seen \subseteq members \cup {node}

(* No walk counts a tick twice for one thread, except in the window of      *)
(* rt_list_insert_before in which the new node is reachable but still       *)
(* points to itself.                                                        *)
RevisitOnlyInInsert ==
  walk \in seen => op = "link" /\ done \in 1..3 /\ walk = node

(* The clock interrupt returns (clock.c:51-53 has the clock interrupt call  *)
(* rt_tick_increase to notify the kernel of a tick).                        *)
TickReturns == (walk # NoNode) ~> (walk = NoNode)
=============================================================================
