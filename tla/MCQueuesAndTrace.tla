-------------------------- MODULE MCQueuesAndTrace --------------------------
(* Small instances for TLC of four parts that share no state: the pool's      *)
(* shared queue, a worker's deque, its profiling counters, and the trace that *)
(* is folded from them.  Each behaviour is of one part, chosen at the start.  *)
EXTENDS MpmcQueue, WorkStealingDeque, BusyTracking, GraphTrace

CONSTANTS v1, v2, p1, p2, c1, c2, o1

\* Three items in a ring of two cells: a second lap and an overflow.
Uneven == p1 :> 2 @@ p2 :> 1

VARIABLE part

PartInit ==
    /\ part \in {"queue", "deque", "busy", "trace"}
    /\ Init /\ DequeInit /\ BusyInit /\ TraceInit

PartNext ==
    /\ UNCHANGED part
    /\ \/ part = "queue" /\ Next /\ UNCHANGED <<dequeVars, busyVars, traceVars>>
       \/ part = "deque" /\ DequeNext /\ UNCHANGED <<vars, busyVars, traceVars>>
       \/ part = "busy" /\ BusyNext /\ UNCHANGED <<vars, dequeVars, traceVars>>
       \/ part = "trace" /\ TraceNext /\ UNCHANGED <<vars, dequeVars, busyVars>>

\* The queue's fairness, in the behaviours that are the queue's.
PartSpec ==
    /\ PartInit /\ [][PartNext]_<<part, vars, dequeVars, busyVars, traceVars>>
    /\ \A p \in Producers : WF_vars(part = "queue" /\ Pushing(p))
    /\ \A c \in Consumers : WF_vars(part = "queue" /\ Popping(c))
=============================================================================
