---------------------------- MODULE MCScheduler ----------------------------
(* A small instance of Scheduler for TLC. *)
EXTENDS Scheduler, TLC

CONSTANTS t1, t2, t3, t4, e1

\* A `low` body, which yield points can be reached from, forks two `normal` entries,
\* one more than its deque holds; an outside thread submits it and a `high` entry.
ForkPriority == t1 :> "low" @@ t2 :> "normal" @@ t3 :> "normal" @@ t4 :> "high"
ForkSpawns   == t1 :> <<t2, t3>> @@ t2 :> <<>> @@ t3 :> <<>> @@ t4 :> <<>>
ForkProgram  == e1 :> <<t1, t4>>
=============================================================================
