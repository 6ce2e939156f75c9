------------------------------ MODULE FifoPipe ------------------------------
(* A pipe as module Pipe shows it to be, for the modules built on top of it: a *)
(* FIFO of entries of which the head is admitted as soon as it may join the    *)
(* holders.  An entry is [who, mode].                                          *)
EXTENDS Integers, Sequences, FiniteSets

IdlePipe == [queue |-> <<>>, holders |-> {}]

Entry(who, mode) == [who |-> who, mode |-> mode]

\* The pipe after a pass over the queue q beside the holders H.
Pass(q, H) ==
    LET reads == {k \in DOMAIN q : \A j \in 1..k : q[j].mode = "read"}
        n == IF \E h \in H : h.mode = "write" THEN 0
             ELSE IF reads # {} THEN Cardinality(reads)
             ELSE IF H = {} /\ q # <<>> THEN 1 ELSE 0
    IN [queue |-> SubSeq(q, n + 1, Len(q)), holders |-> H \cup {q[k] : k \in 1..n}]

Enter(pipe, who, mode) == Pass(Append(pipe.queue, Entry(who, mode)), pipe.holders)
Leave(pipe, who)       == Pass(pipe.queue, {h \in pipe.holders : h.who # who})

Holds(pipe, who)   == \E h \in pipe.holders : h.who = who
Waits(pipe, who)   == \E k \in DOMAIN pipe.queue : pipe.queue[k].who = who
=============================================================================
