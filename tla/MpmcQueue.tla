----------------------------- MODULE MpmcQueue -----------------------------
(***************************************************************************)
(* Mpmc_queue (include/ts/detail/mpmc_queue.h): a bounded lock-free ring   *)
(* with a sequence number per cell, and an unbounded overflow list behind  *)
(* a mutex for what the ring has no room for.  Every access to a shared    *)
(* word is an action; a critical section of the overflow mutex is one.     *)
(***************************************************************************)
EXTENDS Integers, Sequences, FiniteSets

CONSTANTS
    RingSize,       \* mask_ + 1
    Producers,
    Consumers,
    Observers,      \* the threads that ask whether the queue is empty
    Quota,          \* bound: how many items each producer pushes
    NoItem

ASSUME MpmcAssumption ==
    /\ RingSize \in Nat /\ RingSize >= 2
    /\ Quota \in [Producers -> Nat]
    /\ Producers \cap Consumers = {} /\ Observers \cap (Producers \cup Consumers) = {}
    /\ IsFiniteSet(Consumers)

Items == UNION {{p} \X (1..Quota[p]) : p \in Producers}
ASSUME NoItemAssumption == NoItem \notin Items
Threads == Producers \cup Consumers \cup Observers

VARIABLES
    enqueue_pos, dequeue_pos,
    seq, data,              \* the cells
    overflow,               \* overflow_
    overflow_count,
    pushed,                 \* pushed[p]: how many items p has begun to push
    local,                  \* local[t]: t's next statement and its `pos`: [pc, pos]
    popped,                 \* popped[i]: how often item i was returned by pop
    before                  \* before[o]: what was in the queue when o's empty() began

vars == <<enqueue_pos, dequeue_pos, seq, data, overflow, overflow_count, pushed, local,
          popped, before>>

RingCell(pos) == pos % RingSize

Init ==
    /\ enqueue_pos = 0 /\ dequeue_pos = 0
    /\ seq = [i \in 0..(RingSize - 1) |-> i]
    /\ data = [i \in 0..(RingSize - 1) |-> NoItem]
    /\ overflow = <<>> /\ overflow_count = 0
    /\ pushed = [p \in Producers |-> 0]
    /\ local = [t \in Threads |-> [pc |-> "idle", pos |-> 0]]
    /\ popped = [i \in Items |-> 0]
    /\ before = [o \in Observers |-> {}]

At(t, s) == local[t].pc = s
Goto(t, s) == local' = [local EXCEPT ![t] = [pc |-> s, pos |-> IF s = "idle" THEN 0 ELSE @.pos]]
Load(t, s, pos) == local' = [local EXCEPT ![t] = [pc |-> s, pos |-> pos]]
Pos(t) == local[t].pos
Diff(t, pos) == seq[RingCell(Pos(t))] - pos

ringVars == <<enqueue_pos, dequeue_pos, seq, data>>
overVars == <<overflow, overflow_count>>

-----------------------------------------------------------------------------
(* push *)

\* The item a producer is pushing.
Item(p) == <<p, pushed[p]>>

push_ring(p) ==
    /\ At(p, "idle") /\ pushed[p] < Quota[p]
    /\ pushed' = [pushed EXCEPT ![p] = @ + 1]
    /\ Load(p, "enq_seq", enqueue_pos)
    /\ UNCHANGED <<ringVars, overVars, popped, before>>

\* The cell is free for this position, still holds an older item (the ring is full),
\* or the position is stale.
enqueue_seq(p) ==
    /\ At(p, "enq_seq")
    /\ \/ Diff(p, Pos(p)) = 0 /\ Goto(p, "enq_cas")
       \/ Diff(p, Pos(p)) < 0 /\ Goto(p, "overflow")
       \/ Diff(p, Pos(p)) > 0 /\ Load(p, "enq_seq", enqueue_pos)
    /\ UNCHANGED <<ringVars, overVars, pushed, popped, before>>

enqueue_cas(p) ==
    /\ At(p, "enq_cas")
    /\ \/ /\ enqueue_pos = Pos(p)
          /\ enqueue_pos' = enqueue_pos + 1 /\ Goto(p, "enq_data")
       \/ /\ enqueue_pos # Pos(p)
          /\ Load(p, "enq_seq", enqueue_pos) /\ UNCHANGED enqueue_pos
    /\ UNCHANGED <<dequeue_pos, seq, data, overVars, pushed, popped, before>>

\* The item, then the sequence number that publishes it.
enqueue_data(p) ==
    /\ At(p, "enq_data")
    /\ data' = [data EXCEPT ![RingCell(Pos(p))] = Item(p)]
    /\ Goto(p, "enq_publish")
    /\ UNCHANGED <<enqueue_pos, dequeue_pos, seq, overVars, pushed, popped, before>>

enqueue_publish(p) ==
    /\ At(p, "enq_publish")
    /\ seq' = [seq EXCEPT ![RingCell(Pos(p))] = Pos(p) + 1]
    /\ Goto(p, "idle")
    /\ UNCHANGED <<enqueue_pos, dequeue_pos, data, overVars, pushed, popped, before>>

\* Mutant: the overflow is not counted.
push_overflowUncounted(p) ==
    /\ At(p, "overflow")
    /\ overflow' = Append(overflow, Item(p))
    /\ Goto(p, "idle")
    /\ UNCHANGED <<ringVars, overflow_count, pushed, popped, before>>

push_overflow(p) ==
    /\ At(p, "overflow")
    /\ overflow' = Append(overflow, Item(p))
    /\ overflow_count' = overflow_count + 1
    /\ Goto(p, "idle")
    /\ UNCHANGED <<ringVars, pushed, popped, before>>

-----------------------------------------------------------------------------
(* pop *)

TakeItem(i) == popped' = [popped EXCEPT ![i] = @ + 1]

pop(c) ==
    /\ At(c, "idle")
    /\ Load(c, "deq_seq", dequeue_pos)
    /\ UNCHANGED <<ringVars, overVars, pushed, popped, before>>

\* The cell's item is published, the ring is empty (or its oldest item is claimed and
\* not published), or the position is stale.
dequeue_seq(c) ==
    /\ At(c, "deq_seq")
    /\ \/ Diff(c, Pos(c) + 1) = 0 /\ Goto(c, "deq_cas")
       \/ Diff(c, Pos(c) + 1) < 0 /\ Goto(c, "count")
       \/ Diff(c, Pos(c) + 1) > 0 /\ Load(c, "deq_seq", dequeue_pos)
    /\ UNCHANGED <<ringVars, overVars, pushed, popped, before>>

\* Mutant: the position is stored, not compared and exchanged.
dequeue_casBlind(c) ==
    /\ At(c, "deq_cas")
    /\ dequeue_pos' = Pos(c) + 1 /\ Goto(c, "deq_data")
    /\ UNCHANGED <<enqueue_pos, seq, data, overVars, pushed, popped, before>>

dequeue_cas(c) ==
    /\ At(c, "deq_cas")
    /\ \/ /\ dequeue_pos = Pos(c)
          /\ dequeue_pos' = dequeue_pos + 1 /\ Goto(c, "deq_data")
       \/ /\ dequeue_pos # Pos(c)
          /\ Load(c, "deq_seq", dequeue_pos) /\ UNCHANGED dequeue_pos
    /\ UNCHANGED <<enqueue_pos, seq, data, overVars, pushed, popped, before>>

dequeue_data(c) ==
    /\ At(c, "deq_data")
    /\ TakeItem(data[RingCell(Pos(c))])
    /\ Goto(c, "deq_free")
    /\ UNCHANGED <<ringVars, overVars, pushed, before>>

dequeue_free(c) ==
    /\ At(c, "deq_free")
    /\ seq' = [seq EXCEPT ![RingCell(Pos(c))] = Pos(c) + RingSize]
    /\ Goto(c, "idle")
    /\ UNCHANGED <<enqueue_pos, dequeue_pos, data, overVars, pushed, popped, before>>

\* The ring gave nothing: look at the overflow, first by its count.
pop_count(c) ==
    /\ At(c, "count")
    /\ Goto(c, IF overflow_count = 0 THEN "idle" ELSE "drain")
    /\ UNCHANGED <<ringVars, overVars, pushed, popped, before>>

\* Under the overflow mutex: the oldest overflowed item and its count go together.
pop_overflow(c) ==
    /\ At(c, "drain")
    /\ \/ overflow = <<>> /\ UNCHANGED <<overVars, popped>>
       \/ /\ overflow # <<>>
          /\ TakeItem(Head(overflow))
          /\ overflow' = Tail(overflow) /\ overflow_count' = overflow_count - 1
    /\ Goto(c, "idle")
    /\ UNCHANGED <<ringVars, pushed, before>>

-----------------------------------------------------------------------------
(* empty *)

\* The places an item of the queue can be in: a published cell between the two
\* positions, or the overflow.
InRing(i) == {pos \in dequeue_pos..(enqueue_pos - 1) :
                seq[RingCell(pos)] = pos + 1 /\ data[RingCell(pos)] = i}
InOverflow(i) == {k \in DOMAIN overflow : overflow[k] = i}
Held == {i \in Items : InRing(i) \cup InOverflow(i) # {}}

\* empty() reads the overflow count, then the two positions in turn.
empty(o) ==
    /\ At(o, "idle")
    /\ before' = [before EXCEPT ![o] = Held]
    /\ Goto(o, IF overflow_count # 0 THEN "idle" ELSE "deq_pos")
    /\ UNCHANGED <<ringVars, overVars, pushed, popped>>

empty_deq(o) ==
    /\ At(o, "deq_pos")
    /\ Load(o, "enq_pos", dequeue_pos)
    /\ UNCHANGED <<ringVars, overVars, pushed, popped, before>>

\* empty() returns, TRUE if the positions agree.
empty_enq(o) ==
    /\ At(o, "enq_pos")
    /\ Goto(o, IF Pos(o) = enqueue_pos THEN "empty" ELSE "idle")
    /\ UNCHANGED <<ringVars, overVars, pushed, popped, before>>

empty_return(o) ==
    /\ At(o, "empty")
    /\ Goto(o, "idle")
    /\ before' = [before EXCEPT ![o] = {}]
    /\ UNCHANGED <<ringVars, overVars, pushed, popped>>

-----------------------------------------------------------------------------

Pushing(p) ==
    \/ push_ring(p) \/ enqueue_seq(p) \/ enqueue_cas(p) \/ enqueue_data(p)
    \/ enqueue_publish(p) \/ push_overflow(p)

Popping(c) ==
    \/ pop(c) \/ dequeue_seq(c) \/ dequeue_cas(c) \/ dequeue_data(c) \/ dequeue_free(c)
    \/ pop_count(c) \/ pop_overflow(c)

Observing(o) == empty(o) \/ empty_deq(o) \/ empty_enq(o) \/ empty_return(o)

Next ==
    \/ \E p \in Producers : Pushing(p)
    \/ \E c \in Consumers : Popping(c)
    \/ \E o \in Observers : Observing(o)

SafetySpec == Init /\ [][Next]_vars

\* The threads run; a worker of the pool keeps calling pop.
Spec == /\ SafetySpec
        /\ \A p \in Producers : WF_vars(Pushing(p))
        /\ \A c \in Consumers : WF_vars(Popping(c))

-----------------------------------------------------------------------------
(* Properties *)

\* Every variable keeps its type.
QueueTypeOK ==
    /\ enqueue_pos \in Nat /\ dequeue_pos \in Nat /\ dequeue_pos <= enqueue_pos
    /\ enqueue_pos - dequeue_pos <= RingSize
    /\ seq \in [0..(RingSize - 1) -> Nat]
    /\ data \in [0..(RingSize - 1) -> Items \cup {NoItem}]
    /\ overflow \in Seq(Items) /\ overflow_count = Len(overflow)
    /\ \A p \in Producers : pushed[p] \in 0..Quota[p]
    /\ popped \in [Items -> Nat]
    /\ before \in [Observers -> SUBSET Items]

\* The consumers that have won the cell of item i and not yet read it.
Winning(i) == {c \in Consumers : At(c, "deq_data") /\ data[RingCell(Pos(c))] = i}

\* The push of item i is over.
Pushed(i) == i[2] < pushed[i[1]] \/ (i[2] = pushed[i[1]] /\ At(i[1], "idle"))

\* Exactly once: an item that has been pushed is in one cell, in the overflow, or won
\* by one consumer, or it has been returned by one pop, over every lap of the ring
\* and every mix of ring and overflow.
ItemsOnce ==
    \A i \in Items :
        popped[i] + Cardinality(InRing(i)) + Cardinality(InOverflow(i)) + Cardinality(Winning(i))
            = IF Pushed(i) THEN 1 ELSE 0

\* empty() is TRUE only if every item that was in the queue when it began has left it,
\* though it reads three words one after the other: the drain at shutdown relies on it.
EmptyIsHonest == \A o \in Observers : At(o, "empty") => before[o] \cap Held = {}

\* No item is lost or returned twice, and none is overlooked by empty().
ItemsKept == QueueTypeOK /\ ItemsOnce /\ EmptyIsHonest

\* Every pushed item is eventually returned by some pop: neither a slot claimed and not
\* yet published nor the count read outside the mutex strands it.
EveryItemPopped == \A i \in Items : Pushed(i) ~> popped[i] = 1
=============================================================================
