----------------------------- MODULE QueueProofs -----------------------------
(***************************************************************************)
(* Proofs about MpmcQueue, for every size of the ring of at least two      *)
(* cells, every number of producers, consumers and observers, and every    *)
(* number of items.                                                        *)
(***************************************************************************)
EXTENDS MpmcQueue, FiniteSetTheorems, FunctionTheorems, TLAPS

-----------------------------------------------------------------------------
(* Cells *)

\* A position has a cell.
LEMMA CellType ==
    ASSUME NEW i \in Nat
    PROVE  RingCell(i) \in 0..(RingSize - 1)
  BY MpmcAssumption DEF RingCell

\* Two positions less than a lap apart have different cells.
LEMMA CellApart ==
    ASSUME NEW i \in Nat, NEW j \in Nat, i # j, j - i < RingSize, i - j < RingSize
    PROVE  RingCell(i) # RingCell(j)
<1>1. ASSUME NEW k \in Nat, NEW l \in Nat, k < l, l - k < RingSize, RingCell(k) = RingCell(l) PROVE FALSE
  <2> DEFINE a == k \div RingSize
             b == l \div RingSize
  <2>1. k = RingSize * a + RingCell(k) /\ l = RingSize * b + RingCell(l)
    BY MpmcAssumption DEF RingCell
  <2>2. a \in Int /\ b \in Int /\ RingCell(k) \in Int /\ RingSize \in Nat /\ RingSize > 0
    BY CellType, MpmcAssumption
  <2> HIDE DEF a, b
  <2>3. l - k = RingSize * (b - a)
    BY <2>1, <2>2, <1>1
  <2>4. b - a >= 1
    BY <2>3, <2>2, <1>1
  <2>5. RingSize * (b - a) >= RingSize
    BY <2>4, <2>2
  <2> QED
    BY <2>3, <2>5, <2>2, <1>1
<1>2. i < j \/ j < i
  OBVIOUS
<1> QED
  BY <1>1, <1>2

\* A position and the one a lap later have the same cell.
LEMMA CellLap ==
    ASSUME NEW i \in Nat
    PROVE  RingCell(i + RingSize) = RingCell(i)
<1> DEFINE N == RingSize
           a == i \div N
           b == (i + N) \div N
           x == RingCell(i)
           y == RingCell(i + N)
<1>0. N \in Nat /\ N > 0 /\ i + N \in Nat
  BY MpmcAssumption
<1>1. i = N * a + x /\ i + N = N * b + y
  BY <1>0 DEF RingCell
<1>2. a \in Int /\ b \in Int /\ x \in 0..(N - 1) /\ y \in 0..(N - 1)
  BY <1>0, CellType
<1> HIDE DEF N, a, b, x, y
<1>3. x - y = N * (b - a - 1)
  BY <1>0, <1>1, <1>2
<1>4. b - a - 1 < 1
  <2>1. ASSUME b - a - 1 >= 1 PROVE FALSE
    <3>1. N * (b - a - 1) >= N
      BY <2>1, <1>0, <1>2
    <3> QED
      BY <3>1, <1>3, <1>0, <1>2
  <2> QED
    BY <2>1, <1>2
<1>5. b - a - 1 > -1
  <2>1. ASSUME b - a - 1 <= -1 PROVE FALSE
    <3>1. N * (b - a - 1) <= -N
      BY <2>1, <1>0, <1>2
    <3> QED
      BY <3>1, <1>3, <1>0, <1>2
  <2> QED
    BY <2>1, <1>2
<1>6. b - a - 1 = 0
  BY <1>4, <1>5, <1>2
<1>7. x = y
  BY <1>6, <1>3, <1>2, <1>0
<1> QED
  BY <1>7 DEF x, y, N

\* On the first lap a position is its cell.
LEMMA CellFirst ==
    ASSUME NEW i \in 0..(RingSize - 1)
    PROVE  RingCell(i) = i
<1> DEFINE N == RingSize
           a == i \div N
           x == RingCell(i)
<1>0. N \in Nat /\ N > 0 /\ i \in Nat /\ i < N
  BY MpmcAssumption
<1>1. i = N * a + x
  BY <1>0 DEF RingCell
<1>2. a \in Int /\ x \in 0..(N - 1)
  BY <1>0, CellType
<1> HIDE DEF N, a, x
<1>3. a < 1
  <2>1. ASSUME a >= 1 PROVE FALSE
    <3>1. N * a >= N
      BY <2>1, <1>0, <1>2
    <3> QED
      BY <3>1, <1>0, <1>1, <1>2
  <2> QED
    BY <2>1, <1>2
<1>4. a > -1
  <2>1. ASSUME a <= -1 PROVE FALSE
    <3>1. N * a <= -N
      BY <2>1, <1>0, <1>2
    <3> QED
      BY <3>1, <1>0, <1>1, <1>2
  <2> QED
    BY <2>1, <1>2
<1>5. a = 0
  BY <1>2, <1>3, <1>4
<1>6. i = x
  BY <1>5, <1>0, <1>1, <1>2
<1> QED
  BY <1>6 DEF x

-----------------------------------------------------------------------------
(* The inductive invariant *)

Cells       == 0..(RingSize - 1)
Writing     == {"enq_data", "enq_publish"}     \* a position is claimed, not published
Reading     == {"deq_data", "deq_free"}        \* a position is claimed, not freed
ProducerPcs == {"idle", "enq_seq", "enq_cas", "overflow"} \cup Writing
ConsumerPcs == {"idle", "deq_seq", "deq_cas", "count", "drain"} \cup Reading
ObserverPcs == {"idle", "deq_pos", "enq_pos", "empty"}

QueueType ==
    /\ enqueue_pos \in Nat /\ dequeue_pos \in Nat /\ dequeue_pos <= enqueue_pos
    /\ enqueue_pos <= dequeue_pos + RingSize
    /\ seq \in [Cells -> Nat]
    /\ data \in [Cells -> Items \cup {NoItem}]
    /\ overflow \in Seq(Items) /\ overflow_count = Len(overflow)
    /\ pushed \in [Producers -> Nat] /\ popped \in [Items -> Nat]
    /\ before \in [Observers -> SUBSET Items]
    /\ local \in [Threads -> [pc : ProducerPcs \cup ConsumerPcs \cup ObserverPcs, pos : Nat]]
    /\ \A p \in Producers : /\ local[p].pc \in ProducerPcs /\ pushed[p] <= Quota[p]
                            /\ local[p].pc # "idle" => pushed[p] > 0
    /\ \A c \in Consumers : local[c].pc \in ConsumerPcs
    /\ \A o \in Observers : local[o].pc \in ObserverPcs

\* A producer's position was handed out or is the next; one that has it to itself
\* finds the cell as it left it, and nobody else has it.
ProducersInv ==
    /\ \A p \in Producers :
        /\ local[p].pc \in {"enq_seq", "enq_cas"} => local[p].pos <= enqueue_pos
        /\ local[p].pc = "enq_cas" /\ local[p].pos = enqueue_pos => seq[RingCell(enqueue_pos)] = enqueue_pos
        /\ local[p].pc \in Writing => /\ dequeue_pos <= local[p].pos /\ local[p].pos < enqueue_pos
                                      /\ seq[RingCell(local[p].pos)] = local[p].pos
        /\ local[p].pc = "enq_publish" => data[RingCell(local[p].pos)] = Item(p)
    /\ \A p, q \in Producers : p # q /\ local[p].pc \in Writing /\ local[q].pc \in Writing =>
            local[p].pos # local[q].pos

\* The same of the consumers; the cell one reads is not handed out again until freed.
ConsumersInv ==
    /\ \A c \in Consumers :
        /\ local[c].pc \in {"deq_seq", "deq_cas"} => local[c].pos <= dequeue_pos
        /\ local[c].pc = "deq_cas" /\ local[c].pos = dequeue_pos => seq[RingCell(dequeue_pos)] = dequeue_pos + 1
        /\ local[c].pc \in Reading => /\ local[c].pos < dequeue_pos
                                      /\ enqueue_pos <= local[c].pos + RingSize
                                      /\ seq[RingCell(local[c].pos)] = local[c].pos + 1
        /\ local[c].pc = "deq_data" => data[RingCell(local[c].pos)] \in Items
    /\ \A c, d \in Consumers : c # d /\ local[c].pc \in Reading /\ local[d].pc \in Reading =>
            local[c].pos # local[d].pos

\* The sequence number of a cell: of the position between the two counters it stands
\* for, claimed or published, or of the position it will stand for next, freed or not.
RingInv ==
    /\ \A k \in dequeue_pos..(enqueue_pos - 1) :
        \/ seq[RingCell(k)] = k
        \/ seq[RingCell(k)] = k + 1 /\ data[RingCell(k)] \in Items
    /\ \A k \in enqueue_pos..(dequeue_pos + RingSize - 1) :
        seq[RingCell(k)] = k \/ seq[RingCell(k)] = k + 1 - RingSize

\* What an empty() under way may rely on: of what was in the queue when it began
\* nothing is in the overflow, and dequeue_pos has not gone back.
ObserverOK(o) ==
    /\ local[o].pc \in {"deq_pos", "enq_pos", "empty"} =>
        \A i \in before[o] : Pushed(i) /\ InOverflow(i) = {}
    /\ local[o].pc = "enq_pos" => local[o].pos <= dequeue_pos
    /\ local[o].pc = "empty" => \A i \in before[o] : InRing(i) = {}

ObserversInv == \A o \in Observers : ObserverOK(o)

QueueInv == QueueType /\ ProducersInv /\ ConsumersInv /\ RingInv /\ ItemsOnce /\ ObserversInv

-----------------------------------------------------------------------------
(* What the steps have in common *)

Pcs == ProducerPcs \cup ConsumerPcs \cup ObserverPcs

\* Thread t goes to statement s with n in `pos`; the others stay where they are.
Moves(t, s, n) ==
    /\ local' \in [Threads -> [pc : Pcs, pos : Nat]]
    /\ local'[t].pc = s /\ local'[t].pos = n
    /\ \A u \in Threads : u # t => local'[u] = local[u]

\* The producers, consumers and observers are threads, and different ones.
LEMMA Roles ==
           /\ \A p \in Producers : p \in Threads /\ p \notin Consumers /\ p \notin Observers
           /\ \A c \in Consumers : c \in Threads /\ c \notin Producers /\ c \notin Observers
           /\ \A o \in Observers : o \in Threads /\ o \notin Producers /\ o \notin Consumers
  BY MpmcAssumption DEF Threads

\* The two ways a step moves its thread.
LEMMA Moving ==
    ASSUME QueueType, NEW t \in Threads, NEW s \in Pcs
    PROVE  /\ Goto(t, s) => Moves(t, s, IF s = "idle" THEN 0 ELSE local[t].pos)
           /\ \A n \in Nat : Load(t, s, n) => Moves(t, s, n)
<1>1. local \in [Threads -> [pc : Pcs, pos : Nat]]
  BY DEF QueueType, Pcs
<1>2. local[t].pos \in Nat
  BY <1>1
<1>3. ASSUME NEW n \in Nat, local' = [local EXCEPT ![t] = [pc |-> s, pos |-> n]]
      PROVE  Moves(t, s, n)
  <2>1. [pc |-> s, pos |-> n] \in [pc : Pcs, pos : Nat]
    OBVIOUS
  <2>2. local' \in [Threads -> [pc : Pcs, pos : Nat]]
    BY <2>1, <1>1, <1>3
  <2>3. local'[t] = [pc |-> s, pos |-> n]
    BY <1>1, <1>3
  <2>4. \A u \in Threads : u # t => local'[u] = local[u]
    BY <1>1, <1>3
  <2> QED
    BY <2>2, <2>3, <2>4 DEF Moves
<1>4. Goto(t, s) => local' = [local EXCEPT ![t] = [pc |-> s, pos |-> IF s = "idle" THEN 0 ELSE local[t].pos]]
  BY <1>1 DEF Goto
<1>5. (IF s = "idle" THEN 0 ELSE local[t].pos) \in Nat
  BY <1>2
<1> QED
  BY <1>3, <1>4, <1>5 DEF Load

\* The part of the type invariant that is about the threads.
LEMMA ThreadTypes ==
    ASSUME QueueType, NEW t \in Threads, NEW s \in Pcs, NEW n \in Nat, Moves(t, s, n),
           t \in Producers => s \in ProducerPcs /\ (s # "idle" => pushed'[t] > 0),
           t \in Consumers => s \in ConsumerPcs,
           t \in Observers => s \in ObserverPcs,
           \A q \in Producers : pushed'[q] <= Quota[q] /\ (q # t => pushed'[q] = pushed[q])
    PROVE  /\ local' \in [Threads -> [pc : ProducerPcs \cup ConsumerPcs \cup ObserverPcs, pos : Nat]]
           /\ \A p \in Producers : /\ local'[p].pc \in ProducerPcs /\ pushed'[p] <= Quota[p]
                                   /\ local'[p].pc # "idle" => pushed'[p] > 0
           /\ \A c \in Consumers : local'[c].pc \in ConsumerPcs
           /\ \A o \in Observers : local'[o].pc \in ObserverPcs
<1>1. local' \in [Threads -> [pc : ProducerPcs \cup ConsumerPcs \cup ObserverPcs, pos : Nat]]
  BY DEF Moves, Pcs
<1>2. local'[t].pc = s /\ \A u \in Threads : u # t => local'[u].pc = local[u].pc
  BY DEF Moves
<1>3. ASSUME NEW p \in Producers
      PROVE  /\ local'[p].pc \in ProducerPcs /\ pushed'[p] <= Quota[p]
             /\ local'[p].pc # "idle" => pushed'[p] > 0
  BY <1>2, Roles DEF QueueType
<1>4. ASSUME NEW c \in Consumers PROVE local'[c].pc \in ConsumerPcs
  BY <1>2, Roles DEF QueueType
<1>5. ASSUME NEW o \in Observers PROVE local'[o].pc \in ObserverPcs
  BY <1>2, Roles DEF QueueType
<1> QED
  BY <1>1, <1>3, <1>4, <1>5

\* An item names its producer and its number.
LEMMA ItemFacts ==
    /\ \A i \in Items : /\ i[1] \in Producers /\ i[2] \in 1..Quota[i[1]] /\ i = <<i[1], i[2]>>
                        /\ Quota[i[1]] \in Nat
    /\ \A p \in Producers : \A k \in 1..Quota[p] : <<p, k>> \in Items
<1>1. \A p \in Producers : Quota[p] \in Nat
  BY MpmcAssumption
<1> QED
  BY <1>1 DEF Items

\* The item of a producer under way.
LEMMA CurrentItem ==
    ASSUME QueueType, NEW p \in Producers, local[p].pc # "idle"
    PROVE  Item(p) \in Items /\ Item(p)[1] = p /\ Item(p)[2] = pushed[p] /\ ~Pushed(Item(p))
<1>1. pushed[p] \in 1..Quota[p]
  BY MpmcAssumption DEF QueueType
<1>2. pushed[p] \in Nat
  BY <1>1
<1> QED
  BY <1>1, <1>2, ItemFacts DEF Item, Pushed, At

\* The sets that ItemsOnce counts are finite.
LEMMA SetsFinite ==
    ASSUME QueueType, NEW i
    PROVE  /\ IsFiniteSet(InRing(i)) /\ IsFiniteSet(InOverflow(i)) /\ IsFiniteSet(Winning(i))
           /\ Cardinality(InRing(i)) \in Nat /\ Cardinality(InOverflow(i)) \in Nat
           /\ Cardinality(Winning(i)) \in Nat
<1>1. IsFiniteSet(dequeue_pos..(enqueue_pos - 1)) /\ InRing(i) \subseteq dequeue_pos..(enqueue_pos - 1)
  <2>1. dequeue_pos \in Int /\ enqueue_pos - 1 \in Int
    BY DEF QueueType
  <2> QED
    BY <2>1, FS_Interval DEF InRing
<1>2. IsFiniteSet(1..Len(overflow)) /\ InOverflow(i) \subseteq 1..Len(overflow)
  <2>1. Len(overflow) \in Nat /\ DOMAIN overflow = 1..Len(overflow)
    BY DEF QueueType
  <2> QED
    BY <2>1, FS_Interval DEF InOverflow
<1>3. IsFiniteSet(Consumers) /\ Winning(i) \subseteq Consumers
  BY MpmcAssumption DEF Winning
<1>4. IsFiniteSet(InRing(i)) /\ IsFiniteSet(InOverflow(i)) /\ IsFiniteSet(Winning(i))
  BY <1>1, <1>2, <1>3, FS_Subset
<1> QED
  BY <1>4, FS_CardinalityType

\* A step that moves no item.
LEMMA CountsKept ==
    ASSUME ItemsOnce, popped' = popped,
           \A i \in Items : /\ InRing(i)' = InRing(i) /\ InOverflow(i)' = InOverflow(i)
                            /\ Winning(i)' = Winning(i)
                            /\ Pushed(i)' <=> Pushed(i)
    PROVE  ItemsOnce'
<1>1. ASSUME NEW i \in Items
      PROVE  popped'[i] + Cardinality(InRing(i)') + Cardinality(InOverflow(i)') + Cardinality(Winning(i)')
                = IF Pushed(i)' THEN 1 ELSE 0
  <2>1. popped[i] + Cardinality(InRing(i)) + Cardinality(InOverflow(i)) + Cardinality(Winning(i))
                = IF Pushed(i) THEN 1 ELSE 0
    BY DEF ItemsOnce
  <2>2. CASE Pushed(i)
    BY <2>1, <2>2
  <2>3. CASE ~Pushed(i)
    BY <2>1, <2>3
  <2> QED
    BY <2>2, <2>3
<1> QED
  BY <1>1 DEF ItemsOnce

\* An item whose push is not over is nowhere.
LEMMA NotPushed ==
    ASSUME QueueType, ItemsOnce, NEW i \in Items, ~Pushed(i)
    PROVE  popped[i] = 0 /\ InRing(i) = {} /\ InOverflow(i) = {} /\ Winning(i) = {}
<1>1. popped[i] + Cardinality(InRing(i)) + Cardinality(InOverflow(i)) + Cardinality(Winning(i)) = 0
  BY DEF ItemsOnce
<1>2. popped[i] \in Nat
  BY DEF QueueType
<1>3. /\ popped[i] = 0 /\ Cardinality(InRing(i)) = 0 /\ Cardinality(InOverflow(i)) = 0
      /\ Cardinality(Winning(i)) = 0
  BY <1>1, <1>2, SetsFinite
<1> QED
  BY <1>3, SetsFinite, FS_EmptySet

\* What an observer relies on survives every step of another thread that keeps
\* what was pushed and puts no item back.
LEMMA ObserverKept ==
    ASSUME QueueType, NEW o \in Observers, ObserverOK(o), local'[o] = local[o], before'[o] = before[o],
           dequeue_pos' \in Nat, dequeue_pos <= dequeue_pos',
           \A i \in Items : Pushed(i) => /\ Pushed(i)'
                                         /\ InOverflow(i) = {} => InOverflow(i)' = {}
                                         /\ InRing(i) = {} => InRing(i)' = {}
    PROVE  ObserverOK(o)'
<1>1. before[o] \subseteq Items /\ local[o].pos \in Nat /\ dequeue_pos \in Nat
  BY Roles DEF QueueType
<1>2. local[o].pc \in {"deq_pos", "enq_pos", "empty"} =>
        \A i \in before[o] : Pushed(i)' /\ InOverflow(i)' = {}
  BY <1>1 DEF ObserverOK
<1>3. local[o].pc = "enq_pos" => local[o].pos <= dequeue_pos'
  BY <1>1 DEF ObserverOK
<1>4. local[o].pc = "empty" => \A i \in before[o] : InRing(i)' = {}
  BY <1>1 DEF ObserverOK
<1> QED
  BY <1>2, <1>3, <1>4 DEF ObserverOK

\* What an item's state depends on besides the cells: its producer.
LEMMA PushedKept ==
    ASSUME QueueType, NEW t \in Threads, NEW s, NEW n, Moves(t, s, n),
           \A q \in Producers : q # t => pushed'[q] = pushed[q],
           t \in Producers => /\ s # "idle" /\ local[t].pc # "idle" => pushed'[t] = pushed[t]
                              /\ local[t].pc = "idle" => s # "idle" /\ pushed'[t] = pushed[t] + 1
                              /\ local[t].pc # "idle" => s # "idle"
    PROVE  \A i \in Items : Pushed(i)' <=> Pushed(i)
<1> SUFFICES ASSUME NEW i \in Items PROVE Pushed(i)' <=> Pushed(i)
  OBVIOUS
<1>1. i[1] \in Producers /\ i[1] \in Threads /\ i[2] \in Nat /\ pushed[i[1]] \in Nat
  BY ItemFacts, Roles DEF QueueType
<1>2. Pushed(i)' <=> i[2] < pushed'[i[1]] \/ (i[2] = pushed'[i[1]] /\ local'[i[1]].pc = "idle")
  BY DEF Pushed, At
<1>3. Pushed(i) <=> i[2] < pushed[i[1]] \/ (i[2] = pushed[i[1]] /\ local[i[1]].pc = "idle")
  BY DEF Pushed, At
<1>4. CASE i[1] # t
  <2>1. local'[i[1]] = local[i[1]] /\ pushed'[i[1]] = pushed[i[1]]
    BY <1>1, <1>4 DEF Moves
  <2> QED
    BY <1>2, <1>3, <2>1
<1>5. CASE i[1] = t /\ local[t].pc # "idle"
  <2>1. local'[i[1]].pc # "idle" /\ pushed'[i[1]] = pushed[i[1]] /\ local[i[1]].pc # "idle"
    BY <1>1, <1>5 DEF Moves
  <2> QED
    BY <1>2, <1>3, <2>1
<1>6. CASE i[1] = t /\ local[t].pc = "idle"
  <2>1. local'[i[1]].pc # "idle" /\ pushed'[i[1]] = pushed[i[1]] + 1 /\ local[i[1]].pc = "idle"
    BY <1>1, <1>6 DEF Moves
  <2> QED
    BY <1>1, <1>2, <1>3, <2>1
<1> QED
  BY <1>4, <1>5, <1>6

\* The other threads' view when a producer moves: consumers and observers stay, and
\* so does what a consumer has won, if its cell does.
LEMMA ProducerMoves ==
    ASSUME NEW p \in Producers, NEW s, NEW n, Moves(p, s, n)
    PROVE  /\ local'[p].pc = s /\ local'[p].pos = n
           /\ \A q \in Producers : q # p => local'[q] = local[q]
           /\ \A c \in Consumers : local'[c] = local[c]
           /\ \A o \in Observers : local'[o] = local[o]
           /\ (\A c \in Consumers : local[c].pc = "deq_data" =>
                    data'[RingCell(local[c].pos)] = data[RingCell(local[c].pos)]) =>
                \A i : Winning(i)' = Winning(i)
<1>1. /\ local'[p].pc = s /\ local'[p].pos = n
      /\ \A q \in Producers : q # p => local'[q] = local[q]
      /\ \A c \in Consumers : local'[c] = local[c]
      /\ \A o \in Observers : local'[o] = local[o]
  BY Roles DEF Moves
<1>2. ASSUME \A c \in Consumers : local[c].pc = "deq_data" =>
                    data'[RingCell(local[c].pos)] = data[RingCell(local[c].pos)], NEW i
      PROVE  Winning(i)' = Winning(i)
  <2>1. Winning(i)' = {c \in Consumers : local'[c].pc = "deq_data" /\ data'[RingCell(local'[c].pos)] = i}
    BY DEF Winning, At, Pos, RingCell
  <2>2. Winning(i) = {c \in Consumers : local[c].pc = "deq_data" /\ data[RingCell(local[c].pos)] = i}
    BY DEF Winning, At, Pos
  <2> QED
    BY <2>1, <2>2, <1>1, <1>2
<1> QED
  BY <1>1, <1>2

-----------------------------------------------------------------------------
(* push *)

\* A producer looks for a cell: it takes none yet.
LEMMA ProducerSearches ==
    ASSUME QueueInv, NEW p \in Producers, NEW s \in {"enq_seq", "enq_cas", "overflow"}, NEW n \in Nat,
           Moves(p, s, n),
           s \in {"enq_seq", "enq_cas"} => n <= enqueue_pos,
           s = "enq_cas" /\ n = enqueue_pos => seq[RingCell(enqueue_pos)] = enqueue_pos,
           pushed' \in [Producers -> Nat], pushed'[p] > 0,
           \A q \in Producers : pushed'[q] <= Quota[q] /\ (q # p => pushed'[q] = pushed[q]),
           local[p].pc # "idle" => pushed'[p] = pushed[p],
           local[p].pc = "idle" => pushed'[p] = pushed[p] + 1,
           enqueue_pos' = enqueue_pos, dequeue_pos' = dequeue_pos, seq' = seq, data' = data,
           overflow' = overflow, overflow_count' = overflow_count, popped' = popped, before' = before
    PROVE  QueueInv'
<1> USE DEF QueueInv
<1>0. p \in Threads /\ s \in Pcs /\ s \in ProducerPcs /\ s # "idle" /\ s \notin Writing
      /\ p \notin Consumers /\ p \notin Observers
  BY Roles DEF Pcs, ProducerPcs, Writing
<1>1. /\ local'[p].pc = s /\ local'[p].pos = n
      /\ \A q \in Producers : q # p => local'[q] = local[q]
      /\ \A c \in Consumers : local'[c] = local[c]
      /\ \A o \in Observers : local'[o] = local[o]
      /\ \A i : Winning(i)' = Winning(i)
  BY ProducerMoves
<1>2. QueueType'
  <2>1. /\ local' \in [Threads -> [pc : ProducerPcs \cup ConsumerPcs \cup ObserverPcs, pos : Nat]]
        /\ \A q \in Producers : /\ local'[q].pc \in ProducerPcs /\ pushed'[q] <= Quota[q]
                                /\ local'[q].pc # "idle" => pushed'[q] > 0
        /\ \A c \in Consumers : local'[c].pc \in ConsumerPcs
        /\ \A o \in Observers : local'[o].pc \in ObserverPcs
    BY <1>0, ThreadTypes
  <2> QED
    BY <2>1 DEF QueueType
<1>3. \A i \in Items : /\ InRing(i)' = InRing(i) /\ InOverflow(i)' = InOverflow(i)
                       /\ Winning(i)' = Winning(i) /\ (Pushed(i)' <=> Pushed(i))
  <2>1. \A i \in Items : Pushed(i)' <=> Pushed(i)
    BY <1>0, PushedKept
  <2>2. \A i \in Items : InRing(i)' = InRing(i) /\ InOverflow(i)' = InOverflow(i)
    BY DEF InRing, InOverflow, RingCell
  <2> QED
    BY <1>1, <2>1, <2>2
<1>4. ProducersInv'
  <2>1. ASSUME NEW q \in Producers
        PROVE  /\ local'[q].pc \in {"enq_seq", "enq_cas"} => local'[q].pos <= enqueue_pos'
               /\ local'[q].pc = "enq_cas" /\ local'[q].pos = enqueue_pos' =>
                    seq'[RingCell(enqueue_pos')] = enqueue_pos'
               /\ local'[q].pc \in Writing => /\ dequeue_pos' <= local'[q].pos /\ local'[q].pos < enqueue_pos'
                                              /\ seq'[RingCell(local'[q].pos)] = local'[q].pos
               /\ local'[q].pc = "enq_publish" => data'[RingCell(local'[q].pos)] = <<q, pushed'[q]>>
    <3>1. CASE q = p
      BY <3>1, <1>0, <1>1 DEF Writing
    <3>2. CASE q # p
      BY ZenonT(60), <3>2, <1>1 DEF ProducersInv, Item
    <3> QED
      BY <3>1, <3>2
  <2>2. ASSUME NEW q \in Producers, NEW r \in Producers, q # r, local'[q].pc \in Writing, local'[r].pc \in Writing
        PROVE  local'[q].pos # local'[r].pos
    BY <2>2, <1>0, <1>1 DEF ProducersInv
  <2> QED
    BY <2>1, <2>2 DEF ProducersInv, Item, RingCell
<1>5. ConsumersInv'
  BY <1>1 DEF ConsumersInv, RingCell
<1>6. RingInv'
  BY DEF RingInv, RingCell
<1>7. ItemsOnce'
  BY <1>3, CountsKept
<1>8. ObserversInv'
  <2>1. dequeue_pos' \in Nat /\ dequeue_pos <= dequeue_pos'
    BY DEF QueueType
  <2>2. ASSUME NEW o \in Observers PROVE ObserverOK(o)'
    BY <1>1, <1>3, <2>1, ObserverKept DEF ObserversInv
  <2> QED
    BY <2>2 DEF ObserversInv
<1> QED
  BY <1>2, <1>4, <1>5, <1>6, <1>7, <1>8

\* push, the look at the cell, and the exchange that fails.
LEMMA Step_push ==
    ASSUME QueueInv, NEW p \in Producers, push_ring(p)
    PROVE  QueueInv'
<1>1. QueueType /\ p \in Threads /\ "enq_seq" \in Pcs
  BY Roles DEF QueueInv, Pcs, ProducerPcs
<1>2. enqueue_pos \in Nat /\ pushed \in [Producers -> Nat] /\ Quota \in [Producers -> Nat]
  BY <1>1, MpmcAssumption DEF QueueType
<1>3. Moves(p, "enq_seq", enqueue_pos)
  BY <1>1, <1>2, Moving DEF push_ring
<1>4. pushed' = [pushed EXCEPT ![p] = pushed[p] + 1] /\ pushed[p] < Quota[p] /\ local[p].pc = "idle"
  BY DEF push_ring, At
<1>5. pushed' \in [Producers -> Nat] /\ pushed'[p] = pushed[p] + 1 /\ pushed'[p] > 0
  BY <1>2, <1>4
<1>6. \A q \in Producers : pushed'[q] <= Quota[q] /\ (q # p => pushed'[q] = pushed[q])
  BY <1>1, <1>2, <1>4 DEF QueueType
<1>7. /\ enqueue_pos' = enqueue_pos /\ dequeue_pos' = dequeue_pos /\ seq' = seq /\ data' = data
      /\ overflow' = overflow /\ overflow_count' = overflow_count /\ popped' = popped /\ before' = before
  BY DEF push_ring, ringVars, overVars
<1>8. enqueue_pos <= enqueue_pos
  BY <1>2
<1> QED
  BY <1>2, <1>3, <1>4, <1>5, <1>6, <1>7, <1>8, ProducerSearches

\* The same for the steps that do not begin a push.
LEMMA Searching ==
    ASSUME QueueInv, NEW p \in Producers, NEW s \in {"enq_seq", "enq_cas", "overflow"}, NEW n \in Nat,
           Moves(p, s, n), local[p].pc # "idle",
           s \in {"enq_seq", "enq_cas"} => n <= enqueue_pos,
           s = "enq_cas" /\ n = enqueue_pos => seq[RingCell(enqueue_pos)] = enqueue_pos,
           pushed' = pushed, enqueue_pos' = enqueue_pos, dequeue_pos' = dequeue_pos, seq' = seq,
           data' = data, overflow' = overflow, overflow_count' = overflow_count,
           popped' = popped, before' = before
    PROVE  QueueInv'
<1>1. pushed' \in [Producers -> Nat] /\ pushed'[p] > 0 /\ pushed'[p] = pushed[p]
  BY DEF QueueInv, QueueType
<1>2. \A q \in Producers : pushed'[q] <= Quota[q] /\ (q # p => pushed'[q] = pushed[q])
  BY DEF QueueInv, QueueType
<1> QED
  BY <1>1, <1>2, ProducerSearches

\* The look at the cell's sequence number.
LEMMA Step_enqueue_seq ==
    ASSUME QueueInv, NEW p \in Producers, enqueue_seq(p)
    PROVE  QueueInv'
<1>1. QueueType /\ p \in Threads /\ {"enq_seq", "enq_cas", "overflow"} \subseteq Pcs
  BY Roles DEF QueueInv, Pcs, ProducerPcs
<1>2. enqueue_pos \in Nat /\ local[p].pos \in Nat /\ local[p].pos <= enqueue_pos /\ local[p].pc = "enq_seq"
  BY <1>1 DEF QueueType, QueueInv, ProducersInv, enqueue_seq, At
<1>3. seq[RingCell(local[p].pos)] \in Nat
  BY <1>1, <1>2, CellType DEF QueueType, Cells
<1>4. /\ pushed' = pushed
      /\ enqueue_pos' = enqueue_pos /\ dequeue_pos' = dequeue_pos /\ seq' = seq /\ data' = data
      /\ overflow' = overflow /\ overflow_count' = overflow_count /\ popped' = popped /\ before' = before
  BY DEF enqueue_seq, ringVars, overVars
<1>5. CASE Diff(p, Pos(p)) = 0 /\ Goto(p, "enq_cas")
  <2>1. Moves(p, "enq_cas", local[p].pos)
    BY <1>1, <1>5, Moving
  <2>2. seq[RingCell(local[p].pos)] = local[p].pos
    BY <1>2, <1>3, <1>5 DEF Diff, Pos
  <2> QED
    BY <1>2, <1>4, <2>1, <2>2, Searching
<1>6. CASE Goto(p, "overflow")
  <2>1. Moves(p, "overflow", local[p].pos)
    BY <1>1, <1>6, Moving
  <2> QED
    BY <1>2, <1>4, <2>1, Searching
<1>7. CASE Load(p, "enq_seq", enqueue_pos)
  <2>1. Moves(p, "enq_seq", enqueue_pos) /\ enqueue_pos <= enqueue_pos
    BY <1>1, <1>2, <1>7, Moving
  <2> QED
    BY <1>2, <1>4, <2>1, Searching
<1> QED
  BY <1>5, <1>6, <1>7 DEF enqueue_seq

\* The positions between the two counters, and a cell's two neighbours in time.
LEMMA Window ==
    ASSUME QueueInv
    PROVE  /\ enqueue_pos \in Nat /\ dequeue_pos \in Nat /\ RingSize \in Nat /\ RingSize >= 2
           /\ dequeue_pos <= enqueue_pos /\ enqueue_pos <= dequeue_pos + RingSize
           /\ \A t \in Threads : local[t].pos \in Nat
           /\ \A k \in Nat : RingCell(k) \in Cells /\ seq[RingCell(k)] \in Nat
           /\ seq \in [Cells -> Nat] /\ data \in [Cells -> Items \cup {NoItem}]
  BY MpmcAssumption, CellType DEF QueueInv, QueueType, Cells

\* A producer whose exchange wins has a position for itself.
LEMMA Step_enqueue_cas ==
    ASSUME QueueInv, NEW p \in Producers, enqueue_cas(p)
    PROVE  QueueInv'
<1>1. QueueType /\ p \in Threads /\ {"enq_seq", "enq_data"} \subseteq Pcs /\ p \notin Consumers /\ p \notin Observers
  BY Roles DEF QueueInv, Pcs, ProducerPcs, Writing
<1>2. /\ enqueue_pos \in Nat /\ dequeue_pos \in Nat /\ RingSize \in Nat /\ RingSize >= 2
      /\ dequeue_pos <= enqueue_pos /\ enqueue_pos <= dequeue_pos + RingSize
      /\ \A t \in Threads : local[t].pos \in Nat
      /\ \A k \in Nat : seq[RingCell(k)] \in Nat
  BY Window
<1>3. /\ pushed' = pushed /\ dequeue_pos' = dequeue_pos /\ seq' = seq /\ data' = data
      /\ overflow' = overflow /\ overflow_count' = overflow_count /\ popped' = popped /\ before' = before
      /\ local[p].pc = "enq_cas"
  BY DEF enqueue_cas, overVars, At
<1>4. CASE enqueue_pos' = enqueue_pos /\ Load(p, "enq_seq", enqueue_pos)
  <2>1. Moves(p, "enq_seq", enqueue_pos) /\ enqueue_pos <= enqueue_pos
    BY <1>1, <1>2, <1>4, Moving
  <2> QED
    BY <1>2, <1>3, <1>4, <2>1, Searching
<1>5. CASE enqueue_pos = local[p].pos /\ enqueue_pos' = enqueue_pos + 1 /\ Goto(p, "enq_data")
  <2>1. seq[RingCell(enqueue_pos)] = enqueue_pos
    BY <1>3, <1>5 DEF QueueInv, ProducersInv
  <2>2. enqueue_pos < dequeue_pos + RingSize
    <3>1. ASSUME enqueue_pos = dequeue_pos + RingSize PROVE FALSE
      <4>1. RingCell(enqueue_pos) = RingCell(dequeue_pos)
        BY <3>1, <1>2, CellLap
      <4>2. dequeue_pos \in dequeue_pos..(enqueue_pos - 1)
        BY <3>1, <1>2
      <4>3. seq[RingCell(dequeue_pos)] = dequeue_pos \/ seq[RingCell(dequeue_pos)] = dequeue_pos + 1
        BY <4>2 DEF QueueInv, RingInv
      <4> QED
        BY <4>1, <4>3, <3>1, <2>1, <1>2
    <3> QED
      BY <3>1, <1>2
  <2>3. Moves(p, "enq_data", enqueue_pos)
    BY <1>1, <1>5, Moving
  <2>4. /\ local'[p].pc = "enq_data" /\ local'[p].pos = enqueue_pos
        /\ \A q \in Producers : q # p => local'[q] = local[q]
        /\ \A c \in Consumers : local'[c] = local[c]
        /\ \A o \in Observers : local'[o] = local[o]
        /\ \A i : Winning(i)' = Winning(i)
    BY <1>3, <2>3, ProducerMoves
  <2>5. QueueType'
    <3>1. pushed[p] > 0 /\ \A q \in Producers : pushed[q] <= Quota[q]
      BY <1>1, <1>3 DEF QueueType
    <3>2. /\ local' \in [Threads -> [pc : ProducerPcs \cup ConsumerPcs \cup ObserverPcs, pos : Nat]]
          /\ \A q \in Producers : /\ local'[q].pc \in ProducerPcs /\ pushed'[q] <= Quota[q]
                                  /\ local'[q].pc # "idle" => pushed'[q] > 0
          /\ \A c \in Consumers : local'[c].pc \in ConsumerPcs
          /\ \A o \in Observers : local'[o].pc \in ObserverPcs
      <4>1. "enq_data" \in ProducerPcs
        BY DEF ProducerPcs, Writing
      <4> QED
        BY <1>1, <1>2, <1>3, <2>3, <3>1, <4>1, ThreadTypes
    <3>3. enqueue_pos' \in Nat /\ dequeue_pos' <= enqueue_pos' /\ enqueue_pos' <= dequeue_pos' + RingSize
      BY <1>2, <1>3, <1>5, <2>2
    <3> QED
      BY <1>1, <1>3, <3>2, <3>3 DEF QueueType
  <2>6. ProducersInv'
    <3>1. ASSUME NEW q \in Producers
          PROVE  /\ local'[q].pc \in {"enq_seq", "enq_cas"} => local'[q].pos <= enqueue_pos'
                 /\ local'[q].pc = "enq_cas" /\ local'[q].pos = enqueue_pos' =>
                      seq'[RingCell(enqueue_pos')] = enqueue_pos'
                 /\ local'[q].pc \in Writing => /\ dequeue_pos' <= local'[q].pos /\ local'[q].pos < enqueue_pos'
                                                /\ seq'[RingCell(local'[q].pos)] = local'[q].pos
                 /\ local'[q].pc = "enq_publish" => data'[RingCell(local'[q].pos)] = <<q, pushed'[q]>>
      <4>1. CASE q = p
        BY <4>1, <1>2, <1>3, <1>5, <2>1, <2>4
      <4>2. CASE q # p
        <5>1. local'[q] = local[q] /\ local[q].pos \in Nat
          BY <4>2, <2>4, <1>2, Roles
        <5>2. /\ local[q].pc \in {"enq_seq", "enq_cas"} => local[q].pos <= enqueue_pos
              /\ local[q].pc \in Writing => /\ dequeue_pos <= local[q].pos /\ local[q].pos < enqueue_pos
                                            /\ seq[RingCell(local[q].pos)] = local[q].pos
              /\ local[q].pc = "enq_publish" => data[RingCell(local[q].pos)] = <<q, pushed[q]>>
          BY DEF QueueInv, ProducersInv, Item
        <5>3. local[q].pc \in {"enq_seq", "enq_cas"} => local[q].pos < enqueue_pos'
          BY <5>1, <5>2, <1>2, <1>5
        <5>4. local[q].pc \in Writing => local[q].pos < enqueue_pos'
          BY <5>1, <5>2, <1>2, <1>5
        <5> QED
          BY <5>1, <5>2, <5>3, <5>4, <1>2, <1>3, <1>5
      <4> QED
        BY <4>1, <4>2
    <3>2. ASSUME NEW q \in Producers, NEW r \in Producers, q # r, local'[q].pc \in Writing, local'[r].pc \in Writing
          PROVE  local'[q].pos # local'[r].pos
      <4>1. ASSUME NEW u \in Producers, u # p, local[u].pc \in Writing PROVE local[u].pos # enqueue_pos
        BY <4>1, <1>2, Roles DEF QueueInv, ProducersInv
      <4> QED
        BY <3>2, <4>1, <2>4 DEF QueueInv, ProducersInv
    <3> QED
      BY <3>1, <3>2 DEF ProducersInv, Item, RingCell
  <2>7. ConsumersInv'
    <3>1. ASSUME NEW c \in Consumers, local[c].pc \in Reading
          PROVE  enqueue_pos' <= local[c].pos + RingSize
      <4>1. local[c].pos \in Nat /\ enqueue_pos <= local[c].pos + RingSize
            /\ seq[RingCell(local[c].pos)] = local[c].pos + 1
        BY <3>1, <1>2, Roles DEF QueueInv, ConsumersInv
      <4>2. ASSUME enqueue_pos = local[c].pos + RingSize PROVE FALSE
        BY <4>1, <4>2, <2>1, <1>2, CellLap
      <4> QED
        BY <4>1, <4>2, <1>2, <1>5
    <3> QED
      BY <3>1, <2>4, <1>3 DEF QueueInv, ConsumersInv, RingCell
  <2>8. RingInv'
    <3>1. ASSUME NEW k \in dequeue_pos..(enqueue_pos' - 1)
          PROVE  seq[RingCell(k)] = k \/ (seq[RingCell(k)] = k + 1 /\ data[RingCell(k)] \in Items)
      <4>1. k = enqueue_pos \/ k \in dequeue_pos..(enqueue_pos - 1)
        BY <1>2, <1>5
      <4> QED
        BY <4>1, <2>1 DEF QueueInv, RingInv
    <3>2. ASSUME NEW k \in enqueue_pos'..(dequeue_pos + RingSize - 1)
          PROVE  seq[RingCell(k)] = k \/ seq[RingCell(k)] = k + 1 - RingSize
      <4>1. k \in enqueue_pos..(dequeue_pos + RingSize - 1)
        BY <1>2, <1>5
      <4> QED
        BY <4>1 DEF QueueInv, RingInv
    <3> QED
      BY <3>1, <3>2, <1>3 DEF RingInv, RingCell
  <2>9. \A i \in Items : /\ InRing(i)' = InRing(i) /\ InOverflow(i)' = InOverflow(i)
                         /\ Winning(i)' = Winning(i) /\ (Pushed(i)' <=> Pushed(i))
    <3>1. \A i \in Items : Pushed(i)' <=> Pushed(i)
      BY <1>1, <1>3, <2>3, PushedKept
    <3>2. ASSUME NEW i \in Items PROVE InRing(i)' = InRing(i)
      <4>1. InRing(i)' = {k \in dequeue_pos..(enqueue_pos' - 1) : seq[RingCell(k)] = k + 1 /\ data[RingCell(k)] = i}
        BY <1>3 DEF InRing, RingCell
      <4>2. ASSUME NEW k, seq[RingCell(k)] = k + 1
            PROVE  k \in dequeue_pos..(enqueue_pos' - 1) <=> k \in dequeue_pos..(enqueue_pos - 1)
        <5>1. k # enqueue_pos
          BY <4>2, <2>1, <1>2
        <5> QED
          BY <5>1, <1>2, <1>5
      <4> QED
        BY <4>1, <4>2 DEF InRing
    <3> QED
      BY <1>3, <2>4, <3>1, <3>2 DEF InOverflow
  <2>10. ItemsOnce'
    BY <1>3, <2>9, CountsKept DEF QueueInv
  <2>11. ObserversInv'
    <3>1. dequeue_pos' \in Nat /\ dequeue_pos <= dequeue_pos'
      BY <1>2, <1>3
    <3>2. ASSUME NEW o \in Observers PROVE ObserverOK(o)'
      BY <1>1, <1>3, <2>4, <2>9, <3>1, ObserverKept DEF QueueInv, ObserversInv
    <3> QED
      BY <3>2 DEF ObserversInv
  <2> QED
    BY <2>5, <2>6, <2>7, <2>8, <2>10, <2>11 DEF QueueInv
<1> QED
  BY <1>4, <1>5 DEF enqueue_cas, Pos

\* The cell a producer writes is no other producer's, no consumer's and no other
\* position's.
LEMMA WrittenCell ==
    ASSUME QueueInv, NEW p \in Producers, local[p].pc \in Writing
    PROVE  /\ local[p].pos \in dequeue_pos..(enqueue_pos - 1) /\ local[p].pos \in Nat
           /\ seq[RingCell(local[p].pos)] = local[p].pos
           /\ \A q \in Producers : q # p /\ local[q].pc \in Writing => RingCell(local[q].pos) # RingCell(local[p].pos)
           /\ \A c \in Consumers : local[c].pc \in Reading => RingCell(local[c].pos) # RingCell(local[p].pos)
           /\ \A k \in dequeue_pos..(dequeue_pos + RingSize - 1) :
                k # local[p].pos => RingCell(k) # RingCell(local[p].pos)
<1>1. /\ enqueue_pos \in Nat /\ dequeue_pos \in Nat /\ RingSize \in Nat /\ RingSize >= 2
      /\ dequeue_pos <= enqueue_pos /\ enqueue_pos <= dequeue_pos + RingSize
      /\ \A t \in Threads : local[t].pos \in Nat
  BY Window
<1>2. /\ local[p].pos \in Nat /\ dequeue_pos <= local[p].pos /\ local[p].pos < enqueue_pos
      /\ seq[RingCell(local[p].pos)] = local[p].pos
  BY <1>1, Roles DEF QueueInv, ProducersInv
<1>3. ASSUME NEW q \in Producers, q # p, local[q].pc \in Writing
      PROVE  RingCell(local[q].pos) # RingCell(local[p].pos)
  <2>1. local[q].pos \in Nat /\ dequeue_pos <= local[q].pos /\ local[q].pos < enqueue_pos
        /\ local[q].pos # local[p].pos
    BY <1>1, <1>3, Roles DEF QueueInv, ProducersInv
  <2>2. local[q].pos - local[p].pos < RingSize /\ local[p].pos - local[q].pos < RingSize
    BY <1>1, <1>2, <2>1
  <2> QED
    BY <1>2, <2>1, <2>2, CellApart
<1>4. ASSUME NEW c \in Consumers, local[c].pc \in Reading
      PROVE  RingCell(local[c].pos) # RingCell(local[p].pos)
  <2>1. local[c].pos \in Nat /\ local[c].pos < dequeue_pos /\ enqueue_pos <= local[c].pos + RingSize
    BY <1>1, <1>4, Roles DEF QueueInv, ConsumersInv
  <2>2. /\ local[c].pos - local[p].pos < RingSize /\ local[p].pos - local[c].pos < RingSize
        /\ local[c].pos # local[p].pos
    BY <1>1, <1>2, <2>1
  <2> QED
    BY <1>2, <2>1, <2>2, CellApart
<1>5. ASSUME NEW k \in dequeue_pos..(dequeue_pos + RingSize - 1), k # local[p].pos
      PROVE  RingCell(k) # RingCell(local[p].pos)
  <2>1. k \in Nat /\ k - local[p].pos < RingSize /\ local[p].pos - k < RingSize
    BY <1>1, <1>2
  <2> QED
    BY <1>2, <1>5, <2>1, CellApart
<1> QED
  BY <1>1, <1>2, <1>3, <1>4, <1>5

\* The store of the item.
LEMMA Step_enqueue_data ==
    ASSUME QueueInv, NEW p \in Producers, enqueue_data(p)
    PROVE  QueueInv'
<1> DEFINE k == local[p].pos
<1>1. /\ QueueType /\ p \in Threads /\ "enq_publish" \in Pcs /\ "enq_publish" \in ProducerPcs
      /\ p \notin Consumers /\ p \notin Observers
  BY Roles DEF QueueInv, Pcs, ProducerPcs, Writing
<1>2. /\ enqueue_pos \in Nat /\ dequeue_pos \in Nat /\ RingSize \in Nat /\ RingSize >= 2
      /\ dequeue_pos <= enqueue_pos /\ enqueue_pos <= dequeue_pos + RingSize
      /\ \A j \in Nat : RingCell(j) \in Cells
      /\ data \in [Cells -> Items \cup {NoItem}]
      /\ \A t \in Threads : local[t].pos \in Nat
  BY Window
<1>3. /\ pushed' = pushed /\ dequeue_pos' = dequeue_pos /\ enqueue_pos' = enqueue_pos /\ seq' = seq
      /\ overflow' = overflow /\ overflow_count' = overflow_count /\ popped' = popped /\ before' = before
      /\ local[p].pc = "enq_data" /\ data' = [data EXCEPT ![RingCell(k)] = Item(p)]
  BY DEF enqueue_data, overVars, At, Pos
<1>4. Moves(p, "enq_publish", k)
  BY <1>1, Moving DEF enqueue_data
<1>5. /\ k \in dequeue_pos..(enqueue_pos - 1) /\ k \in Nat
      /\ seq[RingCell(k)] = k
      /\ \A q \in Producers : q # p /\ local[q].pc \in Writing => RingCell(local[q].pos) # RingCell(k)
      /\ \A c \in Consumers : local[c].pc \in Reading => RingCell(local[c].pos) # RingCell(k)
      /\ \A j \in dequeue_pos..(dequeue_pos + RingSize - 1) : j # k => RingCell(j) # RingCell(k)
  BY <1>3, WrittenCell DEF Writing
<1> HIDE DEF k
<1>6. Item(p) \in Items
  BY <1>1, <1>3, CurrentItem
<1>7. /\ data' \in [Cells -> Items \cup {NoItem}] /\ data'[RingCell(k)] = Item(p)
      /\ \A j \in Nat : RingCell(j) # RingCell(k) => data'[RingCell(j)] = data[RingCell(j)]
  BY <1>2, <1>3, <1>5, <1>6
<1>8. /\ local'[p].pc = "enq_publish" /\ local'[p].pos = k
      /\ \A q \in Producers : q # p => local'[q] = local[q]
      /\ \A c \in Consumers : local'[c] = local[c]
      /\ \A o \in Observers : local'[o] = local[o]
      /\ \A i : Winning(i)' = Winning(i)
  <2>1. \A c \in Consumers : local[c].pc = "deq_data" => data'[RingCell(local[c].pos)] = data[RingCell(local[c].pos)]
    BY <1>2, <1>5, <1>7, Roles DEF Reading
  <2> QED
    BY <2>1, <1>4, ProducerMoves
<1>9. QueueType'
  <2>1. pushed[p] > 0 /\ \A q \in Producers : pushed[q] <= Quota[q]
    BY <1>1, <1>3 DEF QueueType
  <2>2. /\ local' \in [Threads -> [pc : ProducerPcs \cup ConsumerPcs \cup ObserverPcs, pos : Nat]]
        /\ \A q \in Producers : /\ local'[q].pc \in ProducerPcs /\ pushed'[q] <= Quota[q]
                                /\ local'[q].pc # "idle" => pushed'[q] > 0
        /\ \A c \in Consumers : local'[c].pc \in ConsumerPcs
        /\ \A o \in Observers : local'[o].pc \in ObserverPcs
    BY <1>1, <1>3, <1>4, <1>5, <2>1, ThreadTypes
  <2> QED
    BY <1>1, <1>3, <1>7, <2>2 DEF QueueType
<1>10. ProducersInv'
  <2>1. ASSUME NEW q \in Producers
        PROVE  /\ local'[q].pc \in {"enq_seq", "enq_cas"} => local'[q].pos <= enqueue_pos'
               /\ local'[q].pc = "enq_cas" /\ local'[q].pos = enqueue_pos' =>
                    seq'[RingCell(enqueue_pos')] = enqueue_pos'
               /\ local'[q].pc \in Writing => /\ dequeue_pos' <= local'[q].pos /\ local'[q].pos < enqueue_pos'
                                              /\ seq'[RingCell(local'[q].pos)] = local'[q].pos
               /\ local'[q].pc = "enq_publish" => data'[RingCell(local'[q].pos)] = <<q, pushed'[q]>>
    <3>1. CASE q = p
      BY <3>1, <1>2, <1>3, <1>5, <1>7, <1>8 DEF Item
    <3>2. CASE q # p
      <4>1. local'[q] = local[q] /\ local[q].pos \in Nat
        BY <3>2, <1>8, <1>2, Roles
      <4>2. local[q].pc = "enq_publish" => data'[RingCell(local[q].pos)] = data[RingCell(local[q].pos)]
        BY <4>1, <3>2, <1>5, <1>7 DEF Writing
      <4> QED
        BY <4>1, <4>2, <1>3 DEF QueueInv, ProducersInv, Item
    <3> QED
      BY <3>1, <3>2
  <2>2. ASSUME NEW q \in Producers, NEW r \in Producers, q # r, local'[q].pc \in Writing, local'[r].pc \in Writing
        PROVE  local'[q].pos # local'[r].pos
    <3>1. local[p].pc \in Writing /\ local'[p].pos = local[p].pos
      BY <1>3, <1>8 DEF Writing, k
    <3>2. \A u \in Producers : local'[u].pos = local[u].pos /\ (local'[u].pc \in Writing => local[u].pc \in Writing)
      BY <3>1, <1>8
    <3> QED
      BY <2>2, <3>2 DEF QueueInv, ProducersInv
  <2> QED
    BY <2>1, <2>2 DEF ProducersInv, Item, RingCell
<1>11. ConsumersInv'
  <2>1. \A c \in Consumers : local[c].pc = "deq_data" => data'[RingCell(local[c].pos)] = data[RingCell(local[c].pos)]
    BY <1>2, <1>5, <1>7, Roles DEF Reading
  <2> QED
    BY <2>1, <1>3, <1>8 DEF QueueInv, ConsumersInv, RingCell
<1>12. RingInv'
  <2>1. ASSUME NEW j \in dequeue_pos..(enqueue_pos - 1)
        PROVE  seq[RingCell(j)] = j \/ (seq[RingCell(j)] = j + 1 /\ data'[RingCell(j)] \in Items)
    <3>1. j \in Nat /\ j \in dequeue_pos..(dequeue_pos + RingSize - 1)
      BY <1>2
    <3>2. j = k \/ data'[RingCell(j)] = data[RingCell(j)]
      BY <3>1, <1>5, <1>7
    <3> QED
      BY <3>2, <1>5 DEF QueueInv, RingInv
  <2> QED
    BY <2>1, <1>3 DEF QueueInv, RingInv, RingCell
<1>13. \A i \in Items : /\ InRing(i)' = InRing(i) /\ InOverflow(i)' = InOverflow(i)
                        /\ Winning(i)' = Winning(i) /\ (Pushed(i)' <=> Pushed(i))
  <2>1. \A i \in Items : Pushed(i)' <=> Pushed(i)
    BY <1>1, <1>3, <1>4, PushedKept
  <2>2. ASSUME NEW i \in Items PROVE InRing(i)' = InRing(i)
    <3>1. InRing(i)' = {j \in dequeue_pos..(enqueue_pos - 1) : seq[RingCell(j)] = j + 1 /\ data'[RingCell(j)] = i}
      BY <1>3 DEF InRing, RingCell
    <3>2. ASSUME NEW j \in dequeue_pos..(enqueue_pos - 1), seq[RingCell(j)] = j + 1
          PROVE  data'[RingCell(j)] = data[RingCell(j)]
      <4>1. j \in Nat /\ j \in dequeue_pos..(dequeue_pos + RingSize - 1) /\ j # k
        BY <1>2, <1>5, <3>2
      <4> QED
        BY <4>1, <1>5, <1>7
    <3> QED
      BY <3>1, <3>2 DEF InRing
  <2> QED
    BY <1>3, <1>8, <2>1, <2>2 DEF InOverflow
<1>14. ItemsOnce'
  BY <1>3, <1>13, CountsKept DEF QueueInv
<1>15. ObserversInv'
  <2>1. dequeue_pos' \in Nat /\ dequeue_pos <= dequeue_pos'
    BY <1>2, <1>3
  <2>2. ASSUME NEW o \in Observers PROVE ObserverOK(o)'
    BY <1>1, <1>3, <1>8, <1>13, <2>1, ObserverKept DEF QueueInv, ObserversInv
  <2> QED
    BY <2>2 DEF ObserversInv
<1> QED
  BY <1>9, <1>10, <1>11, <1>12, <1>14, <1>15 DEF QueueInv

\* A push is over: its item counts as pushed, and nothing else changes.
LEMMA PushEnds ==
    ASSUME QueueType, NEW p \in Producers, NEW n, Moves(p, "idle", n), local[p].pc # "idle", pushed' = pushed
    PROVE  /\ Item(p) \in Items /\ ~Pushed(Item(p)) /\ Pushed(Item(p))'
           /\ \A i \in Items : i # Item(p) => (Pushed(i)' <=> Pushed(i))
<1>1. Item(p) \in Items /\ Item(p)[1] = p /\ Item(p)[2] = pushed[p] /\ ~Pushed(Item(p))
  BY CurrentItem
<1>2. Pushed(Item(p))'
  BY DEF Moves, Pushed, Item, At
<1>3. ASSUME NEW i \in Items, i # Item(p) PROVE Pushed(i)' <=> Pushed(i)
  <2>1. i[1] \in Producers /\ i[1] \in Threads /\ i[2] \in Nat /\ pushed[i[1]] \in Nat /\ i = <<i[1], i[2]>>
    BY ItemFacts, Roles DEF QueueType
  <2>2. Pushed(i)' <=> i[2] < pushed[i[1]] \/ (i[2] = pushed[i[1]] /\ local'[i[1]].pc = "idle")
    BY DEF Pushed, At
  <2>3. Pushed(i) <=> i[2] < pushed[i[1]] \/ (i[2] = pushed[i[1]] /\ local[i[1]].pc = "idle")
    BY DEF Pushed, At
  <2>4. CASE i[1] = p
    <3>1. i[2] # pushed[i[1]]
      BY <2>1, <2>4, <1>3 DEF Item
    <3> QED
      BY <3>1, <2>2, <2>3
  <2>5. CASE i[1] # p
    <3>1. local'[i[1]] = local[i[1]]
      BY <2>1, <2>5 DEF Moves
    <3> QED
      BY <3>1, <2>2, <2>3
  <2> QED
    BY <2>4, <2>5
<1> QED
  BY <1>1, <1>2, <1>3

\* An item that was nowhere arrives in one place.
LEMMA ItemArrives ==
    ASSUME QueueType, ItemsOnce, NEW x \in Items, ~Pushed(x), Pushed(x)', popped' = popped,
           \A i \in Items : Winning(i)' = Winning(i),
           \A i \in Items : i # x => /\ InRing(i)' = InRing(i) /\ InOverflow(i)' = InOverflow(i)
                                     /\ Pushed(i)' <=> Pushed(i),
           \/ InOverflow(x)' = InOverflow(x) /\ \E k : InRing(x)' = {k}
           \/ InRing(x)' = InRing(x) /\ \E k : InOverflow(x)' = {k}
    PROVE  ItemsOnce'
<1>0. \A k : Cardinality({k}) = 1
  BY FS_Singleton
<1>00. Cardinality({}) = 0
  BY FS_EmptySet
<1>1. ASSUME NEW i \in Items
      PROVE  popped'[i] + Cardinality(InRing(i)') + Cardinality(InOverflow(i)') + Cardinality(Winning(i)')
                = IF Pushed(i)' THEN 1 ELSE 0
  <2>1. popped[i] + Cardinality(InRing(i)) + Cardinality(InOverflow(i)) + Cardinality(Winning(i))
                = IF Pushed(i) THEN 1 ELSE 0
    BY DEF ItemsOnce
  <2>2. CASE i # x
    BY <2>1, <2>2
  <2>3. CASE i = x
    <3>1. popped[i] = 0 /\ InRing(i) = {} /\ InOverflow(i) = {} /\ Winning(i) = {}
      BY <2>3, NotPushed
    <3>2. Cardinality(Winning(i)') = 0 /\ popped'[i] = 0
      BY <3>1, <1>00
    <3>3. \/ Cardinality(InRing(i)') = 0 /\ Cardinality(InOverflow(i)') = 1
          \/ Cardinality(InRing(i)') = 1 /\ Cardinality(InOverflow(i)') = 0
      BY <2>3, <3>1, <1>0, <1>00
    <3> QED
      BY <2>3, <3>2, <3>3
  <2> QED
    BY <2>2, <2>3
<1> QED
  BY <1>1 DEF ItemsOnce

\* The store of the sequence number: the item is in the queue.
LEMMA Step_enqueue_publish ==
    ASSUME QueueInv, NEW p \in Producers, enqueue_publish(p)
    PROVE  QueueInv'
<1> DEFINE k == local[p].pos
<1>1. /\ QueueType /\ ItemsOnce /\ p \in Threads /\ "idle" \in Pcs /\ "idle" \in ProducerPcs
      /\ p \notin Consumers /\ p \notin Observers
  BY Roles DEF QueueInv, Pcs, ProducerPcs
<1>2. /\ enqueue_pos \in Nat /\ dequeue_pos \in Nat /\ RingSize \in Nat /\ RingSize >= 2
      /\ dequeue_pos <= enqueue_pos /\ enqueue_pos <= dequeue_pos + RingSize
      /\ \A j \in Nat : RingCell(j) \in Cells /\ seq[RingCell(j)] \in Nat
      /\ seq \in [Cells -> Nat]
      /\ \A t \in Threads : local[t].pos \in Nat
  BY Window
<1>3. /\ pushed' = pushed /\ dequeue_pos' = dequeue_pos /\ enqueue_pos' = enqueue_pos /\ data' = data
      /\ overflow' = overflow /\ overflow_count' = overflow_count /\ popped' = popped /\ before' = before
      /\ local[p].pc = "enq_publish" /\ seq' = [seq EXCEPT ![RingCell(k)] = k + 1]
  BY DEF enqueue_publish, overVars, At, Pos
<1>4. Moves(p, "idle", 0)
  BY <1>1, Moving DEF enqueue_publish
<1>5. /\ k \in dequeue_pos..(enqueue_pos - 1) /\ k \in Nat
      /\ seq[RingCell(k)] = k
      /\ \A q \in Producers : q # p /\ local[q].pc \in Writing => RingCell(local[q].pos) # RingCell(k)
      /\ \A c \in Consumers : local[c].pc \in Reading => RingCell(local[c].pos) # RingCell(k)
      /\ \A j \in dequeue_pos..(dequeue_pos + RingSize - 1) : j # k => RingCell(j) # RingCell(k)
  BY <1>3, WrittenCell DEF Writing
<1>6. data[RingCell(k)] = Item(p)
  BY <1>3 DEF QueueInv, ProducersInv
<1> HIDE DEF k
<1>7. /\ seq' \in [Cells -> Nat] /\ seq'[RingCell(k)] = k + 1
      /\ \A j \in Nat : RingCell(j) # RingCell(k) => seq'[RingCell(j)] = seq[RingCell(j)]
  BY <1>2, <1>3, <1>5
<1>8. /\ local'[p].pc = "idle"
      /\ \A q \in Producers : q # p => local'[q] = local[q]
      /\ \A c \in Consumers : local'[c] = local[c]
      /\ \A o \in Observers : local'[o] = local[o]
      /\ \A i : Winning(i)' = Winning(i)
  BY <1>3, <1>4, ProducerMoves
<1>9. QueueType'
  <2>1. \A q \in Producers : pushed[q] <= Quota[q]
    BY <1>1 DEF QueueType
  <2>2. /\ local' \in [Threads -> [pc : ProducerPcs \cup ConsumerPcs \cup ObserverPcs, pos : Nat]]
        /\ \A q \in Producers : /\ local'[q].pc \in ProducerPcs /\ pushed'[q] <= Quota[q]
                                /\ local'[q].pc # "idle" => pushed'[q] > 0
        /\ \A c \in Consumers : local'[c].pc \in ConsumerPcs
        /\ \A o \in Observers : local'[o].pc \in ObserverPcs
    BY <1>1, <1>3, <1>4, <2>1, ThreadTypes
  <2> QED
    BY <1>1, <1>3, <1>7, <2>2 DEF QueueType
<1>10. ProducersInv'
  <2>1. ASSUME NEW q \in Producers, q # p
        PROVE  /\ local'[q].pc \in {"enq_seq", "enq_cas"} => local'[q].pos <= enqueue_pos'
               /\ local'[q].pc = "enq_cas" /\ local'[q].pos = enqueue_pos' =>
                    seq'[RingCell(enqueue_pos')] = enqueue_pos'
               /\ local'[q].pc \in Writing => /\ dequeue_pos' <= local'[q].pos /\ local'[q].pos < enqueue_pos'
                                              /\ seq'[RingCell(local'[q].pos)] = local'[q].pos
               /\ local'[q].pc = "enq_publish" => data'[RingCell(local'[q].pos)] = <<q, pushed'[q]>>
    <3>1. local'[q] = local[q] /\ local[q].pos \in Nat
      BY <2>1, <1>8, <1>2, Roles
    <3>2. local[q].pc \in Writing => seq'[RingCell(local[q].pos)] = seq[RingCell(local[q].pos)]
      BY <3>1, <2>1, <1>5, <1>7
    <3>3. ASSUME local[q].pc = "enq_cas", local[q].pos = enqueue_pos
          PROVE  seq'[RingCell(enqueue_pos)] = enqueue_pos
      <4>1. seq[RingCell(enqueue_pos)] = enqueue_pos
        BY <3>3 DEF QueueInv, ProducersInv
      <4>2. RingCell(enqueue_pos) # RingCell(k)
        BY <4>1, <1>5, <1>2
      <4> QED
        BY <4>1, <4>2, <1>2, <1>7
    <3> QED
      BY <3>1, <3>2, <3>3, <1>3 DEF QueueInv, ProducersInv, Item
  <2>2. ASSUME NEW q \in Producers, NEW r \in Producers, q # r, local'[q].pc \in Writing, local'[r].pc \in Writing
        PROVE  local'[q].pos # local'[r].pos
    <3>1. "idle" \notin Writing
      BY DEF Writing
    <3> QED
      BY <2>2, <3>1, <1>8 DEF QueueInv, ProducersInv
  <2>3. local'[p].pc \notin {"enq_seq", "enq_cas"} \cup Writing /\ local'[p].pc # "enq_cas" /\ local'[p].pc # "enq_publish"
        /\ local'[p].pc \notin Writing
    BY <1>8 DEF Writing
  <2>4. ASSUME NEW q \in Producers
        PROVE  /\ local'[q].pc \in {"enq_seq", "enq_cas"} => local'[q].pos <= enqueue_pos'
               /\ local'[q].pc = "enq_cas" /\ local'[q].pos = enqueue_pos' =>
                    seq'[RingCell(enqueue_pos')] = enqueue_pos'
               /\ local'[q].pc \in Writing => /\ dequeue_pos' <= local'[q].pos /\ local'[q].pos < enqueue_pos'
                                              /\ seq'[RingCell(local'[q].pos)] = local'[q].pos
               /\ local'[q].pc = "enq_publish" => data'[RingCell(local'[q].pos)] = <<q, pushed'[q]>>
    <3>1. CASE q = p
      BY <3>1, <2>3
    <3>2. CASE q # p
      BY <3>2, <2>1
    <3> QED
      BY <3>1, <3>2
  <2> QED
    BY <2>4, <2>2 DEF ProducersInv, Item, RingCell
<1>11. ConsumersInv'
  <2>1. \A c \in Consumers : local[c].pc \in Reading => seq'[RingCell(local[c].pos)] = seq[RingCell(local[c].pos)]
    BY <1>2, <1>5, <1>7, Roles
  <2>2. seq[RingCell(dequeue_pos)] = dequeue_pos + 1 => seq'[RingCell(dequeue_pos)] = seq[RingCell(dequeue_pos)]
    <3>1. dequeue_pos \in dequeue_pos..(dequeue_pos + RingSize - 1)
      BY <1>2
    <3>2. CASE k = dequeue_pos
      BY <3>2, <1>2, <1>5
    <3>3. CASE k # dequeue_pos
      BY <3>1, <3>3, <1>2, <1>5, <1>7
    <3> QED
      BY <3>2, <3>3
  <2> QED
    BY <2>1, <2>2, <1>3, <1>8 DEF QueueInv, ConsumersInv, RingCell
<1>12. RingInv'
  <2>1. ASSUME NEW j \in dequeue_pos..(enqueue_pos - 1)
        PROVE  seq'[RingCell(j)] = j \/ (seq'[RingCell(j)] = j + 1 /\ data[RingCell(j)] \in Items)
    <3>1. j \in Nat /\ j \in dequeue_pos..(dequeue_pos + RingSize - 1)
      BY <1>2
    <3>2. CASE j = k
      <4>1. Item(p) \in Items
        BY <1>1, <1>3, CurrentItem
      <4> QED
        BY <3>2, <4>1, <1>6, <1>7
    <3>3. CASE j # k
      <4>1. seq'[RingCell(j)] = seq[RingCell(j)]
        BY <3>1, <3>3, <1>5, <1>7
      <4> QED
        BY <4>1 DEF QueueInv, RingInv
    <3> QED
      BY <3>2, <3>3
  <2>2. ASSUME NEW j \in enqueue_pos..(dequeue_pos + RingSize - 1)
        PROVE  seq'[RingCell(j)] = j \/ seq'[RingCell(j)] = j + 1 - RingSize
    <3>1. j \in Nat /\ j \in dequeue_pos..(dequeue_pos + RingSize - 1) /\ j # k
      BY <1>2, <1>5
    <3>2. seq'[RingCell(j)] = seq[RingCell(j)]
      BY <3>1, <1>5, <1>7
    <3> QED
      BY <3>2 DEF QueueInv, RingInv
  <2> QED
    BY <2>1, <2>2, <1>3 DEF RingInv, RingCell
<1>13. \A i \in Items : i # Item(p) => InRing(i)' = InRing(i)
  <2> SUFFICES ASSUME NEW i \in Items, i # Item(p) PROVE InRing(i)' = InRing(i)
    OBVIOUS
  <2>1. InRing(i)' = {j \in dequeue_pos..(enqueue_pos - 1) : seq'[RingCell(j)] = j + 1 /\ data[RingCell(j)] = i}
    BY <1>3 DEF InRing, RingCell
  <2>2. ASSUME NEW j \in dequeue_pos..(enqueue_pos - 1), data[RingCell(j)] = i
        PROVE  seq'[RingCell(j)] = seq[RingCell(j)]
    <3>1. j \in Nat /\ j \in dequeue_pos..(dequeue_pos + RingSize - 1) /\ j # k
      BY <1>2, <1>6, <2>2
    <3> QED
      BY <3>1, <1>5, <1>7
  <2> QED
    BY <2>1, <2>2 DEF InRing
<1>14. InRing(Item(p))' = {k}
  <2>1. InRing(Item(p))' = {j \in dequeue_pos..(enqueue_pos - 1) : seq'[RingCell(j)] = j + 1 /\ data[RingCell(j)] = Item(p)}
    BY <1>3 DEF InRing, RingCell, Item
  <2>2. InRing(Item(p)) = {}
    BY <1>1, <1>3, CurrentItem, NotPushed
  <2>3. ASSUME NEW j \in dequeue_pos..(enqueue_pos - 1), j # k, seq'[RingCell(j)] = j + 1, data[RingCell(j)] = Item(p)
        PROVE  FALSE
    <3>1. j \in Nat /\ j \in dequeue_pos..(dequeue_pos + RingSize - 1)
      BY <1>2
    <3>2. seq[RingCell(j)] = j + 1
      BY <3>1, <2>3, <1>5, <1>7
    <3> QED
      BY <3>2, <2>2, <2>3 DEF InRing
  <2> QED
    BY <2>1, <2>3, <1>5, <1>6, <1>7
<1>15. /\ Item(p) \in Items /\ ~Pushed(Item(p)) /\ Pushed(Item(p))'
       /\ \A i \in Items : i # Item(p) => (Pushed(i)' <=> Pushed(i))
  BY <1>1, <1>3, <1>4, PushEnds
<1>16. \A i : InOverflow(i)' = InOverflow(i)
  BY <1>3 DEF InOverflow
<1>17. Item(p)' = Item(p)
  BY <1>3 DEF Item
<1>18. ItemsOnce'
  BY <1>1, <1>3, <1>8, <1>13, <1>14, <1>15, <1>16, <1>17, ItemArrives
<1>19. ObserversInv'
  <2>1. dequeue_pos' \in Nat /\ dequeue_pos <= dequeue_pos'
    BY <1>2, <1>3
  <2>2. \A i \in Items : Pushed(i) => /\ Pushed(i)'
                                      /\ InOverflow(i) = {} => InOverflow(i)' = {}
                                      /\ InRing(i) = {} => InRing(i)' = {}
    BY <1>13, <1>15, <1>16
  <2>3. ASSUME NEW o \in Observers PROVE ObserverOK(o)'
    BY <1>1, <1>3, <1>8, <2>1, <2>2, ObserverKept DEF QueueInv, ObserversInv
  <2> QED
    BY <2>3 DEF ObserversInv
<1> QED
  BY <1>9, <1>10, <1>11, <1>12, <1>18, <1>19 DEF QueueInv

\* A push that found the ring full puts its item in the overflow.
LEMMA Step_push_overflow ==
    ASSUME QueueInv, NEW p \in Producers, push_overflow(p)
    PROVE  QueueInv'
<1>1. /\ QueueType /\ ItemsOnce /\ p \in Threads /\ "idle" \in Pcs /\ "idle" \in ProducerPcs
      /\ p \notin Consumers /\ p \notin Observers
  BY Roles DEF QueueInv, Pcs, ProducerPcs
<1>2. /\ pushed' = pushed /\ dequeue_pos' = dequeue_pos /\ enqueue_pos' = enqueue_pos /\ data' = data
      /\ seq' = seq /\ popped' = popped /\ before' = before /\ local[p].pc = "overflow"
      /\ overflow' = Append(overflow, Item(p)) /\ overflow_count' = overflow_count + 1
  BY DEF push_overflow, ringVars, At
<1>3. Moves(p, "idle", 0)
  BY <1>1, Moving DEF push_overflow
<1>4. /\ local'[p].pc = "idle"
      /\ \A q \in Producers : q # p => local'[q] = local[q]
      /\ \A c \in Consumers : local'[c] = local[c]
      /\ \A o \in Observers : local'[o] = local[o]
      /\ \A i : Winning(i)' = Winning(i)
  BY <1>2, <1>3, ProducerMoves
<1>5. /\ Item(p) \in Items /\ ~Pushed(Item(p)) /\ Pushed(Item(p))'
      /\ \A i \in Items : i # Item(p) => (Pushed(i)' <=> Pushed(i))
  BY <1>1, <1>2, <1>3, PushEnds
<1>6. overflow \in Seq(Items) /\ overflow_count = Len(overflow)
  BY <1>1 DEF QueueType
<1>7. /\ overflow' \in Seq(Items) /\ overflow_count' = Len(overflow')
      /\ DOMAIN overflow = 1..Len(overflow) /\ DOMAIN overflow' = 1..(Len(overflow) + 1)
      /\ Len(overflow) \in Nat
      /\ overflow'[Len(overflow) + 1] = Item(p)
      /\ \A k \in 1..Len(overflow) : overflow'[k] = overflow[k]
  BY <1>2, <1>5, <1>6
<1>8. QueueType'
  <2>1. \A q \in Producers : pushed[q] <= Quota[q]
    BY <1>1 DEF QueueType
  <2>2. /\ local' \in [Threads -> [pc : ProducerPcs \cup ConsumerPcs \cup ObserverPcs, pos : Nat]]
        /\ \A q \in Producers : /\ local'[q].pc \in ProducerPcs /\ pushed'[q] <= Quota[q]
                                /\ local'[q].pc # "idle" => pushed'[q] > 0
        /\ \A c \in Consumers : local'[c].pc \in ConsumerPcs
        /\ \A o \in Observers : local'[o].pc \in ObserverPcs
    BY <1>1, <1>2, <1>3, <2>1, ThreadTypes
  <2> QED
    BY <1>1, <1>2, <1>7, <2>2 DEF QueueType
<1>9. ProducersInv'
  <2>1. local'[p].pc \notin {"enq_seq", "enq_cas"} /\ local'[p].pc # "enq_cas" /\ local'[p].pc # "enq_publish"
        /\ local'[p].pc \notin Writing
    BY <1>4 DEF Writing
  <2>2. ASSUME NEW q \in Producers
        PROVE  /\ local'[q].pc \in {"enq_seq", "enq_cas"} => local'[q].pos <= enqueue_pos'
               /\ local'[q].pc = "enq_cas" /\ local'[q].pos = enqueue_pos' =>
                    seq'[RingCell(enqueue_pos')] = enqueue_pos'
               /\ local'[q].pc \in Writing => /\ dequeue_pos' <= local'[q].pos /\ local'[q].pos < enqueue_pos'
                                              /\ seq'[RingCell(local'[q].pos)] = local'[q].pos
               /\ local'[q].pc = "enq_publish" => data'[RingCell(local'[q].pos)] = <<q, pushed'[q]>>
    <3>1. CASE q = p
      BY <3>1, <2>1
    <3>2. CASE q # p
      BY ZenonT(60), <3>2, <1>2, <1>4 DEF QueueInv, ProducersInv, Item
    <3> QED
      BY <3>1, <3>2
  <2>3. ASSUME NEW q \in Producers, NEW r \in Producers, q # r, local'[q].pc \in Writing, local'[r].pc \in Writing
        PROVE  local'[q].pos # local'[r].pos
    BY <2>1, <2>3, <1>4 DEF QueueInv, ProducersInv
  <2> QED
    BY <2>2, <2>3 DEF ProducersInv, Item, RingCell
<1>10. ConsumersInv'
  BY <1>2, <1>4 DEF QueueInv, ConsumersInv, RingCell
<1>11. RingInv'
  BY <1>2 DEF QueueInv, RingInv, RingCell
<1>12. \A i : InRing(i)' = InRing(i)
  BY <1>2 DEF InRing, RingCell
<1>13. \A i \in Items : i # Item(p) => InOverflow(i)' = InOverflow(i)
  BY <1>7 DEF InOverflow
<1>14. InOverflow(Item(p))' = {Len(overflow) + 1}
  <2>1. InOverflow(Item(p)) = {}
    BY <1>1, <1>5, NotPushed
  <2>2. \A k \in 1..Len(overflow) : overflow[k] # Item(p)
    BY <2>1, <1>7 DEF InOverflow
  <2>3. InOverflow(Item(p))' = {k \in DOMAIN overflow' : overflow'[k] = Item(p)}
    BY <1>2 DEF InOverflow, Item
  <2> QED
    BY <2>2, <2>3, <1>7
<1>15. Item(p)' = Item(p)
  BY <1>2 DEF Item
<1>16. ItemsOnce'
  BY <1>1, <1>2, <1>4, <1>5, <1>12, <1>13, <1>14, <1>15, ItemArrives
<1>17. ObserversInv'
  <2>1. dequeue_pos' \in Nat /\ dequeue_pos <= dequeue_pos'
    BY <1>1, <1>2 DEF QueueType
  <2>2. \A i \in Items : Pushed(i) => /\ Pushed(i)'
                                      /\ InOverflow(i) = {} => InOverflow(i)' = {}
                                      /\ InRing(i) = {} => InRing(i)' = {}
    BY <1>5, <1>12, <1>13
  <2>3. ASSUME NEW o \in Observers PROVE ObserverOK(o)'
    BY <1>1, <1>2, <1>4, <2>1, <2>2, ObserverKept DEF QueueInv, ObserversInv
  <2> QED
    BY <2>3 DEF ObserversInv
<1> QED
  BY <1>8, <1>9, <1>10, <1>11, <1>16, <1>17 DEF QueueInv

-----------------------------------------------------------------------------
(* pop *)

\* The other threads when a consumer moves.
LEMMA ConsumerMoves ==
    ASSUME QueueType, NEW c \in Consumers, NEW s, NEW n, Moves(c, s, n), pushed' = pushed
    PROVE  /\ local'[c].pc = s /\ local'[c].pos = n
           /\ \A p \in Producers : local'[p] = local[p]
           /\ \A d \in Consumers : d # c => local'[d] = local[d]
           /\ \A o \in Observers : local'[o] = local[o]
           /\ \A i \in Items : Pushed(i)' <=> Pushed(i)
           /\ data' = data => \A i : \A d \in Consumers : d # c => (d \in Winning(i)' <=> d \in Winning(i))
           /\ data' = data => \A i : /\ c \in Winning(i)' <=> s = "deq_data" /\ data[RingCell(n)] = i
                                     /\ c \in Winning(i) <=> local[c].pc = "deq_data" /\ data[RingCell(local[c].pos)] = i
<1>1. /\ local'[c].pc = s /\ local'[c].pos = n
      /\ \A p \in Producers : local'[p] = local[p]
      /\ \A d \in Consumers : d # c => local'[d] = local[d]
      /\ \A o \in Observers : local'[o] = local[o]
  BY Roles DEF Moves
<1>2. \A i \in Items : Pushed(i)' <=> Pushed(i)
  BY <1>1, ItemFacts DEF Pushed, At
<1>3. ASSUME data' = data, NEW i
      PROVE  /\ \A d \in Consumers : d # c => (d \in Winning(i)' <=> d \in Winning(i))
             /\ c \in Winning(i)' <=> s = "deq_data" /\ data[RingCell(n)] = i
             /\ c \in Winning(i) <=> local[c].pc = "deq_data" /\ data[RingCell(local[c].pos)] = i
  <2>1. Winning(i)' = {d \in Consumers : local'[d].pc = "deq_data" /\ data[RingCell(local'[d].pos)] = i}
    BY <1>3 DEF Winning, At, Pos, RingCell
  <2>2. Winning(i) = {d \in Consumers : local[d].pc = "deq_data" /\ data[RingCell(local[d].pos)] = i}
    BY DEF Winning, At, Pos
  <2> QED
    BY <2>1, <2>2, <1>1
<1> QED
  BY <1>1, <1>2, <1>3

\* The type invariant of the threads, when a consumer moves.
LEMMA ConsumerTypes ==
    ASSUME QueueType, NEW c \in Consumers, NEW s \in ConsumerPcs, NEW n \in Nat, Moves(c, s, n), pushed' = pushed
    PROVE  /\ local' \in [Threads -> [pc : ProducerPcs \cup ConsumerPcs \cup ObserverPcs, pos : Nat]]
           /\ \A p \in Producers : /\ local'[p].pc \in ProducerPcs /\ pushed'[p] <= Quota[p]
                                   /\ local'[p].pc # "idle" => pushed'[p] > 0
           /\ \A d \in Consumers : local'[d].pc \in ConsumerPcs
           /\ \A o \in Observers : local'[o].pc \in ObserverPcs
<1>1. c \in Threads /\ c \notin Producers /\ c \notin Observers /\ s \in Pcs
  BY Roles DEF Pcs
<1>2. \A q \in Producers : pushed'[q] <= Quota[q] /\ pushed'[q] = pushed[q]
  BY DEF QueueType
<1> QED
  BY <1>1, <1>2, ThreadTypes

\* A consumer looks for an item: it takes none.
LEMMA ConsumerSearches ==
    ASSUME QueueInv, NEW c \in Consumers, NEW s \in ConsumerPcs \ Reading, NEW n \in Nat, Moves(c, s, n),
           local[c].pc # "deq_data",
           s \in {"deq_seq", "deq_cas"} => n <= dequeue_pos,
           s = "deq_cas" /\ n = dequeue_pos => seq[RingCell(dequeue_pos)] = dequeue_pos + 1,
           pushed' = pushed, enqueue_pos' = enqueue_pos, dequeue_pos' = dequeue_pos, seq' = seq,
           data' = data, overflow' = overflow, overflow_count' = overflow_count,
           popped' = popped, before' = before
    PROVE  QueueInv'
<1>1. QueueType /\ ItemsOnce /\ s # "deq_data" /\ s \in ConsumerPcs
  BY DEF QueueInv, Reading
<1>2. /\ local'[c].pc = s /\ local'[c].pos = n
      /\ \A p \in Producers : local'[p] = local[p]
      /\ \A d \in Consumers : d # c => local'[d] = local[d]
      /\ \A o \in Observers : local'[o] = local[o]
      /\ \A i \in Items : Pushed(i)' <=> Pushed(i)
  BY <1>1, ConsumerMoves
<1>3. \A i : Winning(i)' = Winning(i)
  <2>1. \A i : /\ \A d \in Consumers : d # c => (d \in Winning(i)' <=> d \in Winning(i))
               /\ c \notin Winning(i)' /\ c \notin Winning(i)
    BY <1>1, ConsumerMoves
  <2>2. \A i : Winning(i)' \subseteq Consumers /\ Winning(i) \subseteq Consumers
    BY DEF Winning
  <2> QED
    BY <2>1, <2>2
<1>4. QueueType'
  BY <1>1, ConsumerTypes DEF QueueType
<1>5. ProducersInv'
  BY <1>2 DEF QueueInv, ProducersInv, Item
<1>6. ConsumersInv'
  <2>1. s \notin Reading
    OBVIOUS
  <2> QED
    BY <1>1, <1>2, <2>1 DEF QueueInv, ConsumersInv, RingCell
<1>7. RingInv'
  BY DEF QueueInv, RingInv, RingCell
<1>8. \A i : InRing(i)' = InRing(i) /\ InOverflow(i)' = InOverflow(i)
  BY DEF InRing, InOverflow, RingCell
<1>9. ItemsOnce'
  BY <1>1, <1>2, <1>3, <1>8, CountsKept
<1>10. ObserversInv'
  <2>1. dequeue_pos' \in Nat /\ dequeue_pos <= dequeue_pos'
    BY <1>1 DEF QueueType
  <2>2. ASSUME NEW o \in Observers PROVE ObserverOK(o)'
    BY <1>1, <1>2, <1>8, <2>1, ObserverKept DEF QueueInv, ObserversInv
  <2> QED
    BY <2>2 DEF ObserversInv
<1> QED
  BY <1>4, <1>5, <1>6, <1>7, <1>9, <1>10 DEF QueueInv

\* pop begins.
LEMMA Step_pop ==
    ASSUME QueueInv, NEW c \in Consumers, pop(c)
    PROVE  QueueInv'
<1>1. /\ QueueType /\ c \in Threads /\ "deq_seq" \in Pcs /\ "deq_seq" \in ConsumerPcs \ Reading
  BY Roles DEF QueueInv, Pcs, ConsumerPcs, Reading
<1>2. /\ pushed' = pushed /\ enqueue_pos' = enqueue_pos /\ dequeue_pos' = dequeue_pos /\ seq' = seq
      /\ data' = data /\ overflow' = overflow /\ overflow_count' = overflow_count
      /\ popped' = popped /\ before' = before /\ local[c].pc = "idle"
  BY DEF pop, ringVars, overVars, At
<1>3. dequeue_pos \in Nat /\ dequeue_pos <= dequeue_pos
  BY <1>1 DEF QueueType
<1>4. Moves(c, "deq_seq", dequeue_pos)
  BY <1>1, <1>3, Moving DEF pop
<1> QED
  BY <1>1, <1>2, <1>3, <1>4, ConsumerSearches

\* The look at the cell's sequence number.
LEMMA Step_dequeue_seq ==
    ASSUME QueueInv, NEW c \in Consumers, dequeue_seq(c)
    PROVE  QueueInv'
<1>1. /\ QueueType /\ c \in Threads /\ {"deq_seq", "deq_cas", "count"} \subseteq Pcs
      /\ {"deq_seq", "deq_cas", "count"} \subseteq ConsumerPcs \ Reading
  BY Roles DEF QueueInv, Pcs, ConsumerPcs, Reading
<1>2. /\ pushed' = pushed /\ enqueue_pos' = enqueue_pos /\ dequeue_pos' = dequeue_pos /\ seq' = seq
      /\ data' = data /\ overflow' = overflow /\ overflow_count' = overflow_count
      /\ popped' = popped /\ before' = before /\ local[c].pc = "deq_seq"
  BY DEF dequeue_seq, ringVars, overVars, At
<1>3. /\ dequeue_pos \in Nat /\ local[c].pos \in Nat /\ local[c].pos <= dequeue_pos /\ dequeue_pos <= dequeue_pos
      /\ seq[RingCell(local[c].pos)] \in Nat
  <2>1. dequeue_pos \in Nat /\ local[c].pos \in Nat
    BY <1>1, Window
  <2>2. seq[RingCell(local[c].pos)] \in Nat
    BY <2>1, Window
  <2> QED
    BY <2>1, <2>2, <1>2 DEF QueueInv, ConsumersInv
<1>4. CASE Diff(c, Pos(c) + 1) = 0 /\ Goto(c, "deq_cas")
  <2>1. Moves(c, "deq_cas", local[c].pos)
    BY <1>1, <1>4, Moving
  <2>2. seq[RingCell(local[c].pos)] = local[c].pos + 1
    BY <1>3, <1>4 DEF Diff, Pos
  <2> QED
    BY <1>1, <1>2, <1>3, <2>1, <2>2, ConsumerSearches
<1>5. CASE Goto(c, "count")
  <2>1. Moves(c, "count", local[c].pos)
    BY <1>1, <1>5, Moving
  <2> QED
    BY <1>1, <1>2, <1>3, <2>1, ConsumerSearches
<1>6. CASE Load(c, "deq_seq", dequeue_pos)
  <2>1. Moves(c, "deq_seq", dequeue_pos)
    BY <1>1, <1>3, <1>6, Moving
  <2> QED
    BY <1>1, <1>2, <1>3, <2>1, ConsumerSearches
<1> QED
  BY <1>4, <1>5, <1>6 DEF dequeue_seq

\* The look at the overflow's count.
LEMMA Step_pop_count ==
    ASSUME QueueInv, NEW c \in Consumers, pop_count(c)
    PROVE  QueueInv'
<1>1. /\ QueueType /\ c \in Threads /\ {"idle", "drain"} \subseteq Pcs
      /\ {"idle", "drain"} \subseteq ConsumerPcs \ Reading
  BY Roles DEF QueueInv, Pcs, ConsumerPcs, Reading
<1>2. /\ pushed' = pushed /\ enqueue_pos' = enqueue_pos /\ dequeue_pos' = dequeue_pos /\ seq' = seq
      /\ data' = data /\ overflow' = overflow /\ overflow_count' = overflow_count
      /\ popped' = popped /\ before' = before /\ local[c].pc = "count"
  BY DEF pop_count, ringVars, overVars, At
<1>3. local[c].pos \in Nat /\ 0 \in Nat
  BY <1>1, Window
<1>4. CASE Goto(c, "idle")
  <2>1. Moves(c, "idle", 0)
    BY <1>1, <1>4, Moving
  <2> QED
    BY <1>1, <1>2, <1>3, <2>1, ConsumerSearches
<1>5. CASE Goto(c, "drain")
  <2>1. Moves(c, "drain", local[c].pos)
    BY <1>1, <1>5, Moving
  <2> QED
    BY <1>1, <1>2, <1>3, <2>1, ConsumerSearches
<1> QED
  BY <1>4, <1>5 DEF pop_count

\* A consumer whose exchange wins has the oldest item for itself.
LEMMA Step_dequeue_cas ==
    ASSUME QueueInv, NEW c \in Consumers, dequeue_cas(c)
    PROVE  QueueInv'
<1>1. /\ QueueType /\ ItemsOnce /\ c \in Threads /\ {"deq_seq", "deq_data"} \subseteq Pcs
      /\ {"deq_seq", "deq_data"} \subseteq ConsumerPcs /\ "deq_seq" \in ConsumerPcs \ Reading
      /\ "deq_data" \in Reading
  BY Roles DEF QueueInv, Pcs, ConsumerPcs, Reading
<1>2. /\ pushed' = pushed /\ enqueue_pos' = enqueue_pos /\ seq' = seq
      /\ data' = data /\ overflow' = overflow /\ overflow_count' = overflow_count
      /\ popped' = popped /\ before' = before /\ local[c].pc = "deq_cas"
  BY DEF dequeue_cas, overVars, At
<1>3. /\ enqueue_pos \in Nat /\ dequeue_pos \in Nat /\ RingSize \in Nat /\ RingSize >= 2
      /\ dequeue_pos <= enqueue_pos /\ enqueue_pos <= dequeue_pos + RingSize
      /\ \A t \in Threads : local[t].pos \in Nat
      /\ \A k \in Nat : seq[RingCell(k)] \in Nat
  BY Window
<1>4. CASE dequeue_pos' = dequeue_pos /\ Load(c, "deq_seq", dequeue_pos)
  <2>1. Moves(c, "deq_seq", dequeue_pos) /\ dequeue_pos <= dequeue_pos
    BY <1>1, <1>3, <1>4, Moving
  <2> QED
    BY <1>1, <1>2, <1>3, <1>4, <2>1, ConsumerSearches
<1>5. CASE dequeue_pos = local[c].pos /\ dequeue_pos' = dequeue_pos + 1 /\ Goto(c, "deq_data")
  <2> DEFINE x == data[RingCell(dequeue_pos)]
  <2>1. seq[RingCell(dequeue_pos)] = dequeue_pos + 1
    BY <1>2, <1>5 DEF QueueInv, ConsumersInv
  <2>2. dequeue_pos < enqueue_pos
    <3>1. ASSUME dequeue_pos = enqueue_pos PROVE FALSE
      <4>1. dequeue_pos \in enqueue_pos..(dequeue_pos + RingSize - 1)
        BY <3>1, <1>3
      <4>2. seq[RingCell(dequeue_pos)] = dequeue_pos \/ seq[RingCell(dequeue_pos)] = dequeue_pos + 1 - RingSize
        BY <4>1 DEF QueueInv, RingInv
      <4> QED
        BY <4>2, <2>1, <1>3
    <3> QED
      BY <3>1, <1>3
  <2>3. x \in Items
    <3>1. dequeue_pos \in dequeue_pos..(enqueue_pos - 1)
      BY <2>2, <1>3
    <3>2. seq[RingCell(dequeue_pos)] # dequeue_pos
      BY <2>1, <1>3
    <3> QED
      BY <3>1, <3>2 DEF QueueInv, RingInv
  <2>4. Moves(c, "deq_data", dequeue_pos)
    BY <1>1, <1>5, Moving
  <2>5. /\ local'[c].pc = "deq_data" /\ local'[c].pos = dequeue_pos
        /\ \A p \in Producers : local'[p] = local[p]
        /\ \A d \in Consumers : d # c => local'[d] = local[d]
        /\ \A o \in Observers : local'[o] = local[o]
        /\ \A i \in Items : Pushed(i)' <=> Pushed(i)
    BY <1>1, <1>2, <2>4, ConsumerMoves
  <2>6. QueueType'
    <3>1. dequeue_pos' \in Nat /\ dequeue_pos' <= enqueue_pos' /\ enqueue_pos' <= dequeue_pos' + RingSize
      BY <1>2, <1>3, <1>5, <2>2
    <3>2. /\ local' \in [Threads -> [pc : ProducerPcs \cup ConsumerPcs \cup ObserverPcs, pos : Nat]]
          /\ \A p \in Producers : /\ local'[p].pc \in ProducerPcs /\ pushed'[p] <= Quota[p]
                                  /\ local'[p].pc # "idle" => pushed'[p] > 0
          /\ \A d \in Consumers : local'[d].pc \in ConsumerPcs
          /\ \A o \in Observers : local'[o].pc \in ObserverPcs
      BY <1>1, <1>2, <1>3, <2>4, ConsumerTypes
    <3> QED
      BY <1>1, <1>2, <3>1, <3>2 DEF QueueType
  <2>7. ProducersInv'
    <3>1. ASSUME NEW p \in Producers, local[p].pc \in Writing PROVE dequeue_pos' <= local[p].pos
      <4>1. local[p].pos \in Nat /\ dequeue_pos <= local[p].pos /\ seq[RingCell(local[p].pos)] = local[p].pos
        BY <3>1, <1>3, Roles DEF QueueInv, ProducersInv
      <4>2. local[p].pos # dequeue_pos
        BY <4>1, <2>1, <1>3
      <4> QED
        BY <4>1, <4>2, <1>3, <1>5
    <3> QED
      BY <3>1, <1>2, <2>5 DEF QueueInv, ProducersInv, Item, RingCell
  <2>8. ConsumersInv'
    <3>1. ASSUME NEW d \in Consumers
          PROVE  /\ local'[d].pc \in {"deq_seq", "deq_cas"} => local'[d].pos < dequeue_pos'
                 /\ local'[d].pc \in Reading => /\ local'[d].pos < dequeue_pos'
                                                /\ enqueue_pos <= local'[d].pos + RingSize
                                                /\ seq[RingCell(local'[d].pos)] = local'[d].pos + 1
                 /\ local'[d].pc = "deq_data" => data[RingCell(local'[d].pos)] \in Items
      <4>1. CASE d = c
        BY <4>1, <1>3, <1>5, <2>1, <2>3, <2>5
      <4>2. CASE d # c
        <5>1. local'[d] = local[d] /\ local[d].pos \in Nat
          BY <4>2, <1>3, <2>5, Roles
        <5>2. local[d].pos <= dequeue_pos => local[d].pos < dequeue_pos'
          BY <5>1, <1>3, <1>5
        <5>3. local[d].pos < dequeue_pos => local[d].pos < dequeue_pos'
          BY <5>1, <1>3, <1>5
        <5> QED
          BY <5>1, <5>2, <5>3 DEF QueueInv, ConsumersInv
      <4> QED
        BY <4>1, <4>2
    <3>2. ASSUME NEW d \in Consumers, local'[d].pc \in {"deq_seq", "deq_cas"}
          PROVE  local'[d].pos <= dequeue_pos' /\ local'[d].pos # dequeue_pos'
      <4>1. local'[d].pos < dequeue_pos' /\ local'[d].pos \in Nat /\ dequeue_pos' \in Nat
        BY <3>1, <3>2, <1>3, <1>5, <2>5, Roles
      <4> QED
        BY <4>1
    <3>3. ASSUME NEW d \in Consumers, NEW e \in Consumers, d # e, local'[d].pc \in Reading, local'[e].pc \in Reading
          PROVE  local'[d].pos # local'[e].pos
      <4>1. ASSUME NEW u \in Consumers, u # c, local[u].pc \in Reading PROVE local[u].pos # dequeue_pos
        BY <4>1, <1>3, Roles DEF QueueInv, ConsumersInv
      <4> QED
        BY <3>3, <4>1, <2>5 DEF QueueInv, ConsumersInv
    <3> QED
      BY <3>1, <3>2, <3>3, <1>2 DEF ConsumersInv, RingCell
  <2>9. RingInv'
    <3>1. ASSUME NEW k \in dequeue_pos'..(enqueue_pos - 1)
          PROVE  seq[RingCell(k)] = k \/ (seq[RingCell(k)] = k + 1 /\ data[RingCell(k)] \in Items)
      <4>1. k \in dequeue_pos..(enqueue_pos - 1)
        BY <1>3, <1>5
      <4> QED
        BY <4>1 DEF QueueInv, RingInv
    <3>2. ASSUME NEW k \in enqueue_pos..(dequeue_pos' + RingSize - 1)
          PROVE  seq[RingCell(k)] = k \/ seq[RingCell(k)] = k + 1 - RingSize
      <4>1. k = dequeue_pos + RingSize \/ k \in enqueue_pos..(dequeue_pos + RingSize - 1)
        BY <1>3, <1>5
      <4>2. CASE k = dequeue_pos + RingSize
        <5>1. RingCell(k) = RingCell(dequeue_pos)
          BY <4>2, <1>3, CellLap
        <5> QED
          BY <5>1, <4>2, <2>1, <1>3
      <4>3. CASE k \in enqueue_pos..(dequeue_pos + RingSize - 1)
        BY <4>3 DEF QueueInv, RingInv
      <4> QED
        BY <4>1, <4>2, <4>3
    <3> QED
      BY <3>1, <3>2, <1>2 DEF RingInv, RingCell
  <2>10. ASSUME NEW i
         PROVE  InRing(i)' = InRing(i) \ {dequeue_pos} /\ (dequeue_pos \in InRing(i) <=> i = x)
    <3>1. InRing(i)' = {k \in dequeue_pos'..(enqueue_pos - 1) : seq[RingCell(k)] = k + 1 /\ data[RingCell(k)] = i}
      BY <1>2 DEF InRing, RingCell
    <3>2. \A k : k \in dequeue_pos'..(enqueue_pos - 1) <=> k \in dequeue_pos..(enqueue_pos - 1) /\ k # dequeue_pos
      BY <1>3, <1>5
    <3>3. dequeue_pos \in dequeue_pos..(enqueue_pos - 1)
      BY <1>3, <2>2
    <3> QED
      BY <3>1, <3>2, <3>3, <2>1 DEF InRing
  <2>11. \A i : /\ i = x => Winning(i)' = Winning(i) \cup {c} /\ c \notin Winning(i)
                /\ i # x => Winning(i)' = Winning(i)
    <3>1. \A i : /\ \A d \in Consumers : d # c => (d \in Winning(i)' <=> d \in Winning(i))
                 /\ c \in Winning(i)' <=> i = x
                 /\ c \notin Winning(i)
      BY <1>1, <1>2, <2>4, ConsumerMoves
    <3>2. \A i : Winning(i)' \subseteq Consumers /\ Winning(i) \subseteq Consumers
      BY DEF Winning
    <3> QED
      BY <3>1, <3>2
  <2>12. \A i : InOverflow(i)' = InOverflow(i)
    BY <1>2 DEF InOverflow
  <2> HIDE DEF x
  <2>13. ItemsOnce'
    <3>1. ASSUME NEW i \in Items
          PROVE  popped'[i] + Cardinality(InRing(i)') + Cardinality(InOverflow(i)') + Cardinality(Winning(i)')
                    = IF Pushed(i)' THEN 1 ELSE 0
      <4>1. popped[i] + Cardinality(InRing(i)) + Cardinality(InOverflow(i)) + Cardinality(Winning(i))
                    = IF Pushed(i) THEN 1 ELSE 0
        BY <1>1 DEF ItemsOnce
      <4>2. popped[i] \in Nat
        BY <1>1 DEF QueueType
      <4>3. CASE i # x
        <5>1. InRing(i)' = InRing(i)
          BY <4>3, <2>10
        <5> QED
          BY <5>1, <4>1, <4>3, <1>2, <2>5, <2>11, <2>12
      <4>4. CASE i = x
        <5>1. Cardinality(InRing(i)') = Cardinality(InRing(i)) - 1
          <6>1. InRing(i)' = InRing(i) \ {dequeue_pos} /\ dequeue_pos \in InRing(i) /\ IsFiniteSet(InRing(i))
            BY <4>4, <1>1, <2>10, SetsFinite
          <6> QED
            BY <6>1, FS_RemoveElement
        <5>2. Cardinality(Winning(i)') = Cardinality(Winning(i)) + 1
          <6>1. Winning(i)' = Winning(i) \cup {c} /\ c \notin Winning(i)
            BY <4>4, <2>11
          <6> QED
            BY <6>1, <1>1, SetsFinite, FS_AddElement
        <5>3. /\ Cardinality(InRing(i)) \in Nat /\ Cardinality(InOverflow(i)) \in Nat
              /\ Cardinality(Winning(i)) \in Nat
          BY <1>1, SetsFinite
        <5>4. popped'[i] + Cardinality(InRing(i)') + Cardinality(InOverflow(i)') + Cardinality(Winning(i)')
                = popped[i] + Cardinality(InRing(i)) + Cardinality(InOverflow(i)) + Cardinality(Winning(i))
          BY <5>1, <5>2, <5>3, <4>2, <1>2, <2>12
        <5> QED
          BY <5>4, <4>1, <2>5
      <4> QED
        BY <4>3, <4>4
    <3> QED
      BY <3>1 DEF ItemsOnce
  <2>14. ObserversInv'
    <3>1. dequeue_pos' \in Nat /\ dequeue_pos <= dequeue_pos'
      BY <1>3, <1>5
    <3>2. \A i \in Items : Pushed(i) => /\ Pushed(i)'
                                        /\ InOverflow(i) = {} => InOverflow(i)' = {}
                                        /\ InRing(i) = {} => InRing(i)' = {}
      BY <2>5, <2>10, <2>12
    <3>3. ASSUME NEW o \in Observers PROVE ObserverOK(o)'
      BY <1>1, <1>2, <2>5, <3>1, <3>2, ObserverKept DEF QueueInv, ObserversInv
    <3> QED
      BY <3>3 DEF ObserversInv
  <2> QED
    BY <2>6, <2>7, <2>8, <2>9, <2>13, <2>14 DEF QueueInv
<1> QED
  BY <1>4, <1>5 DEF dequeue_cas, Pos

\* The item is taken out of its cell: it is returned.
LEMMA Step_dequeue_data ==
    ASSUME QueueInv, NEW c \in Consumers, dequeue_data(c)
    PROVE  QueueInv'
<1> DEFINE k == local[c].pos
           x == data[RingCell(k)]
<1>1. /\ QueueType /\ ItemsOnce /\ c \in Threads /\ "deq_free" \in Pcs
      /\ "deq_free" \in ConsumerPcs /\ {"deq_data", "deq_free"} \subseteq Reading
  BY Roles DEF QueueInv, Pcs, ConsumerPcs, Reading
<1>2. /\ pushed' = pushed /\ enqueue_pos' = enqueue_pos /\ dequeue_pos' = dequeue_pos /\ seq' = seq
      /\ data' = data /\ overflow' = overflow /\ overflow_count' = overflow_count
      /\ popped' = [popped EXCEPT ![x] = popped[x] + 1] /\ before' = before /\ local[c].pc = "deq_data"
  BY DEF dequeue_data, ringVars, overVars, At, Pos, TakeItem
<1>3. Moves(c, "deq_free", k) /\ k \in Nat
  BY <1>1, Moving, Window DEF dequeue_data
<1>4. x \in Items /\ popped \in [Items -> Nat]
  BY <1>1, <1>2 DEF QueueInv, ConsumersInv, QueueType
<1>5. /\ local'[c].pc = "deq_free" /\ local'[c].pos = k
      /\ \A p \in Producers : local'[p] = local[p]
      /\ \A d \in Consumers : d # c => local'[d] = local[d]
      /\ \A o \in Observers : local'[o] = local[o]
      /\ \A i \in Items : Pushed(i)' <=> Pushed(i)
  BY <1>1, <1>2, <1>3, ConsumerMoves
<1>6. popped' \in [Items -> Nat] /\ popped'[x] = popped[x] + 1 /\ \A i \in Items : i # x => popped'[i] = popped[i]
  BY <1>2, <1>4
<1>7. \A i : Winning(i)' = Winning(i) \ {c} /\ (c \in Winning(i) <=> i = x)
  <2>1. \A i : /\ \A d \in Consumers : d # c => (d \in Winning(i)' <=> d \in Winning(i))
               /\ c \notin Winning(i)'
               /\ c \in Winning(i) <=> i = x
    BY <1>1, <1>2, <1>3, ConsumerMoves
  <2>2. \A i : Winning(i)' \subseteq Consumers /\ Winning(i) \subseteq Consumers
    BY DEF Winning
  <2> QED
    BY <2>1, <2>2
<1>8. QueueType'
  <2>1. /\ local' \in [Threads -> [pc : ProducerPcs \cup ConsumerPcs \cup ObserverPcs, pos : Nat]]
        /\ \A p \in Producers : /\ local'[p].pc \in ProducerPcs /\ pushed'[p] <= Quota[p]
                                /\ local'[p].pc # "idle" => pushed'[p] > 0
        /\ \A d \in Consumers : local'[d].pc \in ConsumerPcs
        /\ \A o \in Observers : local'[o].pc \in ObserverPcs
    BY <1>1, <1>2, <1>3, ConsumerTypes
  <2> QED
    BY <1>1, <1>2, <1>6, <2>1 DEF QueueType
<1>9. ProducersInv'
  BY <1>2, <1>5 DEF QueueInv, ProducersInv, Item, RingCell
<1>10. ConsumersInv'
  <2>1. \A d \in Consumers : /\ local'[d].pos = local[d].pos
                             /\ local'[d].pc \in Reading => local[d].pc \in Reading
                             /\ local'[d].pc \in {"deq_seq", "deq_cas"} => local'[d].pc = local[d].pc
                             /\ local'[d].pc = "deq_cas" => local[d].pc = "deq_cas"
                             /\ local'[d].pc = "deq_data" => local[d].pc = "deq_data"
    BY <1>1, <1>2, <1>5
  <2> QED
    BY <2>1, <1>2 DEF QueueInv, ConsumersInv, RingCell
<1>11. RingInv'
  BY <1>2 DEF QueueInv, RingInv, RingCell
<1>12. \A i : InRing(i)' = InRing(i) /\ InOverflow(i)' = InOverflow(i)
  BY <1>2 DEF InRing, InOverflow, RingCell
<1> HIDE DEF x, k
<1>13. ItemsOnce'
  <2>1. ASSUME NEW i \in Items
        PROVE  popped'[i] + Cardinality(InRing(i)') + Cardinality(InOverflow(i)') + Cardinality(Winning(i)')
                  = IF Pushed(i)' THEN 1 ELSE 0
    <3>1. popped[i] + Cardinality(InRing(i)) + Cardinality(InOverflow(i)) + Cardinality(Winning(i))
                  = IF Pushed(i) THEN 1 ELSE 0
      BY <1>1 DEF ItemsOnce
    <3>2. popped[i] \in Nat
      BY <1>1 DEF QueueType
    <3>3. CASE i # x
      <4>1. Winning(i)' = Winning(i)
        BY <3>3, <1>7
      <4> QED
        BY <4>1, <3>1, <3>3, <1>5, <1>6, <1>12
    <3>4. CASE i = x
      <4>1. Cardinality(Winning(i)') = Cardinality(Winning(i)) - 1
        BY <3>4, <1>1, <1>7, SetsFinite, FS_RemoveElement
      <4>2. /\ Cardinality(InRing(i)) \in Nat /\ Cardinality(InOverflow(i)) \in Nat
            /\ Cardinality(Winning(i)) \in Nat
        BY <1>1, SetsFinite
      <4>3. popped'[i] + Cardinality(InRing(i)') + Cardinality(InOverflow(i)') + Cardinality(Winning(i)')
              = popped[i] + Cardinality(InRing(i)) + Cardinality(InOverflow(i)) + Cardinality(Winning(i))
        BY <4>1, <4>2, <3>2, <3>4, <1>6, <1>12
      <4> QED
        BY <4>3, <3>1, <1>5
    <3> QED
      BY <3>3, <3>4
  <2> QED
    BY <2>1 DEF ItemsOnce
<1>14. ObserversInv'
  <2>1. dequeue_pos' \in Nat /\ dequeue_pos <= dequeue_pos'
    BY <1>1, <1>2 DEF QueueType
  <2>2. ASSUME NEW o \in Observers PROVE ObserverOK(o)'
    BY <1>1, <1>2, <1>5, <1>12, <2>1, ObserverKept DEF QueueInv, ObserversInv
  <2> QED
    BY <2>2 DEF ObserversInv
<1> QED
  BY <1>8, <1>9, <1>10, <1>11, <1>13, <1>14 DEF QueueInv

\* The cell is freed for the next lap.
LEMMA Step_dequeue_free ==
    ASSUME QueueInv, NEW c \in Consumers, dequeue_free(c)
    PROVE  QueueInv'
<1> DEFINE k == local[c].pos
<1>1. /\ QueueType /\ ItemsOnce /\ c \in Threads /\ "idle" \in Pcs
      /\ "idle" \in ConsumerPcs /\ "deq_free" \in Reading /\ "idle" \notin Reading
  BY Roles DEF QueueInv, Pcs, ConsumerPcs, Reading
<1>2. /\ pushed' = pushed /\ enqueue_pos' = enqueue_pos /\ dequeue_pos' = dequeue_pos
      /\ data' = data /\ overflow' = overflow /\ overflow_count' = overflow_count
      /\ popped' = popped /\ before' = before /\ local[c].pc = "deq_free"
      /\ seq' = [seq EXCEPT ![RingCell(k)] = k + RingSize]
  BY DEF dequeue_free, overVars, At, Pos
<1>3. /\ enqueue_pos \in Nat /\ dequeue_pos \in Nat /\ RingSize \in Nat /\ RingSize >= 2
      /\ dequeue_pos <= enqueue_pos /\ enqueue_pos <= dequeue_pos + RingSize
      /\ \A j \in Nat : RingCell(j) \in Cells /\ seq[RingCell(j)] \in Nat
      /\ seq \in [Cells -> Nat]
      /\ \A t \in Threads : local[t].pos \in Nat
  BY Window
<1>4. Moves(c, "idle", 0)
  BY <1>1, Moving DEF dequeue_free
<1>5. k \in Nat /\ k < dequeue_pos /\ enqueue_pos <= k + RingSize /\ seq[RingCell(k)] = k + 1
  BY <1>1, <1>2, <1>3 DEF QueueInv, ConsumersInv
<1>5a. \A d \in Consumers : d # c /\ local[d].pc \in Reading => local[d].pos # k
  BY <1>1, <1>2 DEF QueueInv, ConsumersInv
<1> HIDE DEF k
<1>6. /\ seq' \in [Cells -> Nat] /\ seq'[RingCell(k)] = k + RingSize
      /\ \A j \in Nat : RingCell(j) # RingCell(k) => seq'[RingCell(j)] = seq[RingCell(j)]
  <2>1. k + RingSize \in Nat
    BY <1>3, <1>5
  <2> QED
    BY <2>1, <1>2, <1>3, <1>5
<1>7. /\ local'[c].pc = "idle"
      /\ \A p \in Producers : local'[p] = local[p]
      /\ \A d \in Consumers : d # c => local'[d] = local[d]
      /\ \A o \in Observers : local'[o] = local[o]
      /\ \A i \in Items : Pushed(i)' <=> Pushed(i)
  BY <1>1, <1>2, <1>4, ConsumerMoves
<1>8. \A i : Winning(i)' = Winning(i)
  <2>1. \A i : /\ \A d \in Consumers : d # c => (d \in Winning(i)' <=> d \in Winning(i))
               /\ c \notin Winning(i)' /\ c \notin Winning(i)
    BY <1>1, <1>2, <1>4, ConsumerMoves
  <2>2. \A i : Winning(i)' \subseteq Consumers /\ Winning(i) \subseteq Consumers
    BY DEF Winning
  <2> QED
    BY <2>1, <2>2
<1>9. \A j \in dequeue_pos..(enqueue_pos - 1) : j \in Nat /\ seq'[RingCell(j)] = seq[RingCell(j)]
  <2> SUFFICES ASSUME NEW j \in dequeue_pos..(enqueue_pos - 1) PROVE j \in Nat /\ seq'[RingCell(j)] = seq[RingCell(j)]
    OBVIOUS
  <2>1. j \in Nat /\ j # k /\ j - k < RingSize /\ k - j < RingSize
    BY <1>3, <1>5
  <2> QED
    BY <2>1, <1>5, <1>6, CellApart
<1>10. QueueType'
  <2>1. /\ local' \in [Threads -> [pc : ProducerPcs \cup ConsumerPcs \cup ObserverPcs, pos : Nat]]
        /\ \A p \in Producers : /\ local'[p].pc \in ProducerPcs /\ pushed'[p] <= Quota[p]
                                /\ local'[p].pc # "idle" => pushed'[p] > 0
        /\ \A d \in Consumers : local'[d].pc \in ConsumerPcs
        /\ \A o \in Observers : local'[o].pc \in ObserverPcs
    BY <1>1, <1>2, <1>4, ConsumerTypes
  <2> QED
    BY <1>1, <1>2, <1>6, <2>1 DEF QueueType
<1>11. ProducersInv'
  <2>1. ASSUME NEW p \in Producers, local[p].pc \in Writing
        PROVE  seq'[RingCell(local[p].pos)] = seq[RingCell(local[p].pos)]
    <3>1. local[p].pos \in Nat /\ dequeue_pos <= local[p].pos /\ local[p].pos < enqueue_pos
      BY <2>1, <1>3, Roles DEF QueueInv, ProducersInv
    <3>2. local[p].pos \in dequeue_pos..(enqueue_pos - 1)
      BY <3>1, <1>3
    <3> QED
      BY <3>2, <1>9
  <2>2. seq[RingCell(enqueue_pos)] = enqueue_pos => seq'[RingCell(enqueue_pos)] = enqueue_pos
    <3>1. ASSUME seq[RingCell(enqueue_pos)] = enqueue_pos, RingCell(enqueue_pos) = RingCell(k) PROVE FALSE
      <4>1. enqueue_pos = k + 1
        BY <3>1, <1>5
      <4>2. enqueue_pos # k /\ enqueue_pos - k < RingSize /\ k - enqueue_pos < RingSize
        BY <4>1, <1>3, <1>5
      <4> QED
        BY <4>2, <3>1, <1>3, <1>5, CellApart
    <3> QED
      BY <3>1, <1>3, <1>6
  <2>3. ASSUME NEW q \in Producers
        PROVE  /\ local'[q].pc \in {"enq_seq", "enq_cas"} => local'[q].pos <= enqueue_pos'
               /\ local'[q].pc = "enq_cas" /\ local'[q].pos = enqueue_pos' =>
                    seq'[RingCell(enqueue_pos')] = enqueue_pos'
               /\ local'[q].pc \in Writing => /\ dequeue_pos' <= local'[q].pos /\ local'[q].pos < enqueue_pos'
                                              /\ seq'[RingCell(local'[q].pos)] = local'[q].pos
               /\ local'[q].pc = "enq_publish" => data'[RingCell(local'[q].pos)] = <<q, pushed'[q]>>
    BY <2>1, <2>2, <1>2, <1>7 DEF QueueInv, ProducersInv, Item
  <2>4. \A q, r \in Producers : q # r /\ local'[q].pc \in Writing /\ local'[r].pc \in Writing =>
            local'[q].pos # local'[r].pos
    BY <1>7 DEF QueueInv, ProducersInv
  <2> QED
    BY <2>3, <2>4 DEF ProducersInv, Item, RingCell
<1>12. ConsumersInv'
  <2>1. ASSUME NEW d \in Consumers, d # c, local[d].pc \in Reading
        PROVE  seq'[RingCell(local[d].pos)] = seq[RingCell(local[d].pos)]
    <3>1. /\ local[d].pos \in Nat /\ local[d].pos < dequeue_pos /\ enqueue_pos <= local[d].pos + RingSize
          /\ local[d].pos # k
      BY <2>1, <1>3, <1>5a, Roles DEF QueueInv, ConsumersInv
    <3>2. local[d].pos - k < RingSize /\ k - local[d].pos < RingSize
      BY <3>1, <1>3, <1>5
    <3> QED
      BY <3>1, <3>2, <1>5, <1>6, CellApart
  <2>2. seq[RingCell(dequeue_pos)] = dequeue_pos + 1 => seq'[RingCell(dequeue_pos)] = dequeue_pos + 1
    <3>1. ASSUME seq[RingCell(dequeue_pos)] = dequeue_pos + 1 PROVE RingCell(dequeue_pos) # RingCell(k)
      BY <3>1, <1>3, <1>5
    <3> QED
      BY <3>1, <1>3, <1>6
  <2>3. ASSUME NEW d \in Consumers
        PROVE  /\ local'[d].pc \in {"deq_seq", "deq_cas"} => local'[d].pos <= dequeue_pos'
               /\ local'[d].pc = "deq_cas" /\ local'[d].pos = dequeue_pos' =>
                    seq'[RingCell(dequeue_pos')] = dequeue_pos' + 1
               /\ local'[d].pc \in Reading => /\ local'[d].pos < dequeue_pos'
                                              /\ enqueue_pos' <= local'[d].pos + RingSize
                                              /\ seq'[RingCell(local'[d].pos)] = local'[d].pos + 1
               /\ local'[d].pc = "deq_data" => data'[RingCell(local'[d].pos)] \in Items
    <3>1. CASE d = c
      BY <3>1, <1>1, <1>7
    <3>2. CASE d # c
      BY <3>2, <2>1, <2>2, <1>2, <1>7 DEF QueueInv, ConsumersInv
    <3> QED
      BY <3>1, <3>2
  <2>4. ASSUME NEW d \in Consumers, NEW e \in Consumers, d # e, local'[d].pc \in Reading, local'[e].pc \in Reading
        PROVE  local'[d].pos # local'[e].pos
    BY <2>4, <1>1, <1>7 DEF QueueInv, ConsumersInv
  <2> QED
    BY <2>3, <2>4 DEF ConsumersInv, RingCell
<1>13. RingInv'
  <2>1. ASSUME NEW j \in enqueue_pos..(dequeue_pos + RingSize - 1)
        PROVE  seq'[RingCell(j)] = j \/ seq'[RingCell(j)] = j + 1 - RingSize
    <3>1. j \in Nat /\ k + RingSize \in Nat /\ RingCell(k + RingSize) = RingCell(k)
      BY <1>3, <1>5, CellLap
    <3>2. CASE j = k + RingSize
      BY <3>1, <3>2, <1>6
    <3>3. CASE j # k + RingSize
      <4>1. j - (k + RingSize) < RingSize /\ (k + RingSize) - j < RingSize
        BY <1>3, <1>5
      <4>2. RingCell(j) # RingCell(k)
        BY <3>1, <3>3, <4>1, CellApart
      <4>3. seq'[RingCell(j)] = seq[RingCell(j)]
        BY <3>1, <4>2, <1>6
      <4> QED
        BY <4>3 DEF QueueInv, RingInv
    <3> QED
      BY <3>2, <3>3
  <2> QED
    BY <2>1, <1>2, <1>9 DEF QueueInv, RingInv, RingCell
<1>14. \A i : InRing(i)' = InRing(i) /\ InOverflow(i)' = InOverflow(i)
  <2>1. ASSUME NEW i PROVE InRing(i)' = InRing(i)
    <3>1. InRing(i)' = {j \in dequeue_pos..(enqueue_pos - 1) : seq'[RingCell(j)] = j + 1 /\ data[RingCell(j)] = i}
      BY <1>2 DEF InRing, RingCell
    <3> QED
      BY <3>1, <1>9 DEF InRing
  <2> QED
    BY <2>1, <1>2 DEF InOverflow
<1>15. ItemsOnce'
  BY <1>1, <1>2, <1>7, <1>8, <1>14, CountsKept
<1>16. ObserversInv'
  <2>1. dequeue_pos' \in Nat /\ dequeue_pos <= dequeue_pos'
    BY <1>2, <1>3
  <2>2. ASSUME NEW o \in Observers PROVE ObserverOK(o)'
    BY <1>1, <1>2, <1>7, <1>14, <2>1, ObserverKept DEF QueueInv, ObserversInv
  <2> QED
    BY <2>2 DEF ObserversInv
<1> QED
  BY <1>10, <1>11, <1>12, <1>13, <1>15, <1>16 DEF QueueInv

\* An item is in the overflow at most once.
LEMMA AtMostOnce ==
    ASSUME QueueType, ItemsOnce, NEW i \in Items
    PROVE  /\ InOverflow(i) = {} \/ \E k : InOverflow(i) = {k}
           /\ InOverflow(i) # {} => /\ Pushed(i) /\ popped[i] = 0 /\ Cardinality(InRing(i)) = 0
                                    /\ Cardinality(Winning(i)) = 0
<1>1. popped[i] + Cardinality(InRing(i)) + Cardinality(InOverflow(i)) + Cardinality(Winning(i))
            = IF Pushed(i) THEN 1 ELSE 0
  BY DEF ItemsOnce
<1>2. popped[i] \in Nat
  BY DEF QueueType
<1>3. /\ IsFiniteSet(InOverflow(i)) /\ Cardinality(InRing(i)) \in Nat /\ Cardinality(InOverflow(i)) \in Nat
      /\ Cardinality(Winning(i)) \in Nat
  BY SetsFinite
<1>4. Cardinality(InOverflow(i)) = 0 => InOverflow(i) = {}
  BY <1>3, FS_EmptySet
<1>5. Cardinality(InOverflow(i)) = 1 => \E k : InOverflow(i) = {k}
  BY <1>3, FS_Singleton
<1>6. CASE InOverflow(i) = {}
  BY <1>6
<1>7. CASE InOverflow(i) # {}
  <2>1. Cardinality(InOverflow(i)) > 0
    BY <1>3, <1>4, <1>7
  <2>2. /\ Pushed(i) /\ Cardinality(InOverflow(i)) = 1 /\ popped[i] = 0 /\ Cardinality(InRing(i)) = 0
        /\ Cardinality(Winning(i)) = 0
    BY <2>1, <1>1, <1>2, <1>3
  <2> QED
    BY <2>2, <1>5
<1> QED
  BY <1>6, <1>7

\* The oldest overflowed item leaves with its count, or there is none.
LEMMA Step_pop_overflow ==
    ASSUME QueueInv, NEW c \in Consumers, pop_overflow(c)
    PROVE  QueueInv'
<1>1. /\ QueueType /\ ItemsOnce /\ c \in Threads /\ "idle" \in Pcs
      /\ "idle" \in ConsumerPcs /\ "idle" \in ConsumerPcs \ Reading /\ "idle" \notin Reading
  BY Roles DEF QueueInv, Pcs, ConsumerPcs, Reading
<1>2. /\ pushed' = pushed /\ enqueue_pos' = enqueue_pos /\ dequeue_pos' = dequeue_pos /\ seq' = seq
      /\ data' = data /\ before' = before /\ local[c].pc = "drain"
  BY DEF pop_overflow, ringVars, At
<1>3. Moves(c, "idle", 0)
  BY <1>1, Moving DEF pop_overflow
<1>4. CASE overflow' = overflow /\ overflow_count' = overflow_count /\ popped' = popped
  BY <1>1, <1>2, <1>3, <1>4, ConsumerSearches
<1>5. CASE /\ overflow # <<>> /\ popped' = [popped EXCEPT ![Head(overflow)] = popped[Head(overflow)] + 1]
           /\ overflow' = Tail(overflow) /\ overflow_count' = overflow_count - 1
  <2> DEFINE x == Head(overflow)
  <2>1. /\ overflow \in Seq(Items) /\ overflow_count = Len(overflow) /\ popped \in [Items -> Nat]
    BY <1>1 DEF QueueType
  <2>2. /\ Len(overflow) \in Nat /\ Len(overflow) > 0 /\ x = overflow[1] /\ x \in Items
        /\ overflow' \in Seq(Items) /\ Len(overflow') = Len(overflow) - 1
        /\ \A j \in 1..(Len(overflow) - 1) : overflow'[j] = overflow[j + 1]
    BY <1>5, <2>1
  <2>3. /\ DOMAIN overflow = 1..Len(overflow) /\ DOMAIN overflow' = 1..(Len(overflow) - 1)
        /\ overflow_count' = Len(overflow')
    BY <1>5, <2>1, <2>2
  <2> HIDE DEF x
  <2>4. /\ popped' \in [Items -> Nat] /\ popped'[x] = popped[x] + 1
        /\ \A i \in Items : i # x => popped'[i] = popped[i]
    BY <1>5, <2>1, <2>2 DEF x
  <2>5. /\ local'[c].pc = "idle"
        /\ \A p \in Producers : local'[p] = local[p]
        /\ \A d \in Consumers : d # c => local'[d] = local[d]
        /\ \A o \in Observers : local'[o] = local[o]
        /\ \A i \in Items : Pushed(i)' <=> Pushed(i)
    BY <1>1, <1>2, <1>3, ConsumerMoves
  <2>6. \A i : Winning(i)' = Winning(i)
    <3>1. \A i : /\ \A d \in Consumers : d # c => (d \in Winning(i)' <=> d \in Winning(i))
                 /\ c \notin Winning(i)' /\ c \notin Winning(i)
      BY <1>1, <1>2, <1>3, ConsumerMoves
    <3>2. \A i : Winning(i)' \subseteq Consumers /\ Winning(i) \subseteq Consumers
      BY DEF Winning
    <3> QED
      BY <3>1, <3>2
  <2>7. QueueType'
    <3>1. /\ local' \in [Threads -> [pc : ProducerPcs \cup ConsumerPcs \cup ObserverPcs, pos : Nat]]
          /\ \A p \in Producers : /\ local'[p].pc \in ProducerPcs /\ pushed'[p] <= Quota[p]
                                  /\ local'[p].pc # "idle" => pushed'[p] > 0
          /\ \A d \in Consumers : local'[d].pc \in ConsumerPcs
          /\ \A o \in Observers : local'[o].pc \in ObserverPcs
      BY <1>1, <1>2, <1>3, ConsumerTypes
    <3> QED
      BY <1>1, <1>2, <2>2, <2>3, <2>4, <3>1 DEF QueueType
  <2>8. ProducersInv'
    BY <1>2, <2>5 DEF QueueInv, ProducersInv, Item
  <2>9. ConsumersInv'
    <3>1. ASSUME NEW d \in Consumers
          PROVE  /\ local'[d].pc \in {"deq_seq", "deq_cas"} => local'[d].pos <= dequeue_pos'
                 /\ local'[d].pc = "deq_cas" /\ local'[d].pos = dequeue_pos' =>
                      seq'[RingCell(dequeue_pos')] = dequeue_pos' + 1
                 /\ local'[d].pc \in Reading => /\ local'[d].pos < dequeue_pos'
                                                /\ enqueue_pos' <= local'[d].pos + RingSize
                                                /\ seq'[RingCell(local'[d].pos)] = local'[d].pos + 1
                 /\ local'[d].pc = "deq_data" => data'[RingCell(local'[d].pos)] \in Items
      <4>1. CASE d = c
        BY <4>1, <1>1, <2>5
      <4>2. CASE d # c
        BY <4>2, <1>2, <2>5 DEF QueueInv, ConsumersInv
      <4> QED
        BY <4>1, <4>2
    <3>2. ASSUME NEW d \in Consumers, NEW e \in Consumers, d # e, local'[d].pc \in Reading, local'[e].pc \in Reading
          PROVE  local'[d].pos # local'[e].pos
      BY <3>2, <1>1, <2>5 DEF QueueInv, ConsumersInv
    <3> QED
      BY <3>1, <3>2 DEF ConsumersInv, RingCell
  <2>10. RingInv'
    BY <1>2 DEF QueueInv, RingInv, RingCell
  <2>11. \A i : InRing(i)' = InRing(i)
    BY <1>2 DEF InRing, RingCell
  <2>12. ASSUME NEW i, NEW j
         PROVE  j \in InOverflow(i)' <=> j \in 1..(Len(overflow) - 1) /\ j + 1 \in InOverflow(i)
    <3>1. j \in InOverflow(i)' <=> j \in 1..(Len(overflow) - 1) /\ overflow'[j] = i
      BY <2>3 DEF InOverflow
    <3>2. j \in 1..(Len(overflow) - 1) => (j + 1 \in InOverflow(i) <=> overflow'[j] = i)
      BY <2>2, <2>3 DEF InOverflow
    <3> QED
      BY <3>1, <3>2
  <2>13. \A i : 1 \in InOverflow(i) <=> i = x
    BY <2>2, <2>3 DEF InOverflow
  <2>14. ASSUME NEW i \in Items, i # x PROVE Cardinality(InOverflow(i)') = Cardinality(InOverflow(i))
    <3>1. CASE InOverflow(i) = {}
      <4>1. InOverflow(i)' = {}
        BY <3>1, <2>12
      <4> QED
        BY <3>1, <4>1
    <3>2. CASE \E k : InOverflow(i) = {k}
      <4>1. PICK k : InOverflow(i) = {k}
        BY <3>2
      <4>2. k \in 1..Len(overflow) /\ k # 1
        BY <4>1, <2>3, <2>13, <2>14 DEF InOverflow
      <4>3. k - 1 \in 1..(Len(overflow) - 1) /\ (k - 1) + 1 = k
        BY <4>2, <2>2
      <4>4. \A j : j \in InOverflow(i)' <=> j = k - 1
        <5>1. ASSUME NEW j PROVE j \in InOverflow(i)' <=> j \in 1..(Len(overflow) - 1) /\ j + 1 = k
          BY <4>1, <2>12
        <5>2. ASSUME NEW j PROVE j \in 1..(Len(overflow) - 1) /\ j + 1 = k <=> j = k - 1
          BY <4>2, <4>3, <2>2
        <5> QED
          BY <5>1, <5>2
      <4>5. InOverflow(i)' = {k - 1}
        BY <4>4
      <4>6. Cardinality({k}) = 1 /\ Cardinality({k - 1}) = 1
        BY FS_Singleton
      <4> QED
        BY <4>1, <4>5, <4>6
    <3> QED
      BY <1>1, <3>1, <3>2, AtMostOnce
  <2>15. ASSUME NEW i \in Items, i = x
         PROVE  /\ Pushed(i) /\ popped[i] = 0 /\ Cardinality(InRing(i)) = 0 /\ Cardinality(Winning(i)) = 0
                /\ Cardinality(InOverflow(i)') = 0 /\ InOverflow(i)' = {}
    <3>1. 1 \in InOverflow(i)
      BY <2>13, <2>15
    <3>2. InOverflow(i) = {1}
      BY <3>1, <1>1, AtMostOnce
    <3>3. ASSUME NEW j \in InOverflow(i)' PROVE FALSE
      <4>1. j \in 1..(Len(overflow) - 1) /\ j + 1 = 1
        BY <3>2, <3>3, <2>12
      <4> QED
        BY <4>1, <2>2
    <3>4. InOverflow(i)' = {}
      BY <3>3
    <3> QED
      BY <3>1, <3>4, <1>1, AtMostOnce, FS_EmptySet
  <2>16. ItemsOnce'
    <3>1. ASSUME NEW i \in Items
          PROVE  popped'[i] + Cardinality(InRing(i)') + Cardinality(InOverflow(i)') + Cardinality(Winning(i)')
                    = IF Pushed(i)' THEN 1 ELSE 0
      <4>1. popped[i] + Cardinality(InRing(i)) + Cardinality(InOverflow(i)) + Cardinality(Winning(i))
                    = IF Pushed(i) THEN 1 ELSE 0
        BY <1>1 DEF ItemsOnce
      <4>2. CASE i # x
        BY <4>1, <4>2, <2>4, <2>5, <2>6, <2>11, <2>14
      <4>3. CASE i = x
        <5>1. popped'[i] = 1
          BY <4>3, <2>4, <2>15
        <5>2. Cardinality(InRing(i)') = 0 /\ Cardinality(Winning(i)') = 0 /\ Cardinality(InOverflow(i)') = 0
          BY <4>3, <2>6, <2>11, <2>15
        <5>3. Pushed(i)'
          BY <4>3, <2>5, <2>15
        <5> QED
          BY <5>1, <5>2, <5>3
      <4> QED
        BY <4>2, <4>3
    <3> QED
      BY <3>1 DEF ItemsOnce
  <2>17. ObserversInv'
    <3>1. dequeue_pos' \in Nat /\ dequeue_pos <= dequeue_pos'
      BY <1>1, <1>2 DEF QueueType
    <3>2. \A i \in Items : Pushed(i) => /\ Pushed(i)'
                                        /\ InOverflow(i) = {} => InOverflow(i)' = {}
                                        /\ InRing(i) = {} => InRing(i)' = {}
      BY <2>5, <2>11, <2>12
    <3>3. ASSUME NEW o \in Observers PROVE ObserverOK(o)'
      BY <1>1, <1>2, <2>5, <3>1, <3>2, ObserverKept DEF QueueInv, ObserversInv
    <3> QED
      BY <3>3 DEF ObserversInv
  <2> QED
    BY <2>7, <2>8, <2>9, <2>10, <2>16, <2>17 DEF QueueInv
<1> QED
  BY <1>4, <1>5 DEF pop_overflow, overVars, TakeItem

-----------------------------------------------------------------------------
(* empty *)

\* An observer moves: only what it relies on itself has to be shown.
LEMMA ObserverSteps ==
    ASSUME QueueInv, NEW o \in Observers, NEW s \in ObserverPcs, NEW n \in Nat, Moves(o, s, n),
           pushed' = pushed, enqueue_pos' = enqueue_pos, dequeue_pos' = dequeue_pos, seq' = seq,
           data' = data, overflow' = overflow, overflow_count' = overflow_count, popped' = popped,
           before' \in [Observers -> SUBSET Items],
           \A w \in Observers : w # o => before'[w] = before[w],
           s \in {"deq_pos", "enq_pos", "empty"} => \A i \in before'[o] : Pushed(i) /\ InOverflow(i) = {},
           s = "enq_pos" => n <= dequeue_pos,
           s = "empty" => \A i \in before'[o] : InRing(i) = {}
    PROVE  QueueInv'
<1>1. /\ QueueType /\ ItemsOnce /\ o \in Threads /\ o \notin Producers /\ o \notin Consumers /\ s \in Pcs
  BY Roles DEF QueueInv, Pcs
<1>2. /\ local'[o].pc = s /\ local'[o].pos = n
      /\ \A p \in Producers : local'[p] = local[p]
      /\ \A c \in Consumers : local'[c] = local[c]
      /\ \A w \in Observers : w # o => local'[w] = local[w]
  BY <1>1, Roles DEF Moves
<1>3. QueueType'
  <2>1. \A q \in Producers : pushed'[q] <= Quota[q] /\ pushed'[q] = pushed[q]
    BY <1>1 DEF QueueType
  <2>2. /\ local' \in [Threads -> [pc : ProducerPcs \cup ConsumerPcs \cup ObserverPcs, pos : Nat]]
        /\ \A p \in Producers : /\ local'[p].pc \in ProducerPcs /\ pushed'[p] <= Quota[p]
                                /\ local'[p].pc # "idle" => pushed'[p] > 0
        /\ \A d \in Consumers : local'[d].pc \in ConsumerPcs
        /\ \A w \in Observers : local'[w].pc \in ObserverPcs
    BY <1>1, <2>1, ThreadTypes
  <2> QED
    BY <1>1, <2>2 DEF QueueType
<1>4. ProducersInv'
  BY <1>2 DEF QueueInv, ProducersInv, Item, RingCell
<1>5. ConsumersInv'
  BY <1>2 DEF QueueInv, ConsumersInv, RingCell
<1>6. RingInv'
  BY DEF QueueInv, RingInv, RingCell
<1>7. \A i : InRing(i)' = InRing(i) /\ InOverflow(i)' = InOverflow(i) /\ Winning(i)' = Winning(i)
  BY <1>2 DEF InRing, InOverflow, Winning, At, Pos, RingCell
<1>8. \A i \in Items : Pushed(i)' <=> Pushed(i)
  BY <1>2, ItemFacts DEF Pushed, At
<1>9. ItemsOnce'
  BY <1>1, <1>7, <1>8, CountsKept
<1>10. ObserversInv'
  <2>1. dequeue_pos' \in Nat /\ dequeue_pos <= dequeue_pos'
    BY <1>1 DEF QueueType
  <2>2. ASSUME NEW w \in Observers, w # o PROVE ObserverOK(w)'
    BY <1>1, <1>2, <1>7, <1>8, <2>1, <2>2, ObserverKept DEF QueueInv, ObserversInv
  <2>3. ObserverOK(o)'
    <3>1. before'[o] \subseteq Items
      OBVIOUS
    <3>2. s \in {"deq_pos", "enq_pos", "empty"} => \A i \in before'[o] : Pushed(i)' /\ InOverflow(i)' = {}
      BY <3>1, <1>7, <1>8
    <3>3. s = "empty" => \A i \in before'[o] : InRing(i)' = {}
      BY <1>7
    <3> QED
      BY <3>2, <3>3, <1>2 DEF ObserverOK
  <2> QED
    BY <2>2, <2>3 DEF ObserversInv
<1> QED
  BY <1>3, <1>4, <1>5, <1>6, <1>9, <1>10 DEF QueueInv

\* empty(): the count says there is something, or the overflow is empty at that moment.
LEMMA Step_empty ==
    ASSUME QueueInv, NEW o \in Observers, empty(o)
    PROVE  QueueInv'
<1>1. /\ QueueType /\ ItemsOnce /\ o \in Threads /\ {"idle", "deq_pos"} \subseteq Pcs
      /\ {"idle", "deq_pos"} \subseteq ObserverPcs
  BY Roles DEF QueueInv, Pcs, ObserverPcs
<1>2. /\ pushed' = pushed /\ enqueue_pos' = enqueue_pos /\ dequeue_pos' = dequeue_pos /\ seq' = seq
      /\ data' = data /\ overflow' = overflow /\ overflow_count' = overflow_count /\ popped' = popped
      /\ before' = [before EXCEPT ![o] = Held]
  BY DEF empty, ringVars, overVars
<1>3. before \in [Observers -> SUBSET Items] /\ Held \in SUBSET Items
  BY <1>1 DEF QueueType, Held
<1>4. /\ before' \in [Observers -> SUBSET Items] /\ before'[o] = Held
      /\ \A w \in Observers : w # o => before'[w] = before[w]
  BY <1>2, <1>3
<1>5. local[o].pos \in Nat /\ 0 \in Nat
  BY <1>1, Window
<1>6. CASE overflow_count # 0
  <2>1. Moves(o, "idle", 0)
    BY <1>1, <1>6, Moving DEF empty
  <2> QED
    BY <1>1, <1>2, <1>4, <1>5, <2>1, ObserverSteps
<1>7. CASE overflow_count = 0
  <2>1. Moves(o, "deq_pos", local[o].pos)
    BY <1>1, <1>7, Moving DEF empty
  <2>2. \A i : InOverflow(i) = {}
    <3>1. DOMAIN overflow = 1..0
      <4>1. overflow \in Seq(Items) /\ Len(overflow) = 0
        BY <1>1, <1>7 DEF QueueType
      <4> QED
        BY <4>1
    <3> QED
      BY <3>1 DEF InOverflow
  <2>3. \A i \in Held : Pushed(i)
    BY <1>1, NotPushed DEF Held
  <2> QED
    BY <1>1, <1>2, <1>4, <1>5, <2>1, <2>2, <2>3, ObserverSteps
<1> QED
  BY <1>6, <1>7

\* The load of dequeue_pos.
LEMMA Step_empty_deq ==
    ASSUME QueueInv, NEW o \in Observers, empty_deq(o)
    PROVE  QueueInv'
<1>1. QueueType /\ o \in Threads /\ "enq_pos" \in Pcs /\ "enq_pos" \in ObserverPcs /\ ObserverOK(o)
  BY Roles DEF QueueInv, Pcs, ObserverPcs, ObserversInv
<1>2. /\ pushed' = pushed /\ enqueue_pos' = enqueue_pos /\ dequeue_pos' = dequeue_pos /\ seq' = seq
      /\ data' = data /\ overflow' = overflow /\ overflow_count' = overflow_count /\ popped' = popped
      /\ before' = before /\ local[o].pc = "deq_pos"
  BY DEF empty_deq, ringVars, overVars, At
<1>3. dequeue_pos \in Nat /\ dequeue_pos <= dequeue_pos /\ before' \in [Observers -> SUBSET Items]
  BY <1>1, <1>2 DEF QueueType
<1>4. Moves(o, "enq_pos", dequeue_pos)
  BY <1>1, <1>3, Moving DEF empty_deq
<1>5. \A i \in before'[o] : Pushed(i) /\ InOverflow(i) = {}
  BY <1>1, <1>2 DEF ObserverOK
<1> QED
  BY <1>1, <1>2, <1>3, <1>4, <1>5, ObserverSteps

\* The load of enqueue_pos: if the two agree, the ring was empty at that moment.
LEMMA Step_empty_enq ==
    ASSUME QueueInv, NEW o \in Observers, empty_enq(o)
    PROVE  QueueInv'
<1>1. /\ QueueType /\ o \in Threads /\ {"empty", "idle"} \subseteq Pcs /\ {"empty", "idle"} \subseteq ObserverPcs
      /\ ObserverOK(o)
  BY Roles DEF QueueInv, Pcs, ObserverPcs, ObserversInv
<1>2. /\ pushed' = pushed /\ enqueue_pos' = enqueue_pos /\ dequeue_pos' = dequeue_pos /\ seq' = seq
      /\ data' = data /\ overflow' = overflow /\ overflow_count' = overflow_count /\ popped' = popped
      /\ before' = before /\ local[o].pc = "enq_pos"
  BY DEF empty_enq, ringVars, overVars, At
<1>3. /\ dequeue_pos \in Nat /\ enqueue_pos \in Nat /\ dequeue_pos <= enqueue_pos /\ local[o].pos \in Nat
      /\ 0 \in Nat /\ before' \in [Observers -> SUBSET Items]
  BY <1>1, <1>2, Window DEF QueueType
<1>4. \A i \in before'[o] : Pushed(i) /\ InOverflow(i) = {}
  BY <1>1, <1>2 DEF ObserverOK
<1>5. CASE local[o].pos = enqueue_pos
  <2>1. Moves(o, "empty", local[o].pos)
    BY <1>1, <1>5, Moving DEF empty_enq, Pos
  <2>2. local[o].pos <= dequeue_pos
    BY <1>1, <1>2 DEF ObserverOK
  <2>3. dequeue_pos..(enqueue_pos - 1) = {}
    BY <2>2, <1>3, <1>5
  <2>4. \A i : InRing(i) = {}
    BY <2>3 DEF InRing
  <2> QED
    BY <1>1, <1>2, <1>3, <1>4, <2>1, <2>4, ObserverSteps
<1>6. CASE local[o].pos # enqueue_pos
  <2>1. Moves(o, "idle", 0)
    BY <1>1, <1>6, Moving DEF empty_enq, Pos
  <2> QED
    BY <1>1, <1>2, <1>3, <2>1, ObserverSteps
<1> QED
  BY <1>5, <1>6

\* empty() returns.
LEMMA Step_empty_return ==
    ASSUME QueueInv, NEW o \in Observers, empty_return(o)
    PROVE  QueueInv'
<1>1. QueueType /\ o \in Threads /\ "idle" \in Pcs /\ "idle" \in ObserverPcs
  BY Roles DEF QueueInv, Pcs, ObserverPcs
<1>2. /\ pushed' = pushed /\ enqueue_pos' = enqueue_pos /\ dequeue_pos' = dequeue_pos /\ seq' = seq
      /\ data' = data /\ overflow' = overflow /\ overflow_count' = overflow_count /\ popped' = popped
      /\ before' = [before EXCEPT ![o] = {}]
  BY DEF empty_return, ringVars, overVars
<1>3. before \in [Observers -> SUBSET Items]
  BY <1>1 DEF QueueType
<1>4. /\ before' \in [Observers -> SUBSET Items]
      /\ \A w \in Observers : w # o => before'[w] = before[w]
  BY <1>2, <1>3
<1>5. Moves(o, "idle", 0)
  BY <1>1, Moving DEF empty_return
<1> QED
  BY <1>1, <1>2, <1>4, <1>5, ObserverSteps

-----------------------------------------------------------------------------
(* The theorems *)

\* The queue starts in the invariant: every cell is free for its first position.
LEMMA QueueInit == Init => QueueInv
<1> SUFFICES ASSUME Init PROVE QueueInv
  OBVIOUS
<1> USE DEF Init
<1>1. RingSize \in Nat /\ RingSize >= 2
  BY MpmcAssumption
<1>2. QueueType
  <2>1. pushed \in [Producers -> Nat] /\ popped \in [Items -> Nat] /\ before \in [Observers -> SUBSET Items]
    OBVIOUS
  <2>2. seq \in [Cells -> Nat] /\ data \in [Cells -> Items \cup {NoItem}]
    BY <1>1 DEF Cells
  <2>3. overflow \in Seq(Items) /\ overflow_count = Len(overflow)
    OBVIOUS
  <2>4. local \in [Threads -> [pc : ProducerPcs \cup ConsumerPcs \cup ObserverPcs, pos : Nat]]
        /\ \A t \in Threads : local[t].pc = "idle"
    BY DEF ProducerPcs
  <2>5. \A p \in Producers : pushed[p] <= Quota[p]
    BY MpmcAssumption
  <2> QED
    BY <1>1, <2>1, <2>2, <2>3, <2>4, <2>5, Roles DEF QueueType, ProducerPcs, ConsumerPcs, ObserverPcs
<1>3. \A t \in Threads : local[t].pc = "idle"
  OBVIOUS
<1>4. ProducersInv /\ ConsumersInv /\ ObserversInv
  BY <1>3, Roles DEF ProducersInv, ConsumersInv, ObserversInv, ObserverOK, Writing, Reading
<1>5. RingInv
  <2>1. ASSUME NEW k \in 0..(RingSize - 1) PROVE seq[RingCell(k)] = k
    BY <1>1, <2>1, CellFirst
  <2>2. \A k \in 0..(0 + RingSize - 1) : seq[RingCell(k)] = k
    <3>1. 0 + RingSize - 1 = RingSize - 1
      BY <1>1
    <3> QED
      BY <3>1, <2>1
  <2>3. enqueue_pos = 0 /\ dequeue_pos = 0 /\ dequeue_pos..(enqueue_pos - 1) = {}
    OBVIOUS
  <2> QED
    BY <2>2, <2>3 DEF RingInv
<1>6. ItemsOnce
  <2>1. ASSUME NEW i \in Items
        PROVE  popped[i] + Cardinality(InRing(i)) + Cardinality(InOverflow(i)) + Cardinality(Winning(i))
                  = IF Pushed(i) THEN 1 ELSE 0
    <3>1. InRing(i) = {} /\ InOverflow(i) = {} /\ Winning(i) = {}
      BY <1>3, Roles DEF InRing, InOverflow, Winning, At
    <3>2. ~Pushed(i)
      BY ItemFacts DEF Pushed
    <3>3. Cardinality({}) = 0
      BY FS_EmptySet
    <3> QED
      BY <3>1, <3>2, <3>3
  <2> QED
    BY <2>1 DEF ItemsOnce
<1> QED
  BY <1>2, <1>4, <1>5, <1>6 DEF QueueInv

\* Every step keeps it.
LEMMA QueueNext == QueueInv /\ [Next]_vars => QueueInv'
<1> SUFFICES ASSUME QueueInv, [Next]_vars PROVE QueueInv'
  OBVIOUS
<1>1. ASSUME NEW p \in Producers, Pushing(p) PROVE QueueInv'
  BY <1>1, Step_push, Step_enqueue_seq, Step_enqueue_cas, Step_enqueue_data, Step_enqueue_publish,
     Step_push_overflow DEF Pushing
<1>2. ASSUME NEW c \in Consumers, Popping(c) PROVE QueueInv'
  BY <1>2, Step_pop, Step_dequeue_seq, Step_dequeue_cas, Step_dequeue_data, Step_dequeue_free,
     Step_pop_count, Step_pop_overflow DEF Popping
<1>3. ASSUME NEW o \in Observers, Observing(o) PROVE QueueInv'
  BY <1>3, Step_empty, Step_empty_deq, Step_empty_enq, Step_empty_return DEF Observing
<1>4. CASE UNCHANGED vars
  <2>1. /\ enqueue_pos' = enqueue_pos /\ dequeue_pos' = dequeue_pos /\ seq' = seq /\ data' = data
        /\ overflow' = overflow /\ overflow_count' = overflow_count /\ pushed' = pushed /\ local' = local
        /\ popped' = popped /\ before' = before
    BY <1>4 DEF vars
  <2>2. QueueType' /\ RingInv'
    BY <2>1 DEF QueueInv, QueueType, RingInv, RingCell
  <2>3. ProducersInv' /\ ConsumersInv'
    BY <2>1 DEF QueueInv, ProducersInv, ConsumersInv, Item, RingCell
  <2>4. \A i : InRing(i)' = InRing(i) /\ InOverflow(i)' = InOverflow(i) /\ Winning(i)' = Winning(i)
               /\ (Pushed(i)' <=> Pushed(i))
    BY <2>1 DEF InRing, InOverflow, Winning, Pushed, At, Pos, RingCell
  <2>5. ItemsOnce'
    BY <2>1, <2>4, CountsKept DEF QueueInv
  <2>6. ObserversInv'
    BY <2>1, <2>4 DEF QueueInv, ObserversInv, ObserverOK
  <2> QED
    BY <2>2, <2>3, <2>5, <2>6 DEF QueueInv
<1> QED
  BY <1>1, <1>2, <1>3, <1>4 DEF Next

\* The invariant implies what the run checks.
LEMMA QueueImplies == QueueInv => ItemsKept
<1> SUFFICES ASSUME QueueInv PROVE ItemsKept
  OBVIOUS
<1>1. QueueTypeOK
  <2>1. enqueue_pos - dequeue_pos <= RingSize
    BY Window
  <2>2. \A p \in Producers : pushed[p] \in 0..Quota[p]
    BY MpmcAssumption DEF QueueInv, QueueType
  <2> QED
    BY <2>1, <2>2 DEF QueueInv, QueueType, QueueTypeOK, Cells
<1>2. EmptyIsHonest
  <2> SUFFICES ASSUME NEW o \in Observers, local[o].pc = "empty", NEW i \in before[o], i \in Held PROVE FALSE
    BY DEF EmptyIsHonest, At
  <2>1. InOverflow(i) = {} /\ InRing(i) = {}
    BY DEF QueueInv, ObserversInv, ObserverOK
  <2> QED
    BY <2>1 DEF Held
<1> QED
  BY <1>1, <1>2 DEF ItemsKept, QueueInv

\* The queue's invariant: who has which position, what each cell's sequence number
\* says, where every item is and what an empty() under way may rely on, over every lap
\* of the ring.
THEOREM QueueInductive == SafetySpec => []QueueInv
  BY QueueInit, QueueNext, PTL DEF SafetySpec

\* No item of Mpmc_queue is lost or returned twice, whatever the interleaving of push,
\* pop and empty, the mix of ring and overflow and the size of the ring from two cells
\* on, and empty() overlooks no item that was there when it began.
THEOREM QueueItemsKept == SafetySpec => []ItemsKept
  BY QueueInductive, QueueImplies, PTL

=============================================================================
