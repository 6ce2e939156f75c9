---------------------------- MODULE WorkerProofs ----------------------------
(***************************************************************************)
(* Proofs about what a worker keeps and runs: its deque                    *)
(* (WorkStealingDeque), for every capacity, every set of thieves and every *)
(* number of pushes; its profiling counters (BusyTracking), for every      *)
(* number of workers and of traced runs and every length of time; and the  *)
(* parallel loops it helps with (ParallelFor), for every number of bands,  *)
(* rounds and items, every balance and every number of helpers.            *)
(***************************************************************************)
EXTENDS WorkStealingDeque, BusyTracking, ParallelFor, FiniteSetTheorems, WellFoundedInduction, TLAPS

-----------------------------------------------------------------------------
(* Cells *)

\* An index has a cell.
LEMMA CellType ==
    ASSUME NEW i \in Nat
    PROVE  Cell(i) \in 0..(Capacity - 1)
  BY DequeAssumption DEF Cell

\* Two indices of one window of the buffer's size have different cells (the mask
\* of the code).
LEMMA CellApart ==
    ASSUME NEW i \in Nat, NEW j \in Nat, i < j, j - i < Capacity
    PROVE  Cell(i) # Cell(j)
<1>1. i = Capacity * (i \div Capacity) + Cell(i) /\ j = Capacity * (j \div Capacity) + Cell(j)
  BY DequeAssumption DEF Cell
<1> DEFINE a == i \div Capacity
           b == j \div Capacity
<1>2. a \in Int /\ b \in Int
  BY DequeAssumption
<1> HIDE DEF a, b
<1>3. Cell(i) \in Int /\ Cell(j) \in Int /\ Capacity \in Nat
  BY CellType, DequeAssumption
<1>4. ASSUME Cell(i) = Cell(j) PROVE FALSE
  <2>1. i = Capacity * a + Cell(i) /\ j = Capacity * b + Cell(i)
    BY <1>1, <1>4 DEF a, b
  <2>2. j - i = Capacity * (b - a)
    BY <2>1, <1>2, <1>3
  <2>3. b - a >= 1
    BY <2>2, <1>2, <1>3
  <2>4. Capacity * (b - a) >= Capacity
    BY <2>3, <1>2, <1>3
  <2> QED
    BY <2>2, <2>4, <1>3
<1> QED
  BY <1>4

-----------------------------------------------------------------------------
(* The inductive invariant *)

\* Where the deque ends: a take has lowered the bottom index before it knows
\* whether there is an entry for it, and puts it back when there was none.
End == IF owner.pc \in {"take", "take_cas", "restore"} THEN bottom + 1 ELSE bottom

\* TypeOK, and the owner's locals are a record.
TypeInv ==
    /\ top \in Nat /\ bottom \in Int /\ End \in Nat
    /\ buffer \in [0..(Capacity - 1) -> 0..MaxPush]
    /\ offered \in 0..MaxPush
    /\ owner \in [pc : {"idle", "store", "publish", "take", "take_cas", "restore"},
                  t : Nat, out : 0..MaxPush]
    /\ thief \in [Thieves -> [pc : {"idle", "bottom", "read", "cas"}, t : Nat, out : 0..MaxPush]]
    /\ got \in [Entries -> Nat]

\* The window of live indices fits the buffer, with a free cell while a push is
\* under way, and is empty when a take has lost.
WindowInv ==
    /\ top <= End /\ End - top <= Capacity
    /\ owner.pc \in {"store", "publish"} => offered >= 1 /\ End - top < Capacity
    /\ owner.pc = "restore" => top = End

\* The cells of the window hold published entries, older ones first.
OrderInv ==
    /\ \A i \in top..(End - 1) : buffer[Cell(i)] \in 1..Published
    /\ \A i, j \in top..(End - 1) : i < j => buffer[Cell(i)] < buffer[Cell(j)]
    /\ owner.pc = "publish" => buffer[Cell(End)] = offered

\* What the owner and the thieves have read of the entry they race for is still
\* true as long as the top has not moved: nobody stores to a cell that a
\* compare-and-swap can still win.
RaceInv ==
    /\ owner.pc = "take_cas" =>
         /\ owner.t = bottom /\ top >= owner.t
         /\ top = owner.t => owner.out = buffer[Cell(top)]
    /\ \A v \in Thieves :
         /\ thief[v].pc # "idle" => thief[v].t <= top
         /\ thief[v].pc \in {"read", "cas"} /\ thief[v].t = top => top < End
         /\ thief[v].pc = "cas" /\ thief[v].t = top => thief[v].out = buffer[Cell(top)]

\* Every published entry is in the window or was handed out, once.
CountInv ==
    /\ refused \subseteq 1..Published
    /\ \A e \in Entries :
         got[e] = IF e <= Published /\ e \notin refused
                       /\ ~ \E i \in top..(End - 1) : buffer[Cell(i)] = e
                  THEN 1 ELSE 0
    /\ \A i \in top..(End - 1) : buffer[Cell(i)] \notin refused

IndInv == TypeInv /\ WindowInv /\ OrderInv /\ RaceInv /\ CountInv

\* The live cells, as IndInv needs them: in the buffer, and different from one
\* another and from the cell after them when there is room.
LEMMA WindowCells ==
    ASSUME TypeInv, WindowInv
    PROVE  /\ top \in Nat /\ End \in Nat /\ Capacity \in Nat /\ Capacity > 0 /\ MaxPush \in Nat
           /\ \A i \in top..End : i \in Nat /\ Cell(i) \in 0..(Capacity - 1)
           /\ \A i \in top..(End - 1) : i \in top..End
           /\ \A i, j \in top..(End - 1) : i # j => Cell(i) # Cell(j)
           /\ End - top < Capacity => \A i \in top..(End - 1) : Cell(i) # Cell(End)
<1>1. top \in Nat /\ End \in Nat /\ Capacity \in Nat /\ Capacity > 0 /\ MaxPush \in Nat
  BY DequeAssumption DEF TypeInv
<1>2. \A i \in top..End : i \in Nat /\ Cell(i) \in 0..(Capacity - 1)
  BY <1>1, CellType
<1>3. ASSUME NEW i \in top..(End - 1), NEW j \in top..(End - 1), i # j
      PROVE  Cell(i) # Cell(j)
  <2>1. i \in Nat /\ j \in Nat /\ i - j < Capacity /\ j - i < Capacity
    BY <1>1 DEF WindowInv
  <2>2. i < j \/ j < i
    BY <2>1, <1>3
  <2> QED
    BY <2>1, <2>2, CellApart
<1>4. ASSUME End - top < Capacity, NEW i \in top..(End - 1)
      PROVE  Cell(i) # Cell(End)
  <2>1. i \in Nat /\ i < End /\ End - i < Capacity
    BY <1>1, <1>4
  <2> QED
    BY <1>1, <2>1, CellApart
<1> QED
  BY <1>1, <1>2, <1>3, <1>4

-----------------------------------------------------------------------------
(* The steps *)

\* A push that finds room, or is refused.
LEMMA Step_push ==
    ASSUME IndInv, push
    PROVE  IndInv'
<1> USE DEF IndInv, push, Owner
<1>1. /\ top \in Nat /\ End \in Nat /\ Capacity \in Nat /\ Capacity > 0 /\ MaxPush \in Nat
      /\ \A i \in top..End : i \in Nat /\ Cell(i) \in 0..(Capacity - 1)
      /\ End - top < Capacity => \A i \in top..(End - 1) : Cell(i) # Cell(End)
  BY WindowCells
<1>2. /\ End' = bottom /\ End = bottom /\ Published = offered
      /\ Published' = IF owner'.pc = "store" THEN offered ELSE offered + 1
      /\ owner'.pc \in {"idle", "store"}
  <2>1. owner.pc = "idle" /\ offered \in Nat /\ offered' = offered + 1 /\ bottom' = bottom
    BY <1>1 DEF TypeInv
  <2>2. owner'.pc = "idle" \/ owner'.pc = "store"
    BY <2>1 DEF TypeInv
  <2> QED
    BY <2>1, <2>2 DEF End, Published
<1>3. TypeInv'
  BY <1>1, <1>2, DequeAssumption DEF TypeInv, WindowInv, End, Entries
<1>4. WindowInv'
  BY <1>1, <1>2 DEF TypeInv, WindowInv
<1>5. OrderInv'
  BY SMTT(60), <1>1, <1>2 DEF TypeInv, WindowInv, OrderInv
<1>6. RaceInv'
  BY <1>1, <1>2 DEF TypeInv, WindowInv, RaceInv
<1>7. CountInv'
  BY SMTT(60), <1>1, <1>2 DEF TypeInv, WindowInv, OrderInv, CountInv, Entries
<1> QED
  BY <1>3, <1>4, <1>5, <1>6, <1>7

\* The store goes to a cell outside the window.
LEMMA Step_push_store ==
    ASSUME IndInv, push_store
    PROVE  IndInv'
<1> USE DEF IndInv, push_store, Owner
<1>1. /\ top \in Nat /\ End \in Nat /\ Capacity \in Nat /\ Capacity > 0 /\ MaxPush \in Nat
      /\ \A i \in top..End : i \in Nat /\ Cell(i) \in 0..(Capacity - 1)
      /\ End - top < Capacity => \A i \in top..(End - 1) : Cell(i) # Cell(End)
  BY WindowCells
<1>2. /\ End' = bottom /\ End = bottom /\ Published = offered - 1 /\ Published' = offered - 1
      /\ owner'.pc = "publish" /\ End - top < Capacity
      /\ buffer'[Cell(End)] = offered
      /\ \A i \in top..(End - 1) : buffer'[Cell(i)] = buffer[Cell(i)]
  BY <1>1 DEF TypeInv, WindowInv, End, Published
<1>3. TypeInv'
  <2>1. Cell(bottom) \in 0..(Capacity - 1) /\ offered \in 0..MaxPush
    BY <1>1, <1>2 DEF TypeInv, WindowInv
  <2>2. buffer' \in [0..(Capacity - 1) -> 0..MaxPush]
    BY <2>1 DEF TypeInv
  <2>3. owner' \in [pc : {"idle", "store", "publish", "take", "take_cas", "restore"}, t : Nat, out : 0..MaxPush]
    BY DEF TypeInv
  <2>4. End' \in Nat
    BY <1>1, <1>2
  <2> QED
    BY <2>2, <2>3, <2>4 DEF TypeInv
<1>4. WindowInv'
  BY <1>1, <1>2 DEF TypeInv, WindowInv
<1>5. OrderInv'
  <2>1. top' = top /\ End' = End /\ Published' = Published /\ offered' = offered /\ OrderInv
    BY <1>2
  <2> HIDE DEF IndInv, push_store, Owner
  <2>2. \A k \in top..(End - 1) : buffer'[Cell(k)] \in 1..Published
    BY <1>2, <2>1 DEF OrderInv
  <2>3. \A k, l \in top..(End - 1) : k < l => buffer'[Cell(k)] < buffer'[Cell(l)]
    BY <1>2, <2>1 DEF OrderInv
  <2> QED
    BY <1>2, <2>1, <2>2, <2>3 DEF OrderInv
<1>6. RaceInv'
  BY SMTT(60), <1>1, <1>2 DEF TypeInv, WindowInv, RaceInv
<1>7. CountInv'
  BY SMTT(60), <1>1, <1>2 DEF TypeInv, WindowInv, OrderInv, CountInv, Entries
<1> QED
  BY <1>3, <1>4, <1>5, <1>6, <1>7

\* The entry is published: the window grows by the cell it was stored in.
LEMMA Step_push_publish ==
    ASSUME IndInv, push_publish
    PROVE  IndInv'
<1> USE DEF IndInv, push_publish, Owner
<1>1. /\ top \in Nat /\ End \in Nat /\ Capacity \in Nat /\ Capacity > 0 /\ MaxPush \in Nat
      /\ \A i \in top..End : i \in Nat /\ Cell(i) \in 0..(Capacity - 1)
      /\ \A i \in top..(End - 1) : i \in top..End
  BY WindowCells
<1>2. /\ End = bottom /\ End' = End + 1 /\ Published = offered - 1 /\ Published' = offered
      /\ owner'.pc = "idle" /\ offered >= 1 /\ End - top < Capacity /\ buffer[Cell(End)] = offered
      /\ \A i \in top..End : i = End \/ i \in top..(End - 1)
  BY <1>1 DEF TypeInv, WindowInv, OrderInv, End, Published
<1>3. TypeInv'
  <2>1. End' \in Nat /\ bottom' \in Int
    BY <1>1, <1>2 DEF TypeInv
  <2>2. owner' = [owner EXCEPT !.pc = "idle"]
    OBVIOUS
  <2> QED
    BY <2>1, <2>2 DEF TypeInv
<1>4. WindowInv'
  BY <1>1, <1>2 DEF TypeInv, WindowInv
<1>5. OrderInv'
  <2>1. \A i \in top..(End' - 1) : buffer[Cell(i)] \in 1..offered
    BY SMTT(60), <1>1, <1>2 DEF TypeInv, OrderInv
  <2>2. \A i, j \in top..(End' - 1) : i < j => i \in top..(End - 1)
    BY <1>1, <1>2
  <2>3. ASSUME NEW i \in top..(End' - 1), NEW j \in top..(End' - 1), i < j
        PROVE  buffer[Cell(i)] < buffer[Cell(j)]
    <3>1. CASE j = End
      <4>1. buffer[Cell(i)] \in 1..Published
        BY <2>2, <2>3 DEF OrderInv
      <4> QED
        BY SMTT(60), <1>1, <1>2, <3>1, <4>1 DEF TypeInv
    <3>2. CASE j # End
      BY <1>1, <1>2, <2>2, <2>3, <3>2 DEF OrderInv
    <3> QED
      BY <3>1, <3>2
  <2> QED
    BY <1>2, <2>1, <2>3 DEF OrderInv
<1>6. RaceInv'
  BY <1>1, <1>2 DEF TypeInv, WindowInv, RaceInv
<1>7. CountInv'
  BY SMTT(60), <1>1, <1>2 DEF TypeInv, WindowInv, OrderInv, CountInv, Entries
<1> QED
  BY <1>3, <1>4, <1>5, <1>6, <1>7

\* A take lowers the bottom index; the deque still ends where it did.
LEMMA Step_take ==
    ASSUME IndInv, take
    PROVE  IndInv'
<1> USE DEF IndInv, take, Owner
<1>1. /\ top \in Nat /\ End \in Nat /\ Capacity \in Nat /\ Capacity > 0 /\ MaxPush \in Nat
      /\ \A i \in top..End : i \in Nat /\ Cell(i) \in 0..(Capacity - 1)
      /\ \A i \in top..(End - 1) : i \in top..End
  BY WindowCells
<1>2. /\ End = bottom /\ End' = End /\ Published = offered /\ Published' = offered
      /\ owner'.pc = "take"
  BY <1>1 DEF TypeInv, End, Published
<1>3. TypeInv'
  BY SMTT(60), <1>1, <1>2 DEF TypeInv, WindowInv, End, Entries
<1>4. WindowInv'
  BY <1>1, <1>2 DEF TypeInv, WindowInv
<1>5. OrderInv'
  BY <1>1, <1>2 DEF TypeInv, WindowInv, OrderInv
<1>6. RaceInv'
  BY <1>1, <1>2 DEF TypeInv, WindowInv, RaceInv
<1>7. CountInv'
  BY <1>1, <1>2 DEF TypeInv, WindowInv, OrderInv, CountInv, Entries
<1> QED
  BY <1>3, <1>4, <1>5, <1>6, <1>7

\* An empty or lost take puts the bottom index back.
LEMMA Step_take_restore ==
    ASSUME IndInv, take_restore
    PROVE  IndInv'
<1> USE DEF IndInv, take_restore, Owner
<1>1. /\ top \in Nat /\ End \in Nat /\ Capacity \in Nat /\ Capacity > 0 /\ MaxPush \in Nat
      /\ \A i \in top..End : i \in Nat /\ Cell(i) \in 0..(Capacity - 1)
      /\ \A i \in top..(End - 1) : i \in top..End
  BY WindowCells
<1>2. /\ End = bottom + 1 /\ End' = End /\ Published = offered /\ Published' = offered
      /\ owner'.pc = "idle"
  BY <1>1 DEF TypeInv, End, Published
<1>3. TypeInv'
  <2>1. End' \in Nat /\ bottom' \in Int
    BY <1>1, <1>2 DEF TypeInv
  <2>2. owner' = [owner EXCEPT !.pc = "idle"]
    OBVIOUS
  <2> QED
    BY <2>1, <2>2 DEF TypeInv
<1>4. WindowInv'
  BY <1>1, <1>2 DEF TypeInv, WindowInv
<1>5. OrderInv'
  BY <1>1, <1>2 DEF TypeInv, WindowInv, OrderInv
<1>6. RaceInv'
  BY <1>1, <1>2 DEF TypeInv, WindowInv, RaceInv
<1>7. CountInv'
  BY <1>1, <1>2 DEF TypeInv, WindowInv, OrderInv, CountInv, Entries
<1> QED
  BY <1>3, <1>4, <1>5, <1>6, <1>7

\* A thief reads the top.
LEMMA Step_steal ==
    ASSUME IndInv, NEW v \in Thieves, steal(v)
    PROVE  IndInv'
<1> USE DEF IndInv, steal
<1>1. /\ top \in Nat /\ End \in Nat /\ Capacity \in Nat /\ Capacity > 0 /\ MaxPush \in Nat
      /\ \A i \in top..End : i \in Nat /\ Cell(i) \in 0..(Capacity - 1)
      /\ \A i \in top..(End - 1) : i \in top..End
  BY WindowCells
<1>2. End' = End /\ Published' = Published
  BY <1>1 DEF TypeInv, End, Published
<1>3. TypeInv'
  BY SMTT(60), <1>1, <1>2 DEF TypeInv, WindowInv, End, Entries
<1>4. WindowInv'
  BY <1>1, <1>2 DEF TypeInv, WindowInv
<1>5. OrderInv'
  BY <1>1, <1>2 DEF TypeInv, WindowInv, OrderInv
<1>6. RaceInv'
  BY <1>1, <1>2 DEF TypeInv, WindowInv, RaceInv
<1>7. CountInv'
  BY <1>1, <1>2 DEF TypeInv, WindowInv, OrderInv, CountInv, Entries
<1> QED
  BY <1>3, <1>4, <1>5, <1>6, <1>7

\* It reads the bottom: what lies below it is in the window.
LEMMA Step_steal_bottom ==
    ASSUME IndInv, NEW v \in Thieves, steal_bottom(v)
    PROVE  IndInv'
<1> USE DEF IndInv, steal_bottom, Home
<1>1. /\ top \in Nat /\ End \in Nat /\ Capacity \in Nat /\ Capacity > 0 /\ MaxPush \in Nat
      /\ \A i \in top..End : i \in Nat /\ Cell(i) \in 0..(Capacity - 1)
      /\ \A i \in top..(End - 1) : i \in top..End
  BY WindowCells
<1>2. End' = End /\ Published' = Published /\ bottom <= End
  BY <1>1 DEF TypeInv, End, Published
<1>3. TypeInv'
  BY SMTT(60), <1>1, <1>2 DEF TypeInv, WindowInv, End, Entries
<1>4. WindowInv'
  BY <1>1, <1>2 DEF TypeInv, WindowInv
<1>5. OrderInv'
  BY <1>1, <1>2 DEF TypeInv, WindowInv, OrderInv
<1>6. RaceInv'
  BY SMTT(60), <1>1, <1>2 DEF TypeInv, WindowInv, RaceInv
<1>7. CountInv'
  BY <1>1, <1>2 DEF TypeInv, WindowInv, OrderInv, CountInv, Entries
<1> QED
  BY <1>3, <1>4, <1>5, <1>6, <1>7

\* It reads the cell.
LEMMA Step_steal_read ==
    ASSUME IndInv, NEW v \in Thieves, steal_read(v)
    PROVE  IndInv'
<1> USE DEF IndInv, steal_read
<1>1. /\ top \in Nat /\ End \in Nat /\ Capacity \in Nat /\ Capacity > 0 /\ MaxPush \in Nat
      /\ \A i \in top..End : i \in Nat /\ Cell(i) \in 0..(Capacity - 1)
      /\ \A i \in top..(End - 1) : i \in top..End
  BY WindowCells
<1>2. End' = End /\ Published' = Published
  BY <1>1 DEF TypeInv, End, Published
<1>3. TypeInv'
  BY <1>1, <1>2, CellType DEF TypeInv, WindowInv, End, Entries
<1>4. WindowInv'
  BY <1>1, <1>2 DEF TypeInv, WindowInv
<1>5. OrderInv'
  BY <1>1, <1>2 DEF TypeInv, WindowInv, OrderInv
<1>6. RaceInv'
  BY <1>1, <1>2 DEF TypeInv, WindowInv, RaceInv
<1>7. CountInv'
  BY <1>1, <1>2 DEF TypeInv, WindowInv, OrderInv, CountInv, Entries
<1> QED
  BY <1>3, <1>4, <1>5, <1>6, <1>7

\* An entry that leaves the window as it is handed out: it had not been handed out
\* before, and no other live cell holds it.
LEMMA Handed ==
    ASSUME IndInv, NEW a \in top..(End - 1), Hand(buffer[Cell(a)]),
           \A i : i \in top'..(End' - 1) <=> i \in top..(End - 1) /\ i # a,
           buffer' = buffer, refused' = refused, Published' = Published,
           owner'.pc = "publish" => owner.pc = "publish" /\ End' = End /\ offered' = offered
    PROVE  OrderInv' /\ CountInv' /\ got' \in [Entries -> Nat]
<1> DEFINE e0 == buffer[Cell(a)]
           W(i) == i \in top..(End - 1)
<1>1. /\ top \in Nat /\ End \in Nat /\ MaxPush \in Nat /\ Published \in Int /\ Published <= MaxPush
      /\ \A i \in top..(End - 1) : buffer[Cell(i)] \in 1..Published
  <2>1. top \in Nat /\ End \in Nat /\ MaxPush \in Nat
    BY WindowCells DEF IndInv
  <2>2. offered \in 0..MaxPush
    BY DEF IndInv, TypeInv
  <2>3. Published \in Int /\ Published <= MaxPush
    BY <2>1, <2>2 DEF Published
  <2> QED
    BY <2>1, <2>3 DEF IndInv, OrderInv
<1>2. e0 \in Entries /\ e0 <= Published /\ e0 \notin refused
  BY <1>1 DEF Entries, IndInv, CountInv
<1>3. OrderInv'
  BY DEF IndInv, OrderInv
<1>4. \A i : W(i) /\ i # a => buffer[Cell(i)] # e0
  <2>1. ASSUME NEW i, W(i), i # a
        PROVE  buffer[Cell(i)] # e0
    <3>1. i \in Int /\ a \in Int /\ (i < a \/ a < i)
      BY <1>1, <2>1
    <3>2. buffer[Cell(i)] < e0 \/ e0 < buffer[Cell(i)]
      BY <3>1, <2>1 DEF IndInv, OrderInv
    <3>3. buffer[Cell(i)] \in Int /\ e0 \in Int
      BY <2>1, <1>1
    <3> QED
      BY <3>2, <3>3
  <2> QED
    BY <2>1
<1>5. got \in [Entries -> Nat] /\ got' = [got EXCEPT ![e0] = @ + 1]
  BY DEF IndInv, TypeInv, Hand
<1>6. got' \in [Entries -> Nat]
  BY <1>2, <1>5
<1>7. CountInv'
  <2>1. refused' \subseteq 1..Published'
    BY DEF IndInv, CountInv
  <2>2. \A i \in top'..(End' - 1) : buffer'[Cell(i)] \notin refused'
    BY DEF IndInv, CountInv
  <2>3. ASSUME NEW e \in Entries
        PROVE  got'[e] = IF e <= Published' /\ e \notin refused'
                              /\ ~ \E i \in top'..(End' - 1) : buffer'[Cell(i)] = e
                         THEN 1 ELSE 0
    <3>1. got[e] = IF e <= Published /\ e \notin refused
                        /\ ~ \E i \in top..(End - 1) : buffer[Cell(i)] = e
                   THEN 1 ELSE 0
      BY DEF IndInv, CountInv
    <3>2. CASE e = e0
      <4>1. got[e] = 0
        BY <3>1, <3>2
      <4>2. got'[e] = 1
        BY <1>5, <3>2, <4>1
      <4>3. ~ \E i \in top'..(End' - 1) : buffer'[Cell(i)] = e
        BY <1>4, <3>2
      <4> QED
        BY <1>2, <3>2, <4>2, <4>3
    <3>3. CASE e # e0
      <4>1. got'[e] = got[e]
        BY <1>5, <3>3
      <4>2. (\E i \in top'..(End' - 1) : buffer'[Cell(i)] = e)
              <=> \E i \in top..(End - 1) : buffer[Cell(i)] = e
        BY <3>3
      <4> QED
        BY <3>1, <4>1, <4>2
    <3> QED
      BY <3>2, <3>3
  <2> QED
    BY <2>1, <2>2, <2>3 DEF CountInv
<1> QED
  BY <1>3, <1>6, <1>7

\* The owner takes the bottom entry when there is another below it, races for the
\* last one, or finds none.
LEMMA Step_take_top ==
    ASSUME IndInv, take_top
    PROVE  IndInv'
<1> USE DEF IndInv, take_top, Owner
<1>1. /\ top \in Nat /\ End \in Nat /\ Capacity \in Nat /\ Capacity > 0 /\ MaxPush \in Nat
      /\ \A i \in top..End : i \in Nat /\ Cell(i) \in 0..(Capacity - 1)
  BY WindowCells
<1>2. End = bottom + 1 /\ bottom \in Int /\ Published = offered
  BY <1>1 DEF TypeInv, End, Published
<1>3. CASE top < bottom
  <2>1. /\ bottom \in top..(End - 1) /\ owner' = [owner EXCEPT !.pc = "idle"]
        /\ Hand(buffer[Cell(bottom)])
    BY <1>1, <1>2, <1>3
  <2>2. owner'.pc = "idle" /\ End' = bottom /\ Published' = Published
    BY <1>2, <2>1 DEF TypeInv, End, Published
  <2>3. \A i : i \in top'..(End' - 1) <=> i \in top..(End - 1) /\ i # bottom
    BY <1>1, <1>2, <1>3, <2>2
  <2>4. OrderInv' /\ CountInv' /\ got' \in [Entries -> Nat]
    <3> HIDE DEF IndInv, take_top
    <3>1. buffer' = buffer /\ refused' = refused
      BY DEF take_top
    <3> QED
      BY <2>1, <2>2, <2>3, <3>1, Handed
  <2>5. TypeInv'
    <3>1. End' \in Nat
      BY <1>1, <1>2, <1>3, <2>2
    <3> QED
      BY <2>1, <2>4, <3>1 DEF TypeInv
  <2>6. WindowInv'
    BY <1>1, <1>2, <1>3, <2>2 DEF WindowInv
  <2>7. RaceInv'
    BY <1>1, <1>2, <1>3, <2>2 DEF RaceInv, TypeInv
  <2> QED
    BY <2>4, <2>5, <2>6, <2>7
<1>4. CASE top = bottom
  <2>1. /\ owner' = [pc |-> "take_cas", t |-> top, out |-> buffer[Cell(bottom)]]
        /\ got' = got
    BY <1>1, <1>2, <1>4
  <2>2. owner'.pc = "take_cas" /\ End' = End /\ Published' = Published
    BY <1>2, <2>1 DEF End, Published
  <2>3. TypeInv'
    BY SMTT(60), <1>1, <1>2, <1>4, <2>1, <2>2 DEF TypeInv
  <2>4. WindowInv' /\ OrderInv' /\ CountInv'
    BY <1>1, <2>1, <2>2 DEF WindowInv, OrderInv, CountInv
  <2>5. RaceInv'
    BY <1>1, <1>2, <1>4, <2>1, <2>2 DEF RaceInv
  <2> QED
    BY <2>3, <2>4, <2>5
<1>5. CASE top > bottom
  <2>1. owner' = [owner EXCEPT !.pc = "restore"] /\ got' = got
    BY <1>1, <1>2, <1>5
  <2>2. owner'.pc = "restore" /\ End' = End /\ Published' = Published
    BY <1>2, <2>1 DEF TypeInv, End, Published
  <2>3. TypeInv'
    BY <1>1, <1>2, <2>1, <2>2 DEF TypeInv
  <2>4. WindowInv' /\ OrderInv' /\ CountInv'
    BY <1>1, <1>2, <1>5, <2>1, <2>2 DEF WindowInv, OrderInv, CountInv
  <2>5. RaceInv'
    BY <1>1, <2>2 DEF RaceInv
  <2> QED
    BY <2>3, <2>4, <2>5
<1> QED
  BY <1>1, <1>2, <1>3, <1>4, <1>5

\* The top moves past an entry of the window, which goes to whoever moved it.
LEMMA TopWon ==
    ASSUME IndInv, top < End, top' = top + 1, Hand(buffer[Cell(top)]),
           End' = End, Published' = Published,
           buffer' = buffer, offered' = offered, refused' = refused,
           owner'.pc = owner.pc \/ (owner'.pc = "restore" /\ End = top + 1)
    PROVE  WindowInv' /\ OrderInv' /\ CountInv' /\ got' \in [Entries -> Nat]
<1>1. top \in Nat /\ End \in Nat /\ Capacity \in Nat
  BY WindowCells DEF IndInv
<1>2. top \in top..(End - 1)
  BY <1>1
<1>3. \A i : i \in top'..(End' - 1) <=> i \in top..(End - 1) /\ i # top
  BY <1>1
<1>4. OrderInv' /\ CountInv' /\ got' \in [Entries -> Nat]
  BY <1>2, <1>3, Handed
<1>5. WindowInv'
  BY <1>1 DEF IndInv, WindowInv
<1> QED
  BY <1>4, <1>5

\* The owner wins the last entry or has lost it to a thief.
LEMMA Step_take_cas ==
    ASSUME IndInv, take_cas
    PROVE  IndInv'
<1> USE DEF take_cas
<1>1. /\ top \in Nat /\ End \in Nat /\ Capacity \in Nat /\ Capacity > 0 /\ MaxPush \in Nat
      /\ \A i \in top..End : i \in Nat /\ Cell(i) \in 0..(Capacity - 1)
  BY WindowCells DEF IndInv
<1>2. /\ owner'.pc = "restore" /\ End = bottom + 1 /\ End' = End /\ bottom \in Int
      /\ Published' = Published /\ owner.t = bottom /\ top >= bottom /\ top <= End
      /\ top = owner.t => owner.out = buffer[Cell(top)]
  BY <1>1 DEF IndInv, TypeInv, WindowInv, RaceInv, End, Published
<1>3. CASE top = owner.t
  <2>1. top' = top + 1 /\ Hand(buffer[Cell(top)]) /\ top < End /\ End = top + 1
    BY <1>1, <1>2, <1>3
  <2>2. WindowInv' /\ OrderInv' /\ CountInv' /\ got' \in [Entries -> Nat]
    BY <1>2, <2>1, TopWon
  <2>3. TypeInv'
    BY <1>1, <1>2, <2>1, <2>2 DEF IndInv, TypeInv
  <2>4. RaceInv'
    BY <1>1, <1>2, <2>1 DEF IndInv, TypeInv, RaceInv
  <2> QED
    BY <2>2, <2>3, <2>4 DEF IndInv
<1>4. CASE top # owner.t
  <2>1. top' = top /\ got' = got /\ top = End
    BY <1>1, <1>2, <1>4
  <2>2. TypeInv'
    BY <1>1, <1>2, <2>1 DEF IndInv, TypeInv
  <2>3. WindowInv' /\ OrderInv' /\ CountInv'
    BY <1>1, <1>2, <2>1 DEF IndInv, WindowInv, OrderInv, CountInv
  <2>4. RaceInv'
    BY <1>1, <1>2, <2>1 DEF IndInv, RaceInv
  <2> QED
    BY <2>2, <2>3, <2>4 DEF IndInv
<1> QED
  BY <1>3, <1>4

\* A thief wins the top entry, or somebody else has moved the top.
LEMMA Step_steal_cas ==
    ASSUME IndInv, NEW v \in Thieves, steal_cas(v)
    PROVE  IndInv'
<1> USE DEF steal_cas, Home
<1>1. /\ top \in Nat /\ End \in Nat /\ Capacity \in Nat /\ Capacity > 0 /\ MaxPush \in Nat
  BY WindowCells DEF IndInv
<1>2. /\ End' = End /\ Published' = Published
      /\ thief[v].t = top => top < End /\ thief[v].out = buffer[Cell(top)]
  BY <1>1 DEF IndInv, RaceInv, End, Published
<1>3. thief' \in [Thieves -> [pc : {"idle", "bottom", "read", "cas"}, t : Nat, out : 0..MaxPush]]
  BY <1>1 DEF IndInv, TypeInv
<1>4. CASE top = thief[v].t
  <2>1. top' = top + 1 /\ Hand(buffer[Cell(top)]) /\ top < End
    BY <1>1, <1>2, <1>4
  <2>2. WindowInv' /\ OrderInv' /\ CountInv' /\ got' \in [Entries -> Nat]
    <3>1. buffer' = buffer /\ offered' = offered /\ refused' = refused
      OBVIOUS
    <3>2. owner'.pc = owner.pc
      OBVIOUS
    <3> QED
      BY <1>1, <1>2, <2>1, <3>1, <3>2, TopWon
  <2>3. TypeInv'
    BY <1>1, <1>2, <1>3, <2>1, <2>2 DEF IndInv, TypeInv
  <2>4. RaceInv'
    BY <1>1, <1>2, <2>1, <2>2 DEF IndInv, TypeInv, RaceInv, WindowInv, End
  <2> QED
    BY <2>2, <2>3, <2>4 DEF IndInv
<1>5. CASE top # thief[v].t
  <2>1. top' = top /\ got' = got
    BY <1>5
  <2>2. TypeInv'
    BY <1>1, <1>2, <1>3, <2>1 DEF IndInv, TypeInv
  <2>3. WindowInv' /\ OrderInv' /\ CountInv'
    BY <1>1, <1>2, <2>1 DEF IndInv, WindowInv, OrderInv, CountInv
  <2>4. RaceInv'
    BY <1>1, <1>2, <2>1 DEF IndInv, TypeInv, RaceInv
  <2> QED
    BY <2>2, <2>3, <2>4 DEF IndInv
<1> QED
  BY <1>4, <1>5

-----------------------------------------------------------------------------
(* The theorems *)

\* IndInv is an invariant of the specification.
THEOREM DequeInductive == DequeSpec => []IndInv
<1>1. DequeInit => IndInv
  <2> SUFFICES ASSUME DequeInit PROVE IndInv
    OBVIOUS
  <2> USE DEF DequeInit
  <2>1. Capacity \in Nat /\ Capacity > 0 /\ MaxPush \in Nat /\ End = 0 /\ Published = 0
    BY DequeAssumption DEF End, Published
  <2>2. TypeInv
    BY <2>1 DEF TypeInv
  <2>3. WindowInv /\ OrderInv
    BY <2>1 DEF WindowInv, OrderInv
  <2>4. RaceInv
    BY <2>1 DEF RaceInv
  <2>5. CountInv
    BY <2>1 DEF CountInv, Entries
  <2> QED
    BY <2>2, <2>3, <2>4, <2>5 DEF IndInv
<1>2. IndInv /\ [DequeNext]_dequeVars => IndInv'
  <2> SUFFICES ASSUME IndInv, [DequeNext]_dequeVars PROVE IndInv'
    OBVIOUS
  <2>1. CASE push \/ push_store \/ push_publish
    BY <2>1, Step_push, Step_push_store, Step_push_publish
  <2>2. CASE take \/ take_top \/ take_cas \/ take_restore
    BY <2>2, Step_take, Step_take_top, Step_take_cas, Step_take_restore
  <2>3. CASE \E v \in Thieves : steal(v) \/ steal_bottom(v) \/ steal_read(v) \/ steal_cas(v)
    BY <2>3, Step_steal, Step_steal_bottom, Step_steal_read, Step_steal_cas
  <2>4. CASE UNCHANGED dequeVars
    BY <2>4 DEF dequeVars, IndInv, TypeInv, WindowInv, OrderInv, RaceInv, CountInv, End, Published
  <2> QED
    BY <2>1, <2>2, <2>3, <2>4 DEF DequeNext
<1> QED
  BY <1>1, <1>2, PTL DEF DequeSpec

\* push, take and steal hand out every published entry exactly once, for every
\* capacity and however many thieves race: an entry is either in one live cell or
\* has been given to one thread.
THEOREM DequeExactlyOnce == DequeSpec => []ExactlyOnce
<1>1. IndInv => ExactlyOnce
  <2> SUFFICES ASSUME IndInv PROVE ExactlyOnce
    OBVIOUS
  <2>1. /\ top \in Nat /\ End \in Nat /\ MaxPush \in Nat
        /\ \A i : i \in Live <=> i \in top..(End - 1)
    <3>1. top \in Nat /\ End \in Nat /\ MaxPush \in Nat /\ bottom \in Int
      BY WindowCells DEF IndInv, TypeInv
    <3>2. CASE owner.pc = "restore"
      BY <3>1, <3>2 DEF IndInv, WindowInv, Live, End
    <3>3. CASE owner.pc # "restore"
      BY <3>1, <3>3 DEF Live, End
    <3> QED
      BY <3>1, <3>2, <3>3
  <2>2. TypeOK
    <3>1. bottom \in Nat \cup {-1}
      BY <2>1 DEF IndInv, TypeInv, End
    <3>2. refused \subseteq Entries
      BY <2>1 DEF IndInv, TypeInv, CountInv, Published, Entries
    <3> QED
      BY <3>1, <3>2 DEF IndInv, TypeInv, TypeOK
  <2>3. ASSUME NEW e \in Entries
        PROVE  got[e] + (IF \E i \in Live : buffer[Cell(i)] = e THEN 1 ELSE 0)
                 = IF e <= Published /\ e \notin refused THEN 1 ELSE 0
    <3>1. got[e] = IF e <= Published /\ e \notin refused
                        /\ ~ \E i \in Live : buffer[Cell(i)] = e
                   THEN 1 ELSE 0
      BY <2>1 DEF IndInv, CountInv
    <3>2. (\E i \in Live : buffer[Cell(i)] = e) => e <= Published /\ e \notin refused
      <4>1. Published \in Int
        BY <2>1 DEF IndInv, TypeInv, Published
      <4> QED
        BY <2>1, <4>1 DEF IndInv, OrderInv, CountInv
    <3> QED
      BY <3>1, <3>2
  <2> QED
    BY <2>2, <2>3 DEF ExactlyOnce
<1> QED
  BY <1>1, DequeInductive, PTL

\* A steal that wins its compare-and-swap leaves no older entry behind, although the
\* thief read its cell before the owner's and the other thieves' steps.
THEOREM DequeOldestStolen == DequeSpec => OldestStolen
<1> DEFINE Won(v) == thief[v].pc = "cas" /\ thief'[v].pc = "idle" /\ top' # top
           Oldest == \A v \in Thieves : Won(v) => \A i \in Live : buffer[Cell(i)] >= thief[v].out
<1>1. IndInv /\ IndInv' /\ [DequeNext]_dequeVars => [Oldest]_dequeVars
  <2> SUFFICES ASSUME IndInv, DequeNext, NEW v \in Thieves, Won(v), NEW i \in Live
               PROVE  buffer[Cell(i)] >= thief[v].out
    BY DEF dequeVars
  <2>1. steal_cas(v)
    <3>1. CASE push \/ push_store \/ push_publish \/ take \/ take_top \/ take_cas \/ take_restore
      BY <3>1 DEF push, push_store, push_publish, take, take_top, take_cas, take_restore
    <3>2. ASSUME NEW w \in Thieves,
                 steal(w) \/ steal_bottom(w) \/ steal_read(w) \/ steal_cas(w)
          PROVE  steal_cas(v)
      BY <3>2 DEF steal, steal_bottom, steal_read, steal_cas, IndInv, TypeInv, Home
    <3> QED
      BY <3>1, <3>2 DEF DequeNext
  <2>2. thief[v].t = top /\ thief[v].out = buffer[Cell(top)] /\ top < End
    BY <2>1 DEF steal_cas, IndInv, RaceInv
  <2>3. /\ top \in Nat /\ End \in Nat /\ MaxPush \in Nat /\ bottom \in Int
        /\ \A j \in top..End : Cell(j) \in 0..(Capacity - 1)
    BY WindowCells DEF IndInv, TypeInv
  <2>4. i \in top..(End - 1) /\ top \in top..(End - 1)
    BY <2>2, <2>3 DEF Live, End
  <2>5. buffer[Cell(i)] \in Int /\ buffer[Cell(top)] \in Int
    BY <2>3, <2>4 DEF IndInv, TypeInv
  <2>6. CASE i = top
    BY <2>2, <2>5, <2>6
  <2>7. CASE i # top
    BY <2>2, <2>3, <2>4, <2>5, <2>7 DEF IndInv, OrderInv
  <2> QED
    BY <2>6, <2>7
<1> QED
  BY <1>1, DequeInductive, PTL DEF DequeSpec, OldestStolen

-----------------------------------------------------------------------------
(* The profiling counters: the inductive invariant *)

ScopeType == [active : BOOLEAN, t0 : Nat, nested0 : Nat]
Running   == {"func", "body", "nested", "nested_body", "nested_done", "done"}
InYield   == {"nested", "nested_body", "nested_done"}
Snapshot  == {"ticks", "started", "again"}
SlotType  == [ticks : Nat, started : Nat, body : Nat]
WorkType  == [pc : {"loop", "scan", "found", "clear"} \cup Running, t0 : Nat,
              scope : [1..2 -> ScopeType], dispatch0 : Nat, nested_span : Nat]

BusyTypeInv ==
    /\ clock \in Nat \ {0}
    /\ busy_tracking \in Int /\ trace_owner_armed \in Int
    /\ slot \in [Slots -> SlotType]
    /\ work \in [Slots -> WorkType]
    /\ crossed \subseteq Slots
    /\ tracer \in [pc : {"off", "arming", "begin", "armed", "disarm", "disarming"} \cup Snapshot,
                   folding : BOOLEAN, now : Nat, left : SUBSET Slots, ticks : Nat,
                   started : Nat, floor : [Slots -> Nat], short : SUBSET Slots, traces : Nat]

\* A span is timed from its start: `started` is up exactly while a task that began
\* armed runs, and its scopes are active under that task only.
SpanInv(w) ==
    /\ work[w].t0 <= clock /\ work[w].dispatch0 <= clock /\ slot[w].started <= clock
    /\ work[w].pc \in {"loop", "found", "clear"} => work[w].t0 = 0
    /\ work[w].pc \in {"loop", "scan", "found"} => slot[w].started = 0
    /\ work[w].pc \in Running => slot[w].started = work[w].t0
    /\ work[w].scope[1].active => work[w].pc \in {"body"} \cup InYield /\ slot[w].started # 0
    /\ work[w].scope[2].active => work[w].pc = "nested_body" /\ slot[w].started # 0
    /\ work[w].dispatch0 # 0 => work[w].pc \in InYield

\* A yield that subtracts nothing from a functor being timed was entered disarmed, and
\* unless the next run was armed meanwhile the nested functor is not timed.
YieldInv(w) ==
    work[w].pc \in InYield /\ work[w].dispatch0 = 0 /\ work[w].scope[1].active /\ w \notin crossed
        => trace_owner_armed = 0 /\ ~ work[w].scope[2].active

\* The time a functor's scope would book if it closed now, and the nested one's.
Own1(w) ==
    IF work[w].scope[1].active
    THEN OwnTime(w, 1) - (IF work[w].dispatch0 # 0 THEN clock - work[w].dispatch0 ELSE 0)
    ELSE 0
Own2(w) == IF work[w].scope[2].active THEN OwnTime(w, 2) ELSE 0

\* What is booked and what would be booked now is within the busy time.
BodyInv(w) ==
    /\ Own1(w) >= 0 /\ Own2(w) >= 0
    /\ w \notin crossed => slot[w].body + Own1(w) + Own2(w) <= Busy(w)

WorkerInv(w) == SpanInv(w) /\ YieldInv(w) /\ BodyInv(w)

\* The scopes' flag is up between arm_scopes and disarm_scopes.
ArmedInv ==
    trace_owner_armed = IF tracer.pc \in {"off", "arming", "disarming"} THEN 0 ELSE 1

\* The part of w's busy time that lies before the snapshot's clock reading.
Past(w)     == IF InFlight(w) /\ tracer.now > slot[w].started
               THEN tracer.now - slot[w].started ELSE 0
BusyNow(w) == slot[w].ticks + Past(w)

\* A slot still to be read has lost nothing since the clock was read, and the pair
\* that was read of it is enough unless `ticks` has moved on.
FloorInv(w) ==
    w \in tracer.left =>
        /\ tracer.floor[w] <= BusyNow(w)
        /\ (\A v \in tracer.left : w <= v) =>
             /\ tracer.pc \in {"started", "again"} => tracer.ticks <= slot[w].ticks
             /\ tracer.pc = "again" /\ tracer.ticks = slot[w].ticks => tracer.floor[w] <= SlotValue

SnapshotInv ==
    /\ tracer.short = {}
    /\ tracer.pc \in Snapshot => tracer.now <= clock /\ \A w \in Slots : FloorInv(w)

BusyInv == BusyTypeInv /\ ArmedInv /\ SnapshotInv /\ \A w \in Slots : WorkerInv(w)

-----------------------------------------------------------------------------
(* A worker's steps *)

\* What a step of w leaves alone.
WorkerOnly(w) ==
    /\ \A v \in Slots \ {w} : work'[v] = work[v] /\ slot'[v] = slot[v]
    /\ UNCHANGED <<clock, busy_tracking, trace_owner_armed, crossed, tracer>>

\* A worker's step keeps BusyInv when it keeps its own part of it and takes nothing
\* back from what a snapshot may already have counted.
LEMMA WorkerStep ==
    ASSUME BusyInv, NEW w \in Slots, WorkerOnly(w),
           work' \in [Slots -> WorkType], slot' \in [Slots -> SlotType],
           WorkerInv(w)', slot'[w].ticks >= slot[w].ticks,
           tracer.pc \in Snapshot => Past(w)' + slot'[w].ticks >= BusyNow(w)
    PROVE  BusyInv'
<1> USE DEF WorkerOnly
<1>1. BusyTypeInv'
  BY DEF BusyInv, BusyTypeInv, WorkType, SlotType
<1>2. ArmedInv'
  BY DEF BusyInv, ArmedInv
<1>3. ASSUME NEW v \in Slots
      PROVE  WorkerInv(v)'
  <2>1. CASE v = w
    BY <2>1
  <2>2. CASE v # w
    <3>1. WorkerInv(v) /\ UNCHANGED <<clock, trace_owner_armed, crossed>> /\ work'[v] = work[v] /\ slot'[v] = slot[v]
      BY <2>2 DEF BusyInv
    <3>2. SpanInv(v)' /\ YieldInv(v)'
      BY <3>1 DEF WorkerInv, SpanInv, YieldInv
    <3>3. Own1(v)' = Own1(v) /\ Own2(v)' = Own2(v) /\ Busy(v)' = Busy(v)
      BY <3>1 DEF Own1, Own2, OwnTime, Busy, InFlight
    <3>4. BodyInv(v)'
      BY <3>1, <3>3 DEF WorkerInv, BodyInv
    <3> QED
      BY <3>2, <3>4 DEF WorkerInv
  <2> QED
    BY <2>1, <2>2
<1>4. ASSUME NEW v \in Slots, tracer.pc \in Snapshot
      PROVE  FloorInv(v)'
  <2>1. FloorInv(v)
    BY <1>4 DEF BusyInv, SnapshotInv
  <2>2. CASE v = w
    <3>1. /\ tracer.floor[w] \in Nat /\ tracer.ticks \in Nat /\ slot[w].ticks \in Nat
          /\ slot'[w].ticks \in Nat /\ tracer' = tracer
      BY DEF BusyInv, BusyTypeInv, SlotType
    <3>2. Past(w)' \in Int /\ BusyNow(w) \in Int
      <4>1. tracer.now \in Nat /\ slot[w].started \in Nat /\ slot'[w].started \in Nat
        BY DEF BusyInv, BusyTypeInv, SlotType
      <4> QED
        BY <3>1, <4>1 DEF Past, BusyNow
    <3>3. w \in tracer.left => tracer.floor[w] <= BusyNow(w)'
      BY <1>4, <2>1, <2>2, <3>1, <3>2 DEF FloorInv, BusyNow
    <3>4. SlotValue' = SlotValue
      BY <3>1 DEF SlotValue
    <3> QED
      BY <2>1, <2>2, <3>1, <3>3, <3>4 DEF FloorInv
  <2>3. CASE v # w
    BY <2>1, <2>3 DEF FloorInv, BusyNow, Past, InFlight, SlotValue
  <2> QED
    BY <2>2, <2>3
<1>5. SnapshotInv'
  BY <1>4 DEF BusyInv, SnapshotInv
<1> QED
  BY <1>1, <1>2, <1>3, <1>5 DEF BusyInv

\* The worker's locals have their types.
LEMMA WorkerTypes ==
    ASSUME BusyInv, NEW w \in Slots
    PROVE  /\ clock \in Nat /\ clock # 0
           /\ work \in [Slots -> WorkType] /\ slot \in [Slots -> SlotType]
           /\ work[w] \in WorkType /\ slot[w] \in SlotType
           /\ slot[w].ticks \in Nat /\ slot[w].started \in Nat /\ slot[w].body \in Nat
           /\ work[w].t0 \in Nat /\ work[w].dispatch0 \in Nat /\ work[w].nested_span \in Nat
           /\ \A k \in 1..2 : /\ work[w].scope[k] \in ScopeType
                               /\ work[w].scope[k].active \in BOOLEAN
                               /\ work[w].scope[k].t0 \in Nat /\ work[w].scope[k].nested0 \in Nat
           /\ tracer.now \in Nat
           /\ tracer.pc \in Snapshot => tracer.now <= clock
           /\ SpanInv(w) /\ YieldInv(w) /\ BodyInv(w)
<1>1. work[w] \in WorkType /\ slot[w] \in SlotType
  BY DEF BusyInv, BusyTypeInv
<1>2. /\ slot[w].ticks \in Nat /\ slot[w].started \in Nat /\ slot[w].body \in Nat
      /\ work[w].t0 \in Nat /\ work[w].dispatch0 \in Nat /\ work[w].nested_span \in Nat
      /\ work[w].scope \in [1..2 -> ScopeType]
  BY <1>1 DEF WorkType, SlotType
<1>3. ASSUME NEW k \in 1..2
      PROVE  /\ work[w].scope[k] \in ScopeType
             /\ work[w].scope[k].active \in BOOLEAN
             /\ work[w].scope[k].t0 \in Nat /\ work[w].scope[k].nested0 \in Nat
  <2>1. work[w].scope[k] \in ScopeType
    BY <1>2
  <2> QED
    BY <2>1 DEF ScopeType
<1>4. WorkerInv(w)
  BY DEF BusyInv
<1> QED
  BY <1>1, <1>2, <1>3, <1>4 DEF BusyInv, BusyTypeInv, SnapshotInv, WorkerInv

\* The part of WorkerTypes that SpanInv and YieldInv need.
LEMMA WorkerSpan ==
    ASSUME BusyInv, NEW w \in Slots
    PROVE  SpanInv(w) /\ YieldInv(w) /\ clock \in Nat /\ clock # 0
  BY WorkerTypes

\* A step of w that leaves its counters alone takes nothing back from a snapshot.
LEMMA PastSame ==
    ASSUME BusyInv, NEW w \in Slots, UNCHANGED tracer, slot'[w].ticks = slot[w].ticks,
           slot'[w].started = slot[w].started, work[w].pc # "clear", work'[w].pc # "clear"
    PROVE  slot'[w].ticks >= slot[w].ticks /\ Past(w)' + slot'[w].ticks >= BusyNow(w)
<1>1. Past(w)' = Past(w)
  BY DEF Past, InFlight
<1>2. PICK p \in Int, n \in Int : p = Past(w) /\ n = slot[w].ticks
  BY WorkerTypes DEF Past
<1> QED
  BY <1>1, <1>2 DEF BusyNow

\* The amounts BodyInv compares are integers, and it holds.
LEMMA OwnTimes ==
    ASSUME BusyInv, NEW w \in Slots
    PROVE  /\ Own1(w) \in Int /\ Own2(w) \in Int /\ Busy(w) \in Int /\ slot[w].body \in Int
           /\ Own1(w) >= 0 /\ Own2(w) >= 0
           /\ w \notin crossed => slot[w].body + Own1(w) + Own2(w) <= Busy(w)
<1>1. OwnTime(w, 1) \in Int /\ OwnTime(w, 2) \in Int
  BY WorkerTypes DEF OwnTime
<1>2. Own1(w) \in Int
  BY <1>1, WorkerTypes DEF Own1
<1>3. Own2(w) \in Int
  BY <1>1, WorkerTypes DEF Own2
<1>4. Busy(w) \in Int
  BY WorkerTypes DEF Busy
<1> QED
  BY <1>2, <1>3, <1>4, WorkerTypes DEF BodyInv

\* A step keeps BodyInv when it books no more than the scopes hold and takes nothing
\* back from the busy time.
LEMMA BodyStep ==
    ASSUME BusyInv, NEW w \in Slots, UNCHANGED crossed,
           slot'[w].body \in Int, Own1(w)' \in Int, Own2(w)' \in Int, Busy(w)' \in Int,
           Own1(w)' >= 0, Own2(w)' >= 0, Busy(w)' >= Busy(w),
           slot'[w].body + Own1(w)' + Own2(w)' <= slot[w].body + Own1(w) + Own2(w)
    PROVE  BodyInv(w)'
<1>1. PICK b \in Int, c \in Int, d \in Int, e \in Int :
        b = slot[w].body /\ c = Own1(w) /\ d = Own2(w) /\ e = Busy(w)
  BY OwnTimes
<1>2. PICK b1 \in Int, c1 \in Int, d1 \in Int, e1 \in Int :
        b1 = slot'[w].body /\ c1 = Own1(w)' /\ d1 = Own2(w)' /\ e1 = Busy(w)'
  OBVIOUS
<1>3. w \notin crossed => b + c + d <= e
  BY <1>1, OwnTimes
<1>4. b1 + c1 + d1 <= b + c + d /\ e1 >= e /\ c1 >= 0 /\ d1 >= 0
  BY <1>1, <1>2
<1>5. w \notin crossed => b1 + c1 + d1 <= e1
  <2> HIDE <1>1, <1>2
  <2> QED
    BY <1>3, <1>4
<1> QED
  BY <1>2, <1>4, <1>5 DEF BodyInv

\* The same step when it leaves the scopes and the booked time alone.
LEMMA BodySame ==
    ASSUME BusyInv, NEW w \in Slots, UNCHANGED crossed,
           slot'[w].body = slot[w].body, Own1(w)' = Own1(w), Own2(w)' = Own2(w),
           Busy(w)' \in Int, Busy(w)' >= Busy(w)
    PROVE  BodyInv(w)'
<1>1. /\ slot'[w].body \in Int /\ Own1(w)' \in Int /\ Own2(w)' \in Int
      /\ Own1(w)' >= 0 /\ Own2(w)' >= 0
      /\ slot'[w].body + Own1(w)' + Own2(w)' <= slot[w].body + Own1(w) + Own2(w)
  BY OwnTimes
<1> QED
  BY <1>1, BodyStep

\* The busy time while a step of w leaves its counters alone.
LEMMA BusySame ==
    ASSUME BusyInv, NEW w \in Slots, UNCHANGED clock, slot'[w].ticks = slot[w].ticks,
           slot'[w].started = slot[w].started, work[w].pc # "clear", work'[w].pc # "clear"
    PROVE  Busy(w)' = Busy(w) /\ Busy(w)' \in Int /\ Busy(w)' >= Busy(w)
<1>1. Busy(w)' = Busy(w)
  BY DEF Busy, InFlight
<1> QED
  BY <1>1, OwnTimes

\* What the scopes hold while a step of w leaves them alone.
LEMMA OwnSame ==
    ASSUME NEW w \in Slots, UNCHANGED clock, work'[w].scope = work[w].scope,
           work'[w].dispatch0 = work[w].dispatch0, work'[w].nested_span = work[w].nested_span
    PROVE  Own1(w)' = Own1(w) /\ Own2(w)' = Own2(w)
  BY DEF Own1, Own2, OwnTime

\* A worker that runs no functor has no scope active.
LEMMA OwnNothing ==
    ASSUME BusyInv, NEW w \in Slots, work[w].pc \notin {"body"} \cup InYield
    PROVE  /\ ~ work[w].scope[1].active /\ ~ work[w].scope[2].active
           /\ Own1(w) = 0 /\ Own2(w) = 0 /\ work[w].dispatch0 = 0
<1>1. ~ work[w].scope[1].active /\ ~ work[w].scope[2].active /\ work[w].dispatch0 = 0
  BY WorkerTypes DEF SpanInv, InYield
<1> QED
  BY <1>1 DEF Own1, Own2

\* A scan is timed when it starts armed.
LEMMA Step_find_work_dispatch ==
    ASSUME BusyInv, NEW w \in Slots, find_work_dispatch(w),
           UNCHANGED <<clock, busy_tracking, trace_owner_armed, crossed, tracer>>
    PROVE  BusyInv'
<1>1. /\ work[w] \in WorkType /\ slot[w] \in SlotType
      /\ work \in [Slots -> WorkType] /\ slot \in [Slots -> SlotType] /\ clock \in Nat
  BY WorkerTypes
<1>2. WorkerOnly(w) /\ work' \in [Slots -> WorkType] /\ slot' \in [Slots -> SlotType]
  BY <1>1, WorkerTypes DEF find_work_dispatch, WorkerOnly, WorkType, SlotType, Running, SpanInv
<1>3. /\ work'[w].pc = "scan"
      /\ work'[w].t0 = IF busy_tracking # 0 THEN clock ELSE 0
      /\ work'[w].scope = work[w].scope
      /\ work'[w].dispatch0 = work[w].dispatch0
      /\ work'[w].nested_span = work[w].nested_span
      /\ slot'[w].ticks = slot[w].ticks
      /\ slot'[w].started = slot[w].started
      /\ slot'[w].body = slot[w].body
  BY <1>1 DEF find_work_dispatch, WorkType, SlotType
<1>4. SpanInv(w)' /\ YieldInv(w)'
  BY <1>3, WorkerSpan DEF find_work_dispatch, SpanInv, YieldInv, Running, InYield
<1>5. BodyInv(w)'
  <2>1. work[w].pc # "clear" /\ work'[w].pc # "clear"
    BY <1>3 DEF find_work_dispatch
  <2> QED
    BY <1>3, <2>1, BusySame, OwnSame, BodySame
<1>6. slot'[w].ticks >= slot[w].ticks /\ Past(w)' + slot'[w].ticks >= BusyNow(w)
  <2>1. work[w].pc # "clear" /\ work'[w].pc # "clear"
    BY <1>3 DEF find_work_dispatch
  <2> QED
    BY <1>3, <2>1, PastSame
<1> QED
  BY <1>2, <1>4, <1>5, <1>6, WorkerStep DEF WorkerInv

\* A scan that finds a task is added to the busy time.
LEMMA Step_scan_hit ==
    ASSUME BusyInv, NEW w \in Slots, scan_hit(w),
           UNCHANGED <<clock, busy_tracking, trace_owner_armed, crossed, tracer>>
    PROVE  BusyInv'
<1>1. /\ work[w] \in WorkType /\ slot[w] \in SlotType
      /\ work \in [Slots -> WorkType] /\ slot \in [Slots -> SlotType] /\ clock \in Nat
  BY WorkerTypes
<1>2. WorkerOnly(w) /\ work' \in [Slots -> WorkType] /\ slot' \in [Slots -> SlotType]
  <2>1. (IF work[w].t0 # 0 THEN clock - work[w].t0 ELSE 0) \in Nat /\ slot[w].ticks \in Nat
    BY WorkerTypes DEF SpanInv
  <2>2. work' \in [Slots -> WorkType]
    BY <1>1 DEF scan_hit, WorkType, Running
  <2>3. slot' \in [Slots -> SlotType]
    BY <1>1, <2>1 DEF scan_hit, SlotType
  <2> QED
    BY <1>1, <2>2, <2>3 DEF scan_hit, WorkerOnly
<1>3. /\ work'[w].pc = "found"
      /\ work'[w].t0 = 0
      /\ work'[w].scope = work[w].scope
      /\ work'[w].dispatch0 = work[w].dispatch0
      /\ work'[w].nested_span = work[w].nested_span
      /\ slot'[w].ticks = slot[w].ticks + IF work[w].t0 # 0 THEN clock - work[w].t0 ELSE 0
      /\ slot'[w].started = slot[w].started
      /\ slot'[w].body = slot[w].body
  BY <1>1 DEF scan_hit, WorkType, SlotType
<1>4. SpanInv(w)' /\ YieldInv(w)'
  BY <1>3, WorkerSpan DEF scan_hit, SpanInv, YieldInv, Running, InYield
<1>5. BodyInv(w)'
  <2>1. slot[w].started = 0 /\ slot'[w].started = 0
    BY <1>3, WorkerTypes DEF scan_hit, SpanInv
  <2>2. Busy(w)' = slot'[w].ticks /\ Busy(w) = slot[w].ticks
    BY <2>1, <1>1, <1>2 DEF Busy, InFlight, SlotType
  <2>3. slot'[w].ticks \in Int /\ slot'[w].ticks >= slot[w].ticks
    BY <1>3, WorkerTypes DEF SpanInv
  <2> QED
    BY <1>3, <2>2, <2>3, OwnSame, BodySame
<1>6. slot'[w].ticks >= slot[w].ticks /\ Past(w)' + slot'[w].ticks >= BusyNow(w)
  BY <1>3, WorkerTypes DEF scan_hit, SpanInv, Past, BusyNow, InFlight, Running
<1> QED
  BY <1>2, <1>4, <1>5, <1>6, WorkerStep DEF WorkerInv

\* A scan that finds nothing is charged to nobody.
LEMMA Step_scan_miss ==
    ASSUME BusyInv, NEW w \in Slots, scan_miss(w),
           UNCHANGED <<clock, busy_tracking, trace_owner_armed, crossed, tracer>>
    PROVE  BusyInv'
<1>1. /\ work[w] \in WorkType /\ slot[w] \in SlotType
      /\ work \in [Slots -> WorkType] /\ slot \in [Slots -> SlotType] /\ clock \in Nat
  BY WorkerTypes
<1>2. WorkerOnly(w) /\ work' \in [Slots -> WorkType] /\ slot' \in [Slots -> SlotType]
  BY <1>1, WorkerTypes DEF scan_miss, WorkerOnly, WorkType, SlotType, Running, SpanInv
<1>3. /\ work'[w].pc = "loop"
      /\ work'[w].t0 = 0
      /\ work'[w].scope = work[w].scope
      /\ work'[w].dispatch0 = work[w].dispatch0
      /\ work'[w].nested_span = work[w].nested_span
      /\ slot'[w].ticks = slot[w].ticks
      /\ slot'[w].started = slot[w].started
      /\ slot'[w].body = slot[w].body
  BY <1>1 DEF scan_miss, WorkType, SlotType
<1>4. SpanInv(w)' /\ YieldInv(w)'
  BY <1>3, WorkerSpan DEF scan_miss, SpanInv, YieldInv, Running, InYield
<1>5. BodyInv(w)'
  <2>1. work[w].pc # "clear" /\ work'[w].pc # "clear"
    BY <1>3 DEF scan_miss
  <2> QED
    BY <1>3, <2>1, BusySame, OwnSame, BodySame
<1>6. slot'[w].ticks >= slot[w].ticks /\ Past(w)' + slot'[w].ticks >= BusyNow(w)
  <2>1. work[w].pc # "clear" /\ work'[w].pc # "clear"
    BY <1>3 DEF scan_miss
  <2> QED
    BY <1>3, <2>1, PastSame
<1> QED
  BY <1>2, <1>4, <1>5, <1>6, WorkerStep DEF WorkerInv

\* A task is timed when it starts armed.
LEMMA Step_begin_task ==
    ASSUME BusyInv, NEW w \in Slots, begin_task(w),
           UNCHANGED <<clock, busy_tracking, trace_owner_armed, crossed, tracer>>
    PROVE  BusyInv'
<1>1. /\ work[w] \in WorkType /\ slot[w] \in SlotType
      /\ work \in [Slots -> WorkType] /\ slot \in [Slots -> SlotType] /\ clock \in Nat
  BY WorkerTypes
<1>2. WorkerOnly(w) /\ work' \in [Slots -> WorkType] /\ slot' \in [Slots -> SlotType]
  <2>1. CASE busy_tracking # 0
    <3>1. work' = [work EXCEPT ![w].pc = "func", ![w].t0 = clock]
      BY <2>1 DEF begin_task
    <3>2. slot' = [slot EXCEPT ![w].started = clock]
      BY <2>1 DEF begin_task
    <3>3. work' \in [Slots -> WorkType]
      BY <1>1, <3>1 DEF WorkType, Running
    <3>4. slot' \in [Slots -> SlotType]
      BY <1>1, <3>2 DEF SlotType
    <3> QED
      BY <1>1, <3>1, <3>2, <3>3, <3>4 DEF WorkerOnly
  <2>2. CASE busy_tracking = 0
    <3>1. work' = [work EXCEPT ![w].pc = "func"] /\ slot' = slot
      BY <2>2 DEF begin_task
    <3>2. work' \in [Slots -> WorkType]
      BY <1>1, <3>1 DEF WorkType, Running
    <3> QED
      BY <1>1, <3>1, <3>2 DEF WorkerOnly
  <2> QED
    BY <2>1, <2>2
<1>3. /\ work'[w].pc = "func"
      /\ work'[w].t0 = IF busy_tracking # 0 THEN clock ELSE work[w].t0
      /\ work'[w].scope = work[w].scope
      /\ work'[w].dispatch0 = work[w].dispatch0
      /\ work'[w].nested_span = work[w].nested_span
      /\ slot'[w].ticks = slot[w].ticks
      /\ slot'[w].started = IF busy_tracking # 0 THEN clock ELSE slot[w].started
      /\ slot'[w].body = slot[w].body
  BY <1>1 DEF begin_task, WorkType, SlotType
<1>4. SpanInv(w)' /\ YieldInv(w)'
  BY <1>3, WorkerSpan DEF begin_task, SpanInv, YieldInv, Running, InYield
<1>5. BodyInv(w)'
  <2>1. work[w].pc = "found" /\ slot[w].started = 0
    BY WorkerTypes DEF begin_task, SpanInv
  <2>2. Busy(w)' = slot'[w].ticks /\ Busy(w) = slot[w].ticks
    BY <1>3, <2>1, WorkerTypes DEF Busy, InFlight
  <2>3. Busy(w)' \in Int /\ Busy(w)' >= Busy(w)
    BY <1>3, <2>2, WorkerTypes
  <2> QED
    BY <1>3, <2>3, OwnSame, BodySame
<1>6. slot'[w].ticks >= slot[w].ticks /\ Past(w)' + slot'[w].ticks >= BusyNow(w)
  BY <1>3, WorkerTypes DEF begin_task, SpanInv, Past, BusyNow, InFlight, Running
<1> QED
  BY <1>2, <1>4, <1>5, <1>6, WorkerStep DEF WorkerInv

\* A yield under a timed functor remembers when it was entered.
LEMMA Step_yield_to_higher ==
    ASSUME BusyInv, NEW w \in Slots, yield_to_higher(w),
           UNCHANGED <<clock, busy_tracking, trace_owner_armed, crossed, tracer>>
    PROVE  BusyInv'
<1>1. /\ work[w] \in WorkType /\ slot[w] \in SlotType
      /\ work \in [Slots -> WorkType] /\ slot \in [Slots -> SlotType] /\ clock \in Nat
  BY WorkerTypes
<1>2. WorkerOnly(w) /\ work' \in [Slots -> WorkType] /\ slot' \in [Slots -> SlotType]
  BY <1>1, WorkerTypes DEF yield_to_higher, WorkerOnly, WorkType, SlotType, Running, SpanInv
<1>3. /\ work'[w].pc = "nested"
      /\ work'[w].t0 = work[w].t0
      /\ work'[w].scope = work[w].scope
      /\ work'[w].dispatch0 = IF trace_owner_armed # 0 THEN clock ELSE 0
      /\ work'[w].nested_span = work[w].nested_span
      /\ slot'[w].ticks = slot[w].ticks
      /\ slot'[w].started = slot[w].started
      /\ slot'[w].body = slot[w].body
  BY <1>1 DEF yield_to_higher, WorkType, SlotType
<1>4. SpanInv(w)' /\ YieldInv(w)'
  BY <1>3, WorkerSpan DEF yield_to_higher, SpanInv, YieldInv, Running, InYield
<1>5. BodyInv(w)'
  <2>1. work[w].pc = "body" /\ work[w].dispatch0 = 0
    BY WorkerTypes DEF yield_to_higher, SpanInv, InYield
  <2>2. Own2(w)' = Own2(w)
    BY <1>3 DEF Own2, OwnTime
  <2>3. OwnTime(w, 1)' = OwnTime(w, 1) /\ OwnTime(w, 1) \in Int
    BY <1>3, WorkerTypes DEF OwnTime
  <2>4. Own1(w)' = Own1(w)
    BY <1>1, <1>3, <2>1, <2>3 DEF Own1
  <2> QED
    BY <1>3, <2>1, <2>2, <2>4, BusySame, BodySame
<1>6. slot'[w].ticks >= slot[w].ticks /\ Past(w)' + slot'[w].ticks >= BusyNow(w)
  <2>1. work[w].pc # "clear" /\ work'[w].pc # "clear"
    BY <1>3 DEF yield_to_higher
  <2> QED
    BY <1>3, <2>1, PastSame
<1> QED
  BY <1>2, <1>4, <1>5, <1>6, WorkerStep DEF WorkerInv

\* The span of the nested task is taken off the functor under it.
LEMMA Step_yield_return ==
    ASSUME BusyInv, NEW w \in Slots, yield_return(w),
           UNCHANGED <<clock, busy_tracking, trace_owner_armed, crossed, tracer>>
    PROVE  BusyInv'
<1>1. /\ work[w] \in WorkType /\ slot[w] \in SlotType
      /\ work \in [Slots -> WorkType] /\ slot \in [Slots -> SlotType] /\ clock \in Nat
  BY WorkerTypes
<1>2. WorkerOnly(w) /\ work' \in [Slots -> WorkType] /\ slot' \in [Slots -> SlotType]
  <2>1. (work[w].nested_span + IF work[w].dispatch0 # 0 THEN clock - work[w].dispatch0 ELSE 0) \in Nat
    BY WorkerTypes DEF SpanInv
  <2>2. work' \in [Slots -> WorkType]
    BY <1>1, <2>1 DEF yield_return, WorkType, Running
  <2> QED
    BY <1>1, <2>2 DEF yield_return, WorkerOnly
<1>3. /\ work'[w].pc = "body"
      /\ work'[w].t0 = work[w].t0
      /\ work'[w].scope = work[w].scope
      /\ work'[w].dispatch0 = 0
      /\ work'[w].nested_span = work[w].nested_span + IF work[w].dispatch0 # 0 THEN clock - work[w].dispatch0 ELSE 0
      /\ slot'[w].ticks = slot[w].ticks
      /\ slot'[w].started = slot[w].started
      /\ slot'[w].body = slot[w].body
  BY <1>1 DEF yield_return, WorkType, SlotType
<1>4. SpanInv(w)' /\ YieldInv(w)'
  BY <1>3, WorkerSpan DEF yield_return, SpanInv, YieldInv, Running, InYield
<1>5. BodyInv(w)'
  <2>1. work[w].pc = "nested_done" /\ ~ work[w].scope[2].active
    BY WorkerTypes DEF yield_return, SpanInv
  <2>2. Own2(w)' = Own2(w)
    BY <1>3, <2>1 DEF Own2
  <2>3. OwnTime(w, 1)' = OwnTime(w, 1) - (IF work[w].dispatch0 # 0 THEN clock - work[w].dispatch0 ELSE 0)
        /\ OwnTime(w, 1)' \in Int
    BY <1>3, WorkerTypes DEF OwnTime
  <2>4. Own1(w)' = Own1(w)
    BY <1>3, <2>3 DEF Own1
  <2> QED
    BY <1>3, <2>1, <2>2, <2>4, BusySame, BodySame
<1>6. slot'[w].ticks >= slot[w].ticks /\ Past(w)' + slot'[w].ticks >= BusyNow(w)
  <2>1. work[w].pc # "clear" /\ work'[w].pc # "clear"
    BY <1>3 DEF yield_return
  <2> QED
    BY <1>3, <2>1, PastSame
<1> QED
  BY <1>2, <1>4, <1>5, <1>6, WorkerStep DEF WorkerInv

\* The span in flight is forgotten after it was added up.
LEMMA Step_clear_started ==
    ASSUME BusyInv, NEW w \in Slots, clear_started(w),
           UNCHANGED <<clock, busy_tracking, trace_owner_armed, crossed, tracer>>
    PROVE  BusyInv'
<1>1. /\ work[w] \in WorkType /\ slot[w] \in SlotType
      /\ work \in [Slots -> WorkType] /\ slot \in [Slots -> SlotType] /\ clock \in Nat
  BY WorkerTypes
<1>2. WorkerOnly(w) /\ work' \in [Slots -> WorkType] /\ slot' \in [Slots -> SlotType]
  BY <1>1, WorkerTypes DEF clear_started, WorkerOnly, WorkType, SlotType, Running, SpanInv
<1>3. /\ work'[w].pc = "loop"
      /\ work'[w].t0 = work[w].t0
      /\ work'[w].scope = work[w].scope
      /\ work'[w].dispatch0 = work[w].dispatch0
      /\ work'[w].nested_span = 0
      /\ slot'[w].ticks = slot[w].ticks
      /\ slot'[w].started = 0
      /\ slot'[w].body = slot[w].body
  BY <1>1 DEF clear_started, WorkType, SlotType
<1>4. SpanInv(w)' /\ YieldInv(w)'
  BY <1>3, WorkerSpan DEF clear_started, SpanInv, YieldInv, Running, InYield
<1>5. BodyInv(w)'
  <2>1. work[w].pc = "clear" /\ work[w].pc \notin {"body"} \cup InYield
    BY DEF clear_started, InYield
  <2>2. Own1(w)' = Own1(w) /\ Own2(w)' = Own2(w)
    BY <1>3, <2>1, OwnNothing DEF Own1, Own2
  <2>3. Busy(w)' = Busy(w)
    BY <1>3, <2>1 DEF Busy, InFlight
  <2> QED
    BY <1>3, <2>2, <2>3, OwnTimes, BodySame
<1>6. slot'[w].ticks >= slot[w].ticks /\ Past(w)' + slot'[w].ticks >= BusyNow(w)
  BY <1>3, WorkerTypes DEF clear_started, SpanInv, Past, BusyNow, InFlight, Running
<1> QED
  BY <1>2, <1>4, <1>5, <1>6, WorkerStep DEF WorkerInv

\* The functor's scope opens.
LEMMA Step_open ==
    ASSUME BusyInv, NEW w \in Slots, open(w),
           UNCHANGED <<clock, busy_tracking, trace_owner_armed, crossed, tracer>>
    PROVE  BusyInv'
<1> DEFINE new == IF trace_owner_armed # 0 /\ in_timed_span(w)
                  THEN [active |-> TRUE, t0 |-> clock, nested0 |-> work[w].nested_span]
                  ELSE Scope
           more == 0
<1>1. /\ work[w] \in WorkType /\ slot[w] \in SlotType
      /\ work \in [Slots -> WorkType] /\ slot \in [Slots -> SlotType] /\ clock \in Nat
      /\ work[w].nested_span \in Nat /\ slot[w].body \in Nat
  BY WorkerTypes
<1>2. new \in ScopeType /\ more \in Nat
  BY <1>1 DEF ScopeType, Scope
<1>3. /\ work[w].pc = "func"
      /\ work' = [work EXCEPT ![w].pc = "body", ![w].scope[1] = new]
      /\ slot' = [slot EXCEPT ![w].body = @ + more]
  BY <1>1 DEF open, OpenScope, in_timed_span, SlotType
<1> HIDE DEF new, more
<1>4. work' \in [Slots -> WorkType] /\ slot' \in [Slots -> SlotType]
  <2>1. slot' \in [Slots -> SlotType]
    BY <1>1, <1>2, <1>3 DEF SlotType
  <2>2. [work[w].scope EXCEPT ![1] = new] \in [1..2 -> ScopeType]
    BY <1>1, <1>2 DEF WorkType
  <2>3. work' = [work EXCEPT ![w] = [work[w] EXCEPT !.pc = "body",
                                       !.scope = [work[w].scope EXCEPT ![1] = new]]]
    BY <1>1, <1>3 DEF WorkType
  <2>4. [work[w] EXCEPT !.pc = "body", !.scope = [work[w].scope EXCEPT ![1] = new]] \in WorkType
    BY <1>1, <2>2 DEF WorkType, Running
  <2> QED
    BY <1>1, <2>1, <2>3, <2>4
<1>5. WorkerOnly(w)
  BY <1>1, <1>3 DEF WorkerOnly
<1>6. /\ work'[w].pc = "body" /\ work'[w].t0 = work[w].t0
      /\ work'[w].scope[1] = new /\ work'[w].scope[2] = work[w].scope[2]
      /\ work'[w].dispatch0 = work[w].dispatch0 /\ work'[w].nested_span = work[w].nested_span
      /\ slot'[w].ticks = slot[w].ticks /\ slot'[w].started = slot[w].started
      /\ slot'[w].body = slot[w].body + more
  BY <1>1, <1>3 DEF WorkType, SlotType
<1> USE DEF new, more
<1>7. SpanInv(w)' /\ YieldInv(w)'
  <2>1. work'[w].scope[1].active => trace_owner_armed # 0 /\ slot[w].started # 0
    BY <1>6 DEF Scope, in_timed_span
  <2> HIDE DEF new, more
  <2>2. SpanInv(w) /\ YieldInv(w) /\ slot[w].started \in Nat
    BY WorkerTypes
  <2>3. SpanInv(w)'
    BY <1>3, <1>6, <2>1, <2>2 DEF SpanInv, Running, InYield
  <2>4. YieldInv(w)'
    BY <1>3, <1>6, <2>1, <2>2 DEF SpanInv, YieldInv, InYield
  <2> QED
    BY <2>3, <2>4
<1>8. BodyInv(w)'
  <2>1. work[w].pc \notin {"body"} \cup InYield
    BY <1>3 DEF InYield
  <2>2. ~ work[w].scope[2].active /\ Own1(w) = 0 /\ Own2(w) = 0 /\ work[w].dispatch0 = 0
    BY <2>1, OwnNothing
  <2>3. Own2(w)' = 0
    BY <1>6, <2>2 DEF Own2
  <2>4. work'[w].scope[1].active =>
          work'[w].scope[1].t0 = clock /\ work'[w].scope[1].nested0 = work'[w].nested_span
    BY <1>6 DEF Scope
  <2> HIDE DEF new
  <2>5. Own1(w)' = 0
    BY <1>1, <1>6, <2>2, <2>4 DEF Own1, OwnTime
  <2> QED
    BY <1>1, <1>3, <1>6, <2>2, <2>3, <2>5, BusySame, BodySame
<1>9. slot'[w].ticks >= slot[w].ticks /\ Past(w)' + slot'[w].ticks >= BusyNow(w)
  BY <1>3, <1>6, PastSame
<1> QED
  BY <1>4, <1>5, <1>7, <1>8, <1>9, WorkerStep DEF WorkerInv

\* The nested functor's scope opens.
LEMMA Step_open_nested ==
    ASSUME BusyInv, NEW w \in Slots, open_nested(w),
           UNCHANGED <<clock, busy_tracking, trace_owner_armed, crossed, tracer>>
    PROVE  BusyInv'
<1> DEFINE new == IF trace_owner_armed # 0 /\ in_timed_span(w)
                  THEN [active |-> TRUE, t0 |-> clock, nested0 |-> work[w].nested_span]
                  ELSE Scope
           more == 0
<1>1. /\ work[w] \in WorkType /\ slot[w] \in SlotType
      /\ work \in [Slots -> WorkType] /\ slot \in [Slots -> SlotType] /\ clock \in Nat
      /\ work[w].nested_span \in Nat /\ slot[w].body \in Nat
  BY WorkerTypes
<1>2. new \in ScopeType /\ more \in Nat
  BY <1>1 DEF ScopeType, Scope
<1>3. /\ work[w].pc = "nested"
      /\ work' = [work EXCEPT ![w].pc = "nested_body", ![w].scope[2] = new]
      /\ slot' = [slot EXCEPT ![w].body = @ + more]
  BY <1>1 DEF open_nested, OpenScope, in_timed_span, SlotType
<1> HIDE DEF new, more
<1>4. work' \in [Slots -> WorkType] /\ slot' \in [Slots -> SlotType]
  <2>1. slot' \in [Slots -> SlotType]
    BY <1>1, <1>2, <1>3 DEF SlotType
  <2>2. [work[w].scope EXCEPT ![2] = new] \in [1..2 -> ScopeType]
    BY <1>1, <1>2 DEF WorkType
  <2>3. work' = [work EXCEPT ![w] = [work[w] EXCEPT !.pc = "nested_body",
                                       !.scope = [work[w].scope EXCEPT ![2] = new]]]
    BY <1>1, <1>3 DEF WorkType
  <2>4. [work[w] EXCEPT !.pc = "nested_body", !.scope = [work[w].scope EXCEPT ![2] = new]] \in WorkType
    BY <1>1, <2>2 DEF WorkType, Running
  <2> QED
    BY <1>1, <2>1, <2>3, <2>4
<1>5. WorkerOnly(w)
  BY <1>1, <1>3 DEF WorkerOnly
<1>6. /\ work'[w].pc = "nested_body" /\ work'[w].t0 = work[w].t0
      /\ work'[w].scope[2] = new /\ work'[w].scope[1] = work[w].scope[1]
      /\ work'[w].dispatch0 = work[w].dispatch0 /\ work'[w].nested_span = work[w].nested_span
      /\ slot'[w].ticks = slot[w].ticks /\ slot'[w].started = slot[w].started
      /\ slot'[w].body = slot[w].body + more
  BY <1>1, <1>3 DEF WorkType, SlotType
<1> USE DEF new, more
<1>7. SpanInv(w)' /\ YieldInv(w)'
  <2>1. work'[w].scope[2].active => trace_owner_armed # 0 /\ slot[w].started # 0
    BY <1>6 DEF Scope, in_timed_span
  <2> HIDE DEF new, more
  <2>2. SpanInv(w) /\ YieldInv(w) /\ slot[w].started \in Nat
    BY WorkerTypes
  <2>3. SpanInv(w)'
    BY <1>3, <1>6, <2>1, <2>2 DEF SpanInv, Running, InYield
  <2>4. YieldInv(w)'
    BY <1>3, <1>6, <2>1, <2>2 DEF SpanInv, YieldInv, InYield
  <2> QED
    BY <2>3, <2>4
<1>8. BodyInv(w)'
  <2>1. ~ work[w].scope[2].active /\ Own2(w) = 0
    BY <1>3, WorkerTypes DEF SpanInv, Own2
  <2>2. work'[w].scope[2].active =>
          work'[w].scope[2].t0 = clock /\ work'[w].scope[2].nested0 = work'[w].nested_span
    BY <1>6 DEF Scope
  <2> HIDE DEF new
  <2>3. Own2(w)' = 0
    BY <1>1, <1>6, <2>2 DEF Own2, OwnTime
  <2>4. Own1(w)' = Own1(w)
    BY <1>6 DEF Own1, OwnTime
  <2> QED
    BY <1>1, <1>3, <1>6, <2>1, <2>3, <2>4, BusySame, BodySame
<1>9. slot'[w].ticks >= slot[w].ticks /\ Past(w)' + slot'[w].ticks >= BusyNow(w)
  BY <1>3, <1>6, PastSame
<1> QED
  BY <1>4, <1>5, <1>7, <1>8, <1>9, WorkerStep DEF WorkerInv

\* The functor's scope books what it took, less what was nested in it.
LEMMA Step_close ==
    ASSUME BusyInv, NEW w \in Slots, close(w),
           UNCHANGED <<clock, busy_tracking, trace_owner_armed, crossed, tracer>>
    PROVE  BusyInv'
<1> DEFINE new == Scope
           more == IF work[w].scope[1].active THEN OwnTime(w, 1) ELSE 0
<1>1. /\ work[w] \in WorkType /\ slot[w] \in SlotType
      /\ work \in [Slots -> WorkType] /\ slot \in [Slots -> SlotType] /\ clock \in Nat
      /\ work[w].nested_span \in Nat /\ slot[w].body \in Nat
  BY WorkerTypes
<1>2. new \in ScopeType /\ more \in Nat
  <2>1. work[w].pc = "body"
    BY DEF close, CloseScope
  <2>2. work[w].dispatch0 = 0 /\ OwnTime(w, 1) \in Int
    BY <2>1, WorkerTypes DEF SpanInv, InYield, OwnTime
  <2>3. more = Own1(w)
    BY <2>2 DEF Own1
  <2> HIDE DEF more
  <2> QED
    BY <2>3, OwnTimes DEF Scope, ScopeType
<1>3. /\ work[w].pc = "body"
      /\ work' = [work EXCEPT ![w].pc = "done", ![w].scope[1] = new]
      /\ slot' = [slot EXCEPT ![w].body = @ + more]
  BY <1>1 DEF close, CloseScope, in_timed_span, SlotType
<1> HIDE DEF new, more
<1>4. work' \in [Slots -> WorkType] /\ slot' \in [Slots -> SlotType]
  <2>1. slot' \in [Slots -> SlotType]
    BY <1>1, <1>2, <1>3 DEF SlotType
  <2>2. [work[w].scope EXCEPT ![1] = new] \in [1..2 -> ScopeType]
    BY <1>1, <1>2 DEF WorkType
  <2>3. work' = [work EXCEPT ![w] = [work[w] EXCEPT !.pc = "done",
                                       !.scope = [work[w].scope EXCEPT ![1] = new]]]
    BY <1>1, <1>3 DEF WorkType
  <2>4. [work[w] EXCEPT !.pc = "done", !.scope = [work[w].scope EXCEPT ![1] = new]] \in WorkType
    BY <1>1, <2>2 DEF WorkType, Running
  <2> QED
    BY <1>1, <2>1, <2>3, <2>4
<1>5. WorkerOnly(w)
  BY <1>1, <1>3 DEF WorkerOnly
<1>6. /\ work'[w].pc = "done" /\ work'[w].t0 = work[w].t0
      /\ work'[w].scope[1] = new /\ work'[w].scope[2] = work[w].scope[2]
      /\ work'[w].dispatch0 = work[w].dispatch0 /\ work'[w].nested_span = work[w].nested_span
      /\ slot'[w].ticks = slot[w].ticks /\ slot'[w].started = slot[w].started
      /\ slot'[w].body = slot[w].body + more
  BY <1>1, <1>3 DEF WorkType, SlotType
<1> USE DEF new, more
<1>7. SpanInv(w)' /\ YieldInv(w)'
  <2>1. ~ work'[w].scope[1].active
    BY <1>6 DEF Scope
  <2> HIDE DEF new, more
  <2>2. SpanInv(w) /\ YieldInv(w) /\ slot[w].started \in Nat
    BY WorkerTypes
  <2>3. SpanInv(w)'
    BY <1>3, <1>6, <2>1, <2>2 DEF SpanInv, Running, InYield
  <2>4. YieldInv(w)'
    BY <1>3, <1>6, <2>1, <2>2 DEF SpanInv, YieldInv, InYield
  <2> QED
    BY <2>3, <2>4
<1>8. BodyInv(w)'
  <2>1. ~ work[w].scope[2].active /\ work[w].dispatch0 = 0
    BY <1>3, WorkerTypes DEF SpanInv, InYield
  <2>2. Own1(w) = more /\ Own2(w) = 0
    BY <1>2, <2>1, WorkerTypes DEF Own1, Own2, OwnTime
  <2>3. Own1(w)' = 0 /\ Own2(w)' = 0
    BY <1>6, <2>1 DEF Own1, Own2, Scope
  <2> HIDE DEF new, more
  <2>4. slot'[w].body \in Int
        /\ slot'[w].body + Own1(w)' + Own2(w)' <= slot[w].body + Own1(w) + Own2(w)
    BY <1>1, <1>2, <1>6, <2>2, <2>3
  <2>5. Own1(w)' \in Int /\ Own1(w)' >= 0 /\ Own2(w)' \in Int /\ Own2(w)' >= 0
    BY <2>3
  <2> QED
    BY <1>3, <1>6, <2>3, <2>4, <2>5, BusySame, BodyStep
<1>9. slot'[w].ticks >= slot[w].ticks /\ Past(w)' + slot'[w].ticks >= BusyNow(w)
  BY <1>3, <1>6, PastSame
<1> QED
  BY <1>4, <1>5, <1>7, <1>8, <1>9, WorkerStep DEF WorkerInv

\* The nested functor's scope books its span.
LEMMA Step_close_nested ==
    ASSUME BusyInv, NEW w \in Slots, close_nested(w),
           UNCHANGED <<clock, busy_tracking, trace_owner_armed, crossed, tracer>>
    PROVE  BusyInv'
<1> DEFINE new == Scope
           more == IF work[w].scope[2].active THEN OwnTime(w, 2) ELSE 0
<1>1. /\ work[w] \in WorkType /\ slot[w] \in SlotType
      /\ work \in [Slots -> WorkType] /\ slot \in [Slots -> SlotType] /\ clock \in Nat
      /\ work[w].nested_span \in Nat /\ slot[w].body \in Nat
  BY WorkerTypes
<1>2. new \in ScopeType /\ more \in Nat
  <2>1. work[w].pc = "nested_body"
    BY DEF close_nested, CloseScope
  <2>3. more = Own2(w)
    BY DEF Own2
  <2> HIDE DEF more
  <2> QED
    BY <2>3, OwnTimes DEF Scope, ScopeType
<1>3. /\ work[w].pc = "nested_body"
      /\ work' = [work EXCEPT ![w].pc = "nested_done", ![w].scope[2] = new]
      /\ slot' = [slot EXCEPT ![w].body = @ + more]
  BY <1>1 DEF close_nested, CloseScope, in_timed_span, SlotType
<1> HIDE DEF new, more
<1>4. work' \in [Slots -> WorkType] /\ slot' \in [Slots -> SlotType]
  <2>1. slot' \in [Slots -> SlotType]
    BY <1>1, <1>2, <1>3 DEF SlotType
  <2>2. [work[w].scope EXCEPT ![2] = new] \in [1..2 -> ScopeType]
    BY <1>1, <1>2 DEF WorkType
  <2>3. work' = [work EXCEPT ![w] = [work[w] EXCEPT !.pc = "nested_done",
                                       !.scope = [work[w].scope EXCEPT ![2] = new]]]
    BY <1>1, <1>3 DEF WorkType
  <2>4. [work[w] EXCEPT !.pc = "nested_done", !.scope = [work[w].scope EXCEPT ![2] = new]] \in WorkType
    BY <1>1, <2>2 DEF WorkType, Running
  <2> QED
    BY <1>1, <2>1, <2>3, <2>4
<1>5. WorkerOnly(w)
  BY <1>1, <1>3 DEF WorkerOnly
<1>6. /\ work'[w].pc = "nested_done" /\ work'[w].t0 = work[w].t0
      /\ work'[w].scope[2] = new /\ work'[w].scope[1] = work[w].scope[1]
      /\ work'[w].dispatch0 = work[w].dispatch0 /\ work'[w].nested_span = work[w].nested_span
      /\ slot'[w].ticks = slot[w].ticks /\ slot'[w].started = slot[w].started
      /\ slot'[w].body = slot[w].body + more
  BY <1>1, <1>3 DEF WorkType, SlotType
<1> USE DEF new, more
<1>7. SpanInv(w)' /\ YieldInv(w)'
  <2>1. ~ work'[w].scope[2].active
    BY <1>6 DEF Scope
  <2> HIDE DEF new, more
  <2>2. SpanInv(w) /\ YieldInv(w) /\ slot[w].started \in Nat
    BY WorkerTypes
  <2>3. SpanInv(w)'
    BY <1>3, <1>6, <2>1, <2>2 DEF SpanInv, Running, InYield
  <2>4. YieldInv(w)'
    BY <1>3, <1>6, <2>1, <2>2 DEF SpanInv, YieldInv, InYield
  <2> QED
    BY <2>3, <2>4
<1>8. BodyInv(w)'
  <2>1. Own2(w) = more
    BY DEF Own2
  <2>2. Own2(w)' = 0
    BY <1>6 DEF Own2, Scope
  <2> HIDE DEF new, more
  <2>3. Own1(w)' = Own1(w)
    BY <1>6 DEF Own1, OwnTime
  <2>4. /\ slot'[w].body \in Int /\ Own1(w)' \in Int /\ Own1(w)' >= 0
        /\ slot'[w].body + Own1(w)' + Own2(w)' <= slot[w].body + Own1(w) + Own2(w)
    BY <1>1, <1>2, <1>6, <2>1, <2>2, <2>3, OwnTimes
  <2>5. Own2(w)' \in Int /\ Own2(w)' >= 0
    BY <2>2
  <2> QED
    BY <1>3, <1>6, <2>4, <2>5, BusySame, BodyStep
<1>9. slot'[w].ticks >= slot[w].ticks /\ Past(w)' + slot'[w].ticks >= BusyNow(w)
  BY <1>3, <1>6, PastSame
<1> QED
  BY <1>4, <1>5, <1>7, <1>8, <1>9, WorkerStep DEF WorkerInv

\* The span of a timed task goes to `ticks` before `started` is cleared.
LEMMA Step_end_task ==
    ASSUME BusyInv, NEW w \in Slots, end_task(w),
           UNCHANGED <<clock, busy_tracking, trace_owner_armed, crossed, tracer>>
    PROVE  BusyInv'
<1>1. /\ work[w] \in WorkType /\ slot[w] \in SlotType
      /\ work \in [Slots -> WorkType] /\ slot \in [Slots -> SlotType] /\ clock \in Nat
  BY WorkerTypes
<1>2. CASE work[w].t0 # 0
  <2>1. /\ work' = [work EXCEPT ![w].pc = "clear", ![w].t0 = 0]
        /\ slot' = [slot EXCEPT ![w].ticks = @ + clock - work[w].t0]
        /\ work[w].pc = "done"
    BY <1>2 DEF end_task
  <2>2. slot[w].ticks + clock - work[w].t0 \in Nat
    BY WorkerTypes DEF SpanInv
  <2>3. work' \in [Slots -> WorkType] /\ slot' \in [Slots -> SlotType]
    BY <1>1, <2>1, <2>2 DEF WorkType, SlotType, Running
  <2>4. WorkerOnly(w)
    BY <1>1, <2>1 DEF WorkerOnly
  <2>5. /\ work'[w].pc = "clear" /\ work'[w].t0 = 0 /\ work'[w].scope = work[w].scope
        /\ work'[w].dispatch0 = work[w].dispatch0 /\ work'[w].nested_span = work[w].nested_span
        /\ slot'[w].ticks = slot[w].ticks + clock - work[w].t0
        /\ slot'[w].started = slot[w].started /\ slot'[w].body = slot[w].body
    BY <1>1, <2>1 DEF WorkType, SlotType
  <2>6. SpanInv(w)' /\ YieldInv(w)'
    BY <2>1, <2>5, WorkerSpan DEF SpanInv, YieldInv, Running, InYield
  <2>7. BodyInv(w)'
    <3>1. work[w].pc \notin {"body"} \cup InYield
      BY <2>1 DEF InYield
    <3>2. Own1(w)' = Own1(w) /\ Own2(w)' = Own2(w)
      BY <2>5, OwnSame
    <3>3. slot[w].started = work[w].t0
      BY <2>1, WorkerTypes DEF SpanInv, Running
    <3>4. Busy(w)' = slot'[w].ticks /\ Busy(w) = slot[w].ticks + (clock - work[w].t0)
      BY <1>2, <2>1, <2>2, <2>5, <3>3, WorkerTypes DEF Busy, InFlight
    <3>5. Busy(w)' = Busy(w)
      BY <2>5, <3>4, WorkerTypes
    <3> QED
      BY <2>5, <3>2, <3>5, OwnTimes, BodySame
  <2>8. slot'[w].ticks >= slot[w].ticks
    BY <2>5, WorkerTypes DEF SpanInv
  <2>9. ASSUME tracer.pc \in Snapshot PROVE Past(w)' + slot'[w].ticks >= BusyNow(w)
    BY <1>2, <2>1, <2>5, <2>9, WorkerTypes DEF SpanInv, Past, BusyNow, InFlight, Running
  <2> QED
    BY <2>3, <2>4, <2>6, <2>7, <2>8, <2>9, WorkerStep DEF WorkerInv
<1>3. CASE work[w].t0 = 0
  <2>1. /\ work' = [work EXCEPT ![w].pc = "loop", ![w].nested_span = 0]
        /\ slot' = slot /\ work[w].pc = "done"
    BY <1>3 DEF end_task
  <2>2. work' \in [Slots -> WorkType] /\ slot' \in [Slots -> SlotType] /\ WorkerOnly(w)
    BY <1>1, <2>1 DEF WorkType, Running, WorkerOnly
  <2>3. /\ work'[w].pc = "loop" /\ work'[w].t0 = 0 /\ work'[w].scope = work[w].scope
        /\ work'[w].dispatch0 = work[w].dispatch0 /\ work'[w].nested_span = 0
        /\ slot'[w] = slot[w]
    BY <1>1, <1>3, <2>1 DEF WorkType
  <2>4. SpanInv(w)' /\ YieldInv(w)'
    BY <2>1, <2>3, WorkerSpan, <1>3 DEF SpanInv, YieldInv, Running, InYield
  <2>5. BodyInv(w)'
    <3>1. work[w].pc \notin {"body"} \cup InYield
      BY <2>1 DEF InYield
    <3>2. Own1(w)' = Own1(w) /\ Own2(w)' = Own2(w)
      BY <2>3, <3>1, OwnNothing DEF Own1, Own2
    <3> QED
      BY <2>1, <2>3, <3>2, BusySame, BodySame
  <2>6. slot'[w].ticks >= slot[w].ticks /\ Past(w)' + slot'[w].ticks >= BusyNow(w)
    BY <1>3, <2>1, <2>3, WorkerTypes DEF SpanInv, Past, BusyNow, InFlight, Running
  <2> QED
    BY <2>2, <2>4, <2>5, <2>6, WorkerStep DEF WorkerInv
<1> QED
  BY <1>1, <1>2, <1>3, WorkerTypes

-----------------------------------------------------------------------------
(* Time passes *)

\* A tick is added to the busy time of a worker in a timed task and to at most one
\* of its scopes.
LEMMA Step_Tick ==
    ASSUME BusyInv, Tick,
           UNCHANGED <<busy_tracking, trace_owner_armed, slot, work, crossed, tracer>>
    PROVE  BusyInv'
<1>1. clock \in Nat /\ clock # 0 /\ clock' = clock + 1 /\ tracer.now \in Nat
  BY DEF BusyInv, BusyTypeInv, Tick
<1>2. BusyTypeInv' /\ ArmedInv'
  BY <1>1 DEF BusyInv, BusyTypeInv, ArmedInv
<1>3. SnapshotInv'
  BY <1>1 DEF BusyInv, SnapshotInv, FloorInv, BusyNow, Past, InFlight, SlotValue
<1>4. ASSUME NEW w \in Slots
      PROVE  WorkerInv(w)'
  <2>1. SpanInv(w)' /\ YieldInv(w)'
    BY <1>1, WorkerTypes DEF SpanInv, YieldInv
  <2>2. BodyInv(w)'
    <3>1. PICK g \in {0, 1} :
            /\ Own1(w)' = Own1(w) + g
            /\ g = 1 => work[w].scope[1].active /\ work[w].dispatch0 = 0
      <4>1. OwnTime(w, 1)' = OwnTime(w, 1) + 1 /\ OwnTime(w, 1) \in Int
        <5>1. PICK t \in Int, n \in Int, m \in Int :
                t = work[w].scope[1].t0 /\ n = work[w].nested_span /\ m = work[w].scope[1].nested0
          BY WorkerTypes
        <5> QED
          BY <1>1, <5>1 DEF OwnTime
      <4>2. CASE work[w].scope[1].active /\ work[w].dispatch0 = 0
        BY <4>1, <4>2 DEF Own1
      <4>3. CASE work[w].scope[1].active /\ work[w].dispatch0 # 0
        <5>1. PICK d \in Int, o \in Int : d = work[w].dispatch0 /\ o = OwnTime(w, 1)
          BY <4>1, WorkerTypes
        <5>2. Own1(w) = o - (clock - d) /\ Own1(w)' = (o + 1) - (clock + 1 - d)
          BY <1>1, <4>1, <4>3, <5>1 DEF Own1
        <5>3. Own1(w)' = Own1(w) + 0
          BY <1>1, <5>2
        <5> QED
          BY <5>3
      <4>4. CASE ~ work[w].scope[1].active
        BY <4>4 DEF Own1
      <4> QED
        BY <4>2, <4>3, <4>4
    <3>2. PICK h \in {0, 1} :
            Own2(w)' = Own2(w) + h /\ (h = 1 => work[w].scope[2].active)
      <4>1. OwnTime(w, 2)' = OwnTime(w, 2) + 1 /\ OwnTime(w, 2) \in Int
        <5>1. PICK t \in Int, n \in Int, m \in Int :
                t = work[w].scope[2].t0 /\ n = work[w].nested_span /\ m = work[w].scope[2].nested0
          BY WorkerTypes
        <5> QED
          BY <1>1, <5>1 DEF OwnTime
      <4> QED
        BY <4>1 DEF Own2
    <3>3. PICK f \in {0, 1} : Busy(w)' = Busy(w) + f /\ (f = 0 => ~ InFlight(w))
      <4>1. PICK t \in Int, st \in Int : t = slot[w].ticks /\ st = slot[w].started
        BY WorkerTypes
      <4>2. CASE InFlight(w)
        <5>1. Busy(w) = t + (clock - st) /\ Busy(w)' = t + (clock + 1 - st)
          BY <1>1, <4>1, <4>2 DEF Busy, InFlight
        <5>2. Busy(w)' = Busy(w) + 1
          BY <1>1, <5>1
        <5> QED
          BY <5>2
      <4>3. CASE ~ InFlight(w)
        <5>1. Busy(w) = t + 0 /\ Busy(w)' = t + 0
          BY <4>1, <4>3 DEF Busy, InFlight
        <5>2. Busy(w)' = Busy(w) + 0
          BY <5>1
        <5> QED
          BY <4>3, <5>2
      <4> QED
        BY <4>2, <4>3
    <3>4. work[w].scope[1].active \/ work[w].scope[2].active => InFlight(w)
      BY WorkerTypes DEF SpanInv, InFlight, InYield
    <3>5. w \notin crossed /\ g = 1 => h = 0
      BY <3>1, <3>2, WorkerTypes DEF SpanInv, YieldInv, InYield
    <3>6. g + h <= f \/ w \in crossed
      BY <3>1, <3>2, <3>3, <3>4, <3>5
    <3>7. PICK b \in Int, c \in Int, d \in Int, e \in Int :
            b = slot[w].body /\ c = Own1(w) /\ d = Own2(w) /\ e = Busy(w)
      BY OwnTimes
    <3>8. c >= 0 /\ d >= 0 /\ (w \notin crossed => b + c + d <= e)
      BY <3>7, OwnTimes
    <3>9. c + g >= 0 /\ d + h >= 0 /\ (w \notin crossed => b + (c + g) + (d + h) <= e + f)
      BY <3>6, <3>8
    <3> QED
      BY <3>1, <3>2, <3>3, <3>7, <3>9 DEF BodyInv
  <2> QED
    BY <2>1, <2>2 DEF WorkerInv
<1> QED
  BY <1>2, <1>3, <1>4 DEF BusyInv

-----------------------------------------------------------------------------
(* The tracer's steps *)

\* Arming and disarming: the scopes' flag goes up once the workers' is, and a worker in
\* a yield entered disarmed under a timed functor is recorded at that step.
LEMMA Step_arming ==
    ASSUME BusyInv, arm \/ arm_scopes \/ disarm_scopes \/ disarm, UNCHANGED <<clock, slot, work>>
    PROVE  BusyInv'
<1> USE DEF Tracer
<1>1. /\ tracer.pc \in {"off", "arming", "disarm", "disarming"} /\ tracer'.pc \notin Snapshot
      /\ tracer'.short = {} /\ crossed \subseteq crossed' /\ trace_owner_armed \in Int
  BY DEF arm, arm_scopes, disarm_scopes, disarm, BusyInv, BusyTypeInv, SnapshotInv, Snapshot
<1>2. BusyTypeInv' /\ ArmedInv'
  <2>1. BusyTypeInv /\ ArmedInv
    BY DEF BusyInv
  <2>2. CASE arm
    <3>1. tracer' = [tracer EXCEPT !.pc = "arming", !.traces = tracer.traces + 1]
          /\ tracer.pc = "off" /\ tracer.traces \in Nat
      BY <2>1, <2>2 DEF arm, BusyTypeInv
    <3>2. tracer.traces + 1 \in Nat /\ busy_tracking + 1 \in Int
      BY <2>1, <3>1 DEF BusyTypeInv
    <3> QED
      BY <2>1, <2>2, <3>1, <3>2 DEF arm, BusyTypeInv, ArmedInv
  <2>3. CASE arm_scopes
    BY <2>1, <2>3 DEF arm_scopes, BusyTypeInv, ArmedInv, Snapshot
  <2>4. CASE disarm_scopes
    BY <2>1, <2>4 DEF disarm_scopes, BusyTypeInv, ArmedInv, Snapshot
  <2>5. CASE disarm
    BY <2>1, <2>5 DEF disarm, BusyTypeInv, ArmedInv, Snapshot
  <2> QED
    BY <2>2, <2>3, <2>4, <2>5
<1>4. SnapshotInv'
  BY <1>1 DEF SnapshotInv
<1>5. ASSUME NEW w \in Slots
      PROVE  WorkerInv(w)'
  <2>1. SpanInv(w)' /\ BodyInv(w)'
    BY <1>1, WorkerTypes DEF SpanInv, BodyInv, Own1, Own2, OwnTime, Busy, InFlight
  <2>2. YieldInv(w)'
    <3>1. YieldInv(w) /\ ArmedInv
      BY WorkerTypes DEF BusyInv
    <3>2. CASE arm \/ disarm
      BY <3>1, <3>2 DEF arm, disarm, YieldInv
    <3>3. CASE arm_scopes
      BY <3>1, <3>3 DEF arm_scopes, YieldInv, InYield
    <3>4. CASE disarm_scopes
      BY <3>1, <3>4 DEF disarm_scopes, YieldInv, ArmedInv
    <3> QED
      BY <3>2, <3>3, <3>4
  <2> QED
    BY <2>1, <2>2 DEF WorkerInv
<1> QED
  BY <1>2, <1>4, <1>5 DEF BusyInv

\* What the reads of a snapshot leave alone.
LEMMA ReadsOnly ==
    ASSUME BusyInv, UNCHANGED <<clock, busy_tracking, trace_owner_armed, slot, work, crossed>>
    PROVE  \A w \in Slots : WorkerInv(w)' /\ slot'[w] = slot[w] /\ InFlight(w)' = InFlight(w)
  BY DEF BusyInv, WorkerInv, SpanInv, YieldInv, BodyInv, Own1, Own2, OwnTime, Busy, InFlight

\* The clock is read: what every worker has been busy for by then is the floor.
LEMMA Step_read_clock ==
    ASSUME BusyInv, read_clock,
           UNCHANGED <<clock, busy_tracking, trace_owner_armed, slot, work, crossed>>
    PROVE  BusyInv'
<1>1. clock \in Nat /\ \A w \in Slots : Busy(w) \in Nat
  BY WorkerTypes DEF Busy, SpanInv, BusyInv, BusyTypeInv
<1> DEFINE floors == [w \in Slots |-> Busy(w)]
<1>2. floors \in [Slots -> Nat]
  BY <1>1
<1>3. /\ tracer'.pc = "ticks" /\ tracer'.now = clock /\ tracer'.left = Slots
      /\ tracer'.floor = floors /\ tracer'.short = {} /\ tracer.pc \in {"begin", "armed"}
      /\ tracer' = [tracer EXCEPT !.pc = "ticks", !.folding = tracer.pc = "armed",
                                  !.now = clock, !.left = Slots, !.floor = floors, !.short = {}]
  BY DEF read_clock, BusyInv, BusyTypeInv
<1> HIDE DEF floors
<1>4. BusyTypeInv'
  BY <1>1, <1>2, <1>3 DEF BusyInv, BusyTypeInv, Snapshot
<1>5. ArmedInv'
  BY <1>3 DEF BusyInv, ArmedInv
<1>6. ASSUME NEW w \in Slots
      PROVE  FloorInv(w)'
  <2>1. floors[w] = Busy(w)
    BY DEF floors
  <2>2. Busy(w) <= BusyNow(w)'
    BY <1>1, <1>3, WorkerTypes DEF Busy, BusyNow, Past, InFlight, SpanInv
  <2> QED
    BY <1>3, <2>1, <2>2 DEF FloorInv
<1>7. SnapshotInv'
  BY <1>1, <1>3, <1>6 DEF SnapshotInv
<1> QED
  BY <1>4, <1>5, <1>7, ReadsOnly DEF BusyInv

\* Only one slot is being read.
LEMMA OneReading ==
    ASSUME BusyInv, NEW w \in Slots, NEW v \in Slots, w \in tracer.left, v \in tracer.left,
           \A x \in tracer.left : w <= x, \A x \in tracer.left : v <= x
    PROVE  v = w
  BY BusyAssumption

\* `ticks`, then `started`: what the pair gives is enough as long as `ticks` stays.
LEMMA Step_read_pair ==
    ASSUME BusyInv, NEW w \in Slots, read_ticks(w) \/ read_started(w),
           UNCHANGED <<clock, busy_tracking, trace_owner_armed, slot, work, crossed>>
    PROVE  BusyInv'
<1>1. /\ tracer.pc \in {"ticks", "started"} /\ tracer'.pc \in {"started", "again"}
      /\ w \in tracer.left /\ \A v \in tracer.left : w <= v
      /\ tracer'.now = tracer.now /\ tracer'.left = tracer.left /\ tracer'.floor = tracer.floor
      /\ tracer'.short = tracer.short
      /\ tracer'.pc = "started" => tracer'.ticks = slot[w].ticks
      /\ tracer'.pc = "again" => /\ tracer.pc = "started" /\ tracer'.ticks = tracer.ticks
                                 /\ tracer'.started = slot[w].started
  <2>1. BusyTypeInv
    BY DEF BusyInv
  <2>2. CASE read_ticks(w)
    BY <2>1, <2>2 DEF read_ticks, Reading, BusyTypeInv
  <2>3. CASE read_started(w)
    BY <2>1, <2>3 DEF read_started, Reading, BusyTypeInv
  <2> QED
    BY <2>2, <2>3
<1>2. BusyTypeInv'
  <2>1. BusyTypeInv /\ slot[w].ticks \in Nat /\ slot[w].started \in Nat
    BY WorkerTypes DEF BusyInv
  <2> QED
    BY <2>1 DEF read_ticks, read_started, BusyTypeInv, Snapshot
<1>3. ArmedInv'
  BY <1>1 DEF BusyInv, ArmedInv
<1>4. ASSUME NEW v \in Slots
      PROVE  FloorInv(v)'
  <2>1. FloorInv(v)
    BY <1>1 DEF BusyInv, SnapshotInv, Snapshot
  <2>2. BusyNow(v)' = BusyNow(v)
    BY <1>1 DEF BusyNow, Past, InFlight
  <2>3. v \in tracer.left => tracer'.floor[v] <= BusyNow(v)'
    BY <1>1, <2>1, <2>2 DEF FloorInv
  <2>4. ASSUME v \in tracer.left, \A x \in tracer.left : v <= x
        PROVE  /\ v = w /\ tracer'.ticks <= slot[w].ticks
               /\ tracer'.pc = "again" /\ tracer'.ticks = slot[w].ticks
                    => tracer'.floor[w] <= SlotValue'
    <3>1. v = w
      BY <1>1, <2>4, OneReading
    <3>2. tracer'.ticks <= slot[w].ticks
      BY <1>1, <2>1, <2>4, <3>1, WorkerTypes DEF FloorInv
    <3>3. ASSUME tracer'.pc = "again", tracer'.ticks = slot[w].ticks
          PROVE  tracer'.floor[w] <= SlotValue'
      <4>1. tracer'.floor[w] <= BusyNow(w)' /\ tracer'.floor[w] \in Nat
        BY <1>1, <2>3, <2>4, <3>1 DEF BusyInv, BusyTypeInv
      <4>2. BusyNow(w)' <= SlotValue' /\ BusyNow(w)' \in Int /\ SlotValue' \in Int
        BY <1>1, <3>3, WorkerTypes DEF BusyNow, Past, InFlight, SlotValue
      <4> QED
        BY <4>1, <4>2
    <3> QED
      BY <3>1, <3>2, <3>3
  <2> QED
    BY <1>1, <2>3, <2>4 DEF FloorInv
<1>5. SnapshotInv'
  BY <1>1, <1>4 DEF BusyInv, SnapshotInv, Snapshot
<1> QED
  BY <1>2, <1>3, <1>5, ReadsOnly DEF BusyInv

\* The pair is taken if `ticks` is still what it was, and read again otherwise.
LEMMA Step_read_again ==
    ASSUME BusyInv, NEW w \in Slots, read_again(w),
           UNCHANGED <<clock, busy_tracking, trace_owner_armed, slot, work, crossed>>
    PROVE  BusyInv'
<1>1. /\ tracer.pc = "again" /\ w \in tracer.left /\ \A v \in tracer.left : w <= v
      /\ tracer \in [pc : {"off", "arming", "begin", "armed", "disarm", "disarming"} \cup Snapshot,
                     folding : BOOLEAN, now : Nat, left : SUBSET Slots, ticks : Nat,
                     started : Nat, floor : [Slots -> Nat], short : SUBSET Slots, traces : Nat]
      /\ FloorInv(w)
  BY DEF read_again, Reading, BusyInv, BusyTypeInv, SnapshotInv, Snapshot
<1>2. CASE slot[w].ticks # tracer.ticks
  <2>1. tracer' = [tracer EXCEPT !.pc = "ticks", !.ticks = 0, !.started = 0]
    BY <1>2 DEF read_again
  <2>2. /\ tracer'.pc = "ticks" /\ tracer'.now = tracer.now /\ tracer'.left = tracer.left
        /\ tracer'.floor = tracer.floor /\ tracer'.short = tracer.short
    BY <1>1, <2>1
  <2>3. BusyTypeInv' /\ ArmedInv'
    BY <1>1, <2>1, <2>2 DEF BusyInv, BusyTypeInv, ArmedInv, Snapshot
  <2>4. SnapshotInv'
    BY <1>1, <2>2 DEF BusyInv, SnapshotInv, FloorInv, BusyNow, Past, InFlight, Snapshot
  <2> QED
    BY <2>3, <2>4, ReadsOnly DEF BusyInv
<1>3. CASE slot[w].ticks = tracer.ticks
  <2> DEFINE fell == {v \in {w} : SlotValue < tracer.floor[v]}
             to   == IF tracer.left # {w} THEN "ticks"
                     ELSE IF tracer.folding THEN "disarm" ELSE "armed"
             floors == [tracer.floor EXCEPT ![w] = 0]
             at   == IF tracer.left # {w} THEN tracer.now ELSE 0
  <2>1. tracer.floor[w] <= SlotValue
    BY <1>1, <1>3 DEF FloorInv
  <2>2. fell = {}
    <3>1. SlotValue \in Int /\ tracer.floor[w] \in Int
      BY <1>1 DEF SlotValue
    <3> QED
      BY <2>1, <3>1
  <2>3. tracer' = [tracer EXCEPT !.ticks = 0, !.started = 0, !.floor[w] = 0, !.left = @ \ {w},
                                 !.now = at, !.short = @ \cup fell, !.pc = to]
    BY <1>1, <1>3 DEF read_again, Take
  <2>4. to \in {"ticks", "disarm", "armed"} /\ at \in Nat /\ floors \in [Slots -> Nat]
        /\ (to = "ticks" => at = tracer.now)
    BY <1>1
  <2> HIDE DEF fell, to, floors, at
  <2>5. tracer' = [tracer EXCEPT !.ticks = 0, !.started = 0, !.floor = floors,
                                 !.left = tracer.left \ {w}, !.now = at,
                                 !.short = tracer.short, !.pc = to]
    BY <1>1, <2>2, <2>3 DEF floors
  <2>6. /\ tracer'.pc = to /\ tracer'.left = tracer.left \ {w} /\ tracer'.floor = floors
        /\ tracer'.now = at /\ tracer'.short = tracer.short
    BY <1>1, <2>5
  <2>7. BusyTypeInv'
    BY <1>1, <2>4, <2>5 DEF BusyInv, BusyTypeInv, Snapshot
  <2>8. ArmedInv'
    BY <1>1, <2>4, <2>6 DEF BusyInv, ArmedInv
  <2>9. ASSUME NEW v \in Slots, to = "ticks"
        PROVE  FloorInv(v)'
    <3>1. FloorInv(v)
      BY <1>1 DEF BusyInv, SnapshotInv, Snapshot
    <3>2. v # w => floors[v] = tracer.floor[v]
      BY <1>1 DEF floors
    <3>3. BusyNow(v)' = BusyNow(v)
      BY <2>4, <2>6, <2>9 DEF BusyNow, Past, InFlight
    <3> QED
      BY <2>6, <2>9, <3>1, <3>2, <3>3 DEF FloorInv
  <2>10. SnapshotInv'
    BY <1>1, <2>4, <2>6, <2>9 DEF BusyInv, SnapshotInv, Snapshot
  <2> QED
    BY <2>7, <2>8, <2>10, ReadsOnly DEF BusyInv
<1> QED
  BY <1>2, <1>3

-----------------------------------------------------------------------------
(* The theorems *)

\* BusyInv is an invariant of the specification.
THEOREM BusyInductive == BusySpec => []BusyInv
<1>1. BusyInit => BusyInv
  <2> SUFFICES ASSUME BusyInit PROVE BusyInv
    OBVIOUS
  <2> USE DEF BusyInit
  <2>1. Scope \in ScopeType /\ Scope.active = FALSE
    BY DEF Scope, ScopeType
  <2>2. BusyTypeInv
    BY <2>1 DEF BusyTypeInv, WorkType, SlotType
  <2>3. ArmedInv
    BY DEF ArmedInv
  <2>4. SnapshotInv
    BY DEF SnapshotInv, Snapshot
  <2>5. ASSUME NEW w \in Slots
        PROVE  WorkerInv(w)
    <3>1. /\ work[w].pc = "loop" /\ work[w].t0 = 0 /\ work[w].dispatch0 = 0
          /\ work[w].scope[1].active = FALSE /\ work[w].scope[2].active = FALSE
          /\ slot[w].ticks = 0 /\ slot[w].started = 0 /\ slot[w].body = 0
      BY <2>1
    <3> QED
      BY <3>1
         DEF WorkerInv, SpanInv, YieldInv, BodyInv, Own1, Own2, Busy, InFlight, Running,
             InYield
  <2> QED
    BY <2>2, <2>3, <2>4, <2>5 DEF BusyInv
<1>2. BusyInv /\ [BusyNext]_busyVars => BusyInv'
  <2> SUFFICES ASSUME BusyInv, [BusyNext]_busyVars PROVE BusyInv'
    OBVIOUS
  <2>1. CASE Tick /\ UNCHANGED <<busy_tracking, trace_owner_armed, slot, work, crossed, tracer>>
    BY <2>1, Step_Tick
  <2>2. ASSUME NEW w \in Slots, WorkStep(w),
               UNCHANGED <<clock, busy_tracking, trace_owner_armed, crossed, tracer>>
        PROVE  BusyInv'
    BY <2>2, Step_find_work_dispatch, Step_scan_hit, Step_scan_miss, Step_begin_task, Step_open,
       Step_close, Step_yield_to_higher, Step_open_nested, Step_close_nested, Step_yield_return,
       Step_end_task, Step_clear_started DEF WorkStep
  <2>3. CASE (arm \/ arm_scopes \/ disarm_scopes \/ disarm) /\ UNCHANGED <<clock, slot, work>>
    BY <2>3, Step_arming
  <2>4. CASE /\ read_clock
             /\ UNCHANGED <<clock, busy_tracking, trace_owner_armed, slot, work, crossed>>
    BY <2>4, Step_read_clock
  <2>5. ASSUME NEW w \in Slots, read_ticks(w) \/ read_started(w) \/ read_again(w),
               UNCHANGED <<clock, busy_tracking, trace_owner_armed, slot, work, crossed>>
        PROVE  BusyInv'
    BY <2>5, Step_read_pair, Step_read_again
  <2>6. CASE UNCHANGED busyVars
    <3>1. UNCHANGED <<clock, busy_tracking, trace_owner_armed, slot, work, crossed>> /\ UNCHANGED tracer
      BY <2>6 DEF busyVars
    <3>2. BusyTypeInv' /\ ArmedInv'
      BY <3>1 DEF BusyInv, BusyTypeInv, ArmedInv
    <3>3. SnapshotInv'
      BY <3>1 DEF BusyInv, SnapshotInv, FloorInv, BusyNow, Past, InFlight, SlotValue
    <3> QED
      BY <3>1, <3>2, <3>3, ReadsOnly DEF BusyInv
  <2> QED
    BY <2>1, <2>2, <2>3, <2>4, <2>5, <2>6 DEF BusyNext
<1> QED
  BY <1>1, <1>2, PTL DEF BusySpec

\* A snapshot of the counters drops no span that was complete or in flight when the
\* clock was read, and the time booked to functors stays within the busy time, for
\* every number of workers and of traced runs and at every moment of arming and
\* disarming.
THEOREM BusyTrackingExact == BusySpec => []BusyExact
<1>1. BusyInv => BusyExact
  <2> SUFFICES ASSUME BusyInv PROVE BusyExact
    OBVIOUS
  <2>1. ASSUME NEW w \in Slots \ crossed
        PROVE  slot[w].body <= Busy(w)
    <3>1. slot[w].body \in Nat /\ Busy(w) \in Int /\ Own1(w) \in Int /\ Own2(w) \in Int
      BY WorkerTypes DEF Busy, Own1, Own2, OwnTime
    <3> QED
      BY <3>1, WorkerTypes DEF BodyInv
  <2>2. SnapshotDropsNothing
    BY DEF BusyInv, SnapshotInv, SnapshotDropsNothing
  <2> QED
    BY <2>1, <2>2 DEF BusyExact, BodyWithinBusy
<1> QED
  BY <1>1, BusyInductive, PTL

-----------------------------------------------------------------------------
(* ParallelFor: the inductive invariant *)

Outstanding == {"body", "account", "band"}      \* a chunk is claimed and not counted
Closing     == {"reset", "advance"}             \* the band is counted to the end
Active      == Outstanding \cup Closing
FlatOnly    == {"claim", "skip", "account"}
ColoredOnly == {"spin", "parked", "cas", "band", "reset", "advance"}
Labels      == {"queued", "loop", "body", "leave", "wait", "exit"} \cup FlatOnly \cup ColoredOnly

Items(x) == chunk[x].from..(chunk[x].to - 1)
Range0(n) == 0..(n - 1)

\* The items of the current phase that were claimed and counted.
Accounted ==
    {i \in Range0(BandSize(phase)) :
        i < next /\ \A x \in Executors : pc[x] \in Outstanding => i \notin Items(x)}

LoopTypes ==
    /\ loop \in Loops
    /\ next \in Nat /\ phase \in Nat /\ done \in Nat /\ refs \in Nat
    /\ skipped \in BOOLEAN /\ requested \in BOOLEAN /\ freed \in BOOLEAN
    /\ cur \in [Executors -> Nat \X Nat]
    /\ pc \in [Executors -> Labels \ (IF Colored THEN FlatOnly ELSE ColoredOnly)]
    /\ DOMAIN chunk = Executors /\ chunk = [x \in Executors |-> chunk[x]]
    /\ DOMAIN ran = Range0(TotalPhases) /\ ran = [p \in Range0(TotalPhases) |-> ran[p]]
    /\ \A p \in Range0(TotalPhases) : ran[p] \in [Range0(BandSize(p)) -> {0, 1}]
    /\ phase <= TotalPhases /\ (~Colored => phase = 0)

RanDomain == DOMAIN ran = Range0(TotalPhases) /\ ran = [p \in Range0(TotalPhases) |-> ran[p]]

\* The chunks in hand are parts of the current phase, claimed below next, and no two
\* have an item in common; a claim that is tried is one of an open phase.
ClaimInv ==
    /\ \A x \in Executors :
        /\ pc[x] \in Active => phase < TotalPhases /\ chunk[x].phase = phase
        /\ pc[x] \in Outstanding =>
            /\ chunk[x] = [phase |-> phase, from |-> chunk[x].from, to |-> chunk[x].to]
            /\ chunk[x].from \in Nat /\ chunk[x].to \in Nat /\ chunk[x].from < chunk[x].to
            /\ chunk[x].to <= next /\ chunk[x].to <= BandSize(phase)
        /\ pc[x] = "cas" => cur[x][1] < TotalPhases /\ cur[x][2] < BandSize(cur[x][1])
    /\ \A x, y \in Executors : x # y /\ pc[x] \in Outstanding /\ pc[y] \in Outstanding =>
        chunk[x].to <= chunk[y].from \/ chunk[y].to <= chunk[x].from

\* done counts the items accounted for, but between the reset of a band's count and
\* the publication of the next; only one executor closes a band, alone with it.
LoopCounts ==
    /\ phase < TotalPhases /\ (\A x \in Executors : pc[x] # "advance") =>
        done = Cardinality(Accounted)
    /\ \A x \in Executors : pc[x] \in Closing =>
        /\ next >= BandSize(phase)
        /\ \A y \in Executors : pc[y] \notin Outstanding /\ (y # x => pc[y] \notin Closing)
        /\ pc[x] = "advance" /\ phase + 1 < TotalPhases => done = 0

\* What was run: every item of the phases before, none of those after, and of the
\* current phase what was claimed and not skipped, but for the bodies to come.
RanInv ==
    /\ \A p \in Range0(TotalPhases) : \A i \in Range0(BandSize(p)) :
        /\ p < phase => ran[p][i] = 1
        /\ p > phase => ran[p][i] = 0
    /\ phase < TotalPhases => \A i \in Range0(BandSize(phase)) :
        /\ i >= next => ran[phase][i] = 0
        /\ \A x \in Executors : pc[x] = "body" /\ i \in Items(x) => ran[phase][i] = 0
        /\ (i < next /\ ~skipped /\ \A x \in Executors : pc[x] = "body" => i \notin Items(x)) =>
            ran[phase][i] = 1
    /\ skipped => /\ requested /\ ~Colored
                  /\ \E i \in Range0(BandSize(0)) :
                        /\ i < next /\ ran[0][i] = 0
                        /\ \A x \in Executors : pc[x] = "body" => i \notin Items(x)

\* The task is settled by the count that ends the last phase.
SettleInv ==
    /\ settled \in {<<>>, <<"completed">>, <<"cancelled">>}
    /\ Colored => settled = IF phase = TotalPhases THEN <<"completed">> ELSE <<>>
    /\ ~Colored => (settled = <<>> <=> done # BandSize(0))
    /\ settled = <<"completed">> =>
        \A p \in Range0(TotalPhases) : \A i \in Range0(BandSize(p)) : ran[p][i] = 1
    /\ settled = <<"cancelled">> => requested /\ \E i \in Range0(BandSize(0)) : ran[0][i] = 0

\* One reference for every executor that has not left.
Present == {x \in Executors : pc[x] # "exit"}
RefInv  == refs = Cardinality(Present) /\ (freed <=> Present = {})

\* An executor skips for a request only.
SkipInv == \A x \in Executors : pc[x] = "skip" => requested

LoopInv == LoopTypes /\ ClaimInv /\ LoopCounts /\ RanInv /\ SettleInv /\ RefInv /\ SkipInv

-----------------------------------------------------------------------------
(* The loop's sizes *)

\* A set of naturals with a member has a least one.
LEMMA LeastNatural ==
    ASSUME NEW T \in SUBSET Nat, T # {}
    PROVE  \E x \in T : \A y \in T : x <= y
<1>1. PICK x \in T : \A y \in T : ~(<<y, x>> \in OpToRel(<, Nat))
  BY NatLessThanWellFounded, WFMin
<1>2. \A y \in T : ~(y < x)
  BY <1>1 DEF OpToRel
<1> QED
  BY <1>2

\* A sequence of naturals that is not empty has a greatest member: the first n
\* members of the shortest prefix without one, less the last, would have one.
LEMMA GreatestMember ==
    ASSUME NEW s \in Seq(Nat), s # <<>>
    PROVE  \E b \in DOMAIN s : \A c \in DOMAIN s : s[c] <= s[b]
<1> DEFINE Has(n) == \E b \in 1..n : \A c \in 1..n : s[c] <= s[b]
           T == {n \in 1..Len(s) : ~Has(n)}
<1>1. DOMAIN s = 1..Len(s) /\ Len(s) \in Nat /\ Len(s) >= 1 /\ \A b \in 1..Len(s) : s[b] \in Nat
  OBVIOUS
<1>2. CASE T # {}
  <2>1. T \in SUBSET Nat
    BY <1>1
  <2>2. PICK m \in T : \A k \in T : m <= k
    BY <1>2, <2>1, LeastNatural
  <2>3. m \in 1..Len(s) /\ ~Has(m)
    OBVIOUS
  <2>4. m # 1
    BY <1>1, <2>3
  <2>5. m - 1 \in 1..Len(s) /\ Has(m - 1)
    <3>1. m - 1 \in 1..Len(s) /\ ~(m <= m - 1)
      BY <1>1, <2>3, <2>4
    <3>2. m - 1 \notin T
      BY <2>2, <3>1
    <3> HIDE DEF Has
    <3> QED
      BY <3>1, <3>2
  <2>6. PICK b \in 1..(m - 1) : \A c \in 1..(m - 1) : s[c] <= s[b]
    BY <2>5
  <2>7. \A c \in 1..m : c = m \/ c \in 1..(m - 1)
    BY <2>3
  <2>8. Has(m)
    <3>1. CASE s[m] <= s[b]
      <4>1. b \in 1..m /\ \A c \in 1..m : s[c] <= s[b]
        BY SMTT(60), <2>3, <2>6, <2>7, <3>1
      <4> QED
        BY <4>1
    <3>2. CASE s[b] <= s[m]
      <4>0. s[m] \in Nat /\ s[b] \in Nat /\ \A c \in 1..(m - 1) : s[c] \in Nat
        <5> HIDE DEF Has, T
        <5>1. m \in 1..Len(s)
          BY <2>3
        <5>2. b \in 1..Len(s) /\ \A c \in 1..(m - 1) : c \in 1..Len(s)
          BY <1>1, <5>1
        <5> QED
          BY <1>1, <5>1, <5>2
      <4>1. \A c \in 1..(m - 1) : s[c] <= s[m]
        <5>1. \A i, j, k \in Nat : i <= j /\ j <= k => i <= k
          OBVIOUS
        <5> QED
          BY <2>6, <3>2, <4>0, <5>1
      <4>2. s[m] <= s[m] /\ m \in 1..m
        <5> HIDE DEF Has, T
        <5>1. m \in Nat /\ m >= 1
          BY <1>1, <2>3
        <5> QED
          BY <4>0, <5>1
      <4>3. \A c \in 1..m : s[c] <= s[m]
        BY <2>7, <4>1, <4>2
      <4> QED
        BY <4>2, <4>3
    <3> QED
      BY SMTT(60), <1>1, <2>3, <3>1, <3>2
  <2> QED
    BY <2>3, <2>8
<1>3. CASE T = {}
  <2>1. Len(s) \in 1..Len(s)
    BY <1>1
  <2>2. Has(Len(s))
    BY <1>3, <2>1
  <2> QED
    BY <1>1, <2>2
<1> QED
  BY <1>2, <1>3

\* A loop has a phase, every phase an item, and every loop an executor and a helper
\* entry for each it submits; a claim takes at least one item.
LEMMA LoopFacts ==
    ASSUME loop \in Loops
    PROVE  /\ TotalPhases \in Nat /\ TotalPhases > 0
           /\ \A p \in Nat : BandSize(p) \in Nat /\ BandSize(p) > 0
           /\ \A p, c \in Nat : LET g == claim_grain(BandSize(p), c, effective_workers(loop))
                                IN g \in Nat /\ g > 0
           /\ NumHelpers \in Nat /\ NumHelpers <= Cardinality(Helpers)
           /\ ~Colored => TotalPhases = 1
<1>1. /\ loop.kind \in {"for", "async", "colored"}
      /\ loop.balance \in {"unbalanced", "balanced", "guided"}
      /\ loop.bands \in Seq(Nat \ {0}) /\ loop.bands # <<>>
      /\ loop.rounds \in Nat \ {0} /\ loop.workers \in Int
      /\ loop.kind # "colored" => Len(loop.bands) = 1 /\ loop.rounds = 1
  BY LoopsAssumption
<1>2. Len(loop.bands) \in Nat /\ Len(loop.bands) > 0 /\ DOMAIN loop.bands = 1..Len(loop.bands)
      /\ \A b \in DOMAIN loop.bands : loop.bands[b] \in Nat \ {0}
  BY <1>1
<1>3. TotalPhases \in Nat /\ TotalPhases > 0 /\ (~Colored => TotalPhases = 1)
  <2>1. \A a, b \in Nat \ {0} : a * b \in Nat \ {0}
    OBVIOUS
  <2> QED
    BY SMTT(60), <1>1, <1>2, <2>1 DEF TotalPhases, Colored
<1>4. \A p \in Nat : BandSize(p) \in Nat /\ BandSize(p) > 0
  <2> SUFFICES ASSUME NEW p \in Nat PROVE BandSize(p) \in Nat \ {0}
    OBVIOUS
  <2>1. \A a \in Nat, b \in Nat \ {0} : (a % b) + 1 \in 1..b
    OBVIOUS
  <2>2. (p % Len(loop.bands)) + 1 \in 1..Len(loop.bands)
    <3>1. Len(loop.bands) \in Nat \ {0}
      BY <1>2
    <3> QED
      BY <2>1, <3>1, Zenon
  <2> QED
    BY <1>2, <2>2 DEF BandSize
<1>5. Widest(loop) \in Nat \ {0}
  <2>1. loop.bands \in Seq(Nat)
    BY <1>1
  <2>2. PICK b \in DOMAIN loop.bands : \A c \in DOMAIN loop.bands : loop.bands[c] <= loop.bands[b]
    BY <1>1, <2>1, GreatestMember
  <2> DEFINE W == {loop.bands[c] : c \in DOMAIN loop.bands}
  <2>3. \E w \in W : \A c \in DOMAIN loop.bands : loop.bands[c] <= w
    BY <2>2
  <2>4. Widest(loop) \in W
    BY <2>3 DEF Widest
  <2> QED
    BY <1>2, <2>4
<1>6. effective_workers(loop) \in Nat /\ effective_workers(loop) > 0
  BY <1>1, <1>5 DEF effective_workers, Smaller, Larger
<1>7. \A p, c \in Nat : LET g == claim_grain(BandSize(p), c, effective_workers(loop))
                        IN g \in Nat /\ g > 0
  <2> SUFFICES ASSUME NEW p \in Nat, NEW c \in Nat
               PROVE  LET g == claim_grain(BandSize(p), c, effective_workers(loop)) IN g \in Nat /\ g > 0
    OBVIOUS
  <2>1. \A a \in Int, w \in Nat \ {0} : a \div w \in Int
    OBVIOUS
  <2>2. \A a \in Int : Larger(a, 1) \in Nat /\ Larger(a, 1) > 0
    BY DEF Larger
  <2> DEFINE n == BandSize(p)
             w == effective_workers(loop)
  <2>3. n \in Nat /\ w \in Nat \ {0} /\ 2 * w \in Nat \ {0} /\ n + w - 1 \in Int /\ n - c \in Int
    BY <1>4, <1>6
  <2>4. (n + w - 1) \div w \in Int /\ (n - c) \div (2 * w) \in Int
    BY <2>1, <2>3
  <2> QED
    BY <1>1, <2>2, <2>4 DEF claim_grain
<1>8. NumHelpers \in Nat /\ NumHelpers <= Cardinality(Helpers)
  <2>1. effective_workers(loop) <= Cardinality(Helpers) /\ Cardinality(Helpers) \in Nat
    BY HelpersAssumption, LoopsAssumption, FS_CardinalityType
  <2> QED
    BY <1>6, <2>1 DEF NumHelpers
<1> QED
  BY <1>3, <1>4, <1>7, <1>8

\* What the loop is does not change while it runs.
LEMMA SameLoop ==
    ASSUME loop' = loop
    PROVE  /\ TotalPhases' = TotalPhases /\ (Colored' <=> Colored)
           /\ phase' = phase => BandSize(phase)' = BandSize(phase)
           /\ \A p : BandSize(p)' = BandSize(p)
BY DEF TotalPhases, Colored, BandSize

\* There are n numbers below n.
LEMMA RangeSize ==
    ASSUME NEW n \in Nat
    PROVE  IsFiniteSet(Range0(n)) /\ Cardinality(Range0(n)) = n
<1>1. 0 \in Int /\ n - 1 \in Int /\ (IF 0 > n - 1 THEN 0 ELSE (n - 1) - 0 + 1) = n
  OBVIOUS
<1> QED
  BY <1>1, FS_Interval DEF Range0

-----------------------------------------------------------------------------
(* The steps *)

\* Nobody leaves.
LEMMA PresentSame ==
    ASSUME RefInv, refs' = refs, freed' = freed,
           \A y \in Executors : pc'[y] = "exit" <=> pc[y] = "exit"
    PROVE  RefInv'
<1>1. Present' = Present
  BY DEF Present
<1> QED
  BY <1>1 DEF RefInv

\* A step that claims, runs and counts nothing: at most next goes further beyond
\* the end of the phase.
LEMMA IdleKeeps ==
    ASSUME LoopInv, loop' = loop, phase' = phase, done' = done, settled' = settled, ran' = ran,
           chunk' = chunk, skipped' = skipped, requested => requested',
           next' \in Nat,
           next' = next \/ (next >= BandSize(phase) /\ next' >= BandSize(phase)),
           \A y \in Executors : (pc[y] \in Active \/ pc'[y] \in Active) => pc'[y] = pc[y],
           \A y \in Executors : pc'[y] = "cas" =>
                cur'[y][1] < TotalPhases /\ cur'[y][2] < BandSize(cur'[y][1])
    PROVE  ClaimInv' /\ LoopCounts' /\ RanInv' /\ SettleInv'
<1>0. /\ TotalPhases' = TotalPhases /\ (Colored' <=> Colored) /\ BandSize(phase)' = BandSize(phase)
      /\ \A p : BandSize(p)' = BandSize(p)
  BY SameLoop
<1>1. LoopTypes /\ ClaimInv /\ LoopCounts /\ RanInv /\ SettleInv
  BY DEF LoopInv
<1>2. /\ TotalPhases \in Nat /\ BandSize(phase) \in Nat /\ phase \in Nat /\ next \in Nat
  BY <1>1, LoopFacts DEF LoopTypes
<1>3. /\ \A y \in Executors : pc'[y] \in Outstanding <=> pc[y] \in Outstanding
      /\ \A y \in Executors : pc'[y] \in Closing <=> pc[y] \in Closing
      /\ \A y \in Executors : pc'[y] \in Active => pc'[y] = pc[y]
      /\ \A y \in Executors : pc[y] \in Active => pc'[y] = pc[y]
      /\ \A y \in Executors : pc'[y] = "body" <=> pc[y] = "body"
      /\ \A y \in Executors : pc'[y] = "advance" <=> pc[y] = "advance"
  BY DEF Active, Outstanding, Closing
<1>4. \A y : Items(y)' = Items(y)
  BY DEF Items
<1>5. \A i \in Range0(BandSize(phase)) : (i < next' <=> i < next) /\ (i >= next' <=> i >= next) /\ i \in Nat
  BY <1>2 DEF Range0
<1>6. ClaimInv'
  <2>1. \A y \in Executors : pc'[y] \in Outstanding => chunk'[y].to <= next'
    <3> SUFFICES ASSUME NEW y \in Executors, pc'[y] \in Outstanding PROVE chunk[y].to <= next'
      OBVIOUS
    <3>1. chunk[y].to \in Nat /\ chunk[y].to <= next /\ chunk[y].to <= BandSize(phase)
      BY <1>1, <1>3 DEF ClaimInv
    <3> QED
      BY <1>2, <3>1
  <2>2. \A y : BandSize(cur[y][1])' = BandSize(cur'[y][1])
    BY DEF BandSize
  <2> QED
    BY <1>0, <1>1, <1>3, <2>1, <2>2 DEF ClaimInv, Active
<1>7. LoopCounts'
  <2>1. Accounted' = Accounted
    BY <1>0, <1>3, <1>4, <1>5 DEF Accounted
  <2>2. next >= BandSize(phase) => next' >= BandSize(phase)
    OBVIOUS
  <2> QED
    BY <1>0, <1>1, <1>3, <2>1, <2>2 DEF LoopCounts
<1>8. RanInv'
  <2>1. \A p \in Range0(TotalPhases) : \A i \in Range0(BandSize(p)) :
            (p < phase => ran[p][i] = 1) /\ (p > phase => ran[p][i] = 0)
    BY <1>1 DEF RanInv
  <2>2. ASSUME phase < TotalPhases, NEW i \in Range0(BandSize(phase))
        PROVE  /\ i >= next' => ran[phase][i] = 0
               /\ \A x \in Executors : pc'[x] = "body" /\ i \in Items(x) => ran[phase][i] = 0
               /\ (i < next' /\ ~skipped /\ \A x \in Executors : pc'[x] = "body" => i \notin Items(x)) =>
                    ran[phase][i] = 1
    BY <1>1, <1>3, <1>5, <2>2 DEF RanInv
  <2>3. ASSUME skipped
        PROVE  /\ requested /\ ~Colored
               /\ \E i \in Range0(BandSize(0)) :
                    /\ i < next' /\ ran[0][i] = 0
                    /\ \A x \in Executors : pc'[x] = "body" => i \notin Items(x)
    <3>1. requested /\ ~Colored
      BY <1>1, <2>3 DEF RanInv
    <3>2. phase = 0
      BY <1>1, <3>1 DEF LoopTypes
    <3> QED
      BY <1>1, <1>3, <1>5, <2>3, <3>1, <3>2 DEF RanInv
  <2> QED
    BY <1>0, <1>4, <2>1, <2>2, <2>3 DEF RanInv
<1>9. SettleInv'
  BY <1>0, <1>1 DEF SettleInv
<1> QED
  BY <1>6, <1>7, <1>8, <1>9

\* x claims the items next..(to - 1), to run them or, cancelled, to skip them.
LEMMA TakeKeeps ==
    ASSUME LoopInv, NEW x \in Executors, NEW l \in {"body", "account"}, NEW to \in Nat,
           phase < TotalPhases, next < to, to <= BandSize(phase),
           next' \in Nat, to <= next', to = BandSize(phase) \/ next' = to,
           pc[x] \notin Active, pc' = [pc EXCEPT ![x] = l],
           chunk' = [chunk EXCEPT ![x] = [phase |-> phase, from |-> next, to |-> to]],
           loop' = loop, phase' = phase, done' = done, settled' = settled, ran' = ran, cur' = cur,
           requested' = requested,
           l = "body" => skipped' = skipped,
           l = "account" => skipped' = TRUE /\ requested /\ ~Colored
    PROVE  ClaimInv' /\ LoopCounts' /\ RanInv' /\ SettleInv'
<1>0. /\ TotalPhases' = TotalPhases /\ (Colored' <=> Colored) /\ BandSize(phase)' = BandSize(phase)
      /\ \A p : BandSize(p)' = BandSize(p)
  BY SameLoop
<1>1. LoopTypes /\ ClaimInv /\ LoopCounts /\ RanInv /\ SettleInv
  BY DEF LoopInv
<1>2. /\ TotalPhases \in Nat /\ BandSize(phase) \in Nat /\ phase \in Nat /\ next \in Nat
      /\ DOMAIN pc = Executors /\ DOMAIN chunk = Executors
  BY <1>1, LoopFacts DEF LoopTypes
<1>3. /\ pc'[x] = l /\ \A y \in Executors \ {x} : pc'[y] = pc[y]
      /\ chunk'[x] = [phase |-> phase, from |-> next, to |-> to]
      /\ \A y \in Executors \ {x} : chunk'[y] = chunk[y]
  BY <1>2
<1>4. \A y \in Executors : pc[y] \notin Closing /\ pc'[y] \notin Closing
  <2>1. \A y \in Executors : pc[y] \notin Closing
    BY <1>1, <1>2 DEF LoopCounts
  <2> QED
    BY <1>3, <2>1 DEF Closing
<1>5. /\ Items(x)' = next..(to - 1) /\ pc'[x] \in Outstanding /\ pc[x] \notin Outstanding
      /\ pc[x] # "body"
      /\ \A y \in Executors \ {x} : Items(y)' = Items(y)
  BY <1>3 DEF Items, Outstanding, Active
<1>6. \A y \in Executors : pc[y] \in Outstanding =>
        chunk[y].from \in Nat /\ chunk[y].to \in Nat /\ chunk[y].to <= next
  BY <1>1 DEF ClaimInv
<1>7. \A i \in Range0(BandSize(phase)) : i \in Nat /\ i < BandSize(phase)
  BY <1>2 DEF Range0
<1>8. /\ \A i \in Nat : i \in next..(to - 1) <=> i >= next /\ i < to
      /\ \A y \in Executors : \A i \in Nat : pc[y] \in Outstanding /\ i \in Items(y) => i < next
    BY <1>2, <1>6 DEF Items
<1>9. ClaimInv'
  <2>1. ASSUME NEW y \in Executors
        PROVE  /\ pc'[y] \in Active => chunk'[y].phase = phase
               /\ pc'[y] \in Outstanding =>
                    /\ chunk'[y] = [phase |-> phase, from |-> chunk'[y].from, to |-> chunk'[y].to]
                    /\ chunk'[y].from \in Nat /\ chunk'[y].to \in Nat /\ chunk'[y].from < chunk'[y].to
                    /\ chunk'[y].to <= next' /\ chunk'[y].to <= BandSize(phase)
               /\ pc'[y] = "cas" => cur[y][1] < TotalPhases /\ cur[y][2] < BandSize(cur[y][1])
    <3>1. CASE y = x
      BY <1>2, <1>3, <3>1
    <3>2. CASE y # x
      <4>1. pc'[y] = pc[y] /\ chunk'[y] = chunk[y]
        BY <1>3, <3>2
      <4>2. \A i \in Nat : i <= next => i <= next'
        BY <1>2
      <4> QED
        BY <1>1, <4>1, <4>2 DEF ClaimInv
    <3> QED
      BY <3>1, <3>2
  <2>2. ASSUME NEW y \in Executors, NEW z \in Executors, y # z, pc'[y] \in Outstanding, pc'[z] \in Outstanding
        PROVE  chunk'[y].to <= chunk'[z].from \/ chunk'[z].to <= chunk'[y].from
    <3>1. CASE y # x /\ z # x
      BY <1>1, <1>3, <2>2, <3>1 DEF ClaimInv
    <3>2. CASE y = x \/ z = x
      BY <1>3, <1>6, <2>2, <3>2
    <3> QED
      BY <3>1, <3>2
  <2>3. \A y : BandSize(cur[y][1])' = BandSize(cur[y][1])
    BY DEF BandSize
  <2> QED
    BY <1>0, <2>1, <2>2, <2>3 DEF ClaimInv
<1>10. LoopCounts'
  <2>1. ASSUME NEW i \in Range0(BandSize(phase))
        PROVE  (i < next' /\ \A y \in Executors : pc'[y] \in Outstanding => i \notin Items(y)')
               <=> (i < next /\ \A y \in Executors : pc[y] \in Outstanding => i \notin Items(y))
    <3>1. i \in Nat /\ i < BandSize(phase)
      BY <1>7
    <3>2. CASE i < next
      <4>1. i < next' /\ i \notin next..(to - 1)
        BY <1>2, <3>1, <3>2
      <4> QED
        BY <1>3, <1>5, <3>2, <4>1
    <3>3. CASE i >= next
      <4>1. i < next' => i \in next..(to - 1)
        BY <1>2, <3>1, <3>3
      <4> QED
        BY <1>2, <1>5, <3>1, <3>3, <4>1
    <3> QED
      BY <1>2, <3>1, <3>2, <3>3
  <2>2. Accounted' = Accounted
    BY <1>0, <2>1 DEF Accounted
  <2>3. \A y \in Executors : pc[y] # "advance" /\ pc'[y] # "advance"
    BY <1>4 DEF Closing
  <2> QED
    BY <1>0, <1>1, <1>4, <2>2, <2>3 DEF LoopCounts
<1>11. RanInv'
  <2>1. \A p \in Range0(TotalPhases) : \A i \in Range0(BandSize(p)) :
            (p < phase => ran[p][i] = 1) /\ (p > phase => ran[p][i] = 0)
    BY <1>1 DEF RanInv
  <2>2. ASSUME NEW i \in Range0(BandSize(phase))
        PROVE  /\ i >= next' => ran[phase][i] = 0
               /\ \A y \in Executors : pc'[y] = "body" /\ i \in Items(y)' => ran[phase][i] = 0
               /\ (i < next' /\ ~skipped' /\ \A y \in Executors : pc'[y] = "body" => i \notin Items(y)') =>
                    ran[phase][i] = 1
    <3>0. /\ i \in Nat /\ i < BandSize(phase)
          /\ i >= next => ran[phase][i] = 0
          /\ \A y \in Executors : pc[y] = "body" /\ i \in Items(y) => ran[phase][i] = 0
          /\ (i < next /\ ~skipped /\ \A y \in Executors : pc[y] = "body" => i \notin Items(y)) =>
                ran[phase][i] = 1
      BY <1>1, <1>7 DEF RanInv
    <3>1. i >= next' => i >= next
      BY <1>2, <3>0
    <3>2. \A y \in Executors : pc'[y] = "body" /\ i \in Items(y)' => ran[phase][i] = 0
      BY <1>3, <1>5, <1>8, <3>0
    <3>3. ASSUME i < next', ~skipped', \A y \in Executors : pc'[y] = "body" => i \notin Items(y)'
          PROVE  ran[phase][i] = 1
      <4>1. l = "body" /\ ~skipped
        BY <3>3
      <4>2. i \notin next..(to - 1)
        BY <1>3, <1>5, <3>3, <4>1
      <4>3. i < next
        BY <1>2, <3>0, <3>3, <4>2
      <4>4. \A y \in Executors : pc[y] = "body" => i \notin Items(y)
        BY <1>3, <1>5, <3>3
      <4> QED
        BY <3>0, <4>1, <4>3, <4>4
    <3> QED
      BY <3>0, <3>1, <3>2, <3>3
  <2>3. ASSUME skipped'
        PROVE  /\ requested /\ ~Colored
               /\ \E i \in Range0(BandSize(0)) :
                    /\ i < next' /\ ran[0][i] = 0
                    /\ \A y \in Executors : pc'[y] = "body" => i \notin Items(y)'
    <3>1. requested /\ ~Colored
      BY <1>1, <2>3 DEF RanInv
    <3>2. phase = 0
      BY <1>1, <3>1 DEF LoopTypes
    <3>3. CASE l = "account"
      <4>1. next \in Range0(BandSize(0)) /\ next < next' /\ next \in Nat
        BY <1>2, <3>2 DEF Range0
      <4>2. ran[0][next] = 0
        BY <1>1, <3>2, <4>1 DEF RanInv
      <4>3. \A y \in Executors : pc'[y] = "body" => next \notin Items(y)'
        <5> SUFFICES ASSUME NEW y \in Executors, pc'[y] = "body" PROVE next \notin Items(y)'
          OBVIOUS
        <5>1. y # x /\ pc[y] \in Outstanding
          BY <1>3, <3>3 DEF Outstanding
        <5>2. ~(next < next)
          BY <1>2
        <5> QED
          BY <1>5, <1>8, <4>1, <5>1, <5>2
      <4> QED
        BY <3>1, <4>1, <4>2, <4>3
    <3>4. CASE l = "body"
      <4>1. PICK i \in Range0(BandSize(0)) :
                    /\ i < next /\ ran[0][i] = 0
                    /\ \A y \in Executors : pc[y] = "body" => i \notin Items(y)
        BY <1>1, <2>3, <3>4 DEF RanInv
      <4>2. i \in Nat /\ i < next' /\ i \notin next..(to - 1)
        BY <1>2, <1>7, <3>2, <4>1
      <4>3. \A y \in Executors : pc'[y] = "body" => i \notin Items(y)'
        BY <1>3, <1>5, <4>1, <4>2
      <4> QED
        BY <3>1, <4>1, <4>2, <4>3
    <3> QED
      BY <3>3, <3>4
  <2> QED
    BY <1>0, <2>1, <2>2, <2>3 DEF RanInv
<1>12. SettleInv'
  BY <1>0, <1>1 DEF SettleInv
<1> QED
  BY <1>9, <1>10, <1>11, <1>12

\* x runs the body for its chunk: its items are nobody else's, and were not run.
LEMMA BodyKeeps ==
    ASSUME LoopInv, NEW x \in Executors, body(x)
    PROVE  /\ ClaimInv' /\ LoopCounts' /\ RanInv' /\ SettleInv'
           /\ \A p \in Range0(TotalPhases) : ran'[p] \in [Range0(BandSize(p)) -> {0, 1}]
           /\ RanDomain'
<1>0. /\ loop' = loop /\ phase' = phase /\ done' = done /\ settled' = settled /\ chunk' = chunk
      /\ cur' = cur /\ requested' = requested /\ skipped' = skipped /\ next' = next
      /\ pc[x] = "body" /\ pc' = [pc EXCEPT ![x] = IF Colored THEN "band" ELSE "account"]
  BY DEF body, Goto
<1>1. LoopTypes /\ ClaimInv /\ LoopCounts /\ RanInv /\ SettleInv
  BY DEF LoopInv
<1>2. /\ TotalPhases' = TotalPhases /\ (Colored' <=> Colored) /\ BandSize(phase)' = BandSize(phase)
      /\ \A p : BandSize(p)' = BandSize(p)
  BY <1>0, SameLoop
<1>3. /\ TotalPhases \in Nat /\ BandSize(phase) \in Nat /\ phase \in Nat /\ next \in Nat
      /\ DOMAIN pc = Executors
      /\ \A p \in Nat : BandSize(p) \in Nat
  BY <1>1, LoopFacts DEF LoopTypes
<1>4. /\ pc'[x] \in {"band", "account"} /\ \A y \in Executors \ {x} : pc'[y] = pc[y]
      /\ \A y : Items(y)' = Items(y)
  BY <1>0, <1>3 DEF Items
<1>5. /\ \A y \in Executors : pc'[y] \in Outstanding <=> pc[y] \in Outstanding
      /\ \A y \in Executors : pc'[y] \in Closing <=> pc[y] \in Closing
      /\ \A y \in Executors : pc'[y] \in Active <=> pc[y] \in Active
      /\ \A y \in Executors : pc'[y] = "body" <=> pc[y] = "body" /\ y # x
      /\ \A y \in Executors : pc'[y] = "advance" <=> pc[y] = "advance"
      /\ \A y \in Executors : pc'[y] = "cas" => pc[y] = "cas"
  BY <1>0, <1>4 DEF Active, Outstanding, Closing
<1>6. /\ phase < TotalPhases /\ chunk[x].phase = phase /\ chunk[x].from \in Nat /\ chunk[x].to \in Nat
      /\ chunk[x].from < chunk[x].to /\ chunk[x].to <= next /\ chunk[x].to <= BandSize(phase)
      /\ phase \in Range0(TotalPhases)
  <2>1. pc[x] \in Outstanding /\ pc[x] \in Active
    BY <1>0 DEF Active, Outstanding
  <2>2. phase < TotalPhases
    BY <1>1, <2>1 DEF ClaimInv
  <2>3. phase \in Range0(TotalPhases)
    BY <1>3, <2>2 DEF Range0
  <2> QED
    BY <1>1, <2>1, <2>2, <2>3 DEF ClaimInv
<1>7. ran' = [ran EXCEPT ![phase] =
                [i \in DOMAIN ran[phase] |-> IF i \in Items(x) THEN ran[phase][i] + 1 ELSE ran[phase][i]]]
  BY <1>6 DEF body, Items
<1>8. /\ \A p \in Range0(TotalPhases) : p # phase => ran'[p] = ran[p]
      /\ ran'[phase] = [i \in Range0(BandSize(phase)) |->
                            IF i \in Items(x) THEN ran[phase][i] + 1 ELSE ran[phase][i]]
      /\ DOMAIN ran' = Range0(TotalPhases) /\ ran' = [p \in Range0(TotalPhases) |-> ran'[p]]
  <2>1. DOMAIN ran = Range0(TotalPhases) /\ DOMAIN ran[phase] = Range0(BandSize(phase))
    BY <1>1, <1>6 DEF LoopTypes
  <2> QED
    BY <1>6, <1>7, <2>1
<1>9. \A i \in Range0(BandSize(phase)) :
        /\ i \in Items(x) => ran[phase][i] = 0 /\ ran'[phase][i] = 1
        /\ i \notin Items(x) => ran'[phase][i] = ran[phase][i]
        /\ ran[phase][i] \in {0, 1}
  <2>1. \A i \in Range0(BandSize(phase)) : i \in Items(x) => ran[phase][i] = 0
    BY <1>0, <1>1, <1>6 DEF RanInv
  <2>2. \A i \in Range0(BandSize(phase)) : ran[phase][i] \in {0, 1}
    BY <1>1, <1>6 DEF LoopTypes
  <2> QED
    BY <1>8, <2>1, <2>2
<1>10. \A p \in Range0(TotalPhases) : ran'[p] \in [Range0(BandSize(p)) -> {0, 1}]
  <2>1. ran'[phase] \in [Range0(BandSize(phase)) -> {0, 1}]
    BY <1>8, <1>9
  <2> QED
    BY <1>1, <1>8, <2>1 DEF LoopTypes
<1>11. ClaimInv'
  <2>1. \A y : BandSize(cur[y][1])' = BandSize(cur[y][1])
    BY <1>0 DEF BandSize
  <2> QED
    BY <1>0, <1>1, <1>2, <1>5, <2>1 DEF ClaimInv
<1>12. LoopCounts'
  <2>1. Accounted' = Accounted
    BY <1>0, <1>2, <1>4, <1>5 DEF Accounted
  <2> QED
    BY <1>0, <1>1, <1>2, <1>5, <2>1 DEF LoopCounts
<1>13. RanInv'
  <2>1. ASSUME NEW p \in Range0(TotalPhases), NEW i \in Range0(BandSize(p))
        PROVE  (p < phase => ran'[p][i] = 1) /\ (p > phase => ran'[p][i] = 0)
    <3>1. CASE p = phase
      BY <1>3, <3>1
    <3>2. CASE p # phase
      BY <1>1, <1>8, <3>2 DEF RanInv
    <3> QED
      BY <3>1, <3>2
  <2>2. ASSUME NEW i \in Range0(BandSize(phase))
        PROVE  /\ i >= next => ran'[phase][i] = 0
               /\ \A y \in Executors : pc'[y] = "body" /\ i \in Items(y) => ran'[phase][i] = 0
               /\ (i < next /\ ~skipped /\ \A y \in Executors : pc'[y] = "body" => i \notin Items(y)) =>
                    ran'[phase][i] = 1
    <3>0. /\ i >= next => ran[phase][i] = 0
          /\ \A y \in Executors : pc[y] = "body" /\ i \in Items(y) => ran[phase][i] = 0
          /\ (i < next /\ ~skipped /\ \A y \in Executors : pc[y] = "body" => i \notin Items(y)) =>
                ran[phase][i] = 1
      BY <1>1, <1>6 DEF RanInv
    <3>1. i \in Nat
      BY <1>3 DEF Range0
    <3>2. CASE i \in Items(x)
      <4>1. i < next /\ ~(i >= next)
        BY <1>3, <1>6, <3>1, <3>2 DEF Items
      <4>2. ASSUME NEW y \in Executors, pc'[y] = "body" PROVE i \notin Items(y)
        <5>1. y # x /\ pc[x] \in Outstanding /\ pc[y] \in Outstanding
          BY <1>0, <1>5, <4>2 DEF Outstanding
        <5>2. /\ chunk[x].to <= chunk[y].from \/ chunk[y].to <= chunk[x].from
              /\ chunk[y].from \in Nat /\ chunk[y].to \in Nat
          BY <1>1, <5>1 DEF ClaimInv
        <5> QED
          BY <1>6, <3>1, <3>2, <5>2 DEF Items
      <4> QED
        BY <1>9, <3>2, <4>1, <4>2
    <3>3. CASE i \notin Items(x)
      BY <1>5, <1>9, <3>0, <3>3
    <3> QED
      BY <3>2, <3>3
  <2>3. ASSUME skipped
        PROVE  /\ requested /\ ~Colored
               /\ \E i \in Range0(BandSize(0)) :
                    /\ i < next /\ ran'[0][i] = 0
                    /\ \A y \in Executors : pc'[y] = "body" => i \notin Items(y)
    <3>1. requested /\ ~Colored
      BY <1>1, <2>3 DEF RanInv
    <3>2. phase = 0
      BY <1>1, <3>1 DEF LoopTypes
    <3>3. PICK i \in Range0(BandSize(0)) :
                    /\ i < next /\ ran[0][i] = 0
                    /\ \A y \in Executors : pc[y] = "body" => i \notin Items(y)
      BY <1>1, <2>3 DEF RanInv
    <3>4. i \notin Items(x)
      BY <1>0, <3>3
    <3> QED
      BY <1>5, <1>9, <3>1, <3>2, <3>3, <3>4
  <2> QED
    BY <1>0, <1>2, <1>4, <2>1, <2>2, <2>3 DEF RanInv
<1>14. settled = <<>>
  <2>1. CASE Colored
    BY <1>1, <1>3, <1>6, <2>1 DEF SettleInv
  <2>2. CASE ~Colored
    <3>1. phase = 0 /\ pc[x] \in Outstanding
      BY <1>0, <1>1, <2>2 DEF LoopTypes, Outstanding
    <3>2. done = Cardinality(Accounted)
      BY <1>1, <1>6, <3>1 DEF LoopCounts, Closing
    <3>3. chunk[x].from \in Range0(BandSize(phase)) /\ chunk[x].from \in Items(x)
      BY <1>3, <1>6 DEF Range0, Items
    <3>4. chunk[x].from \notin Accounted
      BY <3>1, <3>3 DEF Accounted
    <3>5. /\ IsFiniteSet(Range0(BandSize(phase))) /\ Cardinality(Range0(BandSize(phase))) = BandSize(phase)
      BY <1>3, RangeSize
    <3>6. Accounted \in SUBSET Range0(BandSize(phase))
      BY DEF Accounted
    <3>7. Cardinality(Accounted) # BandSize(phase)
      BY <3>3, <3>4, <3>5, <3>6, FS_Subset
    <3> QED
      BY <1>1, <2>2, <3>1, <3>2, <3>7 DEF SettleInv
  <2> QED
    BY <2>1, <2>2
<1>15. SettleInv'
  <2>1. Colored => phase # TotalPhases
    BY <1>3, <1>6
  <2>2. ~Colored => done # BandSize(0)
    BY <1>1, <1>14 DEF SettleInv
  <2>3. BandSize(0)' = BandSize(0) /\ settled' = <<>>
    BY <1>0, <1>2, <1>14
  <2>4. <<>> # <<"completed">> /\ <<>> # <<"cancelled">>
    OBVIOUS
  <2> QED
    BY <1>0, <1>2, <2>1, <2>2, <2>3, <2>4 DEF SettleInv
<1>16. RanDomain'
  BY <1>2, <1>8 DEF RanDomain
<1> QED
  BY <1>10, <1>11, <1>12, <1>13, <1>15, <1>16

\* x counts its chunk, of the items accounted for until then none.
LEMMA AccountAdds ==
    ASSUME LoopInv, NEW x \in Executors, pc[x] \in {"account", "band"},
           loop' = loop, phase' = phase, next' = next,
           done' = done + Size(chunk[x]),
           \A y \in Executors \ {x} : pc'[y] = pc[y] /\ chunk'[y] = chunk[y],
           pc'[x] \notin Outstanding \cup {"advance"}
    PROVE  /\ \A y \in Executors : pc[y] # "advance" /\ pc[y] \notin Closing
           /\ done' = Cardinality(Accounted') /\ done' \in Nat
           /\ done # BandSize(phase)
           /\ done' = BandSize(phase) =>
                next >= BandSize(phase) /\ \A y \in Executors : pc'[y] \notin Outstanding
<1>1. LoopTypes /\ ClaimInv /\ LoopCounts
  BY DEF LoopInv
<1>2. BandSize(phase)' = BandSize(phase)
  BY SameLoop
<1>3. /\ TotalPhases \in Nat /\ BandSize(phase) \in Nat /\ phase \in Nat /\ next \in Nat /\ done \in Nat
  BY <1>1, LoopFacts DEF LoopTypes
<1>4. /\ phase < TotalPhases /\ chunk[x].from \in Nat /\ chunk[x].to \in Nat
      /\ chunk[x].from < chunk[x].to /\ chunk[x].to <= next /\ chunk[x].to <= BandSize(phase)
      /\ pc[x] \in Outstanding
  BY <1>1 DEF ClaimInv, Active, Outstanding
<1>5. \A y \in Executors : pc[y] # "advance" /\ pc[y] \notin Closing
  BY <1>1, <1>4 DEF LoopCounts, Closing
<1>6. done = Cardinality(Accounted)
  BY <1>1, <1>4, <1>5 DEF LoopCounts
<1>7. \A y \in Executors \ {x} : Items(y)' = Items(y)
  BY DEF Items
<1>8. Items(x) \subseteq Range0(BandSize(phase)) /\ \A i \in Items(x) : i < next
  BY <1>3, <1>4 DEF Items, Range0
<1>9. ASSUME NEW y \in Executors \ {x}, pc[y] \in Outstanding, NEW i \in Items(x)
      PROVE  i \notin Items(y)
  <2>1. /\ chunk[x].to <= chunk[y].from \/ chunk[y].to <= chunk[x].from
        /\ chunk[y].from \in Nat /\ chunk[y].to \in Nat
    BY <1>1, <1>4, <1>9 DEF ClaimInv
  <2> QED
    BY <1>4, <2>1 DEF Items
<1>10. Accounted' = Accounted \cup Items(x)
  <2>1. ASSUME NEW i \in Range0(BandSize(phase))
        PROVE  (i < next /\ \A y \in Executors : pc'[y] \in Outstanding => i \notin Items(y)')
               <=> (\/ i < next /\ \A y \in Executors : pc[y] \in Outstanding => i \notin Items(y)
                    \/ i \in Items(x))
    <3>1. CASE i \in Items(x)
      BY <1>7, <1>8, <1>9, <3>1
    <3>2. CASE i \notin Items(x)
      BY <1>7, <3>2
    <3> QED
      BY <3>1, <3>2
  <2>2. \A i : i \in Accounted' <=> i \in Range0(BandSize(phase)) /\ i < next
                /\ \A y \in Executors : pc'[y] \in Outstanding => i \notin Items(y)'
    BY <1>2 DEF Accounted
  <2>3. \A i : i \in Accounted <=> i \in Range0(BandSize(phase)) /\ i < next
                /\ \A y \in Executors : pc[y] \in Outstanding => i \notin Items(y)
    BY DEF Accounted
  <2>4. \A i : i \in Accounted' <=> i \in Accounted \/ i \in Items(x)
    BY <1>8, <2>1, <2>2, <2>3
  <2> QED
    BY <2>4
<1>11. Accounted \cap Items(x) = {}
  BY <1>4 DEF Accounted
<1>12. /\ IsFiniteSet(Range0(BandSize(phase))) /\ Cardinality(Range0(BandSize(phase))) = BandSize(phase)
       /\ Accounted \in SUBSET Range0(BandSize(phase)) /\ Items(x) \in SUBSET Range0(BandSize(phase))
       /\ Accounted' \in SUBSET Range0(BandSize(phase))
  <2>1. Accounted \in SUBSET Range0(BandSize(phase))
    BY DEF Accounted
  <2> QED
    BY <1>3, <1>8, <1>10, <2>1, RangeSize
<1>13. Cardinality(Items(x)) = Size(chunk[x]) /\ Size(chunk[x]) \in Nat /\ Size(chunk[x]) > 0
  <2>1. chunk[x].from \in Int /\ chunk[x].to - 1 \in Int /\ ~(chunk[x].from > chunk[x].to - 1)
    BY <1>4
  <2>2. Cardinality(chunk[x].from..(chunk[x].to - 1)) = (chunk[x].to - 1) - chunk[x].from + 1
    BY <2>1, FS_Interval
  <2> QED
    BY <1>4, <2>2 DEF Items, Size
<1>14. done' = Cardinality(Accounted') /\ done' \in Nat
  <2>1. IsFiniteSet(Accounted) /\ IsFiniteSet(Items(x)) /\ Cardinality(Accounted \cap Items(x)) = 0
    BY <1>11, <1>12, FS_Subset, FS_EmptySet
  <2>2. Cardinality(Accounted \cup Items(x)) =
            Cardinality(Accounted) + Cardinality(Items(x)) - Cardinality(Accounted \cap Items(x))
    BY <2>1, FS_Union
  <2>3. Cardinality(Accounted \cup Items(x)) = done + Size(chunk[x])
    BY <1>3, <1>6, <1>13, <2>1, <2>2
  <2> QED
    BY <1>3, <1>10, <1>13, <2>3
<1>15. Cardinality(Accounted') <= BandSize(phase) /\ done # BandSize(phase)
  <2>1. Cardinality(Accounted') <= BandSize(phase)
    BY <1>12, FS_Subset
  <2> QED
    BY <1>3, <1>13, <1>14, <2>1
<1>16. ASSUME done' = BandSize(phase)
       PROVE  next >= BandSize(phase) /\ \A y \in Executors : pc'[y] \notin Outstanding
  <2>1. Accounted' = Range0(BandSize(phase))
    BY <1>12, <1>14, <1>16, FS_Subset
  <2>2. \A i \in Range0(BandSize(phase)) : i < next
            /\ \A y \in Executors : pc'[y] \in Outstanding => i \notin Items(y)'
    BY <1>2, <2>1 DEF Accounted
  <2>3. BandSize(phase) - 1 \in Range0(BandSize(phase))
    BY <1>3, <1>4 DEF Range0
  <2>4. BandSize(phase) - 1 < next
    BY <2>2, <2>3
  <2>5. ASSUME NEW y \in Executors, pc'[y] \in Outstanding PROVE FALSE
    <3>1. y # x /\ pc[y] \in Outstanding /\ Items(y)' = Items(y)
      BY <1>7, <2>5
    <3>2. chunk[y].from \in Nat /\ chunk[y].to \in Nat /\ chunk[y].from < chunk[y].to
          /\ chunk[y].to <= BandSize(phase)
      BY <1>1, <3>1 DEF ClaimInv
    <3>3. chunk[y].from \in Items(y) /\ chunk[y].from \in Range0(BandSize(phase))
      BY <1>3, <3>2 DEF Items, Range0
    <3> QED
      BY <2>2, <2>5, <3>1, <3>3
  <2> QED
    BY <1>3, <2>4, <2>5
<1> QED
  BY <1>5, <1>14, <1>15, <1>16

\* A step that changes no item of the current phase: nobody claims or runs, and x
\* alone may move on from a chunk that was run or skipped.
LEMMA RanKeeps ==
    ASSUME LoopInv, NEW x \in Executors, pc[x] # "body", pc'[x] # "body",
           loop' = loop, phase' = phase, next' = next, ran' = ran, skipped' = skipped,
           requested' = requested,
           \A y \in Executors \ {x} : pc'[y] = pc[y] /\ chunk'[y] = chunk[y]
    PROVE  RanInv'
<1>1. LoopTypes /\ RanInv
  BY DEF LoopInv
<1>2. /\ TotalPhases' = TotalPhases /\ (Colored' <=> Colored) /\ BandSize(phase)' = BandSize(phase)
      /\ \A p : BandSize(p)' = BandSize(p)
  BY SameLoop
<1>3. \A i : (\A y \in Executors : pc'[y] = "body" => i \notin Items(y)')
             <=> (\A y \in Executors : pc[y] = "body" => i \notin Items(y))
  BY DEF Items
<1>4. \A y \in Executors : \A i : pc'[y] = "body" /\ i \in Items(y)' => pc[y] = "body" /\ i \in Items(y)
  BY DEF Items
<1>5. \A p \in Range0(TotalPhases) : \A i \in Range0(BandSize(p)) :
        (p < phase => ran[p][i] = 1) /\ (p > phase => ran[p][i] = 0)
  BY <1>1 DEF RanInv
<1>6. ASSUME phase < TotalPhases, NEW i \in Range0(BandSize(phase))
      PROVE  /\ i >= next => ran[phase][i] = 0
             /\ \A y \in Executors : pc'[y] = "body" /\ i \in Items(y)' => ran[phase][i] = 0
             /\ (i < next /\ ~skipped /\ \A y \in Executors : pc'[y] = "body" => i \notin Items(y)') =>
                    ran[phase][i] = 1
  BY <1>1, <1>3, <1>4, <1>6 DEF RanInv
<1>7. ASSUME skipped
      PROVE  /\ requested /\ ~Colored
             /\ \E i \in Range0(BandSize(0)) :
                    /\ i < next /\ ran[0][i] = 0
                    /\ \A y \in Executors : pc'[y] = "body" => i \notin Items(y)'
  BY <1>1, <1>3, <1>7 DEF RanInv
<1> QED
  BY <1>2, <1>5, <1>6, <1>7 DEF RanInv

\* The chunks in hand stay as they are, but for x, which has none after the step or
\* goes on to close the band with the one it has.
LEMMA ClaimKeeps ==
    ASSUME LoopInv, NEW x \in Executors, pc'[x] \in {"loop", "reset", "advance"},
           pc'[x] \in Closing => pc[x] \in Active /\ chunk'[x] = chunk[x],
           loop' = loop, phase' = phase, next' = next, cur' = cur,
           \A y \in Executors \ {x} : pc'[y] = pc[y] /\ chunk'[y] = chunk[y]
    PROVE  ClaimInv'
<1>1. ClaimInv
  BY DEF LoopInv
<1>2. /\ TotalPhases' = TotalPhases /\ BandSize(phase)' = BandSize(phase)
  BY SameLoop
<1>3. \A y : BandSize(cur[y][1])' = BandSize(cur[y][1])
  BY DEF BandSize
<1>4. pc'[x] \notin Outstanding /\ pc'[x] # "cas" /\ (pc'[x] \in Active => pc'[x] \in Closing)
  BY DEF Outstanding, Closing, Active
<1>5. ASSUME NEW y \in Executors
      PROVE  /\ pc'[y] \in Active => phase < TotalPhases /\ chunk'[y].phase = phase
             /\ pc'[y] \in Outstanding =>
                    /\ chunk'[y] = [phase |-> phase, from |-> chunk'[y].from, to |-> chunk'[y].to]
                    /\ chunk'[y].from \in Nat /\ chunk'[y].to \in Nat /\ chunk'[y].from < chunk'[y].to
                    /\ chunk'[y].to <= next /\ chunk'[y].to <= BandSize(phase)
             /\ pc'[y] = "cas" => cur[y][1] < TotalPhases /\ cur[y][2] < BandSize(cur[y][1])
  <2>1. CASE y = x
    BY <1>1, <1>4, <2>1 DEF ClaimInv
  <2>2. CASE y # x
    <3>1. pc'[y] = pc[y] /\ chunk'[y] = chunk[y]
      BY <2>2
    <3> QED
      BY <1>1, <3>1 DEF ClaimInv
  <2> QED
    BY <2>1, <2>2
<1>6. \A y, z \in Executors : y # z /\ pc'[y] \in Outstanding /\ pc'[z] \in Outstanding =>
        chunk'[y].to <= chunk'[z].from \/ chunk'[z].to <= chunk'[y].from
  BY <1>1, <1>4 DEF ClaimInv
<1> QED
  BY <1>2, <1>3, <1>5, <1>6 DEF ClaimInv

\* The count of a chunk of a flat loop settles the task when it is the last.
LEMMA AccountKeeps ==
    ASSUME LoopInv, NEW x \in Executors, account(x)
    PROVE  ClaimInv' /\ LoopCounts' /\ RanInv' /\ SettleInv' /\ done' \in Nat
<1>0. /\ pc[x] = "account" /\ pc' = [pc EXCEPT ![x] = "loop"] /\ chunk' = [chunk EXCEPT ![x] = <<>>]
      /\ done' = done + Size(chunk[x]) /\ loop' = loop /\ next' = next /\ phase' = phase
      /\ skipped' = skipped /\ requested' = requested /\ cur' = cur /\ ran' = ran
  BY DEF account, Goto
<1>1. LoopTypes /\ ClaimInv /\ LoopCounts /\ RanInv /\ SettleInv
  BY DEF LoopInv
<1>2. /\ TotalPhases' = TotalPhases /\ (Colored' <=> Colored) /\ BandSize(phase)' = BandSize(phase)
      /\ BandSize(0)' = BandSize(0) /\ \A p : BandSize(p)' = BandSize(p)
  BY <1>0, SameLoop
<1>3. /\ pc'[x] = "loop" /\ \A y \in Executors \ {x} : pc'[y] = pc[y] /\ chunk'[y] = chunk[y]
  BY <1>0, <1>1 DEF LoopTypes
<1>4. pc'[x] \notin Outstanding \cup {"advance"} /\ pc'[x] \notin Closing /\ pc[x] \in {"account", "band"}
  BY <1>0, <1>3 DEF Outstanding, Closing
<1>5. /\ \A y \in Executors : pc[y] # "advance" /\ pc[y] \notin Closing
      /\ done' = Cardinality(Accounted') /\ done' \in Nat /\ done # BandSize(phase)
      /\ done' = BandSize(phase) =>
            next >= BandSize(phase) /\ \A y \in Executors : pc'[y] \notin Outstanding
  BY <1>0, <1>3, <1>4, AccountAdds
<1>6. ~Colored /\ phase = 0
  <2>1. ~Colored
    BY <1>0, <1>1 DEF LoopTypes, FlatOnly
  <2> QED
    BY <1>1, <2>1 DEF LoopTypes
<1>7. ClaimInv'
  BY <1>0, <1>3, <1>4, ClaimKeeps
<1>8. LoopCounts'
  <2>1. \A y \in Executors : pc'[y] \notin Closing
    BY <1>3, <1>4, <1>5
  <2> QED
    BY <1>5, <2>1 DEF LoopCounts
<1>9. RanInv'
  BY <1>0, <1>3, RanKeeps
<1>10. SettleInv'
  <2>1. settled = <<>>
    BY <1>1, <1>5, <1>6 DEF SettleInv
  <2>2. CASE done' # BandSize(0)
    <3>1. settled' = <<>> /\ <<>> # <<"completed">> /\ <<>> # <<"cancelled">>
      BY <2>1, <2>2 DEF account
    <3> QED
      BY <1>2, <1>6, <2>2, <3>1 DEF SettleInv
  <2>3. CASE done' = BandSize(0)
    <3>1. settled' = <<IF skipped THEN "cancelled" ELSE "completed">>
      BY <2>1, <2>3 DEF account
    <3>2. next >= BandSize(0) /\ \A y \in Executors : pc'[y] # "body"
      BY <1>5, <1>6, <2>3 DEF Outstanding
    <3>3. /\ TotalPhases = 1 /\ BandSize(0) \in Nat /\ next \in Nat
          /\ \A p \in Range0(TotalPhases) : p = 0 /\ p = phase
      BY <1>1, <1>6, LoopFacts DEF LoopTypes, Range0
    <3>4. CASE ~skipped
      <4>1. ASSUME NEW p \in Range0(TotalPhases), NEW i \in Range0(BandSize(p)) PROVE ran[p][i] = 1
        <5>1. p = 0 /\ i \in Nat /\ i < next /\ phase < TotalPhases
          BY <1>6, <3>2, <3>3 DEF Range0
        <5>2. \A y \in Executors : pc[y] # "body"
          BY <1>0, <1>3, <3>2
        <5> QED
          BY <1>1, <1>6, <3>4, <5>1, <5>2 DEF RanInv
      <4>2. settled' = <<"completed">> /\ <<"completed">> # <<>> /\ <<"completed">> # <<"cancelled">>
        <5>1. "completed" # "cancelled"
          OBVIOUS
        <5> QED
          BY <3>1, <3>4, <5>1
      <4> QED
        BY <1>0, <1>2, <1>6, <2>3, <4>1, <4>2 DEF SettleInv
    <3>5. CASE skipped
      <4>1. requested /\ \E i \in Range0(BandSize(0)) : ran[0][i] = 0
        BY <1>1, <3>5 DEF RanInv
      <4>2. settled' = <<"cancelled">> /\ <<"cancelled">> # <<>> /\ <<"completed">> # <<"cancelled">>
        <5>1. "completed" # "cancelled"
          OBVIOUS
        <5> QED
          BY <3>1, <3>5, <5>1
      <4> QED
        BY <1>0, <1>2, <1>6, <2>3, <4>1, <4>2 DEF SettleInv
    <3> QED
      BY <3>4, <3>5
  <2> QED
    BY <2>2, <2>3
<1> QED
  BY <1>5, <1>7, <1>8, <1>9, <1>10

\* The count of a chunk of a band; the one that ends the band is alone to close it.
LEMMA BandKeeps ==
    ASSUME LoopInv, NEW x \in Executors, band_account(x)
    PROVE  ClaimInv' /\ LoopCounts' /\ RanInv' /\ SettleInv' /\ done' \in Nat
<1>0. /\ pc[x] = "band" /\ done' = done + Size(chunk[x])
      /\ pc' = [pc EXCEPT ![x] = IF done' = BandSize(chunk[x].phase) THEN "reset" ELSE "loop"]
      /\ chunk' = chunk /\ loop' = loop /\ next' = next /\ phase' = phase /\ settled' = settled
      /\ skipped' = skipped /\ requested' = requested /\ cur' = cur /\ ran' = ran
  BY DEF band_account, Goto
<1>1. LoopTypes /\ ClaimInv /\ LoopCounts /\ RanInv /\ SettleInv
  BY DEF LoopInv
<1>2. /\ TotalPhases' = TotalPhases /\ (Colored' <=> Colored) /\ BandSize(phase)' = BandSize(phase)
      /\ BandSize(0)' = BandSize(0) /\ \A p : BandSize(p)' = BandSize(p)
  BY <1>0, SameLoop
<1>3. pc[x] \in Active /\ chunk[x].phase = phase /\ Colored
  <2>1. pc[x] \in Active
    BY <1>0 DEF Active, Outstanding
  <2>2. Colored
    BY <1>0, <1>1 DEF LoopTypes, ColoredOnly
  <2> QED
    BY <1>1, <2>1, <2>2 DEF ClaimInv
<1>4. /\ pc'[x] = (IF done' = BandSize(phase) THEN "reset" ELSE "loop")
      /\ \A y \in Executors \ {x} : pc'[y] = pc[y] /\ chunk'[y] = chunk[y]
  BY <1>0, <1>1, <1>3 DEF LoopTypes
<1>5. /\ pc'[x] \notin Outstanding \cup {"advance"} /\ pc[x] \in {"account", "band"}
      /\ pc'[x] \in Closing <=> done' = BandSize(phase)
  BY <1>0, <1>4 DEF Outstanding, Closing
<1>6. /\ \A y \in Executors : pc[y] # "advance" /\ pc[y] \notin Closing
      /\ done' = Cardinality(Accounted') /\ done' \in Nat
      /\ done' = BandSize(phase) =>
            next >= BandSize(phase) /\ \A y \in Executors : pc'[y] \notin Outstanding
  BY <1>0, <1>4, <1>5, AccountAdds
<1>7. ClaimInv'
  BY <1>0, <1>3, <1>4, ClaimKeeps
<1>8. LoopCounts'
  <2>1. \A y \in Executors : pc'[y] # "advance" /\ (pc'[y] \in Closing => y = x)
    BY <1>4, <1>5, <1>6
  <2>2. ASSUME NEW y \in Executors, pc'[y] \in Closing
        PROVE  /\ next' >= BandSize(phase)'
               /\ \A z \in Executors : pc'[z] \notin Outstanding /\ (z # y => pc'[z] \notin Closing)
    BY <1>0, <1>2, <1>5, <1>6, <2>1, <2>2
  <2> QED
    BY <1>6, <2>1, <2>2 DEF LoopCounts
<1>9. RanInv'
  BY <1>0, <1>4, RanKeeps
<1>10. SettleInv'
  BY <1>0, <1>1, <1>2, <1>3 DEF SettleInv
<1> QED
  BY <1>6, <1>7, <1>8, <1>9, <1>10

\* The band's count is reset by the one that closes it.
LEMMA ResetKeeps ==
    ASSUME LoopInv, NEW x \in Executors, band_reset(x)
    PROVE  ClaimInv' /\ LoopCounts' /\ RanInv' /\ SettleInv' /\ done' \in Nat
<1>0. /\ pc[x] = "reset" /\ pc' = [pc EXCEPT ![x] = "advance"]
      /\ done' = (IF chunk[x].phase + 1 >= TotalPhases THEN done ELSE 0)
      /\ chunk' = chunk /\ loop' = loop /\ next' = next /\ phase' = phase /\ settled' = settled
      /\ skipped' = skipped /\ requested' = requested /\ cur' = cur /\ ran' = ran
  BY DEF band_reset, Goto
<1>1. LoopTypes /\ ClaimInv /\ LoopCounts /\ RanInv /\ SettleInv
  BY DEF LoopInv
<1>2. /\ TotalPhases' = TotalPhases /\ (Colored' <=> Colored) /\ BandSize(phase)' = BandSize(phase)
      /\ BandSize(0)' = BandSize(0) /\ \A p : BandSize(p)' = BandSize(p)
      /\ TotalPhases \in Nat /\ phase \in Nat
  BY <1>0, <1>1, SameLoop, LoopFacts DEF LoopTypes
<1>3. pc[x] \in Active /\ pc[x] \in Closing /\ chunk[x].phase = phase /\ Colored
  <2>1. pc[x] \in Active /\ pc[x] \in Closing
    BY <1>0 DEF Active, Closing
  <2>2. Colored
    BY <1>0, <1>1 DEF LoopTypes, ColoredOnly
  <2> QED
    BY <1>1, <2>1, <2>2 DEF ClaimInv
<1>4. /\ pc'[x] = "advance"
      /\ \A y \in Executors \ {x} : pc'[y] = pc[y] /\ chunk'[y] = chunk[y]
  BY <1>0, <1>1 DEF LoopTypes
<1>5. /\ next >= BandSize(phase)
      /\ \A y \in Executors : pc[y] \notin Outstanding /\ (y # x => pc[y] \notin Closing)
  BY <1>1, <1>3 DEF LoopCounts
<1>6. ClaimInv'
  BY <1>0, <1>3, <1>4, ClaimKeeps
<1>7. LoopCounts'
  <2>1. \A y \in Executors : pc'[y] \notin Outstanding /\ (y # x => pc'[y] \notin Closing)
    BY <1>4, <1>5 DEF Outstanding
  <2>2. phase + 1 < TotalPhases => done' = 0
    BY <1>0, <1>2, <1>3
  <2> QED
    BY <1>0, <1>2, <1>4, <1>5, <2>1, <2>2 DEF LoopCounts
<1>8. RanInv'
  BY <1>0, <1>4, RanKeeps
<1>9. SettleInv'
  BY <1>0, <1>1, <1>2, <1>3 DEF SettleInv
<1>10. done' \in Nat
  BY <1>0, <1>1 DEF LoopTypes
<1> QED
  BY <1>6, <1>7, <1>8, <1>9, <1>10

\* The next phase is published when every item of the one before was run: the count
\* starts at zero, and the last phase settles the task.
LEMMA AdvanceKeeps ==
    ASSUME LoopInv, NEW x \in Executors, advance(x)
    PROVE  ClaimInv' /\ LoopCounts' /\ RanInv' /\ SettleInv' /\ phase' \in Nat /\ phase' <= TotalPhases
<1>0. /\ pc[x] = "advance" /\ phase' = chunk[x].phase + 1 /\ next' = 0
      /\ pc' = [y \in Executors |-> IF y = x THEN (IF phase' >= TotalPhases THEN "leave" ELSE "loop")
                                    ELSE IF pc[y] = "parked" THEN "loop" ELSE pc[y]]
      /\ settled' = (IF phase' >= TotalPhases THEN Append(settled, "completed") ELSE settled)
      /\ chunk' = chunk /\ loop' = loop /\ done' = done
      /\ skipped' = skipped /\ requested' = requested /\ cur' = cur /\ ran' = ran
  <2>1. CASE phase' >= TotalPhases
    BY <2>1 DEF advance, notify_all
  <2>2. CASE ~(phase' >= TotalPhases)
    BY <2>2 DEF advance, notify_all
  <2> QED
    BY <2>1, <2>2
<1>1. LoopTypes /\ ClaimInv /\ LoopCounts /\ RanInv /\ SettleInv
  BY DEF LoopInv
<1>2. /\ TotalPhases' = TotalPhases /\ (Colored' <=> Colored)
      /\ \A p : BandSize(p)' = BandSize(p)
      /\ TotalPhases \in Nat /\ phase \in Nat /\ next \in Nat
      /\ \A p \in Nat : BandSize(p) \in Nat /\ BandSize(p) > 0
  BY <1>0, <1>1, SameLoop, LoopFacts DEF LoopTypes
<1>3. pc[x] \in Active /\ pc[x] \in Closing /\ chunk[x].phase = phase /\ Colored /\ phase < TotalPhases
  <2>1. pc[x] \in Active /\ pc[x] \in Closing
    BY <1>0 DEF Active, Closing
  <2>2. Colored
    BY <1>0, <1>1 DEF LoopTypes, ColoredOnly
  <2> QED
    BY <1>1, <2>1, <2>2 DEF ClaimInv
<1>4. /\ next >= BandSize(phase)
      /\ \A y \in Executors : pc[y] \notin Outstanding /\ (y # x => pc[y] \notin Closing)
      /\ phase + 1 < TotalPhases => done = 0
  BY <1>0, <1>1, <1>3 DEF LoopCounts
<1>5. \A y \in Executors : /\ pc'[y] \notin Active /\ pc'[y] \notin Outstanding /\ pc'[y] \notin Closing
                           /\ pc'[y] # "advance" /\ pc'[y] # "body"
                           /\ pc'[y] = "cas" => pc[y] = "cas"
  <2>1. \A y \in Executors : \/ pc'[y] \in {"leave", "loop"}
                             \/ (pc'[y] = pc[y] /\ y # x)
    BY <1>0
  <2> QED
    BY <1>4, <2>1 DEF Active, Outstanding, Closing
<1>6. phase' = phase + 1 /\ phase' \in Nat /\ phase' <= TotalPhases
  BY <1>0, <1>2, <1>3
<1>7. ClaimInv'
  <2>1. \A y : BandSize(cur[y][1])' = BandSize(cur[y][1])
    BY <1>0 DEF BandSize
  <2> QED
    BY <1>0, <1>1, <1>2, <1>5, <2>1 DEF ClaimInv
<1>8. LoopCounts'
  <2>1. Accounted' = {}
    <3> SUFFICES ASSUME NEW i \in Accounted' PROVE FALSE
      OBVIOUS
    <3>1. i < 0 /\ i \in Range0(BandSize(phase)')
      BY <1>0 DEF Accounted
    <3>2. BandSize(phase)' = BandSize(phase')
      BY <1>0 DEF BandSize
    <3>3. i \in Nat
      BY <1>2, <1>6, <3>1, <3>2 DEF Range0
    <3> QED
      BY <3>1, <3>3
  <2>2. phase' < TotalPhases => done' = 0
    BY <1>0, <1>4, <1>6
  <2>3. Cardinality(Accounted') = 0
    BY <2>1, FS_EmptySet
  <2> QED
    BY <1>2, <1>5, <2>2, <2>3 DEF LoopCounts
<1>9. \A i \in Range0(BandSize(phase)) : ran[phase][i] = 1
  <2> SUFFICES ASSUME NEW i \in Range0(BandSize(phase)) PROVE ran[phase][i] = 1
    OBVIOUS
  <2>1. i < next /\ \A y \in Executors : pc[y] # "body"
    BY <1>2, <1>4 DEF Range0, Outstanding
  <2>2. ~skipped
    BY <1>1, <1>3 DEF RanInv
  <2> QED
    BY <1>1, <1>3, <2>1, <2>2 DEF RanInv
<1>10. ASSUME NEW p \in Range0(TotalPhases), NEW i \in Range0(BandSize(p))
       PROVE  (p <= phase => ran[p][i] = 1) /\ (p > phase => ran[p][i] = 0)
  <2>1. p \in Nat
    BY <1>2 DEF Range0
  <2>2. CASE p = phase
    BY <1>2, <1>9, <2>2
  <2>3. CASE p # phase
    BY <1>1, <1>2, <2>1, <2>3 DEF RanInv
  <2> QED
    BY <2>2, <2>3
<1>11. RanInv'
  <2>1. ~skipped
    BY <1>1, <1>3 DEF RanInv
  <2>2. ASSUME NEW p \in Range0(TotalPhases), NEW i \in Range0(BandSize(p))
        PROVE  (p < phase' => ran[p][i] = 1) /\ (p > phase' => ran[p][i] = 0)
    <3>1. p \in Nat /\ (p < phase' => p <= phase) /\ (p > phase' => p > phase)
      BY <1>2, <1>6 DEF Range0
    <3> QED
      BY <1>10, <3>1
  <2>3. ASSUME phase' < TotalPhases, NEW i \in Range0(BandSize(phase'))
        PROVE  ran[phase'][i] = 0 /\ ~(i < 0)
    <3>1. phase' \in Range0(TotalPhases) /\ phase' > phase /\ i \in Nat
      BY <1>2, <1>6, <2>3 DEF Range0
    <3> QED
      BY <1>10, <3>1
  <2>4. BandSize(phase)' = BandSize(phase')
    BY <1>0 DEF BandSize
  <2> QED
    BY <1>0, <1>2, <1>5, <2>1, <2>2, <2>3, <2>4 DEF RanInv
<1>12. SettleInv'
  <2>1. settled = <<>>
    BY <1>1, <1>2, <1>3 DEF SettleInv
  <2>2. "completed" # "cancelled"
    OBVIOUS
  <2>3. CASE phase' >= TotalPhases
    <3>1. /\ settled' = <<"completed">> /\ phase' = TotalPhases
          /\ <<"completed">> # <<>> /\ <<"completed">> # <<"cancelled">>
      <4>1. settled' = <<"completed">>
        BY <1>0, <2>1, <2>3
      <4>2. phase' = TotalPhases
        BY <1>2, <1>6, <2>3
      <4>3. <<"completed">>[1] = "completed" /\ <<"cancelled">>[1] = "cancelled" /\ Len(<<"completed">>) = 1
        OBVIOUS
      <4>4. <<"completed">> # <<>>
        BY <4>3
      <4>5. <<"completed">> # <<"cancelled">>
        BY <2>2, <4>3
      <4> QED  BY <4>1, <4>2, <4>4, <4>5
    <3>2. ASSUME NEW p \in Range0(TotalPhases), NEW i \in Range0(BandSize(p)) PROVE ran[p][i] = 1
      <4>1. p <= phase
        BY <1>2, <1>6, <3>1 DEF Range0
      <4> QED
        BY <1>10, <4>1
    <3> QED
      BY <1>0, <1>2, <1>3, <3>1, <3>2 DEF SettleInv
  <2>4. CASE ~(phase' >= TotalPhases)
    <3>1. /\ settled' = <<>> /\ phase' # TotalPhases
          /\ <<"completed">> # <<>> /\ <<"cancelled">> # <<>>
      BY <1>0, <1>2, <1>6, <2>1, <2>4
    <3> QED
      BY <1>0, <1>2, <1>3, <3>1 DEF SettleInv
  <2> QED
    BY <2>3, <2>4
<1> QED
  BY <1>6, <1>7, <1>8, <1>11, <1>12

\* The types of what a step at x leaves alone but for pc, and of cur and chunk.
LEMMA TypeKeeps ==
    ASSUME LoopTypes, loop' = loop, phase' = phase, next' \in Nat, done' \in Nat, refs' \in Nat,
           skipped' \in BOOLEAN, requested' \in BOOLEAN, freed' \in BOOLEAN,
           cur' \in [Executors -> Nat \X Nat],
           pc' \in [Executors -> Labels \ (IF Colored THEN FlatOnly ELSE ColoredOnly)],
           chunk' = chunk \/ \E x \in Executors : \E c : chunk' = [chunk EXCEPT ![x] = c],
           ran' = ran
    PROVE  LoopTypes'
<1>1. /\ TotalPhases' = TotalPhases /\ (Colored' <=> Colored) /\ \A p : BandSize(p)' = BandSize(p)
  BY SameLoop
<1>2. DOMAIN chunk' = Executors /\ chunk' = [x \in Executors |-> chunk'[x]]
  BY DEF LoopTypes
<1>3. /\ loop' \in Loops /\ phase' \in Nat /\ phase' <= TotalPhases' /\ (~Colored' => phase' = 0)
  BY <1>1 DEF LoopTypes
<1>4. /\ DOMAIN ran' = Range0(TotalPhases') /\ ran' = [p \in Range0(TotalPhases') |-> ran'[p]]
      /\ \A p \in Range0(TotalPhases') : ran'[p] \in [Range0(BandSize(p)') -> {0, 1}]
  BY <1>1 DEF LoopTypes
<1>5. pc' \in [Executors -> Labels \ (IF Colored' THEN FlatOnly ELSE ColoredOnly)]
  BY <1>1
<1> QED
  BY <1>2, <1>3, <1>4, <1>5 DEF LoopTypes

\* A label an executor may come to.
LEMMA GotoType ==
    ASSUME LoopTypes, NEW x \in Executors, NEW l, pc' = [pc EXCEPT ![x] = l],
           l \in Labels, Colored => l \notin FlatOnly, ~Colored => l \notin ColoredOnly
    PROVE  pc' \in [Executors -> Labels \ (IF Colored THEN FlatOnly ELSE ColoredOnly)]
BY DEF LoopTypes

\* The claim of a flat loop and the skip of a cancelled one.
LEMMA FlatKeeps ==
    ASSUME LoopInv, NEW x \in Executors, look(x) \/ claim(x) \/ skip(x)
    PROVE  LoopTypes' /\ ClaimInv' /\ LoopCounts' /\ RanInv' /\ SettleInv'
<1>0. LoopTypes /\ ClaimInv /\ DOMAIN pc = Executors /\ DOMAIN cur = Executors
  BY DEF LoopInv, LoopTypes
<1>1. /\ TotalPhases \in Nat /\ TotalPhases > 0 /\ next \in Nat /\ BandSize(0) \in Nat /\ BandSize(0) > 0
      /\ \A c \in Nat : LET g == claim_grain(BandSize(0), c, effective_workers(loop)) IN g \in Nat /\ g > 0
  BY <1>0, LoopFacts DEF LoopTypes
<1>2. ~Colored /\ phase = 0
  <2>1. pc[x] \in {"claim", "skip"} => ~Colored
    BY <1>0 DEF LoopTypes, FlatOnly
  <2>2. ~Colored
    BY <2>1 DEF look, claim, skip
  <2> QED
    BY <1>0, <2>2 DEF LoopTypes
<1>3. pc[x] \in {"loop", "claim", "skip"} /\ pc[x] \notin Active
  BY DEF look, claim, skip, Active, Outstanding, Closing
<1>4. ASSUME NEW l \in {"skip", "claim", "leave"}, pc' = [pc EXCEPT ![x] = l]
      PROVE  /\ \A y \in Executors : (pc[y] \in Active \/ pc'[y] \in Active) => pc'[y] = pc[y]
             /\ \A y \in Executors : pc'[y] = "cas" => pc[y] = "cas"
             /\ pc' \in [Executors -> Labels \ (IF Colored THEN FlatOnly ELSE ColoredOnly)]
  <2>1. /\ pc'[x] = l /\ \A y \in Executors \ {x} : pc'[y] = pc[y]
        /\ l \notin Active /\ l \in Labels /\ l \notin ColoredOnly
    BY <1>0, <1>4 DEF Active, Outstanding, Closing, Labels, FlatOnly, ColoredOnly
  <2>2. pc' \in [Executors -> Labels \ (IF Colored THEN FlatOnly ELSE ColoredOnly)]
    BY <1>0, <1>2, <1>4, <2>1, GotoType
  <2> QED
    BY <1>3, <1>4, <2>1, <2>2
<1>5. \A y \in Executors : pc[y] # "cas"
  BY <1>0, <1>2 DEF LoopTypes, ColoredOnly
<1>6. CASE look(x)
  <2>1. /\ loop' = loop /\ phase' = phase /\ done' = done /\ settled' = settled /\ ran' = ran
        /\ chunk' = chunk /\ skipped' = skipped /\ requested' = requested /\ next' = next
        /\ refs' = refs /\ freed' = freed /\ cur' = [cur EXCEPT ![x] = <<0, next>>]
        /\ \E l \in {"skip", "claim", "leave"} : pc' = [pc EXCEPT ![x] = l]
    BY <1>6 DEF look, Goto
  <2>2. cur' \in [Executors -> Nat \X Nat]
    BY <1>0, <1>1, <2>1 DEF LoopTypes
  <2>3. /\ \A y \in Executors : (pc[y] \in Active \/ pc'[y] \in Active) => pc'[y] = pc[y]
        /\ \A y \in Executors : pc'[y] # "cas"
        /\ pc' \in [Executors -> Labels \ (IF Colored THEN FlatOnly ELSE ColoredOnly)]
    BY <1>4, <1>5, <2>1
  <2>4. ClaimInv' /\ LoopCounts' /\ RanInv' /\ SettleInv'
    BY <1>1, <2>1, <2>3, IdleKeeps
  <2>5. LoopTypes'
    <3>1. /\ next' \in Nat /\ done' \in Nat /\ refs' \in Nat /\ skipped' \in BOOLEAN
          /\ requested' \in BOOLEAN /\ freed' \in BOOLEAN
      BY <1>0, <2>1 DEF LoopTypes
    <3> QED
      BY <1>0, <2>1, <2>2, <2>3, <3>1, TypeKeeps
  <2> QED
    BY <2>4, <2>5
<1>7. CASE (claim(x) \/ skip(x)) /\ next >= BandSize(0)
  <2>1. /\ loop' = loop /\ phase' = phase /\ done' = done /\ settled' = settled /\ ran' = ran
        /\ skipped' = skipped /\ requested' = requested
        /\ refs' = refs /\ freed' = freed /\ cur' = cur /\ pc' = [pc EXCEPT ![x] = "leave"]
        /\ chunk' = chunk \/ chunk' = [chunk EXCEPT ![x] = chunk[x]]
        /\ next' = BandSize(0) \/ next' = next + claim_grain(BandSize(0), cur[x][2], effective_workers(loop))
    BY <1>7 DEF claim, skip, Goto
  <2>2. chunk' = chunk
    BY <1>0, <2>1 DEF LoopTypes
  <2>3. next' \in Nat /\ next' >= BandSize(phase) /\ next >= BandSize(phase)
    <3>1. cur[x][2] \in Nat
      BY <1>0 DEF LoopTypes
    <3> QED
      BY <1>1, <1>2, <1>7, <2>1, <3>1
  <2>4. /\ \A y \in Executors : (pc[y] \in Active \/ pc'[y] \in Active) => pc'[y] = pc[y]
        /\ \A y \in Executors : pc'[y] # "cas"
        /\ pc' \in [Executors -> Labels \ (IF Colored THEN FlatOnly ELSE ColoredOnly)]
    BY <1>4, <1>5, <2>1
  <2>5. ClaimInv' /\ LoopCounts' /\ RanInv' /\ SettleInv'
    BY <2>1, <2>2, <2>3, <2>4, IdleKeeps
  <2>6. LoopTypes'
    <3>1. /\ done' \in Nat /\ refs' \in Nat /\ skipped' \in BOOLEAN
          /\ requested' \in BOOLEAN /\ freed' \in BOOLEAN /\ cur' \in [Executors -> Nat \X Nat]
      BY <1>0, <2>1 DEF LoopTypes
    <3> QED
      BY <1>0, <2>1, <2>2, <2>3, <2>4, <3>1, TypeKeeps
  <2> QED
    BY <2>5, <2>6
<1>8. ASSUME NEW l \in {"body", "account"}, NEW to \in Nat, next < to, to <= BandSize(0),
             next' \in Nat, to <= next', to = BandSize(0) \/ next' = to,
             pc' = [pc EXCEPT ![x] = l],
             chunk' = [chunk EXCEPT ![x] = [phase |-> 0, from |-> next, to |-> to]],
             loop' = loop, phase' = phase, done' = done, settled' = settled, ran' = ran, cur' = cur,
             requested' = requested, refs' = refs, freed' = freed,
             l = "body" => skipped' = skipped, l = "account" => skipped' = TRUE /\ requested
      PROVE  LoopTypes' /\ ClaimInv' /\ LoopCounts' /\ RanInv' /\ SettleInv'
  <2>1. ClaimInv' /\ LoopCounts' /\ RanInv' /\ SettleInv'
    BY <1>1, <1>2, <1>3, <1>8, TakeKeeps
  <2>2. pc' \in [Executors -> Labels \ (IF Colored THEN FlatOnly ELSE ColoredOnly)]
    BY <1>0, <1>2, <1>8, GotoType DEF Labels, FlatOnly, ColoredOnly
  <2>3. /\ done' \in Nat /\ refs' \in Nat /\ skipped' \in BOOLEAN
        /\ requested' \in BOOLEAN /\ freed' \in BOOLEAN /\ cur' \in [Executors -> Nat \X Nat]
    BY <1>0, <1>8 DEF LoopTypes
  <2>4. LoopTypes'
    BY <1>0, <1>8, <2>2, <2>3, TypeKeeps
  <2> QED
    BY <2>1, <2>4
<1>9. CASE claim(x) /\ ~(next >= BandSize(0))
  <2> DEFINE g  == claim_grain(BandSize(0), cur[x][2], effective_workers(loop))
             to == Smaller(next + g, BandSize(0))
  <2>1. g \in Nat /\ g > 0
    BY <1>0, <1>1 DEF LoopTypes
  <2>2. /\ next' = next + g /\ chunk' = [chunk EXCEPT ![x] = [phase |-> 0, from |-> next, to |-> to]]
        /\ pc' = [pc EXCEPT ![x] = "body"]
        /\ loop' = loop /\ phase' = phase /\ done' = done /\ settled' = settled /\ ran' = ran /\ cur' = cur
        /\ requested' = requested /\ refs' = refs /\ freed' = freed /\ skipped' = skipped
    BY <1>9 DEF claim, Goto
  <2> HIDE DEF g
  <2>3. /\ to \in Nat /\ next < to /\ to <= BandSize(0) /\ to <= next + g
        /\ to = BandSize(0) \/ next + g = to
    BY <1>1, <1>9, <2>1 DEF Smaller
  <2> HIDE DEF to
  <2>4. next' \in Nat
    BY <1>1, <2>1, <2>2
  <2> QED
    BY <1>8, <2>2, <2>3, <2>4
<1>10. CASE skip(x) /\ ~(next >= BandSize(0))
  <2>1. /\ next' = BandSize(0) /\ pc' = [pc EXCEPT ![x] = "account"]
        /\ chunk' = [chunk EXCEPT ![x] = [phase |-> 0, from |-> next, to |-> BandSize(0)]]
        /\ loop' = loop /\ phase' = phase /\ done' = done /\ settled' = settled /\ ran' = ran /\ cur' = cur
        /\ requested' = requested /\ refs' = refs /\ freed' = freed /\ skipped' = TRUE
    BY <1>10 DEF skip, Goto
  <2>2. next < BandSize(0)
    BY <1>1, <1>10
  <2>3. requested
    BY <1>10 DEF skip, LoopInv, SkipInv
  <2>4. BandSize(0) <= BandSize(0) /\ BandSize(0) <= next' /\ next' \in Nat
    BY <1>1, <2>1
  <2> QED
    BY <1>1, <1>8, <2>1, <2>2, <2>3, <2>4
<1> QED
  BY <1>6, <1>7, <1>9, <1>10

\* The read of phase_next, the waiting for it and the claim of a coloured loop.
LEMMA ColoredKeeps ==
    ASSUME LoopInv, NEW x \in Executors, load_phase(x) \/ spin(x) \/ park(x) \/ claim_cas(x)
    PROVE  LoopTypes' /\ ClaimInv' /\ LoopCounts' /\ RanInv' /\ SettleInv'
<1>0. LoopTypes /\ ClaimInv /\ DOMAIN pc = Executors /\ DOMAIN cur = Executors
  BY DEF LoopInv, LoopTypes
<1>1. /\ TotalPhases \in Nat /\ phase \in Nat /\ next \in Nat
      /\ \A p \in Nat : BandSize(p) \in Nat /\ BandSize(p) > 0
      /\ \A p, c \in Nat : LET g == claim_grain(BandSize(p), c, effective_workers(loop)) IN g \in Nat /\ g > 0
  BY <1>0, LoopFacts DEF LoopTypes
<1>2. Colored
  <2>1. pc[x] \in {"spin", "cas"} => Colored
    BY <1>0 DEF LoopTypes, ColoredOnly
  <2> QED
    BY <2>1 DEF load_phase, spin, park, claim_cas
<1>3. pc[x] \in {"loop", "spin", "cas"} /\ pc[x] \notin Active
  BY DEF load_phase, spin, park, claim_cas, Active, Outstanding, Closing
<1>4. ASSUME NEW l \in {"loop", "leave", "spin", "cas", "parked"}, pc' = [pc EXCEPT ![x] = l],
             cur' \in [Executors -> Nat \X Nat],
             \A y \in Executors \ {x} : cur'[y] = cur[y],
             l = "cas" => cur'[x][1] < TotalPhases /\ cur'[x][2] < BandSize(cur'[x][1]),
             loop' = loop, phase' = phase, done' = done, settled' = settled, ran' = ran,
             chunk' = chunk, skipped' = skipped, requested' = requested, next' = next,
             refs' = refs, freed' = freed
      PROVE  LoopTypes' /\ ClaimInv' /\ LoopCounts' /\ RanInv' /\ SettleInv'
  <2>1. /\ pc'[x] = l /\ \A y \in Executors \ {x} : pc'[y] = pc[y]
        /\ l \notin Active /\ l \in Labels /\ l \notin FlatOnly
    BY <1>0, <1>4 DEF Active, Outstanding, Closing, Labels, FlatOnly, ColoredOnly
  <2>2. pc' \in [Executors -> Labels \ (IF Colored THEN FlatOnly ELSE ColoredOnly)]
    BY <1>0, <1>2, <1>4, <2>1, GotoType
  <2>3. /\ \A y \in Executors : (pc[y] \in Active \/ pc'[y] \in Active) => pc'[y] = pc[y]
        /\ \A y \in Executors : pc'[y] = "cas" =>
                cur'[y][1] < TotalPhases /\ cur'[y][2] < BandSize(cur'[y][1])
    BY <1>0, <1>3, <1>4, <2>1 DEF ClaimInv
  <2>4. next' \in Nat
    BY <1>1, <1>4
  <2>5. ClaimInv' /\ LoopCounts' /\ RanInv' /\ SettleInv'
    BY <1>4, <2>3, <2>4, IdleKeeps
  <2>6. /\ done' \in Nat /\ refs' \in Nat /\ skipped' \in BOOLEAN
        /\ requested' \in BOOLEAN /\ freed' \in BOOLEAN
    BY <1>0, <1>4 DEF LoopTypes
  <2>7. LoopTypes'
    BY <1>0, <1>4, <2>2, <2>4, <2>6, TypeKeeps
  <2> QED
    BY <2>5, <2>7
<1>5. CASE load_phase(x)
  <2> DEFINE l == IF phase >= TotalPhases THEN "leave" ELSE IF next >= BandSize(phase) THEN "spin" ELSE "cas"
  <2>1. /\ loop' = loop /\ phase' = phase /\ done' = done /\ settled' = settled /\ ran' = ran
        /\ chunk' = chunk /\ skipped' = skipped /\ requested' = requested /\ next' = next
        /\ refs' = refs /\ freed' = freed /\ cur' = [cur EXCEPT ![x] = <<phase, next>>]
        /\ pc' = [pc EXCEPT ![x] = l]
    BY <1>5 DEF load_phase, Goto
  <2>2. /\ cur' \in [Executors -> Nat \X Nat] /\ cur'[x] = <<phase, next>>
        /\ \A y \in Executors \ {x} : cur'[y] = cur[y]
    BY <1>0, <1>1, <2>1 DEF LoopTypes
  <2>3. l \in {"loop", "leave", "spin", "cas", "parked"}
        /\ (l = "cas" => phase < TotalPhases /\ next < BandSize(phase))
    BY <1>1
  <2>4. l = "cas" => cur'[x][1] < TotalPhases /\ cur'[x][2] < BandSize(cur'[x][1])
    BY <2>2, <2>3
  <2> HIDE DEF l
  <2> QED
    BY <1>4, <2>1, <2>2, <2>3, <2>4
<1>6. CASE spin(x) \/ park(x) \/ (claim_cas(x) /\ cur[x] # <<phase, next>>)
  <2>1. /\ loop' = loop /\ phase' = phase /\ done' = done /\ settled' = settled /\ ran' = ran
        /\ chunk' = chunk /\ skipped' = skipped /\ requested' = requested /\ next' = next
        /\ refs' = refs /\ freed' = freed /\ cur' = cur
        /\ \E l \in {"loop", "parked"} : pc' = [pc EXCEPT ![x] = l]
    BY <1>6 DEF spin, park, claim_cas, Goto
  <2>2. cur' \in [Executors -> Nat \X Nat]
    BY <1>0, <2>1 DEF LoopTypes
  <2> QED
    BY <1>4, <2>1, <2>2
<1>7. CASE claim_cas(x) /\ cur[x] = <<phase, next>>
  <2> DEFINE g  == claim_grain(BandSize(phase), next, effective_workers(loop))
             to == Smaller(next + g, BandSize(phase))
  <2>1. cur[x][1] = phase /\ cur[x][2] = next
    BY <1>7
  <2>2. phase < TotalPhases /\ next < BandSize(phase)
    BY <1>0, <1>7, <2>1 DEF ClaimInv, claim_cas
  <2>3. /\ next' = to /\ chunk' = [chunk EXCEPT ![x] = [phase |-> phase, from |-> next, to |-> to]]
        /\ pc' = [pc EXCEPT ![x] = "body"]
        /\ loop' = loop /\ phase' = phase /\ done' = done /\ settled' = settled /\ ran' = ran /\ cur' = cur
        /\ requested' = requested /\ refs' = refs /\ freed' = freed /\ skipped' = skipped
    BY <1>7, <2>1 DEF claim_cas, Goto
  <2>4. g \in Nat /\ g > 0 /\ BandSize(phase) \in Nat
    BY <1>1
  <2> HIDE DEF g
  <2>5. to \in Nat /\ next < to /\ to <= BandSize(phase)
    <3>1. \A a, b \in Nat : Smaller(a, b) \in {a, b} /\ Smaller(a, b) <= b
      BY DEF Smaller
    <3>2. next + g \in Nat /\ next < next + g
      BY <1>1, <2>4
    <3> QED
      BY <2>2, <2>4, <3>1, <3>2
  <2> HIDE DEF to
  <2>e. to <= to
    BY <2>5
  <2>6. ClaimInv' /\ LoopCounts' /\ RanInv' /\ SettleInv'
    BY <1>3, <2>2, <2>3, <2>5, <2>e, TakeKeeps
  <2>7. pc' \in [Executors -> Labels \ (IF Colored THEN FlatOnly ELSE ColoredOnly)]
    BY <1>0, <1>2, <2>3, GotoType DEF Labels, FlatOnly, ColoredOnly
  <2>8. /\ done' \in Nat /\ refs' \in Nat /\ skipped' \in BOOLEAN
        /\ requested' \in BOOLEAN /\ freed' \in BOOLEAN /\ cur' \in [Executors -> Nat \X Nat]
    BY <1>0, <2>3 DEF LoopTypes
  <2>9. LoopTypes'
    BY <1>0, <2>3, <2>5, <2>7, <2>8, TypeKeeps
  <2> QED
    BY <2>6, <2>9
<1> QED
  BY <1>5, <1>6, <1>7

\* The steps that run, count and close.
LEMMA WorkKeeps ==
    ASSUME LoopInv, NEW x \in Executors,
           body(x) \/ account(x) \/ band_account(x) \/ band_reset(x) \/ advance(x)
    PROVE  LoopTypes' /\ ClaimInv' /\ LoopCounts' /\ RanInv' /\ SettleInv'
<1>0. LoopTypes /\ DOMAIN pc = Executors
  BY DEF LoopInv, LoopTypes
<1>1. /\ loop' = loop /\ requested' = requested /\ skipped' = skipped /\ refs' = refs /\ freed' = freed /\ cur' = cur
  BY DEF body, account, band_account, band_reset, advance
<1>2. /\ refs' \in Nat /\ skipped' \in BOOLEAN
      /\ requested' \in BOOLEAN /\ freed' \in BOOLEAN /\ cur' \in [Executors -> Nat \X Nat]
  BY <1>0, <1>1 DEF LoopTypes
<1>3. TotalPhases' = TotalPhases /\ (Colored' <=> Colored) /\ \A p : BandSize(p)' = BandSize(p)
  BY <1>1, SameLoop
<1>4. /\ pc[x] = "account" => ~Colored
      /\ pc[x] \in {"band", "reset", "advance"} => Colored
  BY <1>0 DEF LoopTypes, FlatOnly, ColoredOnly
<1>5. CASE body(x)
  <2>1. /\ ClaimInv' /\ LoopCounts' /\ RanInv' /\ SettleInv'
        /\ \A p \in Range0(TotalPhases) : ran'[p] \in [Range0(BandSize(p)) -> {0, 1}]
        /\ DOMAIN ran' = Range0(TotalPhases) /\ ran' = [p \in Range0(TotalPhases) |-> ran'[p]]
    <3>1. ClaimInv' /\ LoopCounts' /\ RanInv' /\ SettleInv'
      BY <1>5, BodyKeeps
    <3>2. \A p \in Range0(TotalPhases) : ran'[p] \in [Range0(BandSize(p)) -> {0, 1}]
      BY <1>5, BodyKeeps
    <3>3. DOMAIN ran' = Range0(TotalPhases) /\ ran' = [p \in Range0(TotalPhases) |-> ran'[p]]
      <4>1. RanDomain'
        BY <1>5, BodyKeeps
      <4> QED
        BY <1>3, <4>1 DEF RanDomain
    <3> QED
      BY <3>1, <3>2, <3>3
  <2>2. pc' \in [Executors -> Labels \ (IF Colored THEN FlatOnly ELSE ColoredOnly)]
    <3>1. pc' = [pc EXCEPT ![x] = IF Colored THEN "band" ELSE "account"]
      BY <1>5 DEF body, Goto
    <3> QED
      BY <1>0, <3>1, GotoType DEF Labels, FlatOnly, ColoredOnly
  <2>3. /\ next' = next /\ phase' = phase /\ done' = done /\ chunk' = chunk
    BY <1>5 DEF body
  <2>4. LoopTypes'
    BY <1>0, <1>1, <1>3, <2>1, <2>2, <2>3 DEF LoopTypes
  <2> QED
    BY <2>1, <2>4
<1>6. CASE account(x) \/ band_account(x) \/ band_reset(x)
  <2>1. ClaimInv' /\ LoopCounts' /\ RanInv' /\ SettleInv' /\ done' \in Nat
    BY <1>6, AccountKeeps, BandKeeps, ResetKeeps
  <2>2. /\ next' = next /\ phase' = phase /\ ran' = ran
        /\ chunk' = chunk \/ chunk' = [chunk EXCEPT ![x] = <<>>]
        /\ \/ pc' = [pc EXCEPT ![x] = "loop"]
           \/ pc[x] \in {"band", "reset"} /\ \E l \in {"reset", "advance"} : pc' = [pc EXCEPT ![x] = l]
    <3>1. CASE account(x)
      BY <3>1 DEF account, Goto
    <3>2. CASE band_account(x)
      BY <3>2 DEF band_account, Goto
    <3>3. CASE band_reset(x)
      BY <3>3 DEF band_reset, Goto
    <3> QED
      BY <1>6, <3>1, <3>2, <3>3
  <2>3. pc' \in [Executors -> Labels \ (IF Colored THEN FlatOnly ELSE ColoredOnly)]
    BY <1>0, <1>4, <2>2, GotoType DEF Labels, FlatOnly, ColoredOnly
  <2>4. next' \in Nat
    BY <1>0, <2>2 DEF LoopTypes
  <2>5. chunk' = chunk \/ \E y \in Executors : \E c : chunk' = [chunk EXCEPT ![y] = c]
    BY <2>2
  <2>6. LoopTypes'
    BY <1>0, <1>1, <1>2, <2>1, <2>2, <2>3, <2>4, <2>5, TypeKeeps
  <2> QED
    BY <2>1, <2>6
<1>7. CASE advance(x)
  <2>1. ClaimInv' /\ LoopCounts' /\ RanInv' /\ SettleInv' /\ phase' \in Nat /\ phase' <= TotalPhases
    BY <1>7, AdvanceKeeps
  <2>2. /\ next' = 0 /\ ran' = ran /\ done' = done /\ chunk' = chunk /\ pc[x] = "advance"
        /\ \E l \in {"leave", "loop"} : notify_all(x, l)
    BY <1>7 DEF advance
  <2>3. PICK l \in {"leave", "loop"} : notify_all(x, l)
    BY <2>2
  <2>4. Colored /\ l \in Labels \ FlatOnly /\ "loop" \in Labels \ FlatOnly
    BY <1>4, <2>2 DEF Labels, FlatOnly, ColoredOnly
  <2>5. pc' \in [Executors -> Labels \ (IF Colored THEN FlatOnly ELSE ColoredOnly)]
    BY <1>0, <2>3, <2>4 DEF LoopTypes, notify_all
  <2>6. LoopTypes'
    BY <1>0, <1>1, <1>3, <2>1, <2>2, <2>4, <2>5 DEF LoopTypes
  <2> QED
    BY <2>1, <2>6
<1> QED
  BY <1>5, <1>6, <1>7

\* The steps of the helpers and of the caller outside the loop.
LEMMA OutsideKeeps ==
    ASSUME LoopInv,
           \/ \E x \in Helpers : helper_entry(x) \/ helper_exit(x)
           \/ caller_wait \/ caller_return \/ request_cancel
    PROVE  LoopInv'
<1>0. LoopTypes /\ DOMAIN pc = Executors /\ RefInv /\ SkipInv /\ ClaimInv
  BY DEF LoopInv, LoopTypes
<1>1. /\ loop' = loop /\ phase' = phase /\ done' = done /\ settled' = settled /\ ran' = ran
      /\ chunk' = chunk /\ skipped' = skipped /\ (requested => requested') /\ next' = next /\ cur' = cur
      /\ requested' \in BOOLEAN
  BY <1>0 DEF helper_entry, helper_exit, caller_wait, caller_return, request_cancel, LoopTypes
<1>2. \/ pc' = pc /\ refs' = refs /\ freed' = freed
      \/ \E x \in Executors : \E l \in {"loop", "wait"} :
            /\ pc[x] \in {"queued", "leave"} /\ pc' = [pc EXCEPT ![x] = l]
            /\ refs' = refs /\ freed' = freed
      \/ \E x \in Executors : /\ pc[x] \in {"leave", "wait"} /\ pc' = [pc EXCEPT ![x] = "exit"]
                              /\ refs' = refs - 1 /\ freed' = (refs = 1)
  BY DEF helper_entry, helper_exit, caller_wait, caller_return, request_cancel, Dec, Goto, Executors
<1>3. ASSUME NEW x \in Executors, NEW l \in {"loop", "wait", "exit"}, pc[x] \in {"queued", "leave", "wait"},
             pc' = [pc EXCEPT ![x] = l]
      PROVE  /\ pc'[x] = l /\ \A y \in Executors \ {x} : pc'[y] = pc[y]
             /\ \A y \in Executors : (pc[y] \in Active \/ pc'[y] \in Active) => pc'[y] = pc[y]
             /\ \A y \in Executors : (pc'[y] = "cas" => pc[y] = "cas") /\ (pc'[y] = "skip" => pc[y] = "skip")
             /\ pc' \in [Executors -> Labels \ (IF Colored THEN FlatOnly ELSE ColoredOnly)]
  <2>1. pc'[x] = l /\ \A y \in Executors \ {x} : pc'[y] = pc[y]
    BY <1>0, <1>3
  <2>2. l \notin Active /\ pc[x] \notin Active /\ l \in Labels /\ l \notin FlatOnly /\ l \notin ColoredOnly
    BY <1>3 DEF Active, Outstanding, Closing, Labels, FlatOnly, ColoredOnly
  <2>3. pc' \in [Executors -> Labels \ (IF Colored THEN FlatOnly ELSE ColoredOnly)]
    BY <1>0, <1>3, <2>2, GotoType
  <2> QED
    BY <1>3, <2>1, <2>2, <2>3
<1>4. /\ \A y \in Executors : (pc[y] \in Active \/ pc'[y] \in Active) => pc'[y] = pc[y]
      /\ \A y \in Executors : (pc'[y] = "cas" => pc[y] = "cas") /\ (pc'[y] = "skip" => pc[y] = "skip")
      /\ pc' \in [Executors -> Labels \ (IF Colored THEN FlatOnly ELSE ColoredOnly)]
  <2>1. CASE pc' = pc
    BY <1>0, <2>1 DEF LoopTypes
  <2>2. CASE \E x \in Executors : \E l \in {"loop", "wait", "exit"} :
                pc[x] \in {"queued", "leave", "wait"} /\ pc' = [pc EXCEPT ![x] = l]
    BY <1>3, <2>2
  <2> QED
    BY <1>2, <2>1, <2>2
<1>5. ClaimInv' /\ LoopCounts' /\ RanInv' /\ SettleInv'
  <2>1. \A y \in Executors : pc'[y] = "cas" => cur'[y][1] < TotalPhases /\ cur'[y][2] < BandSize(cur'[y][1])
    BY <1>0, <1>1, <1>4 DEF ClaimInv
  <2>2. next' \in Nat
    BY <1>0, <1>1 DEF LoopTypes
  <2> QED
    BY <1>1, <1>4, <2>1, <2>2, IdleKeeps
<1>6. SkipInv'
  BY <1>0, <1>1, <1>4 DEF SkipInv
<1>7. IsFiniteSet(Executors)
  BY LoopsAssumption, FS_AddElement DEF Executors
<1>8. RefInv' /\ refs' \in Nat /\ freed' \in BOOLEAN
  <2>1. CASE pc' = pc /\ refs' = refs /\ freed' = freed
    BY <1>0, <2>1, PresentSame DEF LoopTypes
  <2>2. ASSUME NEW x \in Executors, NEW l \in {"loop", "wait"}, pc[x] \in {"queued", "leave"},
               pc' = [pc EXCEPT ![x] = l], refs' = refs, freed' = freed
        PROVE  RefInv' /\ refs' \in Nat /\ freed' \in BOOLEAN
    <3>1. pc'[x] = l /\ \A y \in Executors \ {x} : pc'[y] = pc[y]
      BY <1>3, <2>2
    <3>2. \A y \in Executors : pc'[y] = "exit" <=> pc[y] = "exit"
      BY <2>2, <3>1
    <3> QED
      BY <1>0, <2>2, <3>2, PresentSame DEF LoopTypes
  <2>3. ASSUME NEW x \in Executors, pc[x] \in {"leave", "wait"}, pc' = [pc EXCEPT ![x] = "exit"],
               refs' = refs - 1, freed' = (refs = 1)
        PROVE  RefInv' /\ refs' \in Nat /\ freed' \in BOOLEAN
    <3>1. pc'[x] = "exit" /\ \A y \in Executors \ {x} : pc'[y] = pc[y]
      BY <1>3, <2>3
    <3>2. x \in Present /\ Present' = Present \ {x}
      BY <2>3, <3>1 DEF Present
    <3>3. IsFiniteSet(Present)
      BY <1>7, FS_Subset DEF Present
    <3>4. Cardinality(Present') = Cardinality(Present) - 1 /\ Cardinality(Present) \in Nat
          /\ IsFiniteSet(Present')
      BY <3>2, <3>3, FS_RemoveElement, FS_CardinalityType
    <3>5. Cardinality(Present') \in Nat /\ (Cardinality(Present') = 0 <=> Present' = {})
      BY <3>4, FS_CardinalityType, FS_EmptySet
    <3>6. refs = Cardinality(Present)
      BY <1>0 DEF RefInv
    <3>7. refs' = Cardinality(Present') /\ (refs = 1 <=> Cardinality(Present') = 0) /\ refs' \in Nat
      BY <2>3, <3>4, <3>5, <3>6
    <3>8. freed' <=> Present' = {}
      BY <2>3, <3>5, <3>7
    <3>9. freed' \in BOOLEAN
      BY <2>3
    <3> QED
      BY <3>7, <3>8, <3>9 DEF RefInv
  <2> QED
    BY <1>2, <2>1, <2>2, <2>3
<1>9. LoopTypes'
  <2>1. /\ done' \in Nat /\ skipped' \in BOOLEAN /\ next' \in Nat /\ cur' \in [Executors -> Nat \X Nat]
    BY <1>0, <1>1 DEF LoopTypes
  <2> QED
    BY <1>0, <1>1, <1>4, <1>8, <2>1, TypeKeeps
<1> QED
  BY <1>5, <1>6, <1>8, <1>9 DEF LoopInv

\* A step of an executor in the loop.
LEMMA InsideKeeps ==
    ASSUME LoopInv, NEW x \in Executors, LoopStep(x)
    PROVE  LoopInv'
<1>0. LoopTypes /\ DOMAIN pc = Executors /\ RefInv /\ SkipInv
  BY DEF LoopInv, LoopTypes
<1>1. LoopTypes' /\ ClaimInv' /\ LoopCounts' /\ RanInv' /\ SettleInv'
  BY FlatKeeps, ColoredKeeps, WorkKeeps DEF LoopStep
<1>2. /\ refs' = refs /\ freed' = freed /\ requested' = requested /\ pc[x] # "exit"
  BY DEF LoopStep, look, claim, skip, body, account, load_phase, spin, park, claim_cas, band_account,
         band_reset, advance
<1>3. \/ \E l : pc' = [pc EXCEPT ![x] = l] /\ l # "exit" /\ (l = "skip" => requested)
      \/ \E l \in {"leave", "loop"} : notify_all(x, l)
  <2>1. CASE look(x) \/ claim(x) \/ skip(x)
    BY <2>1 DEF look, claim, skip, Goto
  <2>2. CASE body(x) \/ account(x) \/ band_account(x) \/ band_reset(x)
    BY ZenonT(60), <2>2 DEF body, account, band_account, band_reset, Goto
  <2>3. CASE load_phase(x) \/ spin(x) \/ park(x) \/ claim_cas(x)
    BY <2>3 DEF load_phase, spin, park, claim_cas, Goto
  <2>4. CASE advance(x)
    BY <2>4 DEF advance
  <2> QED
    BY <2>1, <2>2, <2>3, <2>4 DEF LoopStep
<1>4. /\ \A y \in Executors : pc'[y] = "exit" <=> pc[y] = "exit"
      /\ \A y \in Executors : pc'[y] = "skip" => (pc[y] = "skip" \/ requested)
  <2>1. ASSUME NEW l, pc' = [pc EXCEPT ![x] = l], l # "exit", l = "skip" => requested
        PROVE  /\ \A y \in Executors : pc'[y] = "exit" <=> pc[y] = "exit"
               /\ \A y \in Executors : pc'[y] = "skip" => (pc[y] = "skip" \/ requested)
    <3>1. pc'[x] = l /\ \A y \in Executors \ {x} : pc'[y] = pc[y]
      BY <1>0, <2>1
    <3> QED
      BY <1>2, <2>1, <3>1
  <2>2. ASSUME NEW l \in {"leave", "loop"}, notify_all(x, l)
        PROVE  /\ \A y \in Executors : pc'[y] = "exit" <=> pc[y] = "exit"
               /\ \A y \in Executors : pc'[y] = "skip" => (pc[y] = "skip" \/ requested)
    BY <1>2, <2>2 DEF notify_all
  <2> QED
    BY <1>3, <2>1, <2>2
<1>5. RefInv'
  BY <1>0, <1>2, <1>4, PresentSame
<1>6. SkipInv'
  BY <1>0, <1>2, <1>4 DEF SkipInv
<1> QED
  BY <1>1, <1>5, <1>6 DEF LoopInv

\* Nothing is claimed at the start, and an executor that is not there has left.
LEMMA LoopInit == Init => LoopInv
<1> SUFFICES ASSUME Init PROVE LoopInv
  OBVIOUS
<1>0. /\ loop \in Loops /\ next = 0 /\ phase = 0 /\ done = 0 /\ skipped = FALSE /\ requested = FALSE
      /\ settled = <<>> /\ freed = FALSE /\ refs = NumHelpers + 1
      /\ cur = [x \in Executors |-> <<0, 0>>] /\ chunk = [x \in Executors |-> <<>>]
      /\ ran = [p \in Range0(TotalPhases) |-> [i \in Range0(BandSize(p)) |-> 0]]
  BY DEF Init, References, Range0
<1>1. /\ TotalPhases \in Nat /\ TotalPhases > 0 /\ NumHelpers \in Nat /\ NumHelpers <= Cardinality(Helpers)
      /\ \A p \in Nat : BandSize(p) \in Nat /\ BandSize(p) > 0
  BY <1>0, LoopFacts
<1>2. /\ pc \in [Executors -> {"wait", "loop", "queued", "exit"}]
      /\ pc[Caller] # "exit" /\ Caller \in Executors /\ Caller \notin Helpers
      /\ \A x \in Helpers : pc[x] # "exit" <=> x <= NumHelpers
  BY LoopsAssumption DEF Init, Executors
<1>3. \A x \in Executors : pc[x] \notin Active /\ pc[x] \notin Outstanding /\ pc[x] \notin Closing
            /\ pc[x] # "body" /\ pc[x] # "cas" /\ pc[x] # "advance" /\ pc[x] # "skip"
            /\ pc[x] \in Labels \ (IF Colored THEN FlatOnly ELSE ColoredOnly)
  BY <1>2 DEF Active, Outstanding, Closing, Labels, FlatOnly, ColoredOnly
<1>4. LoopTypes
  <2>1. \A p \in Range0(TotalPhases) : ran[p] \in [Range0(BandSize(p)) -> {0, 1}]
    BY <1>0
  <2>2. pc \in [Executors -> Labels \ (IF Colored THEN FlatOnly ELSE ColoredOnly)]
    BY <1>2, <1>3
  <2>3. /\ DOMAIN chunk = Executors /\ chunk = [x \in Executors |-> chunk[x]]
        /\ DOMAIN ran = Range0(TotalPhases) /\ ran = [p \in Range0(TotalPhases) |-> ran[p]]
        /\ cur \in [Executors -> Nat \X Nat]
    BY <1>0
  <2>4. phase \in Nat /\ phase <= TotalPhases /\ refs \in Nat
    BY <1>0, <1>1
  <2> QED
    BY <1>0, <2>1, <2>2, <2>3, <2>4 DEF LoopTypes
<1>5. ClaimInv
  BY <1>3 DEF ClaimInv
<1>6. LoopCounts
  <2>1. Accounted = {}
    <3> SUFFICES ASSUME NEW i \in Accounted PROVE FALSE
      OBVIOUS
    <3>1. i < 0 /\ i \in Range0(BandSize(0))
      BY <1>0 DEF Accounted
    <3>2. i \in Nat
      BY <1>1, <3>1 DEF Range0
    <3> QED
      BY <3>1, <3>2
  <2> QED
    BY <1>0, <1>3, <2>1, FS_EmptySet DEF LoopCounts
<1>7. RanInv
  <2>1. \A p \in Range0(TotalPhases) : \A i \in Range0(BandSize(p)) :
            ran[p][i] = 0 /\ ~(p < 0) /\ ~(i < 0)
    BY <1>0, <1>1 DEF Range0
  <2>2. 0 \in Range0(TotalPhases)
    BY <1>1 DEF Range0
  <2> QED
    BY <1>0, <1>3, <2>1, <2>2 DEF RanInv
<1>8. SettleInv
  <2>1. <<>> # <<"completed">> /\ <<>> # <<"cancelled">> /\ 0 # TotalPhases /\ 0 # BandSize(0)
    BY <1>1
  <2> QED
    BY <1>0, <2>1 DEF SettleInv
<1>9. RefInv
  <2>1. Present = (1..NumHelpers) \cup {Caller}
    <3>1. Helpers = 1..Cardinality(Helpers) /\ Cardinality(Helpers) \in Nat
      BY LoopsAssumption, FS_CardinalityType
    <3>2. \A x : x \in 1..NumHelpers <=> x \in Helpers /\ x <= NumHelpers
      <4>1. \A n, m \in Nat : n <= m => \A x : x \in 1..n <=> x \in 1..m /\ x <= n
        OBVIOUS
      <4>2. \A x : x \in 1..NumHelpers <=> x \in 1..Cardinality(Helpers) /\ x <= NumHelpers
        BY <1>1, <3>1, <4>1
      <4> QED
        BY <3>1, <4>2
    <3>3. \A x : x \in Present <=> x \in 1..NumHelpers \/ x = Caller
      BY <1>2, <3>2 DEF Present, Executors
    <3> QED
      BY <3>3
  <2>2. Caller \notin 1..NumHelpers
    BY <1>1, <1>2, LoopsAssumption, FS_CardinalityType
  <2>3. IsFiniteSet(1..NumHelpers) /\ Cardinality(1..NumHelpers) = NumHelpers
    <3>1. 1 \in Int /\ NumHelpers \in Int /\ (IF 1 > NumHelpers THEN 0 ELSE NumHelpers - 1 + 1) = NumHelpers
      BY <1>1
    <3> QED
      BY <3>1, FS_Interval
  <2>4. Cardinality(Present) = NumHelpers + 1
    BY <2>1, <2>2, <2>3, FS_AddElement
  <2>5. Present # {}
    BY <2>1
  <2> QED
    BY <1>0, <2>4, <2>5 DEF RefInv
<1>10. SkipInv
  BY <1>3 DEF SkipInv
<1> QED
  BY <1>4, <1>5, <1>6, <1>7, <1>8, <1>9, <1>10 DEF LoopInv

-----------------------------------------------------------------------------
(* The theorems *)

\* LoopInv holds throughout: the chunks in hand are disjoint parts of the phase, done
\* counts what is accounted for, and the one that ends a band is alone with it.
THEOREM LoopInductive == SafetySpec => []LoopInv
<1>1. Init => LoopInv
  BY LoopInit
<1>2. LoopInv /\ [Next]_vars => LoopInv'
  <2> SUFFICES ASSUME LoopInv, [Next]_vars PROVE LoopInv'
    OBVIOUS
  <2>1. ASSUME NEW x \in Executors, LoopStep(x) PROVE LoopInv'
    BY <2>1, InsideKeeps
  <2>2. CASE \/ \E x \in Helpers : helper_entry(x) \/ helper_exit(x)
             \/ caller_wait \/ caller_return \/ request_cancel
    BY <2>2, OutsideKeeps
  <2>3. CASE UNCHANGED vars
    <3>1. /\ loop' = loop /\ next' = next /\ phase' = phase /\ done' = done /\ skipped' = skipped
          /\ requested' = requested /\ settled' = settled /\ refs' = refs /\ freed' = freed
          /\ cur' = cur /\ chunk' = chunk /\ pc' = pc /\ ran' = ran
      BY <2>3 DEF vars
    <3>2. LoopTypes /\ ClaimInv /\ RefInv /\ SkipInv
      BY DEF LoopInv
    <3>3. LoopTypes' /\ RefInv' /\ SkipInv'
      <4>1. LoopTypes'
        BY <3>1, <3>2, SameLoop DEF LoopTypes
      <4> QED
        BY <3>1, <3>2, <4>1, PresentSame DEF SkipInv
    <3>4. ClaimInv' /\ LoopCounts' /\ RanInv' /\ SettleInv'
      <4>1. next' \in Nat /\ \A y \in Executors : pc'[y] = "cas" =>
                cur'[y][1] < TotalPhases /\ cur'[y][2] < BandSize(cur'[y][1])
        BY <3>1, <3>2 DEF ClaimInv, LoopTypes
      <4> QED
        BY <3>1, <4>1, IdleKeeps
    <3> QED
      BY <3>3, <3>4 DEF LoopInv
  <2> QED
    BY <2>1, <2>2, <2>3 DEF Next
<1> QED
  BY <1>1, <1>2, PTL DEF SafetySpec

\* LoopSafe: every item at most once, no phase before the one before it is over, the
\* task settled once and truthfully, and the state deleted by the last that has it.
THEOREM LoopIsSafe == SafetySpec => []LoopSafe
<1>1. LoopInv => LoopSafe
  <2> SUFFICES ASSUME LoopInv PROVE LoopSafe
    OBVIOUS
  <2>0. LoopTypes /\ ClaimInv /\ LoopCounts /\ RanInv /\ SettleInv /\ RefInv
    BY DEF LoopInv
  <2>1. /\ TotalPhases \in Nat /\ phase \in Nat /\ (~Colored => TotalPhases = 1)
        /\ \A p \in Nat : BandSize(p) \in Nat /\ BandSize(p) > 0
    BY <2>0, LoopFacts DEF LoopTypes
  <2>2. /\ DOMAIN ran = Range0(TotalPhases)
        /\ \A p \in Range0(TotalPhases) : DOMAIN ran[p] = Range0(BandSize(p)) /\ p \in Nat
        /\ \A p \in Range0(TotalPhases) : \A i \in Range0(BandSize(p)) : ran[p][i] \in {0, 1}
    BY <2>0, <2>1 DEF LoopTypes, Range0
  <2>3. ASSUME NEW p \in DOMAIN ran, NEW i \in DOMAIN ran[p]
        PROVE  ran[p][i] <= 1 /\ ((ran[p][i] = 1 /\ p > 0) => Over(p - 1))
    <3>1. ran[p][i] <= 1
      BY <2>2
    <3>2. ASSUME ran[p][i] = 1, p > 0 PROVE Over(p - 1)
      <4>0. p \in Range0(TotalPhases) /\ i \in Range0(BandSize(p)) /\ p \in Nat
        BY <2>2
      <4>1. p - 1 \in Range0(TotalPhases) /\ p \in Range0(TotalPhases) /\ i \in Range0(BandSize(p)) /\ p \in Nat
        BY <2>1, <3>2, <4>0 DEF Range0
      <4>2. ~(p > phase)
        BY <2>0, <3>2, <4>1 DEF RanInv
      <4>3. p - 1 < phase
        BY <2>1, <4>1, <4>2
      <4>4. \A j \in Range0(BandSize(p - 1)) : ran[p - 1][j] = 1
        BY <2>0, <4>1, <4>3 DEF RanInv
      <4> QED
        BY <2>2, <4>1, <4>4 DEF Over
    <3> QED
      BY <3>1, <3>2
  <2>4. Len(settled) <= 1
    <3>1. settled = <<>> \/ settled = <<"completed">> \/ settled = <<"cancelled">>
      BY <2>0 DEF SettleInv
    <3> QED
      BY <3>1
  <2>5. settled = <<"completed">> => \A p \in DOMAIN ran : Over(p)
    BY <2>0, <2>2 DEF SettleInv, Over
  <2>6. 0 \in Range0(TotalPhases)
    BY <2>0, LoopFacts DEF LoopTypes, Range0
  <2>7. settled = <<"cancelled">> => requested /\ ~Over(0)
    BY <2>0, <2>2, <2>6 DEF SettleInv, Over
  <2>8. ASSUME settled # <<>>, NEW x \in Executors, pc[x] = "body" PROVE FALSE
    <3>1. pc[x] \in Outstanding /\ pc[x] \in Active
      BY <2>8 DEF Outstanding, Active
    <3>2. phase < TotalPhases /\ chunk[x].from \in Nat /\ chunk[x].to \in Nat
          /\ chunk[x].from < chunk[x].to /\ chunk[x].to <= BandSize(phase)
      BY <2>0, <3>1 DEF ClaimInv
    <3>3. ~Colored /\ phase = 0
      <4>1. ~Colored
        BY <2>0, <2>1, <2>8, <3>2 DEF SettleInv
      <4> QED
        BY <2>0, <4>1 DEF LoopTypes
    <3>4. done = Cardinality(Accounted) /\ done = BandSize(0)
      <4>1. \A y \in Executors : pc[y] # "advance"
        BY <2>0, <3>1 DEF LoopCounts, Closing
      <4> QED
        BY <2>0, <2>8, <3>2, <3>3, <4>1 DEF LoopCounts, SettleInv
    <3>5. IsFiniteSet(Range0(BandSize(0))) /\ Cardinality(Range0(BandSize(0))) = BandSize(0)
      BY <2>1, RangeSize
    <3>6. Accounted \in SUBSET Range0(BandSize(0))
      BY <3>3 DEF Accounted
    <3>7. Accounted = Range0(BandSize(0))
      BY <3>4, <3>5, <3>6, FS_Subset
    <3>8. chunk[x].from \in Range0(BandSize(0)) /\ chunk[x].from \in Items(x)
      BY <2>1, <3>2, <3>3 DEF Range0, Items
    <3> QED
      BY <3>1, <3>7, <3>8 DEF Accounted
  <2>9. StateOutlivesHelpers
    BY <2>0 DEF RefInv, Present, StateOutlivesHelpers
  <2> QED
    BY <2>3, <2>4, <2>5, <2>7, <2>8, <2>9 DEF LoopSafe, LoopExact
<1> QED
  BY <1>1, LoopInductive, PTL
=============================================================================
