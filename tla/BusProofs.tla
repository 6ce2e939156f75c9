----------------------------- MODULE BusProofs -----------------------------
(***************************************************************************)
(* Deferred and the event bus, for any producers, commits, write accesses, *)
(* lanes, events and subscriptions: no command is lost or repeated, and    *)
(* none is applied out of its recorder's order or to an object that is     *)
(* gone; an event reaches the subscriptions made before it, once.          *)
(***************************************************************************)
EXTENDS EventBus, NaturalsInduction, WellFoundedInduction, TLAPS

-----------------------------------------------------------------------------
(* The invariant *)

Command == [by : Recorders, n : Nat \ {0}, what : {"write"} \cup Events \cup Subs]

CommitPcs == {"out", "enqueue", "queued", "commit", "cut", "apply", "applied", "done"}
WriterPcs == CommitPcs \ {"enqueue"}
SubPcs == {"out", "dead", "removing", "gone"}
DispatchPcs == {"out", "queued", "commit", "cut", "apply", "deliver"}
\* Where a call has an entry in the pipe, and where that entry has been granted.
InPipe == {"queued", "removing", "commit", "cut", "apply", "applied", "deliver"}
Granted == {"commit", "cut", "apply", "applied", "deliver"}

PcTypes ==
    /\ use \in {"program", "bus"} /\ pc \in [Calls -> CommitPcs \cup SubPcs \cup DispatchPcs]
    /\ \A c \in Commits : pc[c] \in CommitPcs
    /\ \A w \in Writers : pc[w] \in WriterPcs
    /\ \A s \in Subs : pc[s] \in SubPcs
    /\ pc[Dispatch] \in DispatchPcs
    /\ use = "program" => \A c \in Subs \cup {Dispatch} : pc[c] = "out"
    /\ use = "bus" => \A c \in Commits \cup Writers : pc[c] = "out"

JournalTypes ==
    /\ slots \in Seq(Seq(Command)) /\ batch \in Seq(Command) /\ applied \in Seq(Command)
    /\ dropped \subseteq Command
    /\ num_staged \in [Recorders -> Nat] /\ minted \in Nat /\ at \in Nat
    /\ use = "bus" => Len(slots) = NumLanes

\* One call at a time has register_mutex_, and it is somewhere in the slots.
RegisterInv ==
    /\ register \in Calls \cup {None, "discard"}
    /\ \A c \in Calls : pc[c] = "cut" <=> register = c
    /\ register # None => at >= 1
    /\ register = "discard" => use = "program"

\* A recorder has a slot of its own, in which all its staged commands are; a released
\* slot is nobody's.
RecordersInv ==
    /\ free \in Seq(Nat) /\ \A i \in DOMAIN free : free[i] \in DOMAIN slots
    /\ \A i, j \in DOMAIN free : free[i] = free[j] => i = j
    /\ slot_of \in [Producers -> {None} \cup [rec : Nat, slot : Nat]]
    /\ minted <= MaxMinted
    /\ \A p \in Producers : slot_of[p] # None =>
        /\ use = "program" /\ slot_of[p].rec \in 1..minted /\ slot_of[p].slot \in DOMAIN slots
        /\ \A i \in DOMAIN free : free[i] # slot_of[p].slot
        /\ \A q \in Producers : slot_of[q] # None /\ q # p =>
            slot_of[q].rec # slot_of[p].rec /\ slot_of[q].slot # slot_of[p].slot
        /\ \A i \in DOMAIN slots : \A k \in In(slots[i]) :
            k.by = slot_of[p].rec => i = slot_of[p].slot
    /\ use = "program" => \A r \in Recorders : r \notin 1..minted => num_staged[r] = 0
    /\ use = "bus" => \A i \in DOMAIN slots : \A k \in In(slots[i]) : k.by \in Threads /\ i = lane[k.by]

\* The pipe: each call in it once, one of them granted.
Write == [who : Calls, mode : {"write"}]
Shape(p) ==
    /\ p = [queue |-> p.queue, holders |-> p.holders]
    /\ p.queue \in Seq(Write)
    /\ \/ p.holders = {} /\ p.queue = <<>>
       \/ \E c \in Calls : /\ p.holders = {Entry(c, "write")}
                           /\ \A i \in DOMAIN p.queue : p.queue[i].who # c
    /\ \A i, j \in DOMAIN p.queue : p.queue[i].who = p.queue[j].who => i = j
\* Of the commits in the pipe x is the last.
LastIs(p, x) ==
    /\ \A i \in DOMAIN p.queue : p.queue[i].who \in Commits =>
        \E j \in DOMAIN p.queue : i <= j /\ p.queue[j].who = x
    /\ \A c \in Commits : Holds(p, c) => c = x \/ Waits(p, x)
Has(p, c) == Holds(p, c) \/ Waits(p, c)

\* The pipe has the calls on their way, and the one at work is granted.
PipeInv ==
    /\ Shape(pipe)
    /\ \A c \in Calls : pc[c] \in InPipe <=> Has(pipe, c)
    /\ \A c \in Calls : pc[c] \in Granted => Holds(pipe, c)
    /\ batch # <<>> => \E c \in Calls : pc[c] \in {"cut", "apply"}

\* last_commit_ is the last of the commits in the pipe.
LastInv ==
    /\ last_commit \in Commits \cup {None} /\ LastIs(pipe, last_commit)
    /\ NoCommitAfterDestroy /\ life \in {"live", "dead"}

CommandsInv ==
    PcTypes /\ JournalTypes /\ RegisterInv /\ RecordersInv /\ PipeInv /\ LastInv /\ StagedExactlyOnce

-----------------------------------------------------------------------------
(* The invariant of the bus *)

BusTypes ==
    /\ posted \subseteq Events \cup Subs /\ dead \subseteq Subs /\ expired \subseteq Subs
    /\ subs \in Seq(Subs) /\ events \in Seq(Events) /\ next_sub \in Nat
    /\ running \in Subs \cup {None} /\ got \in [Subs -> Seq(Events)] /\ dispatched \subseteq Events

Unused ==
    subs = <<>> /\ events = <<>> /\ dispatched = {} /\ running = None /\ \A s \in Subs : got[s] = <<>>

Distinct(q) == \A i, j \in DOMAIN q : q[i] = q[j] => i = j
\* x has been applied to the board.
Arrived(x) == \E k \in In(applied) : k.what = x

\* An event or subscription is posted once.
PostedInv ==
    /\ \A k \in Commands : k.what \in posted
    /\ \A k, l \in Commands : k.what = l.what => k = l

\* What is on the board has been applied; an event is on it once, and then cleared; a
\* subscription stays until it is disconnected or its owner is gone.
BoardInv ==
    /\ Distinct(events) /\ In(events) \cap dispatched = {}
    /\ \A x \in In(events) \cup dispatched \cup In(subs) : Arrived(x)
    /\ Distinct(subs)
    /\ \A s \in Subs : Arrived(s) /\ ~Skipped(s) => s \in In(subs)
    /\ \A s \in Subs : pc[s] # "out" => s \in dead
    /\ \A s \in Subs : pc[s] = "gone" => s \notin In(subs)

\* The handler that runs is that of the subscription looked at last.
RunInv ==
    /\ pc[Dispatch] # "deliver" => running = None /\ next_sub = 0
    /\ pc[Dispatch] = "deliver" => next_sub >= 1
    /\ running # None => \E i \in DOMAIN subs : i + 1 = next_sub /\ running = subs[i]

\* The subscriptions this dispatch is done with.
Passed == {subs[i] : i \in {j \in DOMAIN subs : j < next_sub}} \ {running}

\* An event is delivered when its subscription is passed, not before and not again.
GotInv ==
    /\ \A s \in Subs : Distinct(got[s]) /\ In(got[s]) \subseteq dispatched \cup In(events)
    /\ \A s \in Subs : In(got[s]) \cap In(events) # {} => s \in Passed
    /\ \A s \in Passed : ~Skipped(s) => In(events) \subseteq In(got[s])
    /\ \A i, k \in Commands :
        (i.what \in Subs /\ k.what \in dispatched /\ i.by = k.by /\ i.n < k.n /\ ~Skipped(i.what))
            => k.what \in In(got[i.what])

DeliveryInv ==
    /\ BusTypes /\ (use = "program" => Unused)
    /\ use = "bus" => PostedInv /\ BoardInv /\ RunInv /\ GotInv

-----------------------------------------------------------------------------
(* The pipe *)

\* The constants' facts, one at a time.
LEMMA Names ==
    /\ None \notin Calls /\ "discard" \notin Calls /\ None # "discard"
    /\ Commits \cap Writers = {} /\ Commits \cap Subs = {} /\ Writers \cap Subs = {}
    /\ Dispatch \notin Commits /\ Dispatch \notin Writers /\ Dispatch \notin Subs
    /\ Commits \subseteq Calls /\ Writers \subseteq Calls /\ Subs \subseteq Calls /\ Dispatch \in Calls
BY EventBusAssumption DEF EventBusAssumption, Calls

LEMMA Bounds ==
    /\ MaxMinted \in Nat /\ MaxStaged \in Nat /\ NumLanes \in Nat
    /\ lane \in [Threads -> 1..NumLanes] /\ None \notin [rec : Nat, slot : Nat]
BY EventBusAssumption DEF EventBusAssumption

\* Beside a write nobody is admitted.
LEMMA PassHeld ==
    ASSUME NEW q \in Seq(Write), NEW h \in Write
    PROVE  Pass(q, {h}) = [queue |-> q, holders |-> {h}]
<1>1. h.mode = "write"
  BY DEF Write
<1>2. SubSeq(q, 1, Len(q)) = q
  OBVIOUS
<1>3. {q[k] : k \in 1..0} = {}
  OBVIOUS
<1>4. PICK reads : reads = {k \in DOMAIN q : \A j \in 1..k : q[j].mode = "read"}
  OBVIOUS
<1>5. Pass(q, {h}) = [queue |-> SubSeq(q, 0 + 1, Len(q)), holders |-> {h} \cup {q[k] : k \in 1..0}]
  BY <1>1 DEF Pass
<1>6. 0 + 1 = 1 /\ {h} \cup {q[k] : k \in 1..0} = {h}
  BY <1>3
<1> QED  BY <1>2, <1>5, <1>6

\* With no holder the head is admitted.
LEMMA PassFree ==
    ASSUME NEW q \in Seq(Write)
    PROVE  Pass(q, {}) = IF q = <<>> THEN [queue |-> <<>>, holders |-> {}]
                         ELSE [queue |-> SubSeq(q, 2, Len(q)), holders |-> {q[1]}]
<1>1. {k \in DOMAIN q : \A j \in 1..k : q[j].mode = "read"} = {}
  <2>1. ASSUME NEW k \in DOMAIN q, \A j \in 1..k : q[j].mode = "read" PROVE FALSE
    <3>1. k \in 1..Len(q) /\ k \in 1..k /\ q[k] \in Write
      OBVIOUS
    <3> QED  BY <2>1, <3>1 DEF Write
  <2> QED  BY <2>1
<1>2. ~ \E h \in {} : h.mode = "write"
  OBVIOUS
<1>3. CASE q = <<>>
  <2>1. Pass(q, {}) = [queue |-> SubSeq(q, 0 + 1, Len(q)), holders |-> {} \cup {q[k] : k \in 1..0}]
    BY <1>1, <1>2, <1>3 DEF Pass
  <2>2. SubSeq(q, 0 + 1, Len(q)) = <<>> /\ {} \cup {q[k] : k \in 1..0} = {}
    BY <1>3
  <2> QED  BY <1>3, <2>1, <2>2
<1>4. CASE q # <<>>
  <2>1. Pass(q, {}) = [queue |-> SubSeq(q, 1 + 1, Len(q)), holders |-> {} \cup {q[k] : k \in 1..1}]
    BY <1>1, <1>2, <1>4 DEF Pass
  <2>2. 1 + 1 = 2 /\ {} \cup {q[k] : k \in 1..1} = {q[1]}
    OBVIOUS
  <2> QED  BY <1>4, <2>1, <2>2
<1> QED  BY <1>3, <1>4

LEMMA EntryOf ==
    ASSUME NEW c \in Calls PROVE Entry(c, "write") \in Write /\ Entry(c, "write").who = c
BY DEF Entry, Write

LEMMA EntryIs ==
    ASSUME NEW h \in Write PROVE h.who \in Calls /\ h = Entry(h.who, "write")
BY DEF Entry, Write

LEMMA OneHolder ==
    ASSUME NEW p, Shape(p), NEW c \in Calls, NEW d \in Calls, Holds(p, c), Holds(p, d)
    PROVE  c = d /\ p.holders = {Entry(c, "write")} /\ \A i \in DOMAIN p.queue : p.queue[i].who # c
BY DEF Shape, Holds, Entry

LEMMA EnterForm ==
    ASSUME NEW p, Shape(p), NEW c \in Calls, ~Has(p, c)
    PROVE  /\ Shape(Enter(p, c, "write"))
           /\ \A d \in Calls : Has(Enter(p, c, "write"), d) <=> Has(p, d) \/ d = c
           /\ \A d \in Calls : Holds(p, d) => Holds(Enter(p, c, "write"), d)
           /\ c \in Commits => LastIs(Enter(p, c, "write"), c)
           /\ \A x : c \notin Commits /\ LastIs(p, x) => LastIs(Enter(p, c, "write"), x)
<1>1. PICK e \in Write : e = Entry(c, "write") /\ e.who = c
  BY EntryOf
<1>2. PICK q \in Seq(Write) : q = p.queue
  BY DEF Shape
<1>3. PICK r \in Seq(Write) : r = Append(q, e)
  <2>1. Append(q, e) \in Seq(Write)
    OBVIOUS
  <2> QED  BY <2>1
<1>4. PICK n \in Nat : n = Len(q)
  OBVIOUS
<1>5. Len(r) = n + 1 /\ DOMAIN r = 1..(n + 1) /\ DOMAIN q = 1..n /\ r[n + 1] = e
      /\ \A i \in 1..n : r[i] = q[i]
  BY <1>3, <1>4
<1>6. \A i \in 1..(n + 1) : i = n + 1 \/ i \in 1..n
  BY <1>4
<1>10. \A i \in 1..n : i \in 1..(n + 1) /\ i <= n + 1
  BY <1>4
<1>11. n + 1 \in 1..(n + 1) /\ n + 1 <= n + 1
  BY <1>4
<1>7. \A i \in DOMAIN q : q[i].who # c
  BY <1>2 DEF Has, Waits
<1>8. CASE p.holders = {} /\ p.queue = <<>>
  <2>1. q = <<>> /\ r = <<e>> /\ Len(r) = 1 /\ r[1] = e /\ r # <<>> /\ SubSeq(r, 2, Len(r)) = <<>>
    BY <1>2, <1>3, <1>8
  <2>2. Enter(p, c, "write") = [queue |-> <<>>, holders |-> {e}]
    BY <1>1, <1>2, <1>3, <1>8, <2>1, PassFree DEF Enter
  <2>3. PICK o : o = Enter(p, c, "write")
    OBVIOUS
  <2>4. o.queue = <<>> /\ o.holders = {e} /\ o = [queue |-> o.queue, holders |-> o.holders]
    BY <2>2, <2>3
  <2>5. Shape(o)
    BY <1>1, <2>4 DEF Shape
  <2>6. \A d \in Calls : (Holds(o, d) <=> d = c) /\ ~Waits(o, d)
    BY <1>1, <2>4 DEF Holds, Waits
  <2>7. \A d \in Calls : ~Has(p, d)
    BY <1>8 DEF Has, Holds, Waits
  <2>8. c \in Commits => LastIs(o, c)
    BY <2>4, <2>6, Names DEF LastIs
  <2>9. \A x : c \notin Commits => LastIs(o, x)
    BY <2>4, <2>6, Names DEF LastIs
  <2> QED  BY <2>3, <2>5, <2>6, <2>7, <2>8, <2>9 DEF Has
<1>9. CASE \E b \in Calls : p.holders = {Entry(b, "write")} /\ \A i \in DOMAIN p.queue : p.queue[i].who # b
  <2>1. PICK b \in Calls : p.holders = {Entry(b, "write")} /\ \A i \in DOMAIN p.queue : p.queue[i].who # b
    BY <1>9
  <2>2. PICK h \in Write : h = Entry(b, "write") /\ h.who = b
    BY EntryOf
  <2>3. Enter(p, c, "write") = [queue |-> r, holders |-> {h}]
    BY <1>1, <1>2, <1>3, <2>1, <2>2, PassHeld DEF Enter
  <2>4. PICK o : o = Enter(p, c, "write")
    OBVIOUS
  <2>5. o.queue = r /\ o.holders = {h} /\ o = [queue |-> o.queue, holders |-> o.holders]
    BY <2>3, <2>4
  <2>6. p.holders = {h} /\ b # c
    BY <2>1, <2>2 DEF Has, Holds
  <2>7. \A i \in DOMAIN r : r[i].who # b
    BY <1>1, <1>2, <1>5, <1>6, <2>1, <2>6
  <2>8. \A i, j \in DOMAIN r : r[i].who = r[j].who => i = j
    <3>1. \A i, j \in DOMAIN q : q[i].who = q[j].who => i = j
      BY <1>2 DEF Shape
    <3> QED  BY <1>1, <1>5, <1>6, <1>7, <3>1
  <2>9. Shape(o)
    BY <2>2, <2>5, <2>7, <2>8 DEF Shape
  <2>10. \A d \in Calls : Holds(o, d) <=> Holds(p, d)
    BY <2>5, <2>6 DEF Holds
  <2>11. \A x : Waits(o, x) <=> Waits(p, x) \/ x = c
    <3>1. ASSUME NEW x, Waits(p, x) PROVE Waits(o, x)
      BY <1>2, <1>5, <1>10, <2>5, <3>1 DEF Waits
    <3>2. Waits(o, c)
      BY <1>1, <1>5, <1>11, <2>5 DEF Waits
    <3>3. ASSUME NEW x, Waits(o, x), x # c PROVE Waits(p, x)
      BY <1>1, <1>2, <1>5, <1>6, <2>5, <3>3 DEF Waits
    <3> QED  BY <3>1, <3>2, <3>3
  <2>12. c \in Commits => LastIs(o, c)
    <3>1. \A i \in DOMAIN r : \E j \in DOMAIN r : i <= j /\ r[j].who = c
      BY <1>1, <1>5, <1>6, <1>10, <1>11
    <3> QED  BY <2>5, <2>11, <3>1 DEF LastIs
  <2>13. ASSUME NEW x, c \notin Commits, LastIs(p, x) PROVE LastIs(o, x)
    <3>1. \A i \in DOMAIN q : q[i].who \in Commits => \E j \in DOMAIN q : i <= j /\ q[j].who = x
      BY <1>2, <2>13 DEF LastIs
    <3>2. \A i \in DOMAIN r : r[i].who \in Commits => \E j \in DOMAIN r : i <= j /\ r[j].who = x
      BY <1>1, <1>5, <1>6, <1>10, <2>13, <3>1
    <3>3. \A d \in Commits : Holds(o, d) => d = x \/ Waits(o, x)
      BY <2>10, <2>11, <2>13, Names DEF LastIs
    <3> QED  BY <2>5, <3>2, <3>3 DEF LastIs
  <2> QED  BY <2>4, <2>9, <2>10, <2>11, <2>12, <2>13 DEF Has
<1> QED  BY <1>8, <1>9 DEF Shape

LEMMA LeaveForm ==
    ASSUME NEW p, Shape(p), NEW c \in Calls, Holds(p, c)
    PROVE  /\ Shape(Leave(p, c))
           /\ \A d \in Calls : Has(Leave(p, c), d) <=> Has(p, d) /\ d # c
           /\ \A x : LastIs(p, x) => LastIs(Leave(p, c), x)
<1>1. p.holders = {Entry(c, "write")} /\ \A i \in DOMAIN p.queue : p.queue[i].who # c
  BY OneHolder
<1>2. PICK q \in Seq(Write) : q = p.queue
  BY DEF Shape
<1>3. {h \in p.holders : h.who # c} = {}
  BY <1>1 DEF Entry
<1>4. PICK o : o = Leave(p, c)
  OBVIOUS
<1>5. o = Pass(q, {})
  BY <1>2, <1>3, <1>4 DEF Leave
<1>6. \A d \in Calls : Holds(p, d) <=> d = c
  BY <1>1 DEF Holds, Entry
<1>20. \A x : LastIs(p, x) => \A i \in DOMAIN q : q[i].who \in Commits => \E j \in DOMAIN q : i <= j /\ q[j].who = x
  BY <1>2 DEF LastIs
<1>7. CASE q = <<>>
  <2>1. o.queue = <<>> /\ o.holders = {} /\ o = [queue |-> o.queue, holders |-> o.holders]
    <3>1. o = [queue |-> <<>>, holders |-> {}]
      BY <1>5, <1>7, PassFree
    <3> QED  BY <3>1
  <2>2. Shape(o)
    BY <2>1 DEF Shape
  <2>3. \A d : ~Holds(o, d) /\ ~Waits(o, d)
    BY <2>1 DEF Holds, Waits
  <2>4. \A d : ~Waits(p, d)
    BY <1>2, <1>7 DEF Waits
  <2>5. \A x : LastIs(o, x)
    BY <2>1, <2>3 DEF LastIs
  <2> QED  BY <1>4, <1>6, <2>2, <2>3, <2>4, <2>5 DEF Has
<1>8. CASE q # <<>>
  <2>1. PICK r \in Seq(Write) : r = SubSeq(q, 2, Len(q))
    <3>1. SubSeq(q, 2, Len(q)) \in Seq(Write)
      OBVIOUS
    <3> QED  BY <3>1
  <2>2. PICK n \in Nat : n + 1 = Len(q)
    BY <1>8
  <2>3. DOMAIN r = 1..n /\ DOMAIN q = 1..(n + 1) /\ \A i \in 1..n : r[i] = q[i + 1]
    BY <2>1, <2>2
  <2>4. PICK h \in Write : h = q[1] /\ h = Entry(h.who, "write")
    <3>1. q[1] \in Write
      BY <1>8
    <3> QED  BY <3>1, EntryIs
  <2>5. PICK b \in Calls : b = h.who
    BY EntryIs
  <2>6. o = [queue |-> r, holders |-> {h}]
    BY <1>5, <1>8, <2>1, <2>4, PassFree
  <2>7. o.queue = r /\ o.holders = {h} /\ o = [queue |-> o.queue, holders |-> o.holders]
    BY <2>6
  <2>8. \A i, j \in DOMAIN q : q[i].who = q[j].who => i = j
    BY <1>2 DEF Shape
  <2>9. /\ \A i \in 1..n : i + 1 \in 1..(n + 1) /\ i + 1 # 1
        /\ 1 \in 1..(n + 1)
        /\ \A i \in 1..(n + 1) : i = 1 \/ (i - 1 \in 1..n /\ (i - 1) + 1 = i)
        /\ \A i, j \in 1..n : i + 1 = j + 1 => i = j
    BY <2>2
  <2>10. \A i \in DOMAIN r : r[i].who # b
    <3>1. ASSUME NEW i \in 1..n, r[i].who = b PROVE FALSE
      <4>1. PICK x \in 1..(n + 1) : x = i + 1 /\ x # 1
        BY <2>9
      <4>2. q[x].who = q[1].who /\ x \in DOMAIN q /\ 1 \in DOMAIN q
        BY <2>3, <2>4, <2>5, <2>9, <3>1, <4>1
      <4> QED  BY <2>8, <4>1, <4>2
    <3> QED  BY <2>3, <3>1
  <2>11. \A i, j \in DOMAIN r : r[i].who = r[j].who => i = j
    <3>1. ASSUME NEW i \in 1..n, NEW j \in 1..n, r[i].who = r[j].who PROVE i = j
      <4>1. q[i + 1].who = q[j + 1].who /\ i + 1 \in DOMAIN q /\ j + 1 \in DOMAIN q
        BY <2>3, <2>9, <3>1
      <4>2. i + 1 = j + 1
        BY <2>8, <4>1
      <4> QED  BY <4>2
    <3> QED  BY <2>3, <3>1
  <2>12. Shape(o)
    BY <2>4, <2>5, <2>7, <2>10, <2>11 DEF Shape
  <2>13. \A d : Holds(o, d) <=> d = b
    BY <2>5, <2>7 DEF Holds
  <2>14. \A d : Waits(p, d) <=> Waits(o, d) \/ d = b
    <3>1. ASSUME NEW d, Waits(o, d) PROVE Waits(p, d)
      BY <1>2, <2>3, <2>7, <2>9, <3>1 DEF Waits
    <3>2. Waits(p, b)
      BY <1>2, <2>3, <2>4, <2>5, <2>9 DEF Waits
    <3>3. ASSUME NEW d, Waits(p, d), d # b PROVE Waits(o, d)
      <4>1. PICK i \in 1..(n + 1) : q[i].who = d
        BY <1>2, <2>3, <3>3 DEF Waits
      <4>2. i # 1
        BY <2>4, <2>5, <3>3, <4>1
      <4> QED  BY <2>3, <2>7, <2>9, <4>1, <4>2 DEF Waits
    <3> QED  BY <3>1, <3>2, <3>3
  <2>15. b # c /\ ~Waits(p, c)
    BY <1>1, <1>2, <2>3, <2>4, <2>5, <2>9 DEF Waits
  <2>16. ASSUME NEW x, LastIs(p, x) PROVE LastIs(o, x)
    <3>1. ASSUME NEW i \in 1..n, r[i].who \in Commits
          PROVE  \E j \in 1..n : i <= j /\ r[j].who = x
      <4>1. PICK j \in 1..(n + 1) : i + 1 <= j /\ q[j].who = x
        BY <1>20, <2>3, <2>9, <2>16, <3>1
      <4>2. j - 1 \in 1..n /\ i <= j - 1 /\ (j - 1) + 1 = j
        BY <2>2, <4>1
      <4> QED  BY <2>3, <4>1, <4>2
    <3>2. b \in Commits => b = x \/ Waits(o, x)
      <4>1. b \in Commits => \E j \in DOMAIN q : q[j].who = x
        BY <1>20, <2>3, <2>4, <2>5, <2>9, <2>16
      <4> QED  BY <1>2, <2>14, <4>1 DEF Waits
    <3> QED  BY <2>3, <2>7, <2>13, <3>1, <3>2 DEF LastIs
  <2> QED  BY <1>4, <1>6, <2>12, <2>13, <2>14, <2>15, <2>16 DEF Has
<1> QED  BY <1>7, <1>8

-----------------------------------------------------------------------------
(* Sequences of commands *)

LEMMA InAppend ==
    ASSUME NEW S, NEW q \in Seq(S), NEW x \in S
    PROVE  Append(q, x) \in Seq(S) /\ In(Append(q, x)) = In(q) \cup {x}
<1>1. PICK n \in Nat : n = Len(q)
  OBVIOUS
<1>2. PICK r : r = Append(q, x)
  OBVIOUS
<1>3. r \in Seq(S) /\ DOMAIN r = 1..(n + 1) /\ DOMAIN q = 1..n /\ r[n + 1] = x /\ \A i \in 1..n : r[i] = q[i]
  BY <1>1, <1>2
<1>4. /\ \A i \in 1..(n + 1) : i = n + 1 \/ i \in 1..n
      /\ \A i \in 1..n : i \in 1..(n + 1)
      /\ n + 1 \in 1..(n + 1)
  BY <1>1
<1>5. In(r) = In(q) \cup {x}
  BY <1>3, <1>4 DEF In
<1> QED  BY <1>2, <1>3, <1>5

LEMMA OrderedAppend ==
    ASSUME NEW q \in Seq(Command), NEW x \in Command, Ordered(q),
           \A k \in In(q) : k.by = x.by => k.n < x.n
    PROVE  Ordered(Append(q, x))
<1>1. PICK n \in Nat : n = Len(q)
  OBVIOUS
<1>2. PICK r : r = Append(q, x)
  OBVIOUS
<1>3. DOMAIN r = 1..(n + 1) /\ DOMAIN q = 1..n /\ r[n + 1] = x /\ \A i \in 1..n : r[i] = q[i]
  BY <1>1, <1>2
<1>4. \A i \in 1..n : q[i] \in In(q)
  BY <1>3 DEF In
<1>5. ASSUME NEW i \in 1..(n + 1), NEW j \in 1..(n + 1), i < j, r[i].by = r[j].by
      PROVE  r[i].n < r[j].n
  <2>1. i \in 1..n /\ (j = n + 1 \/ j \in 1..n)
    BY <1>1, <1>5
  <2>2. CASE j = n + 1
    <3>1. q[i].by = x.by
      BY <1>3, <1>5, <2>1, <2>2
    <3> QED  BY <1>3, <1>4, <2>1, <2>2, <3>1
  <2>3. CASE j \in 1..n
    <3>1. q[i].by = q[j].by
      BY <1>3, <1>5, <2>1, <2>3
    <3> QED  BY <1>3, <1>5, <2>1, <2>3, <3>1 DEF Ordered
  <2> QED  BY <2>1, <2>2, <2>3
<1>6. Ordered(r)
  BY <1>3, <1>5 DEF Ordered
<1> QED  BY <1>2, <1>6

LEMMA Joined ==
    ASSUME NEW q \in Seq(Command), NEW r \in Seq(Command)
    PROVE  /\ q \o r \in Seq(Command)
           /\ In(q \o r) = In(q) \cup In(r)
           /\ Ordered(q) /\ Ordered(r) /\ Before(q, r) => Ordered(q \o r)
<1>1. PICK m \in Nat : m = Len(q)
  OBVIOUS
<1>2. PICK n \in Nat : n = Len(r)
  OBVIOUS
<1>3. PICK s : s = q \o r
  OBVIOUS
<1>4. /\ s \in Seq(Command) /\ DOMAIN s = 1..(m + n) /\ DOMAIN q = 1..m /\ DOMAIN r = 1..n
      /\ \A i \in 1..m : s[i] = q[i]
      /\ \A i \in 1..(m + n) : i > m => s[i] = r[i - m]
  BY <1>1, <1>2, <1>3
<1>5. /\ \A i \in 1..(m + n) : i \in 1..m \/ (i > m /\ i - m \in 1..n)
      /\ \A i \in 1..m : i \in 1..(m + n)
      /\ \A i \in 1..n : i + m \in 1..(m + n) /\ i + m > m /\ (i + m) - m = i
      /\ \A i, j \in 1..(m + n) : i < j => (j \in 1..m => i \in 1..m) /\ i - m < j - m
  BY <1>1, <1>2
<1>6. \A i \in 1..n : s[i + m] = r[i]
  BY <1>4, <1>5
<1>7. In(s) = In(q) \cup In(r)
  <2>1. ASSUME NEW k \in In(s) PROVE k \in In(q) \cup In(r)
    <3>1. PICK i \in 1..(m + n) : k = s[i]
      BY <1>4 DEF In
    <3>2. CASE i \in 1..m
      BY <1>4, <3>1, <3>2 DEF In
    <3>3. CASE i > m /\ i - m \in 1..n
      <4>1. k = r[i - m] /\ i - m \in DOMAIN r
        BY <1>4, <3>1, <3>3
      <4> QED  BY <4>1 DEF In
    <3> QED  BY <1>5, <3>2, <3>3
  <2>2. \A k \in In(q) : k \in In(s)
    BY <1>4, <1>5 DEF In
  <2>3. ASSUME NEW k \in In(r) PROVE k \in In(s)
    <3>1. PICK i \in 1..n : k = r[i]
      BY <1>4 DEF In
    <3>2. PICK j \in 1..(m + n) : j = i + m
      BY <1>5
    <3>3. k = s[j] /\ j \in DOMAIN s
      BY <1>4, <1>6, <3>1, <3>2
    <3> QED  BY <3>3 DEF In
  <2> QED  BY <2>1, <2>2, <2>3
<1>8. ASSUME Ordered(q), Ordered(r), Before(q, r),
             NEW i \in 1..(m + n), NEW j \in 1..(m + n), i < j, s[i].by = s[j].by
      PROVE  s[i].n < s[j].n
  <2>1. CASE j \in 1..m
    <3>1. i \in 1..m /\ s[i] = q[i] /\ s[j] = q[j]
      BY <1>4, <1>5, <1>8, <2>1
    <3> QED  BY <1>4, <1>8, <2>1, <3>1 DEF Ordered
  <2>2. CASE j \notin 1..m
    <3>1. PICK y \in 1..n : y = j - m /\ s[j] = r[y]
      BY <1>4, <1>5, <2>2
    <3>2. CASE i \in 1..m
      <4>1. q[i] \in In(q) /\ r[y] \in In(r) /\ s[i] = q[i]
        BY <1>4, <3>1, <3>2 DEF In
      <4> QED  BY <1>8, <3>1, <4>1 DEF Before
    <3>3. CASE i \notin 1..m
      <4>1. PICK x \in 1..n : x = i - m /\ s[i] = r[x]
        BY <1>4, <1>5, <3>3
      <4>2. x < y
        BY <1>5, <1>8, <3>1, <4>1
      <4> QED  BY <1>4, <1>8, <3>1, <4>1, <4>2 DEF Ordered
    <3> QED  BY <3>2, <3>3
  <2> QED  BY <2>1, <2>2
<1>9. Ordered(q) /\ Ordered(r) /\ Before(q, r) => Ordered(s)
  BY <1>4, <1>8 DEF Ordered
<1> QED  BY <1>3, <1>4, <1>7, <1>9

LEMMA Parted ==
    ASSUME NEW q \in Seq(Command), q # <<>>
    PROVE  /\ Head(q) \in Command /\ Tail(q) \in Seq(Command)
           /\ In(q) = {Head(q)} \cup In(Tail(q))
           /\ Ordered(q) => Ordered(Tail(q)) /\ \A k \in In(Tail(q)) : Head(q).by = k.by => Head(q).n < k.n
<1>1. PICK n \in Nat : n + 1 = Len(q)
  <2>1. Len(q) - 1 \in Nat /\ (Len(q) - 1) + 1 = Len(q)
    OBVIOUS
  <2> QED  BY <2>1
<1>2. PICK t : t = Tail(q)
  OBVIOUS
<1>3. PICK h : h = Head(q)
  OBVIOUS
<1>4. /\ t \in Seq(Command) /\ h \in Command /\ h = q[1] /\ DOMAIN q = 1..(n + 1) /\ DOMAIN t = 1..n
      /\ \A i \in 1..n : t[i] = q[i + 1]
  BY <1>1, <1>2, <1>3
<1>5. /\ \A i \in 1..(n + 1) : i = 1 \/ (i - 1 \in 1..n /\ (i - 1) + 1 = i)
      /\ \A i \in 1..n : i + 1 \in 1..(n + 1) /\ 1 < i + 1
      /\ \A i, j \in 1..n : i < j => i + 1 < j + 1
      /\ 1 \in 1..(n + 1)
  BY <1>1
<1>6. \A i \in 1..(n + 1) : i = 1 \/ q[i] = t[i - 1]
  BY <1>4, <1>5
<1>7. In(q) = {h} \cup In(t)
  <2>1. ASSUME NEW k \in In(q), k # h PROVE k \in In(t)
    <3>1. PICK i \in 1..(n + 1) : k = q[i]
      BY <1>4 DEF In
    <3>2. PICK j \in 1..n : j = i - 1
      BY <1>4, <1>5, <2>1, <3>1
    <3>3. k = t[j] /\ j \in DOMAIN t
      BY <1>4, <1>6, <2>1, <3>1, <3>2
    <3> QED  BY <3>3 DEF In
  <2>2. h \in In(q) /\ \A k \in In(t) : k \in In(q)
    BY <1>4, <1>5 DEF In
  <2> QED  BY <2>1, <2>2
<1>8. ASSUME Ordered(q) PROVE Ordered(t) /\ \A k \in In(t) : h.by = k.by => h.n < k.n
  <2>1. ASSUME NEW i \in 1..n, NEW j \in 1..n, i < j, t[i].by = t[j].by PROVE t[i].n < t[j].n
    <3>1. PICK x \in 1..(n + 1) : x = i + 1
      BY <1>5
    <3>2. PICK y \in 1..(n + 1) : y = j + 1
      BY <1>5
    <3>3. x < y /\ t[i] = q[x] /\ t[j] = q[y]
      BY <1>4, <1>5, <2>1, <3>1, <3>2
    <3> QED  BY <1>4, <1>8, <2>1, <3>3 DEF Ordered
  <2>2. ASSUME NEW i \in 1..n, h.by = t[i].by PROVE h.n < t[i].n
    <3>1. PICK x \in 1..(n + 1) : x = i + 1 /\ 1 < x
      BY <1>5
    <3>2. t[i] = q[x] /\ 1 \in DOMAIN q /\ x \in DOMAIN q /\ h = q[1]
      BY <1>4, <1>5, <3>1
    <3> QED  BY <1>8, <2>2, <3>1, <3>2 DEF Ordered
  <2>3. Ordered(t)
    BY <1>4, <2>1 DEF Ordered
  <2> QED  BY <1>4, <2>2, <2>3 DEF In
<1> QED  BY <1>2, <1>3, <1>4, <1>7, <1>8

-----------------------------------------------------------------------------
(* The commands *)

LEMMA Places ==
    ASSUME JournalTypes
    PROVE  /\ In(applied) \subseteq Commands /\ In(batch) \subseteq Commands
           /\ \A i \in DOMAIN slots : slots[i] \in Seq(Command) /\ In(slots[i]) \subseteq Commands
           /\ \A k \in Commands : \/ k \in In(applied) \/ k \in In(batch)
                                  \/ \E i \in DOMAIN slots : k \in In(slots[i])
           /\ Commands \subseteq Command
<1>1. \A q \in Seq(Command) : In(q) \subseteq Command
  BY DEF In
<1>2. \A i \in DOMAIN slots : slots[i] \in Seq(Command)
  BY DEF JournalTypes
<1>3. applied \in Seq(Command) /\ batch \in Seq(Command)
  BY DEF JournalTypes
<1>4. /\ In(applied) \subseteq Commands /\ In(batch) \subseteq Commands
      /\ \A i \in DOMAIN slots : In(slots[i]) \subseteq Commands
      /\ \A k \in Commands : \/ k \in In(applied) \/ k \in In(batch)
                             \/ \E i \in DOMAIN slots : k \in In(slots[i])
  BY DEF Commands
<1> QED  BY <1>1, <1>2, <1>3, <1>4

\* Numbers and commands of one recorder.
LEMMA Numbered ==
    ASSUME JournalTypes, AllKept
    PROVE  /\ \A k \in Commands \cup dropped : k.by \in Recorders /\ k.n \in 1..num_staged[k.by]
           /\ \A r \in Recorders : \A n \in 1..num_staged[r] :
                \E k \in Commands \cup dropped : k.by = r /\ k.n = n
<1>1. DOMAIN num_staged = Recorders
  BY DEF JournalTypes
<1>2. \A k \in Commands \cup dropped : k.by \in Recorders
  BY Places DEF JournalTypes, Command
<1>3. \A r \in Recorders : {k.n : k \in {d \in Commands \cup dropped : d.by = r}} = 1..num_staged[r]
  BY <1>1 DEF AllKept
<1>4. ASSUME NEW k \in Commands \cup dropped PROVE k.n \in 1..num_staged[k.by]
  <2>1. k.n \in {l.n : l \in {d \in Commands \cup dropped : d.by = k.by}}
    OBVIOUS
  <2> QED  BY <1>2, <1>3, <2>1
<1>5. ASSUME NEW r \in Recorders, NEW n \in 1..num_staged[r]
      PROVE  \E k \in Commands \cup dropped : k.by = r /\ k.n = n
  <2>1. n \in {l.n : l \in {d \in Commands \cup dropped : d.by = r}}
    BY <1>3
  <2> QED  BY <2>1
<1> QED  BY <1>2, <1>4, <1>5

LEMMA KeptSame ==
    ASSUME AllKept, UNCHANGED <<Commands, dropped, num_staged>>
    PROVE  AllKept'
BY DEF AllKept

\* Nothing of the journal moves.
LEMMA JournalSame ==
    ASSUME JournalTypes, StagedExactlyOnce, UNCHANGED <<use, slots, batch, applied, dropped, num_staged>>,
           minted' \in Nat, at' \in Nat
    PROVE  JournalTypes' /\ StagedExactlyOnce'
<1>1. Commands' = Commands
  BY DEF Commands, In
<1>2. AllKept'
  BY <1>1, KeptSame DEF StagedExactlyOnce
<1>3. InOrder'
  BY DEF StagedExactlyOnce, InOrder, Ordered, Before, In
<1>4. JournalTypes'
  BY DEF JournalTypes
<1> QED  BY <1>2, <1>3, <1>4 DEF StagedExactlyOnce

\* A slot is added.
LEMMA SlotAdded ==
    ASSUME JournalTypes, StagedExactlyOnce, use = "program", slots' = Append(slots, <<>>),
           UNCHANGED <<use, batch, applied, dropped, num_staged, at>>, minted' \in Nat
    PROVE  /\ JournalTypes' /\ StagedExactlyOnce'
           /\ DOMAIN slots' = 1..(Len(slots) + 1)
           /\ \A i \in DOMAIN slots : i \in DOMAIN slots' /\ slots'[i] = slots[i]
           /\ \A i \in DOMAIN slots' : i \in DOMAIN slots \/ (i = Len(slots) + 1 /\ slots'[i] = <<>>)
<1>1. <<>> \in Seq(Command) /\ In(<<>>) = {}
  BY DEF In
<1>2. PICK n \in Nat : n = Len(slots)
  BY DEF JournalTypes
<1>3. slots \in Seq(Seq(Command))
  BY DEF JournalTypes
<1>4. /\ slots' \in Seq(Seq(Command)) /\ DOMAIN slots = 1..n /\ DOMAIN slots' = 1..(n + 1)
      /\ \A i \in 1..n : slots'[i] = slots[i]
      /\ slots'[n + 1] = <<>>
  BY <1>1, <1>2, <1>3
<1>5. /\ \A i \in 1..(n + 1) : i \in 1..n \/ i = n + 1
      /\ \A i \in 1..n : i \in 1..(n + 1)
      /\ n + 1 \in 1..(n + 1)
  BY <1>2
<1>6. Commands' = Commands
  <2>1. In(applied') = In(applied) /\ In(batch') = In(batch)
    OBVIOUS
  <2>2. UNION {In(slots'[i]) : i \in DOMAIN slots'} = UNION {In(slots[i]) : i \in DOMAIN slots}
    BY <1>1, <1>4, <1>5
  <2> QED  BY <2>1, <2>2 DEF Commands, In
<1>7. InOrder'
  <2>1. \A q : Before(q, <<>>)
    BY <1>1 DEF Before
  <2>2. Ordered(<<>>)
    BY DEF Ordered
  <2>3. \A i \in DOMAIN slots' : i \in DOMAIN slots \/ slots'[i] = <<>>
    BY <1>4, <1>5
  <2>4. \A i \in DOMAIN slots' : Ordered(slots'[i]) /\ Before(applied, slots'[i]) /\ Before(batch, slots'[i])
    BY <1>4, <2>1, <2>2, <2>3 DEF StagedExactlyOnce, InOrder
  <2>5. \A i, j \in DOMAIN slots' : i # j => \A k \in In(slots'[i]), l \in In(slots'[j]) : k.by # l.by
    BY <1>1, <1>4, <2>3 DEF StagedExactlyOnce, InOrder
  <2>6. Ordered(applied)' /\ Ordered(batch)' /\ Before(applied, batch)'
    BY DEF StagedExactlyOnce, InOrder, Ordered, Before, In
  <2>7. \A i \in DOMAIN slots' : Ordered(slots[i])' /\ Before(applied, slots[i])' /\ Before(batch, slots[i])'
    BY <2>4 DEF Ordered, Before, In
  <2>8. \A i, j \in DOMAIN slots' : i # j => \A k \in In(slots[i])', l \in In(slots[j])' : k.by # l.by
    BY <2>5 DEF In
  <2> QED  BY <2>6, <2>7, <2>8 DEF InOrder
<1>8. JournalTypes'
  BY <1>4 DEF JournalTypes
<1>9. AllKept'
  BY <1>6, KeptSame DEF StagedExactlyOnce
<1> QED  BY <1>2, <1>4, <1>5, <1>7, <1>8, <1>9 DEF StagedExactlyOnce

\* The same properties of given sequences.
Sorted(ap, ba, sl) ==
    /\ Ordered(ap) /\ Ordered(ba) /\ Before(ap, ba)
    /\ \A i \in DOMAIN sl :
        /\ Ordered(sl[i]) /\ Before(ap, sl[i]) /\ Before(ba, sl[i])
        /\ \A j \in DOMAIN sl \ {i} : \A k \in In(sl[i]), l \in In(sl[j]) : k.by # l.by
Gathered(ap, ba, sl) == In(ap) \cup In(ba) \cup UNION {In(sl[i]) : i \in DOMAIN sl}

LEMMA Unprimed == InOrder = Sorted(applied, batch, slots) /\ Commands = Gathered(applied, batch, slots)
BY DEF InOrder, Sorted, Commands, Gathered

LEMMA Primed ==
    /\ Sorted(applied', batch', slots') => InOrder'
    /\ Commands' = Gathered(applied', batch', slots')
BY DEF InOrder, Sorted, Commands, Gathered, Ordered, Before, In

\* A command is staged.
LEMMA Staged ==
    ASSUME JournalTypes, StagedExactlyOnce, NEW r \in Recorders, NEW s \in DOMAIN slots,
           NEW what \in {"write"} \cup Events \cup Subs, Stage(r, s, what),
           \A i \in DOMAIN slots : \A k \in In(slots[i]) : k.by = r => i = s,
           UNCHANGED <<use, batch, applied, dropped, minted, at>>
    PROVE  /\ JournalTypes' /\ StagedExactlyOnce' /\ DOMAIN slots' = DOMAIN slots
           /\ \A i \in DOMAIN slots \ {s} : slots'[i] = slots[i]
           /\ num_staged' = [num_staged EXCEPT ![r] = @ + 1]
           /\ \E x \in Command : /\ x.by = r /\ x.n = num_staged[r] + 1 /\ x.what = what
                                 /\ In(slots'[s]) = In(slots[s]) \cup {x}
                                 /\ Commands' = Commands \cup {x}
<1>1. slots \in Seq(Seq(Command)) /\ slots[s] \in Seq(Command) /\ num_staged \in [Recorders -> Nat]
  BY DEF JournalTypes
<1>2. PICK m \in Nat : m = num_staged[r] /\ num_staged'[r] = m + 1
  BY <1>1 DEF Stage
<1>3. PICK x \in Command : x = [by |-> r, n |-> num_staged'[r], what |-> what]
  <2>1. m + 1 \in Nat \ {0}
    BY <1>2
  <2>2. [by |-> r, n |-> num_staged'[r], what |-> what] \in Command
    BY <1>2, <2>1 DEF Command
  <2> QED  BY <2>2
<1>4. x.by = r /\ x.n = m + 1 /\ x.what = what
  BY <1>2, <1>3
<1>5. PICK q : q = Append(slots[s], x)
  OBVIOUS
<1>6. q \in Seq(Command) /\ In(q) = In(slots[s]) \cup {x}
  BY <1>1, <1>5, InAppend
<1>7. slots' = [slots EXCEPT ![s] = q]
  BY <1>3, <1>5 DEF Stage
<1>8. slots' \in Seq(Seq(Command)) /\ DOMAIN slots' = DOMAIN slots /\ Len(slots') = Len(slots) /\ slots'[s] = q
      /\ \A i \in DOMAIN slots \ {s} : slots'[i] = slots[i]
  BY <1>1, <1>6, <1>7
<1>9. \A k \in Commands \cup dropped : k.by = r => k.n \in 1..m
  BY <1>2, Numbered DEF StagedExactlyOnce
<1>10. \A k \in Commands \cup dropped : k.by = r => k.n < m + 1
  <2>1. \A n \in 1..m : n < m + 1
    BY <1>2
  <2> QED  BY <1>9, <2>1
<1>11. Commands' = Commands \cup {x}
  <2>1. Gathered(applied, batch, slots') = Gathered(applied, batch, slots) \cup {x}
    BY <1>6, <1>8 DEF Gathered
  <2> QED  BY <2>1, Unprimed, Primed
<1>12. Sorted(applied, batch, slots')
  <2>0. Sorted(applied, batch, slots)
    BY Unprimed DEF StagedExactlyOnce
  <2>1. Ordered(q)
    <3>1. \A k \in In(slots[s]) : k.by = x.by => k.n < x.n
      BY <1>4, <1>10, Places
    <3>2. Ordered(slots[s])
      BY <2>0 DEF Sorted
    <3> QED  BY <1>1, <1>5, <3>1, <3>2, OrderedAppend
  <2>2. \A k \in In(applied) \cup In(batch) : k.by = x.by => k.n < x.n
    BY <1>4, <1>10, Places
  <2>3. Before(applied, q) /\ Before(batch, q)
    <3>1. Before(applied, slots[s]) /\ Before(batch, slots[s])
      BY <2>0 DEF Sorted
    <3> QED  BY <1>6, <2>2, <3>1 DEF Before
  <2>4. \A i \in DOMAIN slots' : Ordered(slots'[i]) /\ Before(applied, slots'[i]) /\ Before(batch, slots'[i])
    <3>1. \A i \in DOMAIN slots' : i # s => slots'[i] = slots[i] /\ i \in DOMAIN slots
      BY <1>8
    <3>2. \A i \in DOMAIN slots : Ordered(slots[i]) /\ Before(applied, slots[i]) /\ Before(batch, slots[i])
      BY <2>0 DEF Sorted
    <3> QED  BY <1>8, <2>1, <2>3, <3>1, <3>2
  <2>5. \A i \in DOMAIN slots : \A j \in DOMAIN slots \ {i} :
            \A k \in In(slots[i]), l \in In(slots[j]) : k.by # l.by
    BY <2>0 DEF Sorted
  <2>6. \A i \in DOMAIN slots \ {s} : \A k \in In(slots[i]) : k.by # x.by
    BY <1>4
  <2>7. \A i \in DOMAIN slots' : \A j \in DOMAIN slots' \ {i} :
            \A k \in In(slots'[i]), l \in In(slots'[j]) : k.by # l.by
    <3>1. \A i \in DOMAIN slots : \A k \in In(slots'[i]) : k \in In(slots[i]) \/ (i = s /\ k = x)
      BY <1>6, <1>8
    <3>2. ASSUME NEW i \in DOMAIN slots, NEW j \in DOMAIN slots, i # j,
                 NEW k \in In(slots'[i]), NEW l \in In(slots'[j])
          PROVE  k.by # l.by
      <4>1. CASE k \in In(slots[i]) /\ l \in In(slots[j])
        BY <2>5, <3>2, <4>1
      <4>2. CASE i = s /\ k = x
        <5>1. l \in In(slots[j]) /\ j \in DOMAIN slots \ {s}
          BY <3>1, <3>2, <4>2
        <5> QED  BY <2>6, <4>2, <5>1
      <4>3. CASE j = s /\ l = x
        <5>1. k \in In(slots[i]) /\ i \in DOMAIN slots \ {s}
          BY <3>1, <3>2, <4>3
        <5> QED  BY <2>6, <4>3, <5>1
      <4> QED  BY <3>1, <4>1, <4>2, <4>3
    <3> QED  BY <1>8, <3>2
  <2>8. Ordered(applied) /\ Ordered(batch) /\ Before(applied, batch)
    BY <2>0 DEF Sorted
  <2> QED  BY <2>4, <2>7, <2>8 DEF Sorted
<1>13. AllKept'
  <2>1. num_staged' = [num_staged EXCEPT ![r] = m + 1] /\ DOMAIN num_staged' = Recorders
    BY <1>1, <1>2 DEF Stage
  <2>2. ASSUME NEW w \in Recorders
        PROVE  {k.n : k \in {d \in Commands' \cup dropped' : d.by = w}} = 1..num_staged'[w]
    <3>1. CASE w # r
      <4>1. {d \in Commands' \cup dropped' : d.by = w} = {d \in Commands \cup dropped : d.by = w}
        BY <1>4, <1>11, <3>1
      <4>2. num_staged'[w] = num_staged[w] /\ DOMAIN num_staged = Recorders
        BY <1>1, <2>1, <3>1
      <4> QED  BY <4>1, <4>2 DEF StagedExactlyOnce, AllKept
    <3>2. CASE w = r
      <4>1. {d \in Commands' \cup dropped' : d.by = w} = {d \in Commands \cup dropped : d.by = w} \cup {x}
        BY <1>4, <1>11, <3>2
      <4>2. {k.n : k \in {d \in Commands \cup dropped : d.by = w}} = 1..m
        BY <1>1, <1>2, <3>2 DEF StagedExactlyOnce, AllKept
      <4>3. {k.n : k \in {d \in Commands' \cup dropped' : d.by = w}} = (1..m) \cup {m + 1}
        BY <1>4, <4>1, <4>2
      <4>4. (1..m) \cup {m + 1} = 1..(m + 1)
        BY <1>2
      <4> QED  BY <1>2, <3>2, <4>3, <4>4
    <3> QED  BY <3>1, <3>2
  <2>3. ASSUME NEW k \in Commands', NEW d \in dropped', k.by = d.by PROVE k.n # d.n
    <3>1. CASE k \in Commands
      BY <2>3, <3>1 DEF StagedExactlyOnce, AllKept
    <3>2. CASE k = x
      <4>1. d.by = r /\ d \in dropped /\ d.n \in 1..m
        BY <1>4, <1>9, <2>3, <3>2
      <4>2. m + 1 \notin 1..m
        BY <1>2
      <4> QED  BY <1>4, <3>2, <4>1, <4>2
    <3> QED  BY <1>11, <3>1, <3>2
  <2> QED  BY <2>1, <2>2, <2>3 DEF AllKept
<1>14. JournalTypes'
  <2>1. num_staged' \in [Recorders -> Nat]
    BY <1>1, <1>2 DEF Stage
  <2> QED  BY <1>8, <2>1 DEF JournalTypes
<1>15. InOrder'
  BY <1>12, Primed
<1>16. num_staged' = [num_staged EXCEPT ![r] = @ + 1]
  BY DEF Stage
<1> QED  BY <1>2, <1>4, <1>6, <1>8, <1>11, <1>13, <1>14, <1>15, <1>16 DEF StagedExactlyOnce

\* What is left when slot s is emptied.
LEMMA Emptied ==
    ASSUME JournalTypes, NEW s \in DOMAIN slots, slots' = [slots EXCEPT ![s] = <<>>]
    PROVE  /\ slots' \in Seq(Seq(Command)) /\ DOMAIN slots' = DOMAIN slots /\ Len(slots') = Len(slots)
           /\ slots'[s] = <<>> /\ \A i \in DOMAIN slots \ {s} : slots'[i] = slots[i]
           /\ \A i \in DOMAIN slots : \A k \in In(slots'[i]) : i # s /\ k \in In(slots[i])
           /\ Ordered(<<>>)
           /\ UNION {In(slots[i]) : i \in DOMAIN slots}
                = In(slots[s]) \cup UNION {In(slots'[i]) : i \in DOMAIN slots'}
<1>1. slots \in Seq(Seq(Command)) /\ <<>> \in Seq(Command) /\ In(<<>>) = {}
  BY DEF JournalTypes, In
<1>2. /\ slots' \in Seq(Seq(Command)) /\ DOMAIN slots' = DOMAIN slots /\ Len(slots') = Len(slots)
      /\ slots'[s] = <<>> /\ \A i \in DOMAIN slots \ {s} : slots'[i] = slots[i]
  BY <1>1
<1>3. Ordered(<<>>)
  BY DEF Ordered
<1>4. \A i \in DOMAIN slots : In(slots'[i]) = IF i = s THEN {} ELSE In(slots[i])
  BY <1>1, <1>2
<1>5. UNION {In(slots[i]) : i \in DOMAIN slots}
        = In(slots[s]) \cup UNION {In(slots'[i]) : i \in DOMAIN slots'}
  BY <1>2, <1>4
<1>6. \A i \in DOMAIN slots : \A k \in In(slots'[i]) : i # s /\ k \in In(slots[i])
  BY <1>4
<1> QED  BY <1>2, <1>3, <1>5, <1>6

\* A slot is cut.
LEMMA Cut ==
    ASSUME JournalTypes, StagedExactlyOnce, NEW s \in DOMAIN slots,
           batch' = batch \o slots[s], slots' = [slots EXCEPT ![s] = <<>>],
           UNCHANGED <<use, applied, dropped, num_staged, minted>>, at' \in Nat
    PROVE  JournalTypes' /\ StagedExactlyOnce' /\ UNCHANGED Commands
<1>1. slots[s] \in Seq(Command) /\ batch \in Seq(Command)
  BY DEF JournalTypes
<1>2. Sorted(applied, batch, slots)
  BY Unprimed DEF StagedExactlyOnce
<1>3. Ordered(slots[s]) /\ Ordered(batch) /\ Before(batch, slots[s]) /\ Before(applied, slots[s])
      /\ Before(applied, batch) /\ Ordered(applied)
  BY <1>2 DEF Sorted
<1>4. batch' \in Seq(Command) /\ In(batch') = In(batch) \cup In(slots[s]) /\ Ordered(batch')
  BY <1>1, <1>3, Joined
<1>5. Before(applied, batch')
  BY <1>3, <1>4 DEF Before
<1>6. \A i \in DOMAIN slots' : Ordered(slots'[i]) /\ Before(applied, slots'[i])
  <2>1. \A i \in DOMAIN slots : Ordered(slots[i]) /\ Before(applied, slots[i])
    BY <1>2 DEF Sorted
  <2>2. /\ DOMAIN slots' = DOMAIN slots /\ slots'[s] = <<>> /\ Ordered(<<>>)
        /\ \A i \in DOMAIN slots \ {s} : slots'[i] = slots[i]
    BY Emptied
  <2>3. \A p : Before(p, <<>>)
    BY DEF Before, In
  <2>4. ASSUME NEW i \in DOMAIN slots
        PROVE  Ordered(slots'[i]) /\ Before(applied, slots'[i])
    <3>1. CASE i = s
      BY <2>2, <2>3, <3>1
    <3>2. CASE i # s
      <4>1. slots'[i] = slots[i]
        BY <2>2, <3>2
      <4> QED  BY <2>1, <4>1
    <3> QED  BY <3>1, <3>2
  <2> QED  BY <2>2, <2>4
<1>7. \A i \in DOMAIN slots : \A j \in DOMAIN slots \ {i} :
          \A k \in In(slots[i]), l \in In(slots[j]) : k.by # l.by
  BY <1>2 DEF Sorted
<1>8. \A i \in DOMAIN slots' : Before(batch', slots'[i])
  <2>1. \A i \in DOMAIN slots : Before(batch, slots[i])
    BY <1>2 DEF Sorted
  <2>2. ASSUME NEW i \in DOMAIN slots, NEW k \in In(batch'), NEW l \in In(slots'[i]), k.by = l.by
        PROVE  k.n < l.n
    <3>1. i # s /\ l \in In(slots[i])
      BY Emptied
    <3>2. k \notin In(slots[s])
      BY <1>7, <2>2, <3>1
    <3>3. k \in In(batch)
      BY <1>4, <3>2
    <3> QED  BY <2>1, <2>2, <3>1, <3>3 DEF Before
  <2>3. DOMAIN slots' = DOMAIN slots
    BY Emptied
  <2> QED  BY <2>2, <2>3 DEF Before
<1>9. \A i \in DOMAIN slots' : \A j \in DOMAIN slots' \ {i} :
          \A k \in In(slots'[i]), l \in In(slots'[j]) : k.by # l.by
  <2>1. DOMAIN slots' = DOMAIN slots
    BY Emptied
  <2>2. \A i \in DOMAIN slots : \A k \in In(slots'[i]) : k \in In(slots[i])
    BY Emptied
  <2> QED  BY <1>7, <2>1, <2>2
<1>10. Sorted(applied, batch', slots')
  BY <1>3, <1>4, <1>5, <1>6, <1>8, <1>9 DEF Sorted
<1>11. Gathered(applied, batch', slots') = Gathered(applied, batch, slots)
  BY <1>4, Emptied DEF Gathered
<1>12. Commands' = Commands
  BY <1>11, Unprimed, Primed
<1>13. AllKept'
  BY <1>12, KeptSame DEF StagedExactlyOnce
<1>14. JournalTypes'
  BY <1>4, Emptied DEF JournalTypes
<1> QED  BY <1>10, <1>12, <1>13, <1>14, Primed DEF StagedExactlyOnce

\* A slot is cleared.
LEMMA Cleared ==
    ASSUME JournalTypes, StagedExactlyOnce, NEW s \in DOMAIN slots,
           dropped' = dropped \cup In(slots[s]), slots' = [slots EXCEPT ![s] = <<>>],
           UNCHANGED <<use, applied, batch, num_staged, minted>>, at' \in Nat
    PROVE  JournalTypes' /\ StagedExactlyOnce'
<1>1. slots[s] \in Seq(Command) /\ batch \in Seq(Command) /\ In(slots[s]) \subseteq Command
  BY DEF JournalTypes, In
<1>2. Sorted(applied, batch, slots)
  BY Unprimed DEF StagedExactlyOnce
<1>6. \A i \in DOMAIN slots' : Ordered(slots'[i]) /\ Before(applied, slots'[i]) /\ Before(batch, slots'[i])
  <2>1. \A i \in DOMAIN slots : Ordered(slots[i]) /\ Before(applied, slots[i]) /\ Before(batch, slots[i])
    BY <1>2 DEF Sorted
  <2>2. /\ DOMAIN slots' = DOMAIN slots /\ slots'[s] = <<>> /\ Ordered(<<>>)
        /\ \A i \in DOMAIN slots \ {s} : slots'[i] = slots[i]
    BY Emptied
  <2>3. \A p : Before(p, <<>>)
    BY DEF Before, In
  <2>4. ASSUME NEW i \in DOMAIN slots
        PROVE  Ordered(slots'[i]) /\ Before(applied, slots'[i]) /\ Before(batch, slots'[i])
    <3>1. CASE i = s
      BY <2>2, <2>3, <3>1
    <3>2. CASE i # s
      <4>1. slots'[i] = slots[i]
        BY <2>2, <3>2
      <4> QED  BY <2>1, <4>1
    <3> QED  BY <3>1, <3>2
  <2> QED  BY <2>2, <2>4
<1>7. \A i \in DOMAIN slots : \A j \in DOMAIN slots \ {i} :
          \A k \in In(slots[i]), l \in In(slots[j]) : k.by # l.by
  BY <1>2 DEF Sorted
<1>9. \A i \in DOMAIN slots' : \A j \in DOMAIN slots' \ {i} :
          \A k \in In(slots'[i]), l \in In(slots'[j]) : k.by # l.by
  <2>1. DOMAIN slots' = DOMAIN slots
    BY Emptied
  <2>2. \A i \in DOMAIN slots : \A k \in In(slots'[i]) : k \in In(slots[i])
    BY Emptied
  <2> QED  BY <1>7, <2>1, <2>2
<1>10. Sorted(applied, batch, slots')
  BY <1>2, <1>6, <1>9 DEF Sorted
<1>11. Gathered(applied, batch, slots') \cup In(slots[s]) = Gathered(applied, batch, slots)
  BY Emptied DEF Gathered
<1>12. Commands' \cup In(slots[s]) = Commands
  BY <1>11, Unprimed, Primed
<1>13. ASSUME NEW k \in Commands', NEW d \in In(slots[s]), k.by = d.by PROVE k.n # d.n
  <2>1. k \in In(applied) \/ k \in In(batch) \/ \E i \in DOMAIN slots' : k \in In(slots'[i])
    BY Primed DEF Gathered
  <2>2. CASE k \in In(applied) \/ k \in In(batch)
    <3>1. k.n < d.n
      BY <1>2, <1>13, <2>2 DEF Sorted, Before
    <3>2. d.n \in Nat /\ k.n \in Nat
      BY <1>1, <1>12, Places DEF Command
    <3> QED  BY <3>1, <3>2
  <2>3. CASE \E i \in DOMAIN slots' : k \in In(slots'[i])
    <3>1. PICK i \in DOMAIN slots : k \in In(slots'[i])
      BY <2>3, Emptied
    <3>2. i # s /\ k \in In(slots[i])
      BY <3>1, Emptied
    <3> QED  BY <1>7, <1>13, <3>2
  <2> QED  BY <2>1, <2>2, <2>3
<1>14. AllKept'
  <2>1. Commands' \cup dropped' = Commands \cup dropped
    BY <1>12
  <2>2. \A k \in Commands', d \in dropped' : k.by = d.by => k.n # d.n
    BY <1>12, <1>13 DEF StagedExactlyOnce, AllKept
  <2> QED  BY <2>1, <2>2 DEF StagedExactlyOnce, AllKept
<1>15. JournalTypes'
  BY <1>1, Emptied DEF JournalTypes
<1> QED  BY <1>10, <1>14, <1>15, Primed DEF StagedExactlyOnce

\* A command is applied.
LEMMA Applied ==
    ASSUME JournalTypes, StagedExactlyOnce, batch # <<>>,
           applied' = Append(applied, Head(batch)), batch' = Tail(batch),
           UNCHANGED <<use, slots, dropped, num_staged, minted, at>>
    PROVE  /\ JournalTypes' /\ StagedExactlyOnce' /\ UNCHANGED Commands
           /\ Head(batch) \in In(batch) /\ In(applied') = In(applied) \cup {Head(batch)}
<1>1. batch \in Seq(Command) /\ applied \in Seq(Command)
  BY DEF JournalTypes
<1>2. Sorted(applied, batch, slots)
  BY Unprimed DEF StagedExactlyOnce
<1>3. PICK h \in Command : h = Head(batch)
  BY <1>1, Parted
<1>4. Ordered(applied) /\ Ordered(batch) /\ Before(applied, batch)
  BY <1>2 DEF Sorted
<1>5. /\ batch' \in Seq(Command) /\ In(batch) = {h} \cup In(batch') /\ Ordered(batch')
      /\ \A k \in In(batch') : h.by = k.by => h.n < k.n
  BY <1>1, <1>3, <1>4, Parted
<1>6. applied' \in Seq(Command) /\ In(applied') = In(applied) \cup {h}
  BY <1>1, <1>3, InAppend
<1>7. Ordered(applied')
  <2>1. \A k \in In(applied) : k.by = h.by => k.n < h.n
    BY <1>4, <1>5 DEF Before
  <2> QED  BY <1>1, <1>3, <1>4, <2>1, OrderedAppend
<1>8. Before(applied', batch')
  BY <1>4, <1>5, <1>6 DEF Before
<1>9. \A i \in DOMAIN slots : Before(applied', slots[i]) /\ Before(batch', slots[i])
  <2>1. \A i \in DOMAIN slots : Before(applied, slots[i]) /\ Before(batch, slots[i])
    BY <1>2 DEF Sorted
  <2> QED  BY <1>5, <1>6, <2>1 DEF Before
<1>10. Sorted(applied', batch', slots)
  BY <1>2, <1>5, <1>7, <1>8, <1>9 DEF Sorted
<1>11. Gathered(applied', batch', slots) = Gathered(applied, batch, slots)
  BY <1>5, <1>6 DEF Gathered
<1>12. Commands' = Commands
  BY <1>11, Unprimed, Primed
<1>13. AllKept'
  BY <1>12, KeptSame DEF StagedExactlyOnce
<1>14. JournalTypes'
  BY <1>5, <1>6 DEF JournalTypes
<1>15. InOrder'
  BY <1>10, Primed
<1> QED  BY <1>3, <1>5, <1>6, <1>12, <1>13, <1>14, <1>15 DEF StagedExactlyOnce

-----------------------------------------------------------------------------
(* The calls and the pipe *)

Label == CommitPcs \cup SubPcs \cup DispatchPcs

\* Call c goes to l.
LEMMA PcGoes ==
    ASSUME PcTypes, NEW c \in Calls, NEW l \in Label, Goto(c, l), UNCHANGED use,
           c \in Commits => l \in CommitPcs /\ use = "program",
           c \in Writers => l \in WriterPcs /\ use = "program",
           c \in Subs => l \in SubPcs /\ use = "bus",
           c = Dispatch => l \in DispatchPcs /\ use = "bus"
    PROVE  PcTypes' /\ pc'[c] = l /\ \A d \in Calls : d # c => pc'[d] = pc[d]
<1>1. pc \in [Calls -> Label] /\ pc' = [pc EXCEPT ![c] = l]
  BY DEF PcTypes, Goto, Label
<1>2. pc' \in [Calls -> Label] /\ pc'[c] = l /\ \A d \in Calls : d # c => pc'[d] = pc[d]
  BY <1>1
<1>3. \A d \in Commits : pc'[d] \in CommitPcs
  BY <1>2, Names DEF PcTypes
<1>4. \A d \in Writers : pc'[d] \in WriterPcs
  BY <1>2, Names DEF PcTypes
<1>5. \A d \in Subs : pc'[d] \in SubPcs
  BY <1>2, Names DEF PcTypes
<1>6. pc'[Dispatch] \in DispatchPcs
  BY <1>2, Names DEF PcTypes
<1>7. use = "program" => \A d \in Subs \cup {Dispatch} : pc'[d] = "out"
  BY <1>2, Names DEF PcTypes
<1>8. use = "bus" => \A d \in Commits \cup Writers : pc'[d] = "out"
  BY <1>2, Names DEF PcTypes
<1>9. use' \in {"program", "bus"}
  BY DEF PcTypes
<1>10. PcTypes'
  BY <1>2, <1>3, <1>4, <1>5, <1>6, <1>7, <1>8, <1>9 DEF PcTypes, Label
<1> QED  BY <1>2, <1>10

\* Which calls can be under way.
LEMMA WhoseUse ==
    ASSUME PcTypes, NEW c \in Calls, pc[c] # "out"
    PROVE  /\ c \in Commits => use = "program" /\ pc[c] \in CommitPcs
           /\ c \in Writers => use = "program" /\ pc[c] \in WriterPcs
           /\ c \in Subs => use = "bus" /\ pc[c] \in SubPcs
           /\ c = Dispatch => use = "bus" /\ pc[c] \in DispatchPcs
           /\ c \in Commits \/ c \in Writers \/ c \in Subs \/ c = Dispatch
<1>1. c \in Commits => use # "bus" /\ pc[c] \in CommitPcs
  BY DEF PcTypes
<1>2. c \in Writers => use # "bus" /\ pc[c] \in WriterPcs
  BY DEF PcTypes
<1>3. c \in Subs => use # "program" /\ pc[c] \in SubPcs
  BY DEF PcTypes
<1>4. c = Dispatch => use # "program" /\ pc[c] \in DispatchPcs
  BY DEF PcTypes
<1>5. use = "program" \/ use = "bus"
  BY DEF PcTypes
<1>6. c \in Commits \/ c \in Writers \/ c \in Subs \/ c = Dispatch
  BY DEF Calls
<1> QED  BY <1>1, <1>2, <1>3, <1>4, <1>5, <1>6

LEMMA RecordersSame ==
    ASSUME RecordersInv, UNCHANGED <<use, slots, free, num_staged, minted, slot_of>>
    PROVE  RecordersInv'
BY DEF RecordersInv, In

\* A step that moves no command and not the register.
LEMMA JournalQuiet ==
    ASSUME CommandsInv, NEW c \in Calls, pc[c] # "cut", pc'[c] # "cut",
           \A d \in Calls : d # c => pc'[d] = pc[d], UNCHANGED <<use, journal, applied>>
    PROVE  JournalTypes' /\ RegisterInv' /\ RecordersInv' /\ StagedExactlyOnce'
<1>1. UNCHANGED <<use, slots, free, register, at, batch, num_staged, minted, slot_of, dropped, applied>>
  BY DEF journal
<1>2. JournalTypes' /\ StagedExactlyOnce'
  BY <1>1, JournalSame DEF CommandsInv, JournalTypes
<1>3. RecordersInv'
  BY <1>1, RecordersSame DEF CommandsInv
<1>4. \A d \in Calls : pc'[d] = "cut" <=> pc[d] = "cut"
  OBVIOUS
<1>5. RegisterInv'
  BY <1>1, <1>4 DEF CommandsInv, RegisterInv
<1> QED  BY <1>2, <1>3, <1>5

LEMMA PipeStays ==
    ASSUME PipeInv, NEW c \in Calls, UNCHANGED pipe,
           \A d \in Calls : d # c => pc'[d] = pc[d],
           pc'[c] \in InPipe <=> pc[c] \in InPipe, pc'[c] \in Granted => Holds(pipe, c),
           batch' # <<>> => \E d \in Calls : pc'[d] \in {"cut", "apply"}
    PROVE  PipeInv'
<1>1. Shape(pipe)'
  BY DEF PipeInv, Shape
<1>2. \A d \in Calls : Has(pipe', d) <=> Has(pipe, d)
  OBVIOUS
<1>3. \A d \in Calls : Holds(pipe', d) <=> Holds(pipe, d)
  OBVIOUS
<1>4. \A d \in Calls : pc'[d] \in InPipe <=> Has(pipe', d)
  BY <1>2 DEF PipeInv
<1>5. \A d \in Calls : pc'[d] \in Granted => Holds(pipe', d)
  BY <1>3 DEF PipeInv
<1> QED  BY <1>1, <1>4, <1>5 DEF PipeInv, Has, Holds, Waits

LEMMA PipeEntered ==
    ASSUME PipeInv, NEW c \in Calls, pc[c] \notin InPipe, pipe' = Enter(pipe, c, "write"),
           \A d \in Calls : d # c => pc'[d] = pc[d], pc'[c] \in {"queued", "removing"}, UNCHANGED batch
    PROVE  PipeInv' /\ (c \in Commits => LastIs(pipe', c))
           /\ \A x : c \notin Commits /\ LastIs(pipe, x) => LastIs(pipe', x)
<1>1. ~Has(pipe, c) /\ Shape(pipe)
  BY DEF PipeInv
<1>2. Shape(pipe') /\ \A d \in Calls : Has(pipe', d) <=> Has(pipe, d) \/ d = c
  BY <1>1, EnterForm
<1>3. \A d \in Calls : Holds(pipe, d) => Holds(pipe', d)
  BY <1>1, EnterForm
<1>4. \A d \in Calls : pc'[d] \in InPipe <=> Has(pipe', d)
  <2>1. pc'[c] \in InPipe
    BY DEF InPipe
  <2> QED  BY <1>2, <2>1 DEF PipeInv
<1>5. \A d \in Calls : pc'[d] \in Granted => Holds(pipe', d)
  <2>1. pc'[c] \notin Granted
    BY DEF Granted
  <2> QED  BY <1>3, <2>1 DEF PipeInv
<1>6. batch # <<>> => \E d \in Calls : pc'[d] \in {"cut", "apply"}
  <2>1. ASSUME NEW d \in Calls, pc[d] \in {"cut", "apply"} PROVE pc'[d] \in {"cut", "apply"}
    BY <2>1 DEF InPipe
  <2> QED  BY <2>1 DEF PipeInv
<1>7. PipeInv'
  BY <1>2, <1>4, <1>5, <1>6 DEF PipeInv, Shape, Has, Holds, Waits
<1> QED  BY <1>1, <1>7, EnterForm

LEMMA PipeLeft ==
    ASSUME PipeInv, NEW c \in Calls, Holds(pipe, c), pipe' = Leave(pipe, c),
           \A d \in Calls : d # c => pc'[d] = pc[d], pc'[c] \notin InPipe,
           pc[c] \notin {"cut", "apply"}, UNCHANGED batch
    PROVE  PipeInv' /\ \A x : LastIs(pipe, x) => LastIs(pipe', x)
<1>1. Shape(pipe)
  BY DEF PipeInv
<1>2. Shape(pipe') /\ \A d \in Calls : Has(pipe', d) <=> Has(pipe, d) /\ d # c
  BY <1>1, LeaveForm
<1>3. \A d \in Calls : pc'[d] \in InPipe <=> Has(pipe', d)
  BY <1>2 DEF PipeInv
<1>4. \A d \in Calls : pc'[d] \in Granted => Holds(pipe', d)
  <2>1. ASSUME NEW d \in Calls, pc'[d] \in Granted PROVE FALSE
    <3>1. d # c
      BY <2>1 DEF Granted, InPipe
    <3>2. Holds(pipe, d)
      BY <2>1, <3>1 DEF PipeInv
    <3> QED  BY <1>1, <3>1, <3>2, OneHolder
  <2> QED  BY <2>1
<1>5. batch # <<>> => \E d \in Calls : pc'[d] \in {"cut", "apply"}
  BY DEF PipeInv
<1>6. PipeInv'
  BY <1>2, <1>3, <1>4, <1>5 DEF PipeInv, Shape, Has, Holds, Waits
<1> QED  BY <1>1, <1>6, LeaveForm

\* Nobody of a destroyed Deferred sets out.
LEMMA LastKept ==
    ASSUME LastInv, NEW c \in Calls, \A d \in Calls : d # c => pc'[d] = pc[d],
           c \in Commits \cup Writers => life = "live" \/ pc[c] \notin {"out", "done"},
           UNCHANGED <<last_commit, life>>, LastIs(pipe', last_commit)
    PROVE  LastInv'
<1>1. life = "dead" => \A d \in Commits \cup Writers : pc'[d] \in {"out", "done"}
  BY Names DEF LastInv, NoCommitAfterDestroy
<1>2. NoCommitAfterDestroy'
  BY <1>1 DEF NoCommitAfterDestroy
<1> QED  BY <1>2 DEF LastInv, LastIs, Holds, Waits

-----------------------------------------------------------------------------
(* One lemma per kind of step *)

\* A call moves on without entering or leaving the pipe.
LEMMA CallMoves ==
    ASSUME CommandsInv, NEW c \in Calls, NEW l \in Label, Goto(c, l),
           UNCHANGED <<use, journal, applied, pipe, last_commit, life>>,
           c \in Commits => l \in CommitPcs /\ use = "program",
           c \in Writers => l \in WriterPcs /\ use = "program",
           c \in Subs => l \in SubPcs /\ use = "bus",
           c = Dispatch => l \in DispatchPcs /\ use = "bus",
           c \in Commits \cup Writers => life = "live" \/ pc[c] \notin {"out", "done"},
           pc[c] # "cut", l # "cut", pc[c] = "apply" => batch = <<>>,
           l \in InPipe <=> pc[c] \in InPipe, l \in Granted => Holds(pipe, c)
    PROVE  CommandsInv'
<1>1. PcTypes' /\ pc'[c] = l /\ \A d \in Calls : d # c => pc'[d] = pc[d]
  BY PcGoes DEF CommandsInv
<1>2. JournalTypes' /\ RegisterInv' /\ RecordersInv' /\ StagedExactlyOnce'
  BY <1>1, JournalQuiet
<1>3. batch' # <<>> => \E d \in Calls : pc'[d] \in {"cut", "apply"}
  BY <1>1 DEF CommandsInv, PipeInv, journal
<1>4. PipeInv'
  BY <1>1, <1>3, PipeStays DEF CommandsInv
<1>5. LastInv'
  BY <1>1, LastKept DEF CommandsInv, LastInv
<1> QED  BY <1>1, <1>2, <1>4, <1>5 DEF CommandsInv

\* A call enters the pipe.
LEMMA CallEnters ==
    ASSUME CommandsInv, NEW c \in Calls, NEW l \in {"queued", "removing"}, Goto(c, l),
           UNCHANGED <<use, journal, applied, life>>, pipe' = Enter(pipe, c, "write"),
           last_commit' = (IF c \in Commits THEN c ELSE last_commit),
           c \in Commits \cup Writers \cup {Dispatch} => l = "queued",
           c \in Commits \cup Writers => use = "program" /\ (life = "live" \/ pc[c] \notin {"out", "done"}),
           c \in Subs => l = "removing" /\ use = "bus",
           c = Dispatch => use = "bus",
           pc[c] \notin InPipe
    PROVE  CommandsInv'
<1>0. pc[c] # "cut" /\ l # "cut" /\ l \in Label
  BY DEF InPipe, Label, CommitPcs, SubPcs
<1>1. PcTypes' /\ pc'[c] = l /\ \A d \in Calls : d # c => pc'[d] = pc[d]
  BY <1>0, PcGoes DEF CommandsInv, CommitPcs, WriterPcs, SubPcs, DispatchPcs
<1>2. JournalTypes' /\ RegisterInv' /\ RecordersInv' /\ StagedExactlyOnce'
  BY <1>0, <1>1, JournalQuiet
<1>3. batch' = batch
  BY DEF journal
<1>4. PipeInv' /\ (c \in Commits => LastIs(pipe', c))
      /\ \A x : c \notin Commits /\ LastIs(pipe, x) => LastIs(pipe', x)
  BY <1>1, <1>3, PipeEntered DEF CommandsInv
<1>5. LastInv'
  <2>1. CASE c \notin Commits
    BY <1>1, <1>4, <2>1, LastKept DEF CommandsInv, LastInv
  <2>2. CASE c \in Commits
    <3>1. LastIs(pipe', last_commit')
      BY <1>4, <2>2
    <3>2. life = "dead" => \A d \in Commits \cup Writers : pc'[d] \in {"out", "done"}
      BY <1>1, <2>2, Names DEF CommandsInv, LastInv, NoCommitAfterDestroy
    <3>3. NoCommitAfterDestroy'
      BY <3>2 DEF NoCommitAfterDestroy
    <3> QED  BY <2>2, <3>1, <3>3 DEF CommandsInv, LastInv, LastIs, Holds, Waits
  <2> QED  BY <2>1, <2>2
<1> QED  BY <1>1, <1>2, <1>4, <1>5 DEF CommandsInv

\* A call gives its grant back.
LEMMA CallLeaves ==
    ASSUME CommandsInv, NEW c \in Calls, NEW l \in {"done", "gone", "out"}, Goto(c, l),
           UNCHANGED <<use, journal, applied, life, last_commit>>, pipe' = Leave(pipe, c),
           c \in Commits \cup Writers => l = "done" /\ use = "program",
           c \in Subs => l = "gone" /\ use = "bus",
           c = Dispatch => l = "out" /\ use = "bus",
           pc[c] \in {"applied", "removing", "deliver"}, Holds(pipe, c)
    PROVE  CommandsInv'
<1>0. pc[c] # "cut" /\ l # "cut" /\ l \in Label /\ l \notin InPipe /\ pc[c] \notin {"out", "done"}
      /\ pc[c] \notin {"cut", "apply"}
  BY DEF InPipe, Label, CommitPcs, SubPcs
<1>1. PcTypes' /\ pc'[c] = l /\ \A d \in Calls : d # c => pc'[d] = pc[d]
  BY <1>0, PcGoes DEF CommandsInv, CommitPcs, WriterPcs, SubPcs, DispatchPcs
<1>2. JournalTypes' /\ RegisterInv' /\ RecordersInv' /\ StagedExactlyOnce'
  BY <1>0, <1>1, JournalQuiet
<1>3. batch' = batch
  BY DEF journal
<1>4. PipeInv' /\ \A x : LastIs(pipe, x) => LastIs(pipe', x)
  BY <1>0, <1>1, <1>3, PipeLeft DEF CommandsInv
<1>5. LastInv'
  BY <1>0, <1>1, <1>4, LastKept DEF CommandsInv, LastInv
<1> QED  BY <1>1, <1>2, <1>4, <1>5 DEF CommandsInv

LEMMA commitStep ==
    ASSUME CommandsInv, NEW c \in Commits, commit(c)
    PROVE  CommandsInv'
<1>1. c \in Calls /\ c \notin Writers /\ c \notin Subs /\ c # Dispatch
  BY Names
<1>2. /\ pc[c] = "out" /\ use = "program" /\ life = "live" /\ Goto(c, "enqueue")
      /\ UNCHANGED <<use, journal, applied, pipe, last_commit, life>>
  BY DEF commit
<1> QED  BY <1>1, <1>2, CallMoves DEF Label, CommitPcs, InPipe, Granted

LEMMA pipe_enqueueStep ==
    ASSUME CommandsInv, NEW c \in Commits, pipe_enqueue(c)
    PROVE  CommandsInv'
<1>1. c \in Calls /\ c \notin Writers /\ c \notin Subs /\ c # Dispatch
  BY Names
<1>2. /\ pc[c] = "enqueue" /\ Goto(c, "queued") /\ pipe' = Enter(pipe, c, "write") /\ last_commit' = c
      /\ UNCHANGED <<use, journal, applied, life>>
  BY DEF pipe_enqueue
<1>3. use = "program"
  BY <1>1, <1>2, WhoseUse DEF CommandsInv
<1>4. pc[c] \notin {"out", "done"} /\ pc[c] \notin InPipe
  BY <1>2 DEF InPipe
<1> QED  BY <1>1, <1>2, <1>3, <1>4, CallEnters

LEMMA writeStep ==
    ASSUME CommandsInv, NEW w \in Writers, write(w)
    PROVE  CommandsInv'
<1>1. w \in Calls /\ w \notin Commits /\ w \notin Subs /\ w # Dispatch
  BY Names
<1>2. /\ pc[w] = "out" /\ Goto(w, "queued") /\ pipe' = Enter(pipe, w, "write") /\ last_commit' = last_commit
      /\ use = "program" /\ life = "live" /\ UNCHANGED <<use, journal, applied, life>>
  BY DEF write
<1>3. pc[w] \notin InPipe
  BY <1>2 DEF InPipe
<1> QED  BY <1>1, <1>2, <1>3, CallEnters

LEMMA grantedStep ==
    ASSUME CommandsInv, NEW c \in Commits \cup Writers \cup {Dispatch}, granted(c)
    PROVE  CommandsInv'
<1>1. c \in Calls /\ c \notin Subs
  BY Names
<1>2. /\ pc[c] = "queued" /\ Holds(pipe, c) /\ Goto(c, "commit")
      /\ UNCHANGED <<use, journal, applied, pipe, last_commit, life>>
  BY DEF granted
<1>3. (c \in Commits \cup Writers => use = "program") /\ (c = Dispatch => use = "bus")
  BY <1>1, <1>2, WhoseUse DEF CommandsInv
<1> QED  BY <1>1, <1>2, <1>3, CallMoves DEF Label, CommitPcs, WriterPcs, DispatchPcs, InPipe, Granted

LEMMA commit_cancelledStep ==
    ASSUME CommandsInv, NEW c \in Writers, commit_cancelled(c)
    PROVE  CommandsInv'
<1>1. c \in Calls /\ c \notin Subs /\ c \notin Commits /\ c # Dispatch
  BY Names
<1>2. /\ pc[c] = "commit" /\ Goto(c, "applied")
      /\ UNCHANGED <<use, journal, applied, pipe, last_commit, life>>
  BY DEF commit_cancelled
<1>3. use = "program"
  BY <1>1, <1>2, WhoseUse DEF CommandsInv
<1>4. Holds(pipe, c)
  BY <1>1, <1>2 DEF CommandsInv, PipeInv, Granted
<1> QED  BY <1>1, <1>2, <1>3, <1>4, CallMoves DEF Label, CommitPcs, WriterPcs, InPipe, Granted

LEMMA run_cancelledStep ==
    ASSUME CommandsInv, NEW c \in Commits, run_cancelled(c)
    PROVE  CommandsInv'
<1>1. c \in Calls /\ c \notin Subs /\ c \notin Writers /\ c # Dispatch
  BY Names
<1>2. /\ pc[c] = "queued" /\ Holds(pipe, c) /\ Goto(c, "applied")
      /\ UNCHANGED <<use, journal, applied, pipe, last_commit, life>>
  BY DEF run_cancelled
<1>3. use = "program"
  BY <1>1, <1>2, WhoseUse DEF CommandsInv
<1> QED  BY <1>1, <1>2, <1>3, CallMoves DEF Label, CommitPcs, WriterPcs, InPipe, Granted

LEMMA apply_endStep ==
    ASSUME CommandsInv, NEW c \in Commits \cup Writers, apply_end(c)
    PROVE  CommandsInv'
<1>1. c \in Calls /\ c \notin Subs /\ c # Dispatch
  BY Names
<1>2. /\ pc[c] = "apply" /\ Goto(c, "applied") /\ batch = <<>> /\ use = "program"
      /\ UNCHANGED <<use, journal, applied, pipe, last_commit, life>>
  BY DEF apply_end
<1>4. Holds(pipe, c)
  BY <1>1, <1>2 DEF CommandsInv, PipeInv, Granted
<1> QED  BY <1>1, <1>2, <1>4, CallMoves DEF Label, CommitPcs, WriterPcs, InPipe, Granted

LEMMA settleStep ==
    ASSUME CommandsInv, NEW c \in Commits \cup Writers, settle(c)
    PROVE  CommandsInv'
<1>1. c \in Calls /\ c \notin Subs /\ c # Dispatch
  BY Names
<1>2. /\ pc[c] = "applied" /\ Goto(c, "done") /\ pipe' = Leave(pipe, c) /\ use = "program"
      /\ UNCHANGED <<use, journal, applied, life, last_commit>>
  BY DEF settle
<1>3. Holds(pipe, c)
  BY <1>1, <1>2 DEF CommandsInv, PipeInv, Granted
<1> QED  BY <1>1, <1>2, <1>3, CallLeaves

LEMMA disconnectStep ==
    ASSUME CommandsInv, NEW s \in Subs, disconnect(s)
    PROVE  CommandsInv'
<1>1. s \in Calls /\ s \notin Commits /\ s \notin Writers /\ s # Dispatch
  BY Names
<1>2. /\ pc[s] = "out" /\ Goto(s, "dead") /\ use = "bus"
      /\ UNCHANGED <<use, journal, applied, pipe, last_commit, life>>
  BY DEF disconnect
<1> QED  BY <1>1, <1>2, CallMoves DEF Label, SubPcs, InPipe, Granted

LEMMA disconnect_accessStep ==
    ASSUME CommandsInv, NEW s \in Subs, disconnect_access(s)
    PROVE  CommandsInv'
<1>1. s \in Calls /\ s \notin Commits /\ s \notin Writers /\ s # Dispatch
  BY Names
<1>2. /\ pc[s] = "dead" /\ Goto(s, "removing") /\ pipe' = Enter(pipe, s, "write") /\ last_commit' = last_commit
      /\ UNCHANGED <<use, journal, applied, life>>
  BY DEF disconnect_access
<1>3. use = "bus"
  BY <1>1, <1>2, WhoseUse DEF CommandsInv
<1>4. pc[s] \notin InPipe
  BY <1>2 DEF InPipe
<1> QED  BY <1>1, <1>2, <1>3, <1>4, CallEnters

LEMMA removeStep ==
    ASSUME CommandsInv, NEW s \in Subs, remove(s)
    PROVE  CommandsInv'
<1>1. s \in Calls /\ s \notin Commits /\ s \notin Writers /\ s # Dispatch
  BY Names
<1>2. /\ pc[s] = "removing" /\ Goto(s, "gone") /\ pipe' = Leave(pipe, s) /\ Holds(pipe, s)
      /\ UNCHANGED <<use, journal, applied, life, last_commit>>
  BY DEF remove
<1>3. use = "bus"
  BY <1>1, <1>2, WhoseUse DEF CommandsInv
<1> QED  BY <1>1, <1>2, <1>3, CallLeaves

LEMMA dispatchStep ==
    ASSUME CommandsInv, dispatch
    PROVE  CommandsInv'
<1>1. /\ Dispatch \in Calls /\ Dispatch \notin Commits /\ Dispatch \notin Writers /\ Dispatch \notin Subs
  BY Names
<1>2. /\ pc[Dispatch] = "out" /\ Goto(Dispatch, "queued") /\ pipe' = Enter(pipe, Dispatch, "write")
      /\ last_commit' = last_commit /\ use = "bus" /\ UNCHANGED <<use, journal, applied, life>>
  BY DEF dispatch
<1>3. pc[Dispatch] \notin InPipe
  BY <1>2 DEF InPipe
<1> QED  BY <1>1, <1>2, <1>3, CallEnters

LEMMA dispatch_allStep ==
    ASSUME CommandsInv, dispatch_all
    PROVE  CommandsInv'
<1>1. /\ Dispatch \in Calls /\ Dispatch \notin Commits /\ Dispatch \notin Writers /\ Dispatch \notin Subs
  BY Names
<1>2. /\ pc[Dispatch] = "apply" /\ Goto(Dispatch, "deliver") /\ batch = <<>> /\ use = "bus"
      /\ UNCHANGED <<use, journal, applied, pipe, last_commit, life>>
  BY DEF dispatch_all
<1>3. Holds(pipe, Dispatch)
  BY <1>1, <1>2 DEF CommandsInv, PipeInv, Granted
<1> QED  BY <1>1, <1>2, <1>3, CallMoves DEF Label, DispatchPcs, InPipe, Granted

LEMMA clearStep ==
    ASSUME CommandsInv, clear
    PROVE  CommandsInv'
<1>1. /\ Dispatch \in Calls /\ Dispatch \notin Commits /\ Dispatch \notin Writers /\ Dispatch \notin Subs
  BY Names
<1>2. /\ pc[Dispatch] = "deliver" /\ Goto(Dispatch, "out") /\ pipe' = Leave(pipe, Dispatch)
      /\ UNCHANGED <<use, journal, applied, life, last_commit>>
  BY DEF clear
<1>3. use = "bus" /\ Holds(pipe, Dispatch)
  BY <1>1, <1>2, WhoseUse DEF CommandsInv, PipeInv, Granted
<1> QED  BY <1>1, <1>2, <1>3, CallLeaves

\* The calls stay where they are.
LEMMA CallsStay ==
    ASSUME CommandsInv, UNCHANGED <<use, pc, pipe, last_commit, life>>
    PROVE  /\ PcTypes' /\ LastInv' /\ (UNCHANGED <<register, at>> => RegisterInv')
           /\ (batch' # <<>> => \E c \in Calls : pc[c] \in {"cut", "apply"}) => PipeInv'
<1>1. PcTypes'
  BY DEF CommandsInv, PcTypes
<1>2. LastInv'
  BY DEF CommandsInv, LastInv, LastIs, Holds, Waits, NoCommitAfterDestroy
<1>3. UNCHANGED <<register, at>> => RegisterInv'
  BY DEF CommandsInv, RegisterInv
<1>4. ASSUME batch' # <<>> => \E c \in Calls : pc[c] \in {"cut", "apply"} PROVE PipeInv'
  <2>1. Shape(pipe)' /\ \A c \in Calls : Has(pipe, c)' = Has(pipe, c) /\ Holds(pipe, c)' = Holds(pipe, c)
    BY DEF CommandsInv, PipeInv, Shape, Has, Holds, Waits
  <2> QED  BY <1>4, <2>1 DEF CommandsInv, PipeInv
<1> QED  BY <1>1, <1>2, <1>3, <1>4

LEMMA DeferredSame ==
    ASSUME CommandsInv, UNCHANGED deferred
    PROVE  CommandsInv'
<1>1. UNCHANGED <<use, slots, free, register, at, batch, num_staged, minted, slot_of, dropped, applied,
                  pipe, last_commit, pc, life>>
  BY DEF deferred, journal
<1>2. JournalTypes' /\ StagedExactlyOnce'
  BY <1>1, JournalSame DEF CommandsInv, JournalTypes
<1>3. RecordersInv'
  BY <1>1, RecordersSame DEF CommandsInv
<1>4. PcTypes' /\ LastInv' /\ RegisterInv' /\ PipeInv'
  BY <1>1, CallsStay DEF CommandsInv, PipeInv
<1> QED  BY <1>2, <1>3, <1>4 DEF CommandsInv

\* A commit that is granted finds the buffer empty.
LEMMA NoneAtWork ==
    ASSUME CommandsInv, NEW c \in Calls, pc[c] = "commit"
    PROVE  batch = <<>>
<1>1. Holds(pipe, c) /\ Shape(pipe)
  BY DEF CommandsInv, PipeInv, Granted
<1>2. ASSUME NEW d \in Calls, pc[d] \in {"cut", "apply"} PROVE FALSE
  <2>1. Holds(pipe, d)
    BY <1>2 DEF CommandsInv, PipeInv, Granted
  <2>2. c = d
    BY <1>1, <2>1, OneHolder
  <2> QED  BY <1>2, <2>2
<1> QED  BY <1>2 DEF CommandsInv, PipeInv

LEMMA cutStep ==
    ASSUME CommandsInv, NEW c \in Commits \cup Writers \cup {Dispatch}, cut(c)
    PROVE  CommandsInv'
<1>1. c \in Calls /\ c \notin Subs
  BY Names
<1>2. /\ pc[c] = "commit" /\ register = None /\ register' = c /\ at' = 1 /\ batch' = <<>> /\ Goto(c, "cut")
      /\ UNCHANGED <<use, slots, free, num_staged, minted, slot_of, dropped, applied, pipe, last_commit, life>>
  BY DEF cut
<1>3. (c \in Commits \cup Writers => use = "program") /\ (c = Dispatch => use = "bus")
  BY <1>1, <1>2, WhoseUse DEF CommandsInv
<1>4. Holds(pipe, c) /\ batch = <<>>
  BY <1>1, <1>2, NoneAtWork DEF CommandsInv, PipeInv, Granted
<1>6. PcTypes' /\ pc'[c] = "cut" /\ \A d \in Calls : d # c => pc'[d] = pc[d]
  BY <1>1, <1>2, <1>3, PcGoes DEF CommandsInv, Label, CommitPcs, WriterPcs, DispatchPcs
<1>7. batch' = batch /\ at' \in Nat /\ minted' \in Nat
  BY <1>2, <1>4 DEF CommandsInv, JournalTypes
<1>8. JournalTypes' /\ StagedExactlyOnce'
  BY <1>2, <1>7, JournalSame DEF CommandsInv
<1>9. RecordersInv'
  BY <1>2, RecordersSame DEF CommandsInv
<1>10. RegisterInv'
  <2>1. \A d \in Calls : pc[d] # "cut"
    BY <1>2, Names DEF CommandsInv, RegisterInv
  <2>2. \A d \in Calls : pc'[d] = "cut" <=> d = c
    BY <1>6, <2>1
  <2> QED  BY <1>1, <1>2, <2>2, Names DEF RegisterInv
<1>11. PipeInv'
  BY <1>1, <1>2, <1>4, <1>6, PipeStays DEF CommandsInv, InPipe, Granted
<1>12. LastInv'
  BY <1>1, <1>2, <1>6, LastKept DEF CommandsInv, LastInv
<1> QED  BY <1>6, <1>8, <1>9, <1>10, <1>11, <1>12 DEF CommandsInv

\* Emptying a slot leaves the recorders where they are.
LEMMA RecordersEmptied ==
    ASSUME RecordersInv, JournalTypes, NEW s \in DOMAIN slots, slots' = [slots EXCEPT ![s] = <<>>],
           UNCHANGED <<use, free, num_staged, minted, slot_of>>
    PROVE  RecordersInv'
<1>1. DOMAIN slots' = DOMAIN slots /\ \A i \in DOMAIN slots : \A k \in In(slots'[i]) : k \in In(slots[i])
  BY Emptied
<1>2. \A i \in DOMAIN slots' : \A k \in In(slots[i])' : k \in In(slots[i])
  BY <1>1 DEF In
<1> QED  BY <1>1, <1>2 DEF RecordersInv

LEMMA cut_slotStep ==
    ASSUME CommandsInv, NEW c \in Commits \cup Writers \cup {Dispatch}, cut_slot(c)
    PROVE  CommandsInv'
<1>1. c \in Calls
  BY Names
<1>2. /\ pc[c] = "cut" /\ at <= Len(slots) /\ batch' = batch \o slots[at]
      /\ slots' = [slots EXCEPT ![at] = <<>>] /\ at' = at + 1
      /\ UNCHANGED <<use, free, register, num_staged, minted, slot_of, dropped, applied, pipe,
                     last_commit, pc, life>>
  BY DEF cut_slot
<1>3. at \in DOMAIN slots /\ at' \in Nat /\ at' >= 1
  <2>1. register = c /\ register # None
    BY <1>1, <1>2, Names DEF CommandsInv, RegisterInv
  <2>2. at >= 1 /\ at \in Nat /\ slots \in Seq(Seq(Command))
    BY <2>1 DEF CommandsInv, RegisterInv, JournalTypes
  <2> QED  BY <1>2, <2>2
<1>4. JournalTypes' /\ StagedExactlyOnce'
  BY <1>2, <1>3, Cut DEF CommandsInv
<1>5. RecordersInv'
  BY <1>2, <1>3, RecordersEmptied DEF CommandsInv
<1>6. RegisterInv'
  BY <1>2, <1>3 DEF CommandsInv, RegisterInv
<1>7. PcTypes' /\ LastInv' /\ PipeInv'
  BY <1>1, <1>2, CallsStay
<1> QED  BY <1>4, <1>5, <1>6, <1>7 DEF CommandsInv

LEMMA cut_endStep ==
    ASSUME CommandsInv, NEW c \in Commits \cup Writers \cup {Dispatch}, cut_end(c)
    PROVE  CommandsInv'
<1>1. c \in Calls /\ c \notin Subs
  BY Names
<1>2. /\ pc[c] = "cut" /\ register' = None /\ at' = 0 /\ Goto(c, "apply")
      /\ UNCHANGED <<use, slots, free, batch, num_staged, minted, slot_of, dropped, applied, pipe,
                     last_commit, life>>
  BY DEF cut_end
<1>3. (c \in Commits \cup Writers => use = "program") /\ (c = Dispatch => use = "bus")
  BY <1>1, <1>2, WhoseUse DEF CommandsInv
<1>4. Holds(pipe, c) /\ register = c
  BY <1>1, <1>2 DEF CommandsInv, PipeInv, Granted, RegisterInv
<1>6. PcTypes' /\ pc'[c] = "apply" /\ \A d \in Calls : d # c => pc'[d] = pc[d]
  BY <1>1, <1>2, <1>3, PcGoes DEF CommandsInv, Label, CommitPcs, WriterPcs, DispatchPcs
<1>7. at' \in Nat /\ minted' \in Nat
  BY <1>2 DEF CommandsInv, JournalTypes
<1>8. JournalTypes' /\ StagedExactlyOnce'
  BY <1>2, <1>7, JournalSame DEF CommandsInv
<1>9. RecordersInv'
  BY <1>2, RecordersSame DEF CommandsInv
<1>10. RegisterInv'
  <2>1. \A d \in Calls : pc[d] = "cut" <=> d = c
    BY <1>4 DEF CommandsInv, RegisterInv
  <2>2. \A d \in Calls : pc'[d] # "cut" /\ register' # d
    BY <1>2, <1>6, <2>1, Names
  <2> QED  BY <1>2, <2>2, Names DEF RegisterInv
<1>11. PipeInv'
  BY <1>1, <1>2, <1>4, <1>6, PipeStays DEF CommandsInv, InPipe, Granted
<1>12. LastInv'
  BY <1>1, <1>2, <1>6, LastKept DEF CommandsInv, LastInv
<1> QED  BY <1>6, <1>8, <1>9, <1>10, <1>11, <1>12 DEF CommandsInv

LEMMA discardStep ==
    ASSUME CommandsInv, discard
    PROVE  CommandsInv'
<1>1. /\ use = "program" /\ register = None /\ register' = "discard" /\ at' = 1
      /\ UNCHANGED <<use, slots, free, batch, num_staged, minted, slot_of, dropped, applied, pipe,
                     last_commit, pc, life>>
  BY DEF discard
<1>2. JournalTypes' /\ StagedExactlyOnce'
  BY <1>1, JournalSame DEF CommandsInv, JournalTypes
<1>3. RecordersInv'
  BY <1>1, RecordersSame DEF CommandsInv
<1>4. PcTypes' /\ LastInv' /\ PipeInv'
  BY <1>1, CallsStay DEF CommandsInv, PipeInv
<1>5. RegisterInv'
  BY <1>1, Names DEF CommandsInv, RegisterInv
<1> QED  BY <1>2, <1>3, <1>4, <1>5 DEF CommandsInv

LEMMA clear_stagedStep ==
    ASSUME CommandsInv, clear_staged
    PROVE  CommandsInv'
<1>1. /\ register = "discard"
      /\ UNCHANGED <<use, free, batch, num_staged, minted, slot_of, applied, pipe, last_commit, pc, life>>
  BY DEF clear_staged
<1>2. PcTypes' /\ LastInv' /\ PipeInv'
  BY <1>1, CallsStay DEF CommandsInv, PipeInv
<1>3. CASE at > Len(slots)
  <2>1. register' = None /\ at' = 0 /\ UNCHANGED <<slots, dropped>>
    BY <1>3 DEF clear_staged
  <2>2. JournalTypes' /\ StagedExactlyOnce'
    BY <1>1, <2>1, JournalSame DEF CommandsInv, JournalTypes
  <2>3. RecordersInv'
    BY <1>1, <2>1, RecordersSame DEF CommandsInv
  <2>4. RegisterInv'
    BY <1>1, <2>1, Names DEF CommandsInv, RegisterInv
  <2> QED  BY <1>2, <2>2, <2>3, <2>4 DEF CommandsInv
<1>4. CASE ~(at > Len(slots))
  <2>1. /\ dropped' = dropped \cup In(slots[at]) /\ slots' = [slots EXCEPT ![at] = <<>>]
        /\ at' = at + 1 /\ register' = register
    BY <1>4 DEF clear_staged, In
  <2>2. at \in DOMAIN slots /\ at' \in Nat /\ at' >= 1
    <3>1. at >= 1 /\ at \in Nat /\ slots \in Seq(Seq(Command))
      BY <1>1, Names DEF CommandsInv, RegisterInv, JournalTypes
    <3> QED  BY <1>4, <2>1, <3>1
  <2>3. JournalTypes' /\ StagedExactlyOnce'
    BY <1>1, <2>1, <2>2, Cleared DEF CommandsInv
  <2>4. RecordersInv'
    BY <1>1, <2>1, <2>2, RecordersEmptied DEF CommandsInv
  <2>5. RegisterInv'
    BY <1>1, <2>1, <2>2 DEF CommandsInv, RegisterInv
  <2> QED  BY <1>2, <2>3, <2>4, <2>5 DEF CommandsInv
<1> QED  BY <1>3, <1>4

\* A command goes from the batch to the target.
LEMMA AppliedStep ==
    ASSUME CommandsInv, NEW c \in Calls, pc[c] = "apply", batch # <<>>,
           applied' = Append(applied, Head(batch)), batch' = Tail(batch),
           UNCHANGED <<use, slots, free, register, at, num_staged, minted, slot_of, dropped, pipe,
                       last_commit, pc, life>>
    PROVE  CommandsInv'
<1>1. JournalTypes' /\ StagedExactlyOnce'
  BY Applied DEF CommandsInv
<1>2. RecordersInv'
  BY RecordersSame DEF CommandsInv
<1>3. PcTypes' /\ LastInv' /\ PipeInv' /\ RegisterInv'
  BY CallsStay
<1> QED  BY <1>1, <1>2, <1>3 DEF CommandsInv

LEMMA destroyStep ==
    ASSUME CommandsInv, destroy
    PROVE  CommandsInv'
<1>1. /\ life' = "dead" /\ UNCHANGED <<use, journal, applied, pipe, last_commit, pc>>
      /\ last_commit # None => pc[last_commit] = "done"
      /\ \A c \in Commits : pc[c] # "enqueue"
      /\ \A w \in Writers : pc[w] \in {"out", "done"}
  BY DEF destroy
<1>2. UNCHANGED <<use, slots, free, register, at, batch, num_staged, minted, slot_of, dropped, applied>>
  BY <1>1 DEF journal
<1>3. JournalTypes' /\ StagedExactlyOnce'
  BY <1>2, JournalSame DEF CommandsInv, JournalTypes
<1>4. RecordersInv'
  BY <1>2, RecordersSame DEF CommandsInv
<1>5. RegisterInv'
  BY <1>1, <1>2 DEF CommandsInv, RegisterInv
<1>6. PcTypes'
  BY <1>1 DEF CommandsInv, PcTypes
<1>7. PipeInv'
  <2>1. Shape(pipe)' /\ \A c \in Calls : Has(pipe, c)' = Has(pipe, c) /\ Holds(pipe, c)' = Holds(pipe, c)
    BY <1>1 DEF CommandsInv, PipeInv, Shape, Has, Holds, Waits
  <2> QED  BY <1>1, <1>2, <2>1 DEF CommandsInv, PipeInv
<1>8. ASSUME NEW c \in Commits, pc[c] \notin {"out", "done"} PROVE FALSE
  <2>1. c \in Calls /\ pc[c] \in InPipe
    BY <1>1, <1>8, Names DEF CommandsInv, PcTypes, CommitPcs, InPipe
  <2>2. Has(pipe, c)
    BY <2>1 DEF CommandsInv, PipeInv
  <2>3. LastIs(pipe, last_commit) /\ last_commit \in Commits \cup {None}
    BY DEF CommandsInv, LastInv
  <2>4. c = last_commit \/ Waits(pipe, last_commit)
    <3>1. CASE Holds(pipe, c)
      BY <2>3, <3>1 DEF LastIs
    <3>2. CASE Waits(pipe, c)
      BY <2>3, <3>2 DEF LastIs, Waits
    <3> QED  BY <2>2, <3>1, <3>2 DEF Has
  <2>5. last_commit # None
    <3>1. ASSUME Waits(pipe, None) PROVE FALSE
      <4>1. PICK i \in DOMAIN pipe.queue : pipe.queue[i].who = None
        BY <3>1 DEF Waits
      <4>2. pipe.queue[i] \in Write
        BY DEF CommandsInv, PipeInv, Shape
      <4> QED  BY <4>1, <4>2, Names DEF Write
    <3> QED  BY <2>1, <2>4, <3>1, Names
  <2>6. last_commit \in Calls /\ Has(pipe, last_commit)
    BY <2>2, <2>3, <2>4, <2>5, Names DEF Has
  <2>7. pc[last_commit] \in InPipe
    BY <2>6 DEF CommandsInv, PipeInv
  <2> QED  BY <1>1, <2>5, <2>7 DEF InPipe
<1>9. LastInv'
  <2>1. NoCommitAfterDestroy'
    BY <1>1, <1>8 DEF NoCommitAfterDestroy
  <2> QED  BY <1>1, <2>1 DEF CommandsInv, LastInv, LastIs, Holds, Waits
<1> QED  BY <1>3, <1>4, <1>5, <1>6, <1>7, <1>9 DEF CommandsInv

\* What a recorder under way may rely on.
LEMMA Mine ==
    ASSUME RecordersInv, JournalTypes, NEW p \in Producers, slot_of[p] # None
    PROVE  /\ use = "program" /\ slot_of[p] \in [rec : Nat, slot : Nat]
           /\ slot_of[p].rec \in 1..minted /\ slot_of[p].slot \in DOMAIN slots
           /\ slot_of[p].rec \in Recorders
           /\ \A i \in DOMAIN free : free[i] # slot_of[p].slot
           /\ \A q \in Producers : slot_of[q] # None /\ q # p =>
                slot_of[q].rec # slot_of[p].rec /\ slot_of[q].slot # slot_of[p].slot
           /\ \A i \in DOMAIN slots : \A k \in In(slots[i]) :
                k.by = slot_of[p].rec => i = slot_of[p].slot
<1>1. slot_of[p] \in [rec : Nat, slot : Nat]
  BY DEF RecordersInv
<1>2. slot_of[p].rec \in 1..minted /\ minted <= MaxMinted
  BY DEF RecordersInv
<1>3. PICK r \in Nat : r = slot_of[p].rec
  BY <1>1
<1>6. minted \in Nat
  BY DEF JournalTypes
<1>4. r \in 1..MaxMinted
  BY <1>2, <1>3, <1>6, Bounds
<1>5. slot_of[p].rec \in Recorders
  BY <1>3, <1>4 DEF Recorders
<1> QED  BY <1>1, <1>2, <1>5 DEF RecordersInv

\* A recorder is minted with slot s.
LEMMA Minted ==
    ASSUME CommandsInv, NEW p \in Producers, slot_of[p] = None, NEW s \in Nat, s \in DOMAIN slots',
           use = "program", minted < MaxMinted, minted' = minted + 1,
           slot_of' = [slot_of EXCEPT ![p] = [rec |-> minted', slot |-> s]],
           \A i \in DOMAIN slots : i \in DOMAIN slots' /\ slots'[i] = slots[i],
           \A i \in DOMAIN slots' : i \in DOMAIN slots \/ slots'[i] = <<>>,
           \A q \in Producers : slot_of[q] # None => slot_of[q].slot # s,
           free' \in Seq(Nat), \A i \in DOMAIN free' : free'[i] \in DOMAIN slots /\ free'[i] # s,
           \A i \in DOMAIN free' : i \in DOMAIN free /\ free'[i] = free[i],
           UNCHANGED <<use, num_staged>>
    PROVE  RecordersInv'
<1>1. PICK m \in Nat : m = minted /\ minted' = m + 1 /\ m + 1 <= MaxMinted
  BY Bounds DEF CommandsInv, JournalTypes
<1>2. PICK x \in [rec : Nat, slot : Nat] : x = [rec |-> m + 1, slot |-> s] /\ x.rec = m + 1 /\ x.slot = s
  <2>1. [rec |-> m + 1, slot |-> s] \in [rec : Nat, slot : Nat]
    BY <1>1
  <2> QED  BY <2>1
<1>3. slot_of \in [Producers -> {None} \cup [rec : Nat, slot : Nat]]
  BY DEF CommandsInv, RecordersInv
<1>4. /\ slot_of' \in [Producers -> {None} \cup [rec : Nat, slot : Nat]] /\ slot_of'[p] = x
      /\ \A q \in Producers : q # p => slot_of'[q] = slot_of[q]
  BY <1>1, <1>2, <1>3
<1>5. \A n \in 1..m : n \in 1..(m + 1) /\ n # m + 1
  BY <1>1
<1>6. m + 1 \in 1..(m + 1) /\ m + 1 \notin 1..m /\ m + 1 \in 1..MaxMinted
  BY <1>1, Bounds
<1>7. \A i \in DOMAIN slots' : \A k \in In(slots[i])' : i \in DOMAIN slots /\ k \in In(slots[i])
  BY DEF In
<1>8. \A i \in DOMAIN slots' : \A k \in In(slots[i])' : k.by # m + 1
  <2>1. ASSUME NEW i \in DOMAIN slots, NEW k \in In(slots[i]), k.by = m + 1 PROVE FALSE
    <3>1. k \in Commands \cup dropped
      BY Places DEF CommandsInv
    <3>2. k.by \in Recorders /\ k.n \in 1..num_staged[k.by]
      BY <3>1, Numbered DEF CommandsInv, StagedExactlyOnce
    <3>3. num_staged[k.by] = 0
      BY <1>1, <1>6, <2>1, <3>2 DEF CommandsInv, RecordersInv
    <3> QED  BY <3>2, <3>3
  <2> QED  BY <1>7, <2>1
<1>9. ASSUME NEW q \in Producers, slot_of'[q] # None
      PROVE  /\ slot_of'[q].rec \in 1..minted' /\ slot_of'[q].slot \in DOMAIN slots'
             /\ \A i \in DOMAIN free' : free'[i] # slot_of'[q].slot
             /\ \A o \in Producers : slot_of'[o] # None /\ o # q =>
                 slot_of'[o].rec # slot_of'[q].rec /\ slot_of'[o].slot # slot_of'[q].slot
             /\ \A i \in DOMAIN slots' : \A k \in In(slots[i])' :
                 k.by = slot_of'[q].rec => i = slot_of'[q].slot
  <2>1. \A o \in Producers : o # p /\ slot_of'[o] # None =>
          /\ slot_of[o] = slot_of'[o] /\ slot_of[o].rec \in 1..m /\ slot_of[o].slot # s
    BY <1>1, <1>4 DEF CommandsInv, RecordersInv
  <2>2. CASE q = p
    <3>1. slot_of'[q].rec = m + 1 /\ slot_of'[q].slot = s
      BY <1>2, <1>4, <2>2
    <3>2. \A o \in Producers : slot_of'[o] # None /\ o # q =>
            slot_of'[o].rec # slot_of'[q].rec /\ slot_of'[o].slot # slot_of'[q].slot
      BY <1>5, <2>1, <2>2, <3>1
    <3> QED  BY <1>1, <1>6, <1>8, <3>1, <3>2
  <2>3. CASE q # p
    <3>1. slot_of'[q] = slot_of[q] /\ slot_of[q] # None
      BY <1>4, <1>9, <2>3
    <3>2. slot_of'[q].rec \in 1..minted' /\ slot_of'[q].slot \in DOMAIN slots'
      BY <1>1, <1>5, <2>1, <2>3, <3>1, Mine DEF CommandsInv
    <3>3. \A i \in DOMAIN free' : free'[i] # slot_of'[q].slot
      BY <3>1, Mine DEF CommandsInv
    <3>4. ASSUME NEW o \in Producers, slot_of'[o] # None, o # q
          PROVE  slot_of'[o].rec # slot_of'[q].rec /\ slot_of'[o].slot # slot_of'[q].slot
      <4>1. CASE o = p
        <5>1. slot_of'[o].rec = m + 1 /\ slot_of'[o].slot = s
          BY <1>2, <1>4, <4>1
        <5> QED  BY <1>5, <1>9, <2>1, <2>3, <5>1
      <4>2. CASE o # p
        BY <1>4, <3>1, <3>4, <4>2, Mine DEF CommandsInv
      <4> QED  BY <4>1, <4>2
    <3>5. \A i \in DOMAIN slots' : \A k \in In(slots[i])' : k.by = slot_of'[q].rec => i = slot_of'[q].slot
      BY <1>7, <3>1, Mine DEF CommandsInv
    <3> QED  BY <3>2, <3>3, <3>4, <3>5
  <2> QED  BY <2>2, <2>3
<1>10. \A i, j \in DOMAIN free' : free'[i] = free'[j] => i = j
  BY DEF CommandsInv, RecordersInv
<1>11. \A r \in Recorders : r \notin 1..minted' => num_staged'[r] = 0
  <2>1. \A r \in Recorders : r \notin 1..(m + 1) => r \notin 1..m
    BY <1>5
  <2> QED  BY <1>1, <2>1 DEF CommandsInv, RecordersInv
<1>12. minted' <= MaxMinted /\ use' = "program"
  BY <1>1
<1>13. \A i \in DOMAIN free' : free'[i] \in DOMAIN slots'
  OBVIOUS
<1> QED  BY <1>4, <1>9, <1>10, <1>11, <1>12, <1>13 DEF RecordersInv

LEMMA mintStep ==
    ASSUME CommandsInv, NEW p \in Producers, mint(p)
    PROVE  CommandsInv'
<1>1. /\ slot_of[p] = None /\ use = "program" /\ minted < MaxMinted /\ minted' = minted + 1
      /\ UNCHANGED <<use, register, at, batch, num_staged, dropped, applied, pipe, last_commit, pc, life>>
  BY DEF mint
<1>2. PcTypes' /\ LastInv' /\ PipeInv' /\ RegisterInv'
  BY <1>1, CallsStay DEF CommandsInv, PipeInv
<1>3. minted' \in Nat /\ at' \in Nat
  BY <1>1 DEF CommandsInv, JournalTypes
<1>4. PICK n \in Nat : n = Len(slots) /\ DOMAIN slots = 1..n
  BY DEF CommandsInv, JournalTypes
<1>5. /\ free \in Seq(Nat) /\ \A i \in DOMAIN free : free[i] \in DOMAIN slots
      /\ \A i, j \in DOMAIN free : free[i] = free[j] => i = j
  BY DEF CommandsInv, RecordersInv
<1>6. CASE free # <<>>
  <2>1. /\ slot_of' = [slot_of EXCEPT ![p] = [rec |-> minted', slot |-> free[Len(free)]]]
        /\ free' = SubSeq(free, 1, Len(free) - 1) /\ slots' = slots
    BY <1>6 DEF mint
  <2>2. PICK m \in Nat : m + 1 = Len(free)
    <3>1. Len(free) - 1 \in Nat /\ (Len(free) - 1) + 1 = Len(free)
      BY <1>5, <1>6
    <3> QED  BY <3>1
  <2>3. PICK s \in Nat : s = free[Len(free)] /\ s = free[m + 1] /\ s \in DOMAIN slots
    BY <1>5, <1>6, <2>2
  <2>4. Len(free) - 1 = m /\ DOMAIN free = 1..(m + 1)
    BY <1>5, <2>2
  <2>5. free' \in Seq(Nat) /\ DOMAIN free' = 1..m /\ \A i \in 1..m : free'[i] = free[i]
    <3>1. free' = SubSeq(free, 1, m)
      BY <2>1, <2>4
    <3> QED  BY <1>5, <2>2, <3>1
  <2>6. \A i \in 1..m : i \in 1..(m + 1) /\ i # m + 1 /\ m + 1 \in 1..(m + 1)
    BY <2>2
  <2>7. \A i \in DOMAIN free' : i \in DOMAIN free /\ free'[i] = free[i] /\ free'[i] \in DOMAIN slots /\ free'[i] # s
    <3>1. ASSUME NEW i \in 1..m
          PROVE  i \in DOMAIN free /\ free'[i] = free[i] /\ free'[i] \in DOMAIN slots /\ free'[i] # s
      <4>1. i \in DOMAIN free /\ m + 1 \in DOMAIN free /\ i # m + 1 /\ free'[i] = free[i]
        BY <2>4, <2>5, <2>6
      <4>2. free[i] # free[m + 1]
        BY <1>5, <4>1
      <4>3. free[i] \in DOMAIN slots
        BY <1>5, <4>1
      <4> QED  BY <2>3, <4>1, <4>2, <4>3
    <3> QED  BY <2>5, <3>1
  <2>8. m + 1 \in DOMAIN free
    BY <2>2, <2>4
  <2>9. \A q \in Producers : slot_of[q] # None => slot_of[q].slot # s
    BY <2>3, <2>8, Mine DEF CommandsInv
  <2>10. RecordersInv'
    <3>1. /\ slot_of[p] = None /\ use = "program" /\ minted < MaxMinted /\ minted' = minted + 1
          /\ UNCHANGED <<use, num_staged>>
      BY <1>1
    <3>2. slot_of' = [slot_of EXCEPT ![p] = [rec |-> minted', slot |-> s]] /\ s \in DOMAIN slots'
      BY <2>1, <2>3
    <3>3. /\ \A i \in DOMAIN slots : i \in DOMAIN slots' /\ slots'[i] = slots[i]
          /\ \A i \in DOMAIN slots' : i \in DOMAIN slots \/ slots'[i] = <<>>
      BY <2>1
    <3>4. /\ free' \in Seq(Nat) /\ \A i \in DOMAIN free' : free'[i] \in DOMAIN slots /\ free'[i] # s
          /\ \A i \in DOMAIN free' : i \in DOMAIN free /\ free'[i] = free[i]
      BY <2>5, <2>7
    <3> QED  BY <2>9, <3>1, <3>2, <3>3, <3>4, Minted
  <2>11. JournalTypes' /\ StagedExactlyOnce'
    BY <1>1, <1>3, <2>1, JournalSame DEF CommandsInv
  <2> QED  BY <1>2, <2>10, <2>11 DEF CommandsInv
<1>7. CASE free = <<>>
  <2>1. /\ slot_of' = [slot_of EXCEPT ![p] = [rec |-> minted', slot |-> Len(slots) + 1]]
        /\ free' = free /\ slots' = Append(slots, <<>>)
    BY <1>7 DEF mint
  <2>2. /\ JournalTypes' /\ StagedExactlyOnce'
        /\ DOMAIN slots' = 1..(Len(slots) + 1)
        /\ \A i \in DOMAIN slots : i \in DOMAIN slots' /\ slots'[i] = slots[i]
        /\ \A i \in DOMAIN slots' : i \in DOMAIN slots \/ (i = Len(slots) + 1 /\ slots'[i] = <<>>)
    BY <1>1, <1>3, <2>1, SlotAdded DEF CommandsInv
  <2>3. PICK s \in Nat : s = Len(slots) + 1 /\ s \in DOMAIN slots' /\ s \notin DOMAIN slots
    BY <1>4, <2>2
  <2>4. \A q \in Producers : slot_of[q] # None => slot_of[q].slot # s
    BY <2>3, Mine DEF CommandsInv
  <2>5. \A i \in DOMAIN free' : i \in DOMAIN free /\ free'[i] = free[i] /\ free'[i] \in DOMAIN slots /\ free'[i] # s
    BY <1>5, <2>1, <2>3
  <2>6. RecordersInv'
    <3>1. slot_of' = [slot_of EXCEPT ![p] = [rec |-> minted', slot |-> s]]
      BY <2>1, <2>3
    <3>2. /\ \A i \in DOMAIN slots : i \in DOMAIN slots' /\ slots'[i] = slots[i]
          /\ \A i \in DOMAIN slots' : i \in DOMAIN slots \/ slots'[i] = <<>>
      BY <2>2
    <3>3. free' \in Seq(Nat) /\ s \in DOMAIN slots'
      BY <1>5, <2>1, <2>3
    <3> QED  BY <1>1, <2>4, <2>5, <3>1, <3>2, <3>3, Minted
  <2> QED  BY <1>2, <2>2, <2>6 DEF CommandsInv
<1> QED  BY <1>6, <1>7

LEMMA release_slotStep ==
    ASSUME CommandsInv, NEW p \in Producers, release_slot(p)
    PROVE  CommandsInv'
<1>1. /\ slot_of[p] # None /\ free' = Append(free, slot_of[p].slot) /\ slot_of' = [slot_of EXCEPT ![p] = None]
      /\ UNCHANGED <<use, slots, register, at, batch, num_staged, minted, dropped, applied, pipe,
                     last_commit, pc, life>>
  BY DEF release_slot
<1>2. PcTypes' /\ LastInv' /\ PipeInv' /\ RegisterInv'
  BY <1>1, CallsStay DEF CommandsInv, PipeInv
<1>3. JournalTypes' /\ StagedExactlyOnce'
  BY <1>1, JournalSame DEF CommandsInv, JournalTypes
<1>4. PICK s \in Nat : s = slot_of[p].slot /\ s \in DOMAIN slots /\ \A i \in DOMAIN free : free[i] # s
  BY <1>1, Mine DEF CommandsInv
<1>5. /\ free \in Seq(Nat) /\ \A i \in DOMAIN free : free[i] \in DOMAIN slots
      /\ \A i, j \in DOMAIN free : free[i] = free[j] => i = j
      /\ slot_of \in [Producers -> {None} \cup [rec : Nat, slot : Nat]]
  BY DEF CommandsInv, RecordersInv
<1>6. PICK n \in Nat : n = Len(free)
  BY <1>5
<1>7. /\ free' \in Seq(Nat) /\ DOMAIN free' = 1..(n + 1) /\ DOMAIN free = 1..n
      /\ free'[n + 1] = s /\ \A i \in 1..n : free'[i] = free[i]
  BY <1>1, <1>4, <1>5, <1>6
<1>8. \A i \in 1..(n + 1) : i \in 1..n \/ i = n + 1
  BY <1>6
<1>9. \A i \in DOMAIN free' : free'[i] \in DOMAIN slots
  BY <1>4, <1>5, <1>7, <1>8
<1>10. \A i, j \in DOMAIN free' : free'[i] = free'[j] => i = j
  BY <1>4, <1>5, <1>7, <1>8
<1>11. /\ slot_of' \in [Producers -> {None} \cup [rec : Nat, slot : Nat]] /\ slot_of'[p] = None
       /\ \A q \in Producers : q # p => slot_of'[q] = slot_of[q]
  BY <1>1, <1>5
<1>12. \A q \in Producers : slot_of'[q] # None => q # p /\ slot_of'[q] = slot_of[q] /\ slot_of[q] # None
  BY <1>11
<1>13. \A q \in Producers : slot_of'[q] # None => \A i \in DOMAIN free' : free'[i] # slot_of'[q].slot
  <2>1. ASSUME NEW q \in Producers, slot_of'[q] # None, NEW i \in DOMAIN free'
        PROVE  free'[i] # slot_of'[q].slot
    <3>1. q # p /\ slot_of'[q] = slot_of[q] /\ slot_of[q] # None
      BY <1>12, <2>1
    <3>2. slot_of[q].slot # s
      BY <1>1, <1>4, <3>1, Mine DEF CommandsInv
    <3>3. \A j \in DOMAIN free : free[j] # slot_of[q].slot
      BY <3>1, Mine DEF CommandsInv
    <3> QED  BY <1>7, <1>8, <3>1, <3>2, <3>3
  <2> QED  BY <2>1
<1>14. RecordersInv'
  <2>1. \A q \in Producers : slot_of'[q] # None =>
          /\ use' = "program" /\ slot_of'[q].rec \in 1..minted' /\ slot_of'[q].slot \in DOMAIN slots'
          /\ \A o \in Producers : slot_of'[o] # None /\ o # q =>
                slot_of'[o].rec # slot_of'[q].rec /\ slot_of'[o].slot # slot_of'[q].slot
    BY <1>1, <1>12 DEF CommandsInv, RecordersInv
  <2>2. \A i \in DOMAIN slots' : In(slots[i])' = In(slots[i])
    BY <1>1 DEF In
  <2>3. \A q \in Producers : slot_of'[q] # None =>
          \A i \in DOMAIN slots' : \A k \in In(slots[i])' : k.by = slot_of'[q].rec => i = slot_of'[q].slot
    BY <1>1, <1>12, <2>2 DEF CommandsInv, RecordersInv
  <2>4. /\ minted' <= MaxMinted
        /\ use' = "program" => \A r \in Recorders : r \notin 1..minted' => num_staged'[r] = 0
        /\ use' = "bus" => \A i \in DOMAIN slots' : \A k \in In(slots[i])' : k.by \in Threads /\ i = lane[k.by]
    BY <1>1, <2>2 DEF CommandsInv, RecordersInv
  <2> QED  BY <1>1, <1>7, <1>9, <1>10, <1>11, <1>13, <2>1, <2>3, <2>4 DEF RecordersInv
<1> QED  BY <1>2, <1>3, <1>14 DEF CommandsInv

\* A command is staged in a slot that has all of its recorder's.
LEMMA StagedStep ==
    ASSUME CommandsInv, NEW r \in Recorders, NEW s \in DOMAIN slots,
           NEW what \in {"write"} \cup Events \cup Subs, Stage(r, s, what),
           \A i \in DOMAIN slots : \A k \in In(slots[i]) : k.by = r => i = s,
           \A p \in Producers : slot_of[p] # None /\ slot_of[p].rec = r => slot_of[p].slot = s,
           use = "bus" => r \in Threads /\ s = lane[r], use = "program" => r \in 1..minted,
           UNCHANGED <<use, free, register, at, batch, minted, slot_of, dropped, applied, pipe,
                       last_commit, pc, life>>
    PROVE  CommandsInv'
<1>1. PcTypes' /\ LastInv' /\ PipeInv' /\ RegisterInv'
  BY CallsStay DEF CommandsInv, PipeInv
<1>2. /\ JournalTypes' /\ StagedExactlyOnce' /\ DOMAIN slots' = DOMAIN slots
      /\ \A i \in DOMAIN slots \ {s} : slots'[i] = slots[i]
      /\ num_staged' = [num_staged EXCEPT ![r] = @ + 1]
      /\ \E x \in Command : x.by = r /\ In(slots'[s]) = In(slots[s]) \cup {x}
  BY Staged DEF CommandsInv
<1>3. PICK x \in Command : x.by = r /\ In(slots'[s]) = In(slots[s]) \cup {x}
  BY <1>2
<1>4. \A i \in DOMAIN slots : \A k \in In(slots[i])' : k \in In(slots[i]) \/ (i = s /\ k.by = r)
  <2>1. \A i \in DOMAIN slots : \A k \in In(slots'[i]) : k \in In(slots[i]) \/ (i = s /\ k.by = r)
    BY <1>2, <1>3
  <2> QED  BY <2>1 DEF In
<1>5. \A q \in Recorders : q # r => num_staged'[q] = num_staged[q]
  BY <1>2 DEF CommandsInv, JournalTypes
<1>6. \A p \in Producers : slot_of'[p] # None =>
        /\ use' = "program" /\ slot_of'[p].rec \in 1..minted' /\ slot_of'[p].slot \in DOMAIN slots'
        /\ \A i \in DOMAIN free' : free'[i] # slot_of'[p].slot
        /\ \A q \in Producers : slot_of'[q] # None /\ q # p =>
            slot_of'[q].rec # slot_of'[p].rec /\ slot_of'[q].slot # slot_of'[p].slot
  BY <1>2 DEF CommandsInv, RecordersInv
<1>7. \A p \in Producers : slot_of'[p] # None =>
        \A i \in DOMAIN slots' : \A k \in In(slots[i])' : k.by = slot_of'[p].rec => i = slot_of'[p].slot
  <2>1. ASSUME NEW p \in Producers, slot_of[p] # None, NEW i \in DOMAIN slots, NEW k \in In(slots[i])',
               k.by = slot_of[p].rec
        PROVE  i = slot_of[p].slot
    <3>1. CASE k \in In(slots[i])
      BY <2>1, <3>1 DEF CommandsInv, RecordersInv
    <3>2. CASE i = s /\ k.by = r
      BY <2>1, <3>2
    <3> QED  BY <1>4, <3>1, <3>2
  <2> QED  BY <1>2, <2>1
<1>8. use' = "program" => \A q \in Recorders : q \notin 1..minted' => num_staged'[q] = 0
  BY <1>5 DEF CommandsInv, RecordersInv
<1>9. use' = "bus" => \A i \in DOMAIN slots' : \A k \in In(slots[i])' : k.by \in Threads /\ i = lane[k.by]
  BY <1>2, <1>4 DEF CommandsInv, RecordersInv
<1>10. /\ free' \in Seq(Nat) /\ \A i \in DOMAIN free' : free'[i] \in DOMAIN slots'
       /\ \A i, j \in DOMAIN free' : free'[i] = free'[j] => i = j
       /\ slot_of' \in [Producers -> {None} \cup [rec : Nat, slot : Nat]] /\ minted' <= MaxMinted
  BY <1>2 DEF CommandsInv, RecordersInv
<1>11. RecordersInv'
  BY <1>6, <1>7, <1>8, <1>9, <1>10 DEF RecordersInv
<1> QED  BY <1>1, <1>2, <1>11 DEF CommandsInv

LEMMA stageStep ==
    ASSUME CommandsInv, NEW p \in Producers, stage(p)
    PROVE  CommandsInv'
<1>1. /\ slot_of[p] # None /\ Stage(slot_of[p].rec, slot_of[p].slot, "write")
      /\ UNCHANGED <<use, free, register, at, batch, minted, slot_of, dropped, applied, pipe,
                     last_commit, pc, life>>
  BY DEF stage
<1>2. PICK r \in Recorders : r = slot_of[p].rec /\ r \in 1..minted /\ use = "program"
  BY <1>1, Mine DEF CommandsInv
<1>3. PICK s \in DOMAIN slots : s = slot_of[p].slot
  BY <1>1, Mine DEF CommandsInv
<1>4. \A i \in DOMAIN slots : \A k \in In(slots[i]) : k.by = r => i = s
  BY <1>1, <1>2, <1>3, Mine DEF CommandsInv
<1>5. \A q \in Producers : slot_of[q] # None /\ slot_of[q].rec = r => slot_of[q].slot = s
  BY <1>1, <1>2, <1>3, Mine DEF CommandsInv
<1> QED  BY <1>1, <1>2, <1>3, <1>4, <1>5, StagedStep

LEMMA postStep ==
    ASSUME CommandsInv, NEW t \in Threads, NEW what \in Events \cup Subs, post(t, what)
    PROVE  CommandsInv'
<1>1. /\ use = "bus" /\ Stage(t, lane[t], what)
      /\ UNCHANGED <<use, free, register, at, batch, minted, slot_of, dropped, applied, pipe,
                     last_commit, pc, life>>
  BY DEF post
<1>2. t \in Recorders
  BY DEF Recorders
<1>3. PICK s \in DOMAIN slots : s = lane[t]
  <2>1. slots \in Seq(Seq(Command)) /\ Len(slots) = NumLanes /\ lane[t] \in 1..NumLanes
    BY <1>1, Bounds DEF CommandsInv, JournalTypes
  <2>2. lane[t] \in DOMAIN slots
    BY <2>1
  <2> QED  BY <2>2
<1>4. \A i \in DOMAIN slots : \A k \in In(slots[i]) : k.by = t => i = s
  BY <1>1, <1>3 DEF CommandsInv, RecordersInv
<1>5. \A p \in Producers : slot_of[p] = None
  BY <1>1 DEF CommandsInv, RecordersInv
<1>6. Stage(t, s, what) /\ what \in {"write"} \cup Events \cup Subs
  BY <1>1, <1>3
<1>7. \A p \in Producers : slot_of[p] # None /\ slot_of[p].rec = t => slot_of[p].slot = s
  BY <1>5
<1>8. (use = "bus" => t \in Threads /\ s = lane[t]) /\ (use = "program" => t \in 1..minted)
  BY <1>1, <1>3
<1> QED  BY <1>1, <1>2, <1>4, <1>6, <1>7, <1>8, StagedStep

LEMMA apply_under_grantStep ==
    ASSUME CommandsInv, NEW c \in Commits \cup Writers, apply_under_grant(c)
    PROVE  CommandsInv'
<1>1. c \in Calls
  BY Names
<1> QED  BY <1>1, AppliedStep DEF apply_under_grant

LEMMA apply_to_boardStep ==
    ASSUME CommandsInv, apply_to_board
    PROVE  CommandsInv'
<1>1. Dispatch \in Calls
  BY Names
<1>2. /\ pc[Dispatch] = "apply" /\ batch # <<>>
      /\ applied' = Append(applied, Head(batch)) /\ batch' = Tail(batch)
      /\ UNCHANGED <<use, slots, free, register, at, num_staged, minted, slot_of, dropped,
                     pipe, last_commit, pc, life>>
  BY DEF apply_to_board
<1> QED  BY <1>1, <1>2, AppliedStep

LEMMA CommandsInit ==
    ASSUME Init
    PROVE  CommandsInv
<1>1. use \in {"program", "bus"}
  BY EventBusAssumption DEF EventBusAssumption, Init
<1>2. PcTypes
  BY <1>1, Names DEF Init, PcTypes, CommitPcs, WriterPcs, SubPcs, DispatchPcs
<1>3. /\ slots \in Seq(Seq(Command)) /\ (use = "bus" => Len(slots) = NumLanes)
      /\ \A i \in DOMAIN slots : slots[i] = <<>>
  <2>1. CASE use = "bus"
    <3>1. slots = [i \in 1..NumLanes |-> <<>>] /\ NumLanes \in Nat /\ <<>> \in Seq(Command)
      BY <2>1, Bounds DEF Init
    <3> QED  BY <3>1
  <2>2. CASE use # "bus"
    <3>1. slots = <<>>
      BY <2>2 DEF Init
    <3> QED  BY <2>2, <3>1
  <2> QED  BY <2>1, <2>2
<1>4. /\ batch = <<>> /\ applied = <<>> /\ dropped = {} /\ num_staged = [r \in Recorders |-> 0]
      /\ minted = 0 /\ at = 0 /\ free = <<>> /\ register = None /\ slot_of = [p \in Producers |-> None]
      /\ pipe = IdlePipe /\ last_commit = None /\ pc = [c \in Calls |-> "out"] /\ life = "live"
  BY DEF Init
<1>5. JournalTypes
  BY <1>3, <1>4 DEF JournalTypes
<1>6. RegisterInv
  BY <1>4, Names DEF RegisterInv
<1>7. In(<<>>) = {} /\ Ordered(<<>>) /\ (\A q : Before(q, <<>>))
  <2>1. In(<<>>) = {}
    BY DEF In
  <2> QED  BY <2>1 DEF Ordered, Before
<1>8. RecordersInv
  <2>1. \A i \in DOMAIN slots : In(slots[i]) = {}
    BY <1>3, <1>7
  <2>2. free \in Seq(Nat) /\ DOMAIN free = {} /\ minted <= MaxMinted
    BY <1>4, Bounds
  <2>3. slot_of \in [Producers -> {None} \cup [rec : Nat, slot : Nat]] /\ \A p \in Producers : slot_of[p] = None
    BY <1>4
  <2>4. \A r \in Recorders : num_staged[r] = 0
    BY <1>4
  <2> QED  BY <2>1, <2>2, <2>3, <2>4 DEF RecordersInv
<1>9. pipe.queue = <<>> /\ pipe.holders = {} /\ pipe = [queue |-> pipe.queue, holders |-> pipe.holders]
  BY <1>4 DEF IdlePipe
<1>10. PipeInv
  <2>1. Shape(pipe)
    BY <1>9 DEF Shape
  <2>2. \A c \in Calls : ~Has(pipe, c) /\ pc[c] = "out"
    BY <1>4, <1>9 DEF Has, Holds, Waits
  <2> QED  BY <1>4, <2>1, <2>2 DEF PipeInv, InPipe, Granted
<1>11. LastInv
  BY <1>4, <1>9 DEF LastInv, LastIs, Holds, NoCommitAfterDestroy
<1>12. InOrder
  BY <1>3, <1>4, <1>7 DEF InOrder
<1>13. AllKept
  <2>1. Commands = {}
    BY <1>3, <1>4, <1>7 DEF Commands
  <2>2. \A r \in Recorders : 1..num_staged[r] = {}
    BY <1>4
  <2>3. DOMAIN num_staged = Recorders
    BY <1>4
  <2> QED  BY <1>4, <2>1, <2>2, <2>3 DEF AllKept
<1> QED  BY <1>2, <1>5, <1>6, <1>8, <1>10, <1>11, <1>12, <1>13 DEF CommandsInv, StagedExactlyOnce

LEMMA CommandsNext ==
    ASSUME CommandsInv, [Next]_vars
    PROVE  CommandsInv'
<1>1. CASE UNCHANGED vars
  BY <1>1, DeferredSame DEF vars
<1>2. ASSUME NEW p \in Producers, mint(p) \/ stage(p) \/ release_slot(p) PROVE CommandsInv'
  BY <1>2, mintStep, stageStep, release_slotStep
<1>3. ASSUME NEW c \in Commits \cup Writers, CommitStep(c) PROVE CommandsInv'
  BY <1>3, grantedStep, cutStep, cut_slotStep, cut_endStep, apply_under_grantStep, apply_endStep, settleStep
     DEF CommitStep, ApplyStep
<1>4. ASSUME NEW c \in Commits, commit(c) \/ pipe_enqueue(c) \/ run_cancelled(c) PROVE CommandsInv'
  BY <1>4, commitStep, pipe_enqueueStep, run_cancelledStep
<1>5. ASSUME NEW w \in Writers, write(w) \/ commit_cancelled(w) PROVE CommandsInv'
  BY <1>5, writeStep, commit_cancelledStep
<1>6. CASE discard \/ clear_staged \/ destroy
  BY <1>6, discardStep, clear_stagedStep, destroyStep
<1>7. ASSUME NEW t \in Threads, NEW x \in Events \cup Subs, post(t, x) PROVE CommandsInv'
  BY <1>7, postStep
<1>8. ASSUME NEW s \in Subs, disconnect(s) \/ DisconnectStep(s) \/ owner_expires(s) PROVE CommandsInv'
  <2>1. CASE owner_expires(s)
    BY <2>1, DeferredSame DEF owner_expires
  <2> QED  BY <1>8, <2>1, disconnectStep, disconnect_accessStep, removeStep DEF DisconnectStep
<1>9. CASE dispatch \/ DispatchStep
  <2>1. CASE granted(Dispatch) \/ cut(Dispatch) \/ cut_slot(Dispatch) \/ cut_end(Dispatch)
    BY <2>1, grantedStep, cutStep, cut_slotStep, cut_endStep
  <2>2. CASE next_subscription \/ invoke
    BY <2>2, DeferredSame DEF next_subscription, invoke
  <2>3. CASE dispatch \/ apply_to_board \/ dispatch_all \/ clear
    BY <2>3, dispatchStep, apply_to_boardStep, dispatch_allStep, clearStep
  <2> QED  BY <1>9, <2>1, <2>2, <2>3 DEF DispatchStep
<1>10. CASE Next
  <2>1. \/ \E p \in Producers : mint(p) \/ stage(p) \/ release_slot(p)
        \/ \E c \in Commits \cup Writers : CommitStep(c)
        \/ \E c \in Commits : commit(c) \/ pipe_enqueue(c) \/ run_cancelled(c)
        \/ \E w \in Writers : write(w) \/ commit_cancelled(w)
        \/ discard \/ clear_staged \/ destroy
        \/ \E t \in Threads, x \in Events \cup Subs : post(t, x)
        \/ \E s \in Subs : disconnect(s) \/ DisconnectStep(s) \/ owner_expires(s)
        \/ dispatch \/ DispatchStep
    BY <1>10 DEF Next, publish, add_subscription
  <2> QED  BY <1>2, <1>3, <1>4, <1>5, <1>6, <1>7, <1>8, <1>9, <2>1
<1> QED  BY <1>1, <1>10

\* The invariant of Deferred and its journal, under the program's use and the bus's:
\* one slot per recorder, one granted write, one call in the slots, last_commit_ the
\* last commit in the pipe, and every command in its place.
THEOREM BusInductive == Spec => []CommandsInv
<1>1. SafetySpec => []CommandsInv
  BY CommandsInit, CommandsNext, PTL DEF SafetySpec
<1> QED  BY <1>1, PTL DEF Spec

\* For any producers, commits and write accesses: no staged command is lost, applied
\* twice or out of its recorder's order, or applied to an object that is gone.
THEOREM DeferredCommandsKept == Spec => []CommandsKept
<1>1. CommandsInv => CommandsKept
  BY DEF CommandsInv, LastInv, CommandsKept
<1> QED  BY <1>1, BusInductive, PTL

-----------------------------------------------------------------------------
(* What std::erase_if leaves *)

\* Two elements of q at one place, and none at two.
LEMMA DistinctAppend ==
    ASSUME NEW S, NEW q \in Seq(S), NEW x \in S, Distinct(q), x \notin In(q)
    PROVE  Distinct(Append(q, x))
<1>1. PICK n \in Nat : n = Len(q)
  OBVIOUS
<1>2. PICK r : r = Append(q, x)
  OBVIOUS
<1>3. /\ DOMAIN q = 1..n /\ DOMAIN r = 1..(n + 1) /\ r[n + 1] = x
      /\ \A i \in 1..n : r[i] = q[i] /\ q[i] # x
  <2>1. \A i \in 1..n : q[i] # x
    BY <1>1 DEF In
  <2> QED  BY <1>1, <1>2, <2>1
<1>4. ASSUME NEW i \in 1..(n + 1), NEW j \in 1..(n + 1), r[i] = r[j] PROVE i = j
  <2>1. CASE i \in 1..n /\ j \in 1..n
    BY <1>3, <1>4, <2>1 DEF Distinct
  <2>2. (i \in 1..n \/ i = n + 1) /\ (j \in 1..n \/ j = n + 1)
    OBVIOUS
  <2> QED  BY <1>3, <1>4, <2>1, <2>2
<1>5. Distinct(r)
  BY <1>3, <1>4 DEF Distinct
<1> QED  BY <1>2, <1>5

\* The loop of erase_if over the first N elements, and that it exists as a function.
Kept(q, gone, N) ==
    CHOOSE f : f = [i \in 0..N |-> IF i = 0 THEN <<>>
                                   ELSE IF q[i] \in gone THEN f[i - 1] ELSE Append(f[i - 1], q[i])]

LEMMA KeptExists ==
    ASSUME NEW N \in Nat, NEW q, NEW gone
    PROVE  /\ Kept(q, gone, N)[0] = <<>>
           /\ \A k \in 1..N : Kept(q, gone, N)[k] =
                IF q[k] \in gone THEN Kept(q, gone, N)[k - 1] ELSE Append(Kept(q, gone, N)[k - 1], q[k])
<1> DEFINE After(k, R) == IF q[k] \in gone THEN R ELSE Append(R, q[k])
           Good(f, l) == f = [k \in 0..l |-> IF k = 0 THEN <<>> ELSE After(k, f[k - 1])]
           Bad == {l \in Nat : ~ \E f : Good(f, l)}
<1>1. Bad = {}
  <2> SUFFICES ASSUME Bad # {} PROVE FALSE
    OBVIOUS
  <2>1. \E l \in Bad : \A j \in Bad : ~(<<j, l>> \in OpToRel(<, Nat))
    BY NatLessThanWellFounded, WFMin
  <2>2. PICK l \in Bad : \A j \in Bad : ~(j < l)
    BY <2>1 DEF OpToRel
  <2>3. CASE l = 0
    <3> DEFINE f == [k \in 0..0 |-> <<>>]
    <3>1. Good(f, 0)
      OBVIOUS
    <3> QED  BY <2>2, <2>3, <3>1
  <2>4. CASE l # 0
    <3>1. l - 1 \in Nat /\ l - 1 \notin Bad /\ l \in Nat
      <4>1. l \in Nat
        BY <2>2
      <4>2. l - 1 \in Nat /\ l - 1 < l
        BY <2>4, <4>1
      <4> HIDE DEF Bad
      <4> QED  BY <2>2, <4>1, <4>2
    <3>2. PICK f : Good(f, l - 1)
      BY <3>1
    <3> DEFINE g == [k \in 0..l |-> IF k = l THEN After(l, f[l - 1]) ELSE f[k]]
    <3>3. \A k \in 0..(l - 1) : f[k] = IF k = 0 THEN <<>> ELSE After(k, f[k - 1])
      BY <3>2
    <3> HIDE DEF After
    <3>4. \A k \in 0..l : g[k] = IF k = 0 THEN <<>> ELSE After(k, g[k - 1])
      <4> TAKE k \in 0..l
      <4>1. CASE k = l
        <5>1. g[k] = After(l, f[l - 1]) /\ g[k - 1] = f[l - 1]
          BY <2>4, <3>1, <4>1
        <5> QED  BY <2>4, <4>1, <5>1
      <4>2. CASE k # l
        <5>1. k \in 0..(l - 1) /\ g[k] = f[k] /\ (k # 0 => g[k - 1] = f[k - 1])
          BY <3>1, <4>2
        <5> QED  BY <3>3, <5>1
      <4> QED  BY <4>1, <4>2
    <3>5. Good(g, l)
      BY <3>4
    <3> HIDE DEF g
    <3> QED  BY <2>2, <3>5
  <2> QED  BY <2>3, <2>4
<1>2. \E f : Good(f, N)
  BY <1>1
<1>3. Good(Kept(q, gone, N), N)
  BY <1>2 DEF Kept
<1> HIDE DEF After
<1>4. \A k \in 0..N : Kept(q, gone, N)[k] = IF k = 0 THEN <<>> ELSE After(k, Kept(q, gone, N)[k - 1])
  BY <1>3
<1>5. ASSUME NEW k \in 1..N PROVE Kept(q, gone, N)[k] = After(k, Kept(q, gone, N)[k - 1])
  <2>1. k \in 0..N /\ k # 0
    OBVIOUS
  <2> QED  BY <1>4, <2>1
<1>6. Kept(q, gone, N)[0] = <<>>
  <2>1. 0 \in 0..N
    OBVIOUS
  <2> QED  BY <1>4, <2>1
<1> QED  BY <1>5, <1>6 DEF After

LEMMA ErasedIs ==
    ASSUME NEW q, NEW gone
    PROVE  Erase(q, gone) = Kept(q, gone, Len(q))[Len(q)]
BY DEF Erase, Kept

\* erase_if keeps what is not gone, and repeats nothing.
LEMMA Erased ==
    ASSUME NEW S, NEW q \in Seq(S), NEW gone
    PROVE  /\ Erase(q, gone) \in Seq(S) /\ In(Erase(q, gone)) = In(q) \ gone
           /\ Distinct(q) => Distinct(Erase(q, gone))
<1>1. PICK N : N = Len(q)
  OBVIOUS
<1>2. N \in Nat /\ DOMAIN q = 1..N /\ \A i \in 1..N : q[i] \in S
  BY <1>1
<1>3. PICK f : f = Kept(q, gone, N)
  OBVIOUS
<1>4. f[0] = <<>> /\ \A k \in 1..N : f[k] = IF q[k] \in gone THEN f[k - 1] ELSE Append(f[k - 1], q[k])
  BY <1>2, <1>3, KeptExists
<1> DEFINE Some(k) == {x \in S : \E i \in 1..k : x = q[i]}
           Fine(k) == /\ f[k] \in Seq(S) /\ In(f[k]) = Some(k) \ gone
                      /\ Distinct(q) => Distinct(f[k])
           Bad == {k \in 0..N : ~Fine(k)}
<1>5. Fine(0)
  <2>1. Some(0) = {} /\ In(<<>>) = {} /\ Distinct(<<>>) /\ <<>> \in Seq(S)
    BY DEF In, Distinct
  <2> QED  BY <1>4, <2>1
<1>6. ASSUME NEW k \in 1..N, Fine(k - 1) PROVE Fine(k)
  <2>1. /\ f[k - 1] \in Seq(S) /\ In(f[k - 1]) = Some(k - 1) \ gone
        /\ Distinct(q) => Distinct(f[k - 1])
    BY <1>6
  <2>2. Some(k) = Some(k - 1) \cup {q[k]}
    <3>1. \A i \in 1..k : i \in 1..(k - 1) \/ i = k
      BY <1>2
    <3>2. k \in 1..k /\ \A i \in 1..(k - 1) : i \in 1..k
      BY <1>2
    <3>3. q[k] \in S
      BY <1>2
    <3> QED  BY <3>1, <3>2, <3>3
  <2>3. Distinct(q) => q[k] \notin Some(k - 1)
    <3>1. \A i \in 1..(k - 1) : i # k /\ i \in 1..N
      BY <1>2
    <3> QED  BY <1>2, <3>1 DEF Distinct
  <2> HIDE DEF Some
  <2>4. CASE q[k] \in gone
    BY <1>4, <2>1, <2>2, <2>4
  <2>5. CASE q[k] \notin gone
    <3>1. f[k] = Append(f[k - 1], q[k]) /\ q[k] \in S
      BY <1>2, <1>4, <2>5
    <3>2. f[k] \in Seq(S) /\ In(f[k]) = In(f[k - 1]) \cup {q[k]}
      BY <2>1, <3>1, InAppend
    <3>3. Distinct(q) => Distinct(f[k])
      BY <2>1, <2>3, <3>1, DistinctAppend
    <3> QED  BY <2>1, <2>2, <2>5, <3>2, <3>3
  <2> QED  BY <2>4, <2>5
<1> HIDE DEF Fine
<1>7. Bad = {}
  <2> SUFFICES ASSUME Bad # {} PROVE FALSE
    OBVIOUS
  <2>1. Bad \subseteq Nat
    BY <1>2
  <2>2. \E l \in Bad : \A j \in Bad : ~(<<j, l>> \in OpToRel(<, Nat))
    BY <2>1, NatLessThanWellFounded, WFMin
  <2>3. PICK l \in Bad : \A j \in Bad : ~(j < l)
    BY <2>1, <2>2 DEF OpToRel
  <2>4. l \in 0..N /\ ~Fine(l)
    BY <2>3
  <2>5. l # 0
    BY <1>5, <2>4
  <2>6. l \in 1..N /\ l - 1 \in 0..N /\ l - 1 < l
    BY <1>2, <2>4, <2>5
  <2>7. ~Fine(l - 1)
    BY <1>6, <2>4, <2>6
  <2>8. l - 1 \in Bad
    BY <2>6, <2>7
  <2> QED  BY <2>3, <2>6, <2>8
<1>8. N \in 0..N
  BY <1>2
<1>9. Fine(N)
  BY <1>7, <1>8
<1>10. Some(N) = In(q)
  BY <1>2 DEF In
<1>11. Erase(q, gone) = f[N]
  BY <1>1, <1>3, ErasedIs
<1> HIDE DEF Some
<1> QED  BY <1>9, <1>10, <1>11 DEF Fine

-----------------------------------------------------------------------------
(* The board *)

LEMMA BoardPrimed ==
    ASSUME Distinct(events'), In(events') \cap dispatched' = {},
           \A x \in In(events') \cup dispatched' \cup In(subs') : Arrived(x)',
           Distinct(subs'), \A s \in Subs : Arrived(s)' /\ ~Skipped(s)' => s \in In(subs'),
           \A s \in Subs : pc'[s] # "out" => s \in dead',
           \A s \in Subs : pc'[s] = "gone" => s \notin In(subs')
    PROVE  BoardInv'
<1>1. Distinct(events)' /\ Distinct(subs)' /\ In(events)' = In(events') /\ In(subs)' = In(subs')
  BY DEF Distinct, In
<1> QED  BY <1>1 DEF BoardInv

LEMMA GotPrimed ==
    ASSUME \A s \in Subs : Distinct(got'[s]) /\ In(got'[s]) \subseteq dispatched' \cup In(events'),
           \A s \in Subs : In(got'[s]) \cap In(events') # {} => s \in Passed',
           \A s \in Passed' : ~Skipped(s)' => In(events') \subseteq In(got'[s]),
           \A i, k \in Commands' :
             (i.what \in Subs /\ k.what \in dispatched' /\ i.by = k.by /\ i.n < k.n /\ ~Skipped(i.what)')
               => k.what \in In(got'[i.what])
    PROVE  GotInv'
<1>1. In(events)' = In(events') /\ \A s : In(got[s])' = In(got'[s])
  BY DEF In
<1>2. \A s : Distinct(got'[s]) => Distinct(got[s])'
  BY DEF Distinct
<1> QED  BY <1>1, <1>2 DEF GotInv

\* What applied' says of what has arrived.
LEMMA ArrivedPrimed == \A x : Arrived(x)' <=> \E k \in In(applied') : k.what = x
BY DEF Arrived, In

LEMMA ArrivedSame ==
    ASSUME UNCHANGED applied
    PROVE  \A x : Arrived(x)' <=> Arrived(x)
BY DEF Arrived, In

LEMMA SkippedSame ==
    ASSUME UNCHANGED <<dead, expired>>
    PROVE  \A s : Skipped(s)' <=> Skipped(s)
BY DEF Skipped

\* Nothing is passed while nothing is delivered.
LEMMA PassedNone ==
    ASSUME subs \in Seq(Subs), next_sub \in {0, 1}
    PROVE  Passed = {}
<1>1. \A i \in DOMAIN subs : ~(i < next_sub)
  OBVIOUS
<1> QED  BY <1>1 DEF Passed

LEMMA PassedNonePrimed ==
    ASSUME subs' \in Seq(Subs), next_sub' \in {0, 1}
    PROVE  Passed' = {}
<1>1. \A i \in DOMAIN subs' : ~(i < next_sub')
  OBVIOUS
<1> QED  BY <1>1 DEF Passed

\* A program's Deferred has no bus.
LEMMA BusUnused ==
    ASSUME DeliveryInv, use = "program", UNCHANGED use, UNCHANGED bus
    PROVE  DeliveryInv'
<1>1. UNCHANGED <<posted, dead, expired, subs, events, next_sub, running, got, dispatched>>
  BY DEF bus
<1>2. BusTypes /\ Unused
  BY DEF DeliveryInv
<1>3. BusTypes'
  BY <1>1, <1>2 DEF BusTypes
<1>4. Unused'
  BY <1>1, <1>2 DEF Unused
<1> QED  BY <1>3, <1>4 DEF DeliveryInv

\* The board is left alone; a subscription may be disconnected or lose its owner.
LEMMA BusSame ==
    ASSUME DeliveryInv, use = "bus",
           UNCHANGED <<use, applied, posted, subs, events, next_sub, running, got, dispatched>>,
           UNCHANGED Commands, dead \subseteq dead', expired \subseteq expired',
           dead' \subseteq Subs, expired' \subseteq Subs,
           pc'[Dispatch] = "deliver" <=> pc[Dispatch] = "deliver",
           \A s \in Subs : (pc'[s] # "out" => s \in dead') /\ (pc'[s] = "gone" => pc[s] = "gone")
    PROVE  DeliveryInv'
<1>1. BusTypes /\ PostedInv /\ BoardInv /\ RunInv /\ GotInv
  BY DEF DeliveryInv
<1>2. BusTypes'
  BY <1>1 DEF BusTypes
<1>3. PostedInv'
  BY <1>1 DEF PostedInv
<1>4. (\A x : Arrived(x)' <=> Arrived(x)) /\ \A s : Skipped(s) => Skipped(s)'
  <2>1. \A s : Skipped(s) => Skipped(s)'
    BY DEF Skipped
  <2> QED  BY <2>1, ArrivedSame
<1>5. BoardInv'
  BY <1>1, <1>4, BoardPrimed DEF BoardInv
<1>6. RunInv'
  BY <1>1 DEF RunInv
<1>7. Passed' = Passed
  BY DEF Passed
<1>8. GotInv'
  BY <1>1, <1>4, <1>7, GotPrimed DEF GotInv
<1> QED  BY <1>2, <1>3, <1>5, <1>6, <1>8 DEF DeliveryInv

\* The board is the dispatch's while it applies and delivers.
LEMMA BoardIs ==
    ASSUME DeliveryInv, use = "bus"
    PROVE  BusTypes /\ PostedInv /\ BoardInv /\ RunInv /\ GotInv
BY DEF DeliveryInv

LEMMA CommandsSame ==
    ASSUME UNCHANGED <<applied, batch, slots>>
    PROVE  UNCHANGED Commands
BY DEF Commands, In

LEMMA disconnectBoard ==
    ASSUME CommandsInv, DeliveryInv, NEW s \in Subs, disconnect(s)
    PROVE  DeliveryInv'
<1>1. /\ use = "bus" /\ pc[s] = "out" /\ dead' = dead \cup {s} /\ Goto(s, "dead")
      /\ UNCHANGED <<use, journal, applied, posted, expired, subs, events, next_sub, running, got, dispatched>>
  BY DEF disconnect
<1>2. /\ s \in Calls /\ s # Dispatch /\ Dispatch \in Calls /\ Subs \subseteq Calls
      /\ pc \in [Calls -> CommitPcs \cup SubPcs \cup DispatchPcs]
  BY Names DEF CommandsInv, PcTypes
<1>3. pc'[s] = "dead" /\ \A d \in Calls : d # s => pc'[d] = pc[d]
  BY <1>1, <1>2 DEF Goto
<1>4. UNCHANGED Commands
  BY <1>1, CommandsSame DEF journal
<1>5. BusTypes /\ BoardInv
  BY <1>1, BoardIs
<1>6. dead' \subseteq Subs /\ expired' \subseteq Subs
  BY <1>1, <1>5 DEF BusTypes
<1>7. \A d \in Subs : (pc'[d] # "out" => d \in dead') /\ (pc'[d] = "gone" => pc[d] = "gone")
  BY <1>1, <1>2, <1>3, <1>5 DEF BoardInv
<1>8. pc'[Dispatch] = pc[Dispatch]
  BY <1>2, <1>3
<1> QED  BY <1>1, <1>4, <1>6, <1>7, <1>8, BusSame

\* A call of disconnect or dispatch moves, and the board is left alone.
LEMMA CallBoard ==
    ASSUME CommandsInv, DeliveryInv, NEW c \in Subs \cup {Dispatch},
           NEW l \in Label \ {"deliver", "gone"}, Goto(c, l), pc[c] # "deliver", c \in Subs => pc[c] # "out",
           UNCHANGED <<use, posted, dead, expired, subs, events, next_sub, running, got, dispatched>>,
           UNCHANGED <<applied, Commands>>, use = "bus"
    PROVE  DeliveryInv'
<1>2. /\ c \in Calls /\ Dispatch \in Calls /\ Subs \subseteq Calls
      /\ pc \in [Calls -> CommitPcs \cup SubPcs \cup DispatchPcs]
  BY Names DEF CommandsInv, PcTypes
<1>3. pc'[c] = l /\ \A d \in Calls : d # c => pc'[d] = pc[d]
  BY <1>2 DEF Goto
<1>5. BusTypes /\ BoardInv
  BY BoardIs
<1>6. dead' \subseteq Subs /\ expired' \subseteq Subs
  BY <1>5 DEF BusTypes
<1>7. \A d \in Subs : (pc'[d] # "out" => d \in dead') /\ (pc'[d] = "gone" => pc[d] = "gone")
  BY <1>2, <1>3, <1>5 DEF BoardInv
<1>8. pc'[Dispatch] = "deliver" <=> pc[Dispatch] = "deliver"
  BY <1>2, <1>3
<1> QED  BY <1>6, <1>7, <1>8, BusSame

LEMMA disconnect_accessBoard ==
    ASSUME CommandsInv, DeliveryInv, NEW s \in Subs, disconnect_access(s)
    PROVE  DeliveryInv'
<1>1. /\ pc[s] = "dead" /\ Goto(s, "removing")
      /\ UNCHANGED <<use, journal, applied, posted, dead, expired, subs, events, next_sub, running, got, dispatched>>
  BY DEF disconnect_access, bus
<1>2. use = "bus"
  BY <1>1, Names, WhoseUse DEF CommandsInv
<1>3. UNCHANGED Commands
  BY <1>1, CommandsSame DEF journal
<1>4. "removing" \in Label \ {"deliver", "gone"}
  BY DEF Label, SubPcs
<1> QED  BY <1>1, <1>2, <1>3, <1>4, CallBoard

LEMMA dispatchBoard ==
    ASSUME CommandsInv, DeliveryInv, dispatch
    PROVE  DeliveryInv'
<1>1. /\ use = "bus" /\ pc[Dispatch] = "out" /\ Goto(Dispatch, "queued")
      /\ UNCHANGED <<use, journal, applied, posted, dead, expired, subs, events, next_sub, running, got, dispatched>>
  BY DEF dispatch
<1>3. UNCHANGED Commands
  BY <1>1, CommandsSame DEF journal
<1>4. "queued" \in Label \ {"deliver", "gone"} /\ Dispatch \notin Subs
  BY Names DEF Label, DispatchPcs
<1> QED  BY <1>1, <1>3, <1>4, CallBoard

LEMMA owner_expiresBoard ==
    ASSUME CommandsInv, DeliveryInv, NEW s \in Subs, owner_expires(s)
    PROVE  DeliveryInv'
<1>1. /\ use = "bus" /\ expired' = expired \cup {s} /\ UNCHANGED deferred
      /\ UNCHANGED <<posted, dead, subs, events, next_sub, running, got, dispatched>>
  BY DEF owner_expires
<1>2. UNCHANGED <<use, applied, batch, slots, pc>>
  BY <1>1 DEF deferred, journal
<1>3. UNCHANGED Commands
  BY <1>2, CommandsSame
<1>4. BusTypes /\ BoardInv
  BY <1>1, BoardIs
<1>5. dead' \subseteq Subs /\ expired' \subseteq Subs
  BY <1>1, <1>4 DEF BusTypes
<1>6. \A d \in Subs : (pc'[d] # "out" => d \in dead') /\ (pc'[d] = "gone" => pc[d] = "gone")
  BY <1>1, <1>2, <1>4 DEF BoardInv
<1> QED  BY <1>1, <1>2, <1>3, <1>5, <1>6, BusSame

\* The dispatch on its way to the board, and its cut.
LEMMA cutBoard ==
    ASSUME CommandsInv, DeliveryInv, UNCHANGED bus,
           granted(Dispatch) \/ cut(Dispatch) \/ cut_slot(Dispatch) \/ cut_end(Dispatch)
    PROVE  DeliveryInv'
<1>1. UNCHANGED <<posted, dead, expired, subs, events, next_sub, running, got, dispatched>>
  BY DEF bus
<1>2. Dispatch \in Calls /\ Dispatch \notin Subs
  BY Names
<1>3. ASSUME pc[Dispatch] # "out" PROVE use = "bus"
  BY <1>2, <1>3, WhoseUse DEF CommandsInv
<1>4. {"commit", "cut", "apply"} \subseteq Label \ {"deliver", "gone"}
  BY DEF Label, DispatchPcs
<1>5. CASE granted(Dispatch)
  <2>1. pc[Dispatch] = "queued" /\ Goto(Dispatch, "commit") /\ UNCHANGED <<use, journal, applied>>
    BY <1>5 DEF granted
  <2>2. UNCHANGED Commands
    BY <2>1, CommandsSame DEF journal
  <2> QED  BY <1>1, <1>2, <1>3, <1>4, <2>1, <2>2, CallBoard
<1>6. CASE cut(Dispatch)
  <2>1. /\ pc[Dispatch] = "commit" /\ Goto(Dispatch, "cut") /\ UNCHANGED <<use, slots, applied>>
        /\ batch' = <<>>
    BY <1>6 DEF cut
  <2>2. batch = <<>>
    BY <1>2, <2>1, NoneAtWork
  <2>3. UNCHANGED Commands
    BY <2>1, <2>2, CommandsSame
  <2> QED  BY <1>1, <1>2, <1>3, <1>4, <2>1, <2>3, CallBoard
<1>7. CASE cut_slot(Dispatch)
  <2>1. /\ pc[Dispatch] = "cut" /\ at <= Len(slots) /\ batch' = batch \o slots[at]
        /\ slots' = [slots EXCEPT ![at] = <<>>] /\ at' = at + 1
        /\ UNCHANGED <<use, applied, dropped, num_staged, minted, pc>>
    BY <1>7 DEF cut_slot
  <2>2. at \in DOMAIN slots /\ at' \in Nat
    <3>1. register = Dispatch /\ register # None
      BY <1>2, <2>1, Names DEF CommandsInv, RegisterInv
    <3>2. at >= 1 /\ at \in Nat /\ slots \in Seq(Seq(Command))
      BY <3>1 DEF CommandsInv, RegisterInv, JournalTypes
    <3> QED  BY <2>1, <3>2
  <2>3. UNCHANGED Commands
    BY <2>1, <2>2, Cut DEF CommandsInv
  <2>4. BusTypes /\ BoardInv /\ use = "bus"
    BY <1>3, <2>1, BoardIs
  <2>5. dead' \subseteq Subs /\ expired' \subseteq Subs
    BY <1>1, <2>4 DEF BusTypes
  <2>6. \A d \in Subs : (pc'[d] # "out" => d \in dead') /\ (pc'[d] = "gone" => pc[d] = "gone")
    BY <1>1, <2>1, <2>4 DEF BoardInv
  <2> QED  BY <1>1, <2>1, <2>3, <2>4, <2>5, <2>6, BusSame
<1>8. CASE cut_end(Dispatch)
  <2>1. pc[Dispatch] = "cut" /\ Goto(Dispatch, "apply") /\ UNCHANGED <<use, slots, batch, applied>>
    BY <1>8 DEF cut_end
  <2>2. UNCHANGED Commands
    BY <2>1, CommandsSame
  <2> QED  BY <1>1, <1>2, <1>3, <1>4, <2>1, <2>2, CallBoard
<1> QED  BY <1>5, <1>6, <1>7, <1>8

-----------------------------------------------------------------------------
(* The events and the subscriptions *)

\* A recorder's earlier commands are applied first.
LEMMA AppliedFirst ==
    ASSUME JournalTypes, StagedExactlyOnce, NEW k \in In(applied), NEW i \in Commands, i.by = k.by, i.n < k.n
    PROVE  i \in In(applied)
<1>1. i.n \in Int /\ k.n \in Int
  BY Places DEF Command
<1>2. Before(applied, batch) /\ \A s \in DOMAIN slots : Before(applied, slots[s])
  BY DEF StagedExactlyOnce, InOrder
<1>3. CASE i \in In(batch)
  BY <1>1, <1>2, <1>3 DEF Before
<1>4. ASSUME NEW s \in DOMAIN slots, i \in In(slots[s]) PROVE FALSE
  BY <1>1, <1>2, <1>4 DEF Before
<1> QED  BY <1>3, <1>4, Places

LEMMA postBoard ==
    ASSUME CommandsInv, DeliveryInv, NEW t \in Threads, NEW what \in Events \cup Subs, post(t, what)
    PROVE  DeliveryInv'
<1>1. /\ use = "bus" /\ what \notin posted /\ Stage(t, lane[t], what) /\ posted' = posted \cup {what}
      /\ UNCHANGED <<use, batch, applied, dropped, minted, at, pc, dead, expired, subs, events, next_sub,
                     running, got, dispatched>>
  BY DEF post
<1>2. t \in Recorders /\ JournalTypes /\ StagedExactlyOnce
  BY DEF Recorders, CommandsInv
<1>3. PICK s \in DOMAIN slots : s = lane[t]
  <2>1. slots \in Seq(Seq(Command)) /\ Len(slots) = NumLanes /\ lane[t] \in 1..NumLanes
    BY <1>1, Bounds DEF CommandsInv, JournalTypes
  <2>2. lane[t] \in DOMAIN slots
    BY <2>1
  <2> QED  BY <2>2
<1>4. \A i \in DOMAIN slots : \A k \in In(slots[i]) : k.by = t => i = s
  BY <1>1, <1>3 DEF CommandsInv, RecordersInv
<1>5. Stage(t, s, what) /\ what \in {"write"} \cup Events \cup Subs
  BY <1>1, <1>3
<1>6. /\ DOMAIN slots' = DOMAIN slots /\ \A i \in DOMAIN slots \ {s} : slots'[i] = slots[i]
      /\ \E x \in Command : /\ x.by = t /\ x.n = num_staged[t] + 1 /\ x.what = what
                            /\ In(slots'[s]) = In(slots[s]) \cup {x}
  <2>1. UNCHANGED <<use, batch, applied, dropped, minted, at>>
    BY <1>1
  <2> QED  BY <1>2, <1>4, <1>5, <2>1, Staged
<1>7. PICK x \in Command : /\ x.by = t /\ x.n = num_staged[t] + 1 /\ x.what = what
                           /\ In(slots'[s]) = In(slots[s]) \cup {x}
  BY <1>6
<1>8. \A k \in Commands' : k \in Commands \/ k = x
  <2>1. \A i \in DOMAIN slots' : \A k \in In(slots'[i]) : k = x \/ \E j \in DOMAIN slots : k \in In(slots[j])
    BY <1>6, <1>7
  <2>2. Commands' = Gathered(applied, batch, slots') /\ Commands = Gathered(applied, batch, slots)
    BY <1>1, Primed, Unprimed
  <2> QED  BY <2>1, <2>2 DEF Gathered
<1>9. \A k \in Commands : k.by = t => k.n < x.n
  <2>1. \A k \in Commands : k.by = t => k.n \in 1..num_staged[t]
    BY <1>2, Numbered DEF StagedExactlyOnce
  <2>2. num_staged[t] \in Nat
    BY <1>2 DEF JournalTypes
  <2> QED  BY <1>7, <2>1, <2>2
<1>10. BusTypes /\ PostedInv /\ BoardInv /\ RunInv /\ GotInv
  BY <1>1, BoardIs
<1>11. BusTypes'
  BY <1>1, <1>10 DEF BusTypes
<1>12. PostedInv'
  BY <1>1, <1>7, <1>8, <1>10 DEF PostedInv
<1>13. (\A y : Arrived(y)' <=> Arrived(y)) /\ \A y : Skipped(y)' <=> Skipped(y)
  BY <1>1, ArrivedSame, SkippedSame
<1>14. BoardInv'
  BY <1>1, <1>10, <1>13, BoardPrimed DEF BoardInv
<1>15. RunInv'
  BY <1>1, <1>10 DEF RunInv
<1>16. Passed' = Passed
  BY <1>1 DEF Passed
<1>17. what \notin dispatched
  <2>1. ASSUME Arrived(what) PROVE FALSE
    <3>1. PICK k \in In(applied) : k.what = what
      BY <2>1 DEF Arrived
    <3> QED  BY <1>1, <1>2, <1>10, <3>1, Places DEF PostedInv
  <2> QED  BY <1>10, <2>1 DEF BoardInv
<1>18. ASSUME NEW i \in Commands', NEW k \in Commands', i.what \in Subs, k.what \in dispatched', i.by = k.by,
              i.n < k.n, ~Skipped(i.what)'
       PROVE  k.what \in In(got'[i.what])
  <2>1. k # x /\ k \in Commands
    BY <1>1, <1>7, <1>8, <1>17, <1>18
  <2>2. i # x
    <3>1. ASSUME i = x PROVE FALSE
      <4>1. k.n < x.n /\ x.n < k.n
        BY <1>7, <1>9, <1>18, <2>1, <3>1
      <4>2. k.n \in Int /\ x.n \in Int
        BY <1>2, <2>1, Places DEF Command
      <4> QED  BY <4>1, <4>2
    <3> QED  BY <3>1
  <2> QED  BY <1>1, <1>8, <1>10, <1>13, <1>18, <2>1, <2>2 DEF GotInv
<1>19. GotInv'
  BY <1>1, <1>10, <1>13, <1>16, <1>18, GotPrimed DEF GotInv
<1> QED  BY <1>1, <1>11, <1>12, <1>14, <1>15, <1>19 DEF DeliveryInv

\* Board::remove has the board to itself.
LEMMA removeBoard ==
    ASSUME CommandsInv, DeliveryInv, NEW s \in Subs, remove(s)
    PROVE  DeliveryInv'
<1>1. /\ pc[s] = "removing" /\ Holds(pipe, s) /\ subs' = Erase(subs, {s}) /\ Goto(s, "gone")
      /\ UNCHANGED <<use, journal, applied, posted, dead, expired, events, next_sub, running, got, dispatched>>
  BY DEF remove
<1>2. /\ s \in Calls /\ s # Dispatch /\ Dispatch \in Calls /\ Subs \subseteq Calls
      /\ pc \in [Calls -> CommitPcs \cup SubPcs \cup DispatchPcs]
  BY Names DEF CommandsInv, PcTypes
<1>3. pc'[s] = "gone" /\ \A d \in Calls : d # s => pc'[d] = pc[d]
  BY <1>1, <1>2 DEF Goto
<1>4. use = "bus"
  BY <1>1, <1>2, WhoseUse DEF CommandsInv
<1>5. pc[Dispatch] # "deliver"
  <2>1. ASSUME pc[Dispatch] = "deliver" PROVE FALSE
    <3>1. Holds(pipe, Dispatch) /\ Shape(pipe)
      BY <1>2, <2>1 DEF CommandsInv, PipeInv, Granted
    <3> QED  BY <1>1, <1>2, <3>1, OneHolder
  <2> QED  BY <2>1
<1>6. BusTypes /\ PostedInv /\ BoardInv /\ RunInv /\ GotInv
  BY <1>4, BoardIs
<1>7. subs \in Seq(Subs) /\ running = None /\ next_sub = 0
  BY <1>5, <1>6 DEF BusTypes, RunInv
<1>8. subs' \in Seq(Subs) /\ In(subs') = In(subs) \ {s} /\ (Distinct(subs) => Distinct(subs'))
  BY <1>1, <1>7, Erased
<1>9. Passed = {} /\ Passed' = {}
  BY <1>1, <1>7, <1>8, PassedNone, PassedNonePrimed
<1>10. BusTypes'
  BY <1>1, <1>6, <1>8 DEF BusTypes
<1>11. UNCHANGED Commands
  BY <1>1, CommandsSame DEF journal
<1>12. PostedInv'
  BY <1>1, <1>6, <1>11 DEF PostedInv
<1>13. (\A y : Arrived(y)' <=> Arrived(y)) /\ \A y : Skipped(y)' <=> Skipped(y)
  BY <1>1, ArrivedSame, SkippedSame
<1>14. s \in dead /\ Skipped(s)
  BY <1>1, <1>6 DEF BoardInv, Skipped
<1>15. BoardInv'
  <2>1. \A d \in Subs : (pc'[d] # "out" => d \in dead') /\ (pc'[d] = "gone" => d \notin In(subs'))
    BY <1>1, <1>2, <1>3, <1>6, <1>8, <1>14 DEF BoardInv
  <2> QED  BY <1>1, <1>6, <1>8, <1>13, <1>14, <2>1, BoardPrimed DEF BoardInv
<1>16. RunInv'
  <2>1. pc'[Dispatch] # "deliver"
    BY <1>2, <1>3, <1>5
  <2> QED  BY <1>1, <1>7, <2>1 DEF RunInv
<1>17. GotInv'
  BY <1>1, <1>6, <1>9, <1>11, <1>13, GotPrimed DEF GotInv
<1> QED  BY <1>1, <1>4, <1>10, <1>12, <1>15, <1>16, <1>17 DEF DeliveryInv

\* The inline commit puts a command on the board.
LEMMA apply_to_boardBoard ==
    ASSUME CommandsInv, DeliveryInv, apply_to_board
    PROVE  DeliveryInv'
<1>1. /\ pc[Dispatch] = "apply" /\ batch # <<>>
      /\ applied' = Append(applied, Head(batch)) /\ batch' = Tail(batch)
      /\ UNCHANGED <<use, slots, at, num_staged, minted, dropped, pc, posted, dead, expired, next_sub, running,
                     got, dispatched>>
  BY DEF apply_to_board
<1>2. use = "bus"
  BY <1>1, Names, WhoseUse DEF CommandsInv
<1>3. BusTypes /\ PostedInv /\ BoardInv /\ RunInv /\ GotInv
  BY <1>2, BoardIs
<1>4. JournalTypes /\ StagedExactlyOnce
  BY DEF CommandsInv
<1>5. UNCHANGED Commands /\ Head(batch) \in In(batch) /\ In(applied') = In(applied) \cup {Head(batch)}
  <2>1. UNCHANGED <<use, slots, dropped, num_staged, minted, at>>
    BY <1>1
  <2> QED  BY <1>1, <1>4, <2>1, Applied
<1>6. PICK h \in Commands : h = Head(batch) /\ h \in In(batch) /\ h \in Command
  BY <1>4, <1>5, Places
<1>7. PICK x \in Events \cup Subs : x = h.what
  BY <1>3, <1>6 DEF PostedInv, BusTypes
<1>8. ~Arrived(x)
  <2>1. ASSUME NEW k \in In(applied), k.what = x PROVE FALSE
    <3>1. k = h
      BY <1>3, <1>4, <1>6, <1>7, <2>1, Places DEF PostedInv
    <3>2. h.n < h.n
      BY <1>4, <1>6, <2>1, <3>1 DEF StagedExactlyOnce, InOrder, Before
    <3>3. h.n \in Int
      BY <1>6 DEF Command
    <3> QED  BY <3>2, <3>3
  <2> QED  BY <2>1 DEF Arrived
<1>9. \A y : Arrived(y)' <=> Arrived(y) \/ y = x
  BY <1>5, <1>6, <1>7, ArrivedPrimed DEF Arrived
<1>10. \A y : Skipped(y)' <=> Skipped(y)
  BY <1>1, SkippedSame
<1>11. x \notin In(events) /\ x \notin dispatched /\ x \notin In(subs)
  BY <1>3, <1>8 DEF BoardInv
<1>12. subs \in Seq(Subs) /\ events \in Seq(Events) /\ running = None /\ next_sub = 0 /\ next_sub' = 0
  BY <1>1, <1>3 DEF BusTypes, RunInv
<1>13. /\ subs' = IF x \in Subs /\ x \notin dead THEN Append(subs, x) ELSE subs
       /\ events' = IF x \in Subs THEN events ELSE Append(events, x)
  BY <1>6, <1>7 DEF apply_to_board, Install
<1>14. /\ subs' \in Seq(Subs) /\ Distinct(subs')
       /\ In(subs') = IF x \in Subs /\ x \notin dead THEN In(subs) \cup {x} ELSE In(subs)
  <2>1. CASE x \in Subs /\ x \notin dead
    <3>1. subs' = Append(subs, x)
      BY <1>13, <2>1
    <3> QED  BY <1>3, <1>11, <1>12, <2>1, <3>1, InAppend, DistinctAppend DEF BoardInv
  <2>2. CASE ~(x \in Subs /\ x \notin dead)
    BY <1>3, <1>12, <1>13, <2>2 DEF BoardInv
  <2> QED  BY <2>1, <2>2
<1>15. /\ events' \in Seq(Events) /\ Distinct(events')
       /\ In(events') = IF x \in Subs THEN In(events) ELSE In(events) \cup {x}
  <2>1. CASE x \notin Subs
    <3>1. events' = Append(events, x) /\ x \in Events
      BY <1>13, <2>1
    <3> QED  BY <1>3, <1>11, <1>12, <2>1, <3>1, InAppend, DistinctAppend DEF BoardInv
  <2>2. CASE x \in Subs
    BY <1>3, <1>12, <1>13, <2>2 DEF BoardInv
  <2> QED  BY <2>1, <2>2
<1>16. Passed = {} /\ Passed' = {}
  BY <1>12, <1>14, PassedNone, PassedNonePrimed
<1>17. BusTypes'
  BY <1>1, <1>3, <1>14, <1>15 DEF BusTypes
<1>18. PostedInv'
  BY <1>1, <1>3, <1>5 DEF PostedInv
<1>19. BoardInv'
  <2>1. In(events') \cap dispatched' = {}
    BY <1>1, <1>3, <1>11, <1>15 DEF BoardInv
  <2>2. \A y \in In(events') \cup dispatched' \cup In(subs') : Arrived(y)'
    BY <1>1, <1>3, <1>9, <1>14, <1>15 DEF BoardInv
  <2>3. \A s \in Subs : Arrived(s)' /\ ~Skipped(s)' => s \in In(subs')
    BY <1>3, <1>9, <1>10, <1>14 DEF BoardInv, Skipped
  <2>4. \A s \in Subs : pc'[s] # "out" => s \in dead'
    BY <1>1, <1>3 DEF BoardInv
  <2>5. \A s \in Subs : pc'[s] = "gone" => s \notin In(subs')
    BY <1>1, <1>3, <1>14 DEF BoardInv
  <2> QED  BY <1>14, <1>15, <2>1, <2>2, <2>3, <2>4, <2>5, BoardPrimed
<1>20. RunInv'
  BY <1>1, <1>12 DEF RunInv
<1>21. GotInv'
  <2>1. \A s \in Subs : Distinct(got[s]) /\ In(got[s]) \subseteq dispatched \cup In(events')
    BY <1>3, <1>15 DEF GotInv
  <2>2. \A s \in Subs : In(got[s]) \cap In(events') = {}
    BY <1>3, <1>11, <1>15, <1>16 DEF GotInv
  <2>3. \A i, k \in Commands' :
          (i.what \in Subs /\ k.what \in dispatched' /\ i.by = k.by /\ i.n < k.n /\ ~Skipped(i.what)')
             => k.what \in In(got'[i.what])
    BY <1>1, <1>3, <1>5, <1>10 DEF GotInv
  <2> QED  BY <1>1, <1>16, <2>1, <2>2, <2>3, GotPrimed
<1> QED  BY <1>1, <1>2, <1>17, <1>18, <1>19, <1>20, <1>21 DEF DeliveryInv

LEMMA dispatch_allBoard ==
    ASSUME CommandsInv, DeliveryInv, dispatch_all
    PROVE  DeliveryInv'
<1>1. /\ use = "bus" /\ pc[Dispatch] = "apply" /\ next_sub' = 1 /\ Goto(Dispatch, "deliver")
      /\ UNCHANGED <<use, journal, applied, posted, dead, expired, subs, events, running, got, dispatched>>
  BY DEF dispatch_all
<1>2. /\ Dispatch \in Calls /\ Dispatch \notin Subs /\ Subs \subseteq Calls
      /\ pc \in [Calls -> CommitPcs \cup SubPcs \cup DispatchPcs]
  BY Names DEF CommandsInv, PcTypes
<1>3. pc'[Dispatch] = "deliver" /\ \A s \in Subs : pc'[s] = pc[s]
  BY <1>1, <1>2 DEF Goto
<1>4. BusTypes /\ PostedInv /\ BoardInv /\ RunInv /\ GotInv
  BY <1>1, BoardIs
<1>5. subs \in Seq(Subs) /\ running = None /\ next_sub = 0
  BY <1>1, <1>4 DEF BusTypes, RunInv
<1>6. Passed = {} /\ Passed' = {}
  BY <1>1, <1>5, PassedNone, PassedNonePrimed
<1>7. BusTypes'
  BY <1>1, <1>4 DEF BusTypes
<1>8. UNCHANGED Commands
  BY <1>1, CommandsSame DEF journal
<1>9. PostedInv'
  BY <1>1, <1>4, <1>8 DEF PostedInv
<1>10. (\A y : Arrived(y)' <=> Arrived(y)) /\ \A y : Skipped(y)' <=> Skipped(y)
  BY <1>1, ArrivedSame, SkippedSame
<1>11. BoardInv'
  BY <1>1, <1>3, <1>4, <1>10, BoardPrimed DEF BoardInv
<1>12. RunInv'
  BY <1>1, <1>3, <1>5 DEF RunInv
<1>13. GotInv'
  BY <1>1, <1>4, <1>6, <1>8, <1>10, GotPrimed DEF GotInv
<1> QED  BY <1>1, <1>7, <1>9, <1>11, <1>12, <1>13 DEF DeliveryInv

-----------------------------------------------------------------------------
(* Delivery *)

\* What does not touch the board's lists or the calls.
LEMMA BoardKept ==
    ASSUME DeliveryInv, use = "bus", UNCHANGED deferred,
           UNCHANGED <<posted, dead, expired, subs, events, dispatched>>
    PROVE  /\ UNCHANGED <<use, pc, Commands>> /\ PostedInv' /\ BoardInv' /\ Dispatch \in Calls
           /\ (\A y : Arrived(y)' <=> Arrived(y)) /\ \A y : Skipped(y)' <=> Skipped(y)
<1>1. UNCHANGED <<use, applied, batch, slots, pc>>
  BY DEF deferred, journal
<1>2. UNCHANGED Commands
  BY <1>1, CommandsSame
<1>3. (\A y : Arrived(y)' <=> Arrived(y)) /\ \A y : Skipped(y)' <=> Skipped(y)
  BY <1>1, ArrivedSame, SkippedSame
<1>4. PostedInv /\ BoardInv
  BY BoardIs
<1>5. PostedInv'
  BY <1>2, <1>4 DEF PostedInv
<1>6. BoardInv'
  BY <1>1, <1>3, <1>4, BoardPrimed DEF BoardInv
<1> QED  BY <1>1, <1>2, <1>3, <1>5, <1>6, Names

LEMMA next_subscriptionBoard ==
    ASSUME CommandsInv, DeliveryInv, next_subscription
    PROVE  DeliveryInv'
<1>1. /\ pc[Dispatch] = "deliver" /\ running = None /\ next_sub <= Len(subs) /\ next_sub' = next_sub + 1
      /\ running' = IF Skipped(subs[next_sub]) THEN None ELSE subs[next_sub]
      /\ UNCHANGED deferred /\ UNCHANGED <<posted, dead, expired, subs, events, got, dispatched>>
  BY DEF next_subscription
<1>2. use = "bus"
  BY <1>1, Names, WhoseUse DEF CommandsInv
<1>3. BusTypes /\ PostedInv /\ BoardInv /\ RunInv /\ GotInv
  BY <1>2, BoardIs
<1>4. /\ UNCHANGED <<use, pc, Commands>> /\ PostedInv' /\ BoardInv'
      /\ \A y : Skipped(y)' <=> Skipped(y)
  BY <1>1, <1>2, BoardKept
<1>5. next_sub \in DOMAIN subs /\ next_sub \in Nat /\ next_sub + 1 \in Nat /\ next_sub + 1 >= 1
      /\ subs \in Seq(Subs)
  <2>1. next_sub \in Nat /\ subs \in Seq(Subs) /\ next_sub >= 1
    BY <1>1, <1>3 DEF BusTypes, RunInv
  <2> QED  BY <1>1, <2>1
<1>6. PICK s \in Subs : s = subs[next_sub]
  BY <1>5
<1>7. None \notin Subs
  BY Names
<1>8. running' = IF Skipped(s) THEN None ELSE s
  BY <1>1, <1>6
<1>9. BusTypes'
  BY <1>1, <1>3, <1>5, <1>6, <1>8 DEF BusTypes
<1>10. RunInv'
  <2>1. pc'[Dispatch] = "deliver" /\ next_sub' >= 1
    BY <1>1, <1>4, <1>5
  <2>2. running' # None => running' = subs'[next_sub] /\ next_sub \in DOMAIN subs'
    BY <1>1, <1>5, <1>6, <1>8
  <2> QED  BY <1>1, <2>1, <2>2 DEF RunInv
<1>11. \A j \in DOMAIN subs : j < next_sub' <=> (j < next_sub \/ j = next_sub)
  BY <1>1, <1>5
<1>12. Passed = {subs[i] : i \in {j \in DOMAIN subs : j < next_sub}}
  BY <1>1, <1>5, <1>7 DEF Passed
<1>13. s \notin Passed
  <2>1. ASSUME NEW i \in DOMAIN subs, i < next_sub, subs[i] = s PROVE FALSE
    <3>1. i = next_sub
      BY <1>3, <1>5, <1>6, <2>1 DEF BoardInv, Distinct
    <3> QED  BY <1>5, <2>1, <3>1
  <2> QED  BY <1>12, <2>1
<1>14. {subs[i] : i \in {j \in DOMAIN subs : j < next_sub'}} = Passed \cup {s}
  BY <1>5, <1>6, <1>11, <1>12
<1>15. Passed' = (Passed \cup {s}) \ {running'}
  BY <1>1, <1>14 DEF Passed
<1>16. (Skipped(s) /\ Passed' = Passed \cup {s}) \/ Passed' = Passed
  <2>1. CASE Skipped(s)
    <3>1. None \notin Passed /\ None # s
      BY <1>5, <1>7, <1>12
    <3> QED  BY <1>8, <1>15, <2>1, <3>1
  <2>2. CASE ~Skipped(s)
    BY <1>8, <1>13, <1>15, <2>2
  <2> QED  BY <2>1, <2>2
<1>17. GotInv'
  BY <1>1, <1>3, <1>4, <1>16, GotPrimed DEF GotInv
<1> QED  BY <1>2, <1>4, <1>9, <1>10, <1>17 DEF DeliveryInv

\* Two sequences without repetitions that share nothing.
LEMMA DistinctJoined ==
    ASSUME NEW S, NEW q \in Seq(S), NEW r \in Seq(S)
    PROVE  /\ q \o r \in Seq(S) /\ In(q \o r) = In(q) \cup In(r)
           /\ Distinct(q) /\ Distinct(r) /\ In(q) \cap In(r) = {} => Distinct(q \o r)
<1>1. PICK m \in Nat : m = Len(q)
  OBVIOUS
<1>2. PICK n \in Nat : n = Len(r)
  OBVIOUS
<1>3. PICK t : t = q \o r
  OBVIOUS
<1>4. /\ t \in Seq(S) /\ DOMAIN q = 1..m /\ DOMAIN r = 1..n /\ DOMAIN t = 1..(m + n)
      /\ \A i \in 1..m : t[i] = q[i]
  BY <1>1, <1>2, <1>3
<1>5. \A i \in 1..n : m + i \in 1..(m + n) /\ t[m + i] = r[i]
  BY <1>1, <1>2, <1>3
<1>6. \A i \in 1..(m + n) : i \in 1..m \/ \E j \in 1..n : i = m + j
  <2>1. ASSUME NEW i \in 1..(m + n), i \notin 1..m PROVE \E j \in 1..n : i = m + j
    <3>1. i - m \in 1..n /\ i = m + (i - m)
      BY <2>1
    <3> QED  BY <3>1
  <2> QED  BY <2>1
<1>7. \A i \in 1..m : i \in 1..(m + n)
  OBVIOUS
<1>8. In(t) = In(q) \cup In(r)
  <2>1. ASSUME NEW x \in In(t) PROVE x \in In(q) \cup In(r)
    <3>1. PICK i \in 1..(m + n) : x = t[i]
      BY <1>4 DEF In
    <3>2. CASE i \in 1..m
      BY <1>4, <3>1, <3>2 DEF In
    <3>3. ASSUME NEW j \in 1..n, i = m + j PROVE x \in In(r)
      BY <1>4, <1>5, <3>1, <3>3 DEF In
    <3> QED  BY <1>6, <3>2, <3>3
  <2>2. ASSUME NEW x \in In(q) PROVE x \in In(t)
    <3>1. PICK i \in 1..m : x = q[i]
      BY <1>4 DEF In
    <3> QED  BY <1>4, <1>7, <3>1 DEF In
  <2>3. ASSUME NEW x \in In(r) PROVE x \in In(t)
    <3>1. PICK i \in 1..n : x = r[i]
      BY <1>4 DEF In
    <3>2. m + i \in DOMAIN t /\ x = t[m + i]
      BY <1>4, <1>5, <3>1
    <3> QED  BY <3>2 DEF In
  <2> QED  BY <2>1, <2>2, <2>3
<1>9. ASSUME Distinct(q), Distinct(r), In(q) \cap In(r) = {}, NEW i \in 1..(m + n), NEW j \in 1..(m + n), t[i] = t[j]
      PROVE  i = j
  <2>1. \A a \in 1..m, b \in 1..n : q[a] # r[b]
    BY <1>4, <1>9 DEF In
  <2>2. CASE i \in 1..m /\ j \in 1..m
    BY <1>4, <1>9, <2>2 DEF Distinct
  <2>3. ASSUME NEW a \in 1..n, NEW b \in 1..n, i = m + a, j = m + b PROVE i = j
    <3>1. r[a] = r[b]
      BY <1>5, <1>9, <2>3
    <3>2. a = b
      BY <1>4, <1>9, <3>1 DEF Distinct
    <3> QED  BY <2>3, <3>2
  <2>4. ASSUME NEW b \in 1..n, (i \in 1..m /\ j = m + b) \/ (j \in 1..m /\ i = m + b) PROVE FALSE
    <3>1. CASE i \in 1..m /\ j = m + b
      <4>1. t[i] = q[i] /\ t[j] = r[b]
        BY <1>4, <1>5, <3>1
      <4> QED  BY <1>9, <2>1, <3>1, <4>1
    <3>2. CASE j \in 1..m /\ i = m + b
      <4>1. t[j] = q[j] /\ t[i] = r[b]
        BY <1>4, <1>5, <3>2
      <4> QED  BY <1>9, <2>1, <3>2, <4>1
    <3> QED  BY <2>4, <3>1, <3>2
  <2> QED  BY <1>6, <2>2, <2>3, <2>4
<1>10. Distinct(q) /\ Distinct(r) /\ In(q) \cap In(r) = {} => Distinct(t)
  BY <1>4, <1>9 DEF Distinct
<1> QED  BY <1>3, <1>4, <1>8, <1>10

LEMMA invokeBoard ==
    ASSUME CommandsInv, DeliveryInv, invoke
    PROVE  DeliveryInv'
<1>1. /\ running # None /\ got' = [got EXCEPT ![running] = @ \o events] /\ running' = None
      /\ UNCHANGED deferred /\ UNCHANGED <<posted, dead, expired, subs, events, next_sub, dispatched>>
  BY DEF invoke
<1>2. use = "bus"
  BY <1>1 DEF DeliveryInv, Unused, CommandsInv, PcTypes
<1>3. BusTypes /\ PostedInv /\ BoardInv /\ RunInv /\ GotInv
  BY <1>2, BoardIs
<1>4. /\ UNCHANGED <<use, pc, Commands>> /\ PostedInv' /\ BoardInv'
      /\ \A y : Skipped(y)' <=> Skipped(y)
  BY <1>1, <1>2, BoardKept
<1>5. PICK r \in Subs : r = running
  BY <1>1, <1>3 DEF BusTypes
<1>6. PICK i \in DOMAIN subs : i + 1 = next_sub /\ r = subs[i]
  BY <1>1, <1>3, <1>5 DEF RunInv
<1>7. subs \in Seq(Subs) /\ i < next_sub /\ None \notin Subs /\ i \in Nat
  <2>1. subs \in Seq(Subs) /\ None \notin Subs
    BY <1>3, Names DEF BusTypes
  <2>2. i \in Nat
    BY <2>1
  <2> QED  BY <1>6, <2>1, <2>2
<1>8. Passed' = Passed \cup {r}
  <2>1. PICK P : P = {subs[j] : j \in {l \in DOMAIN subs : l < next_sub}}
    OBVIOUS
  <2>2. r \in P /\ None \notin P
    BY <1>6, <1>7, <2>1
  <2>3. Passed = P \ {r} /\ Passed' = P \ {None}
    BY <1>1, <1>5, <2>1 DEF Passed
  <2> QED  BY <2>2, <2>3
<1>9. r \notin Passed
  BY <1>5 DEF Passed
<1>10. got \in [Subs -> Seq(Events)] /\ events \in Seq(Events) /\ Distinct(events)
  BY <1>3 DEF BusTypes, BoardInv
<1>11. got[r] \in Seq(Events) /\ Distinct(got[r]) /\ In(got[r]) \cap In(events) = {}
  BY <1>3, <1>9, <1>10 DEF GotInv
<1>12. /\ got[r] \o events \in Seq(Events) /\ In(got[r] \o events) = In(got[r]) \cup In(events)
       /\ Distinct(got[r] \o events)
  BY <1>10, <1>11, DistinctJoined
<1>13. /\ got' \in [Subs -> Seq(Events)] /\ got'[r] = got[r] \o events
       /\ \A s \in Subs : s # r => got'[s] = got[s]
  BY <1>1, <1>5, <1>10, <1>12
<1>14. In(got'[r]) = In(got[r]) \cup In(events) /\ Distinct(got'[r])
  BY <1>12, <1>13
<1>15. BusTypes'
  BY <1>1, <1>3, <1>13 DEF BusTypes
<1>16. RunInv'
  BY <1>1, <1>3, <1>4 DEF RunInv
<1>17. \A s \in Subs : Distinct(got'[s]) /\ In(got'[s]) \subseteq dispatched \cup In(events)
  BY <1>3, <1>13, <1>14 DEF GotInv
<1>18. \A s \in Subs : In(got'[s]) \cap In(events) # {} => s \in Passed'
  BY <1>3, <1>8, <1>13 DEF GotInv
<1>19. \A s \in Passed' : ~Skipped(s) => In(events) \subseteq In(got'[s])
  <2>1. Passed \subseteq Subs
    BY <1>7 DEF Passed
  <2> QED  BY <1>3, <1>8, <1>13, <1>14, <2>1 DEF GotInv
<1>20. \A a, k \in Commands :
         (a.what \in Subs /\ k.what \in dispatched /\ a.by = k.by /\ a.n < k.n /\ ~Skipped(a.what))
            => k.what \in In(got'[a.what])
  <2>1. \A s \in Subs : In(got[s]) \subseteq In(got'[s])
    BY <1>13, <1>14
  <2> QED  BY <1>3, <2>1 DEF GotInv
<1>21. GotInv'
  BY <1>1, <1>4, <1>17, <1>18, <1>19, <1>20, GotPrimed
<1> QED  BY <1>2, <1>4, <1>15, <1>16, <1>21 DEF DeliveryInv

\* The events of this dispatch have reached every live subscription that was applied before them.
LEMMA clearBoard ==
    ASSUME CommandsInv, DeliveryInv, clear
    PROVE  DeliveryInv'
<1>1. /\ pc[Dispatch] = "deliver" /\ running = None /\ next_sub > Len(subs)
      /\ subs' = Erase(subs, {s \in Subs : Skipped(s)})
      /\ dispatched' = dispatched \cup In(events)
      /\ events' = <<>> /\ next_sub' = 0 /\ Goto(Dispatch, "out")
      /\ UNCHANGED <<use, journal, applied, posted, dead, expired, running, got>>
  BY DEF clear, In
<1>2. use = "bus"
  BY <1>1, Names, WhoseUse DEF CommandsInv
<1>3. /\ Dispatch \in Calls /\ Dispatch \notin Subs /\ Subs \subseteq Calls /\ None \notin Subs
      /\ pc \in [Calls -> CommitPcs \cup SubPcs \cup DispatchPcs]
  BY Names DEF CommandsInv, PcTypes
<1>4. pc'[Dispatch] = "out" /\ \A s \in Subs : pc'[s] = pc[s]
  BY <1>1, <1>3 DEF Goto
<1>5. BusTypes /\ PostedInv /\ BoardInv /\ RunInv /\ GotInv
  BY <1>2, BoardIs
<1>6. subs \in Seq(Subs) /\ events \in Seq(Events) /\ next_sub \in Nat /\ dispatched \subseteq Events
  BY <1>5 DEF BusTypes
<1>7. /\ subs' \in Seq(Subs) /\ In(subs') = In(subs) \ {s \in Subs : Skipped(s)}
      /\ Distinct(subs')
  BY <1>1, <1>5, <1>6, Erased DEF BoardInv
<1>8. In(events') = {} /\ Distinct(events') /\ events' \in Seq(Events) /\ In(events) \subseteq Events
  <2>1. In(<<>>) = {} /\ Distinct(<<>>)
    BY DEF In, Distinct
  <2>2. In(events) \subseteq Events
    BY <1>6 DEF In
  <2> QED  BY <1>1, <2>1, <2>2
<1>9. Passed = In(subs) /\ Passed' = {}
  <2>1. \A i \in DOMAIN subs : i < next_sub
    BY <1>1, <1>6
  <2>2. \A s \in In(subs) : s # None
    BY <1>3, <1>6 DEF In
  <2>3. Passed = In(subs) \ {None}
    BY <1>1, <2>1 DEF Passed, In
  <2> QED  BY <1>1, <1>7, <2>2, <2>3, PassedNonePrimed
<1>10. BusTypes'
  <2>1. dispatched' \subseteq Events /\ next_sub' \in Nat
    BY <1>1, <1>6, <1>8
  <2> QED  BY <1>1, <1>5, <1>7, <1>8, <2>1 DEF BusTypes
<1>11. UNCHANGED Commands
  BY <1>1, CommandsSame DEF journal
<1>12. PostedInv'
  BY <1>1, <1>5, <1>11 DEF PostedInv
<1>13. (\A y : Arrived(y)' <=> Arrived(y)) /\ \A y : Skipped(y)' <=> Skipped(y)
  BY <1>1, ArrivedSame, SkippedSame
<1>14. BoardInv'
  <2>1. \A y \in In(events') \cup dispatched' \cup In(subs') : Arrived(y)'
    BY <1>1, <1>5, <1>7, <1>8, <1>13 DEF BoardInv
  <2>2. \A s \in Subs : Arrived(s)' /\ ~Skipped(s)' => s \in In(subs')
    BY <1>5, <1>7, <1>13 DEF BoardInv
  <2>3. \A s \in Subs : (pc'[s] # "out" => s \in dead') /\ (pc'[s] = "gone" => s \notin In(subs'))
    BY <1>1, <1>4, <1>5, <1>7 DEF BoardInv
  <2> QED  BY <1>7, <1>8, <2>1, <2>2, <2>3, BoardPrimed
<1>15. RunInv'
  BY <1>1, <1>4 DEF RunInv
<1>16. ASSUME NEW i \in Commands, NEW k \in Commands, i.what \in Subs, k.what \in dispatched', i.by = k.by,
              i.n < k.n, ~Skipped(i.what)
       PROVE  k.what \in In(got[i.what])
  <2>1. CASE k.what \in dispatched
    BY <1>5, <1>16, <2>1 DEF GotInv
  <2>2. CASE k.what \in In(events)
    <3>1. PICK l \in In(applied) : l.what = k.what
      BY <1>5, <2>2 DEF BoardInv, Arrived
    <3>2. JournalTypes /\ StagedExactlyOnce
      BY DEF CommandsInv
    <3>3. k \in In(applied)
      BY <1>5, <3>1, <3>2, Places DEF PostedInv
    <3>4. i \in In(applied)
      BY <1>16, <3>2, <3>3, AppliedFirst
    <3>5. i.what \in In(subs)
      BY <1>5, <1>16, <3>4 DEF BoardInv, Arrived
    <3> QED  BY <1>5, <1>9, <1>16, <2>2, <3>5 DEF GotInv
  <2> QED  BY <1>1, <1>16, <2>1, <2>2
<1>17. GotInv'
  <2>1. \A s \in Subs : Distinct(got'[s]) /\ In(got'[s]) \subseteq dispatched' \cup In(events')
    BY <1>1, <1>5 DEF GotInv
  <2>2. \A a, k \in Commands' :
          (a.what \in Subs /\ k.what \in dispatched' /\ a.by = k.by /\ a.n < k.n /\ ~Skipped(a.what)')
             => k.what \in In(got'[a.what])
    BY <1>1, <1>11, <1>13, <1>16
  <2> QED  BY <1>8, <1>9, <2>1, <2>2, GotPrimed
<1> QED  BY <1>1, <1>2, <1>10, <1>12, <1>14, <1>15, <1>17 DEF DeliveryInv

LEMMA DeliveryInit ==
    ASSUME Init
    PROVE  DeliveryInv
<1>1. /\ posted = {} /\ dead = {} /\ expired = {} /\ subs = <<>> /\ events = <<>> /\ next_sub = 0
      /\ running = None /\ got = [s \in Subs |-> <<>>] /\ dispatched = {} /\ applied = <<>> /\ batch = <<>>
      /\ pc = [c \in Calls |-> "out"]
  BY DEF Init
<1>2. In(<<>>) = {} /\ Distinct(<<>>)
  BY DEF In, Distinct
<1>3. BusTypes
  BY <1>1 DEF BusTypes
<1>4. Unused
  BY <1>1 DEF Unused
<1>5. Commands = {}
  <2>1. \A i \in DOMAIN slots : slots[i] = <<>>
    BY DEF Init
  <2> QED  BY <1>1, <1>2, <2>1 DEF Commands
<1>6. PostedInv
  BY <1>5 DEF PostedInv
<1>7. (\A x : ~Arrived(x)) /\ \A s \in Subs : pc[s] = "out"
  BY <1>1, <1>2, Names DEF Arrived
<1>8. BoardInv
  BY <1>1, <1>2, <1>7 DEF BoardInv
<1>9. RunInv
  BY <1>1, Names DEF RunInv
<1>10. Passed = {}
  BY <1>1, <1>3, PassedNone DEF BusTypes
<1>11. GotInv
  BY <1>1, <1>2, <1>5, <1>10 DEF GotInv
<1> QED  BY <1>3, <1>4, <1>6, <1>8, <1>9, <1>11 DEF DeliveryInv

\* The program's steps are steps of a program's Deferred.
LEMMA ProgramSteps ==
    ASSUME CommandsInv
    PROVE  /\ \A p \in Producers : mint(p) \/ stage(p) \/ release_slot(p) => use = "program" /\ use' = use
           /\ \A c \in Commits : commit(c) \/ pipe_enqueue(c) \/ run_cancelled(c) => use = "program" /\ use' = use
           /\ \A c \in Commits \cup Writers : CommitStep(c) => use = "program" /\ use' = use
           /\ \A w \in Writers : write(w) \/ commit_cancelled(w) => use = "program" /\ use' = use
           /\ discard \/ clear_staged \/ destroy => use = "program" /\ use' = use
<1>1. ASSUME NEW c \in Commits \cup Writers, pc[c] # "out" PROVE use = "program"
  BY <1>1, Names, WhoseUse DEF CommandsInv
<1>2. ASSUME NEW p \in Producers, slot_of[p] # None PROVE use = "program"
  BY <1>2 DEF CommandsInv, RecordersInv
<1>3. ASSUME NEW p \in Producers, mint(p) \/ stage(p) \/ release_slot(p) PROVE use = "program" /\ use' = use
  BY <1>2, <1>3 DEF mint, stage, release_slot
<1>4. ASSUME NEW c \in Commits, commit(c) \/ pipe_enqueue(c) \/ run_cancelled(c)
      PROVE  use = "program" /\ use' = use
  BY <1>1, <1>4 DEF commit, pipe_enqueue, run_cancelled
<1>5. ASSUME NEW c \in Commits \cup Writers, CommitStep(c) PROVE use = "program" /\ use' = use
  <2>1. pc[c] # "out" /\ use' = use
    BY <1>5 DEF CommitStep, ApplyStep, granted, cut, cut_slot, cut_end, apply_under_grant, apply_end, settle
  <2> QED  BY <1>1, <2>1
<1>6. ASSUME NEW w \in Writers, write(w) \/ commit_cancelled(w) PROVE use = "program" /\ use' = use
  BY <1>1, <1>6 DEF write, commit_cancelled
<1>7. ASSUME discard \/ clear_staged \/ destroy PROVE use = "program" /\ use' = use
  BY <1>7 DEF discard, clear_staged, destroy, CommandsInv, RegisterInv
<1> QED  BY <1>3, <1>4, <1>5, <1>6, <1>7

LEMMA DeliveryNext ==
    ASSUME CommandsInv, DeliveryInv, [Next]_vars
    PROVE  DeliveryInv'
<1>1. CASE UNCHANGED vars
  <2>1. CASE use = "program"
    BY <1>1, <2>1, BusUnused DEF vars, deferred
  <2>2. CASE use = "bus"
    <3>1. /\ UNCHANGED deferred
          /\ UNCHANGED <<posted, dead, expired, subs, events, next_sub, running, got, dispatched>>
      BY <1>1 DEF vars, bus
    <3>2. UNCHANGED <<use, applied, pc>>
      BY <3>1 DEF deferred
    <3>3. UNCHANGED Commands
      BY <2>2, <3>1, BoardKept
    <3>4. dead' \subseteq Subs /\ expired' \subseteq Subs /\ \A s \in Subs : pc'[s] # "out" => s \in dead'
      BY <2>2, <3>1, <3>2, BoardIs DEF BusTypes, BoardInv
    <3> QED  BY <2>2, <3>1, <3>2, <3>3, <3>4, BusSame
  <2> QED  BY <2>1, <2>2 DEF CommandsInv, PcTypes
<1>2. ASSUME NEW p \in Producers, (mint(p) \/ stage(p) \/ release_slot(p)) /\ UNCHANGED bus PROVE DeliveryInv'
  BY <1>2, ProgramSteps, BusUnused
<1>3. ASSUME NEW c \in Commits,
             (commit(c) \/ pipe_enqueue(c) \/ CommitStep(c) \/ run_cancelled(c)) /\ UNCHANGED bus
      PROVE  DeliveryInv'
  BY <1>3, ProgramSteps, BusUnused
<1>4. ASSUME NEW w \in Writers, (write(w) \/ CommitStep(w) \/ commit_cancelled(w)) /\ UNCHANGED bus PROVE DeliveryInv'
  BY <1>4, ProgramSteps, BusUnused
<1>5. CASE (discard \/ clear_staged \/ destroy) /\ UNCHANGED bus
  BY <1>5, ProgramSteps, BusUnused
<1>6. ASSUME NEW t \in Threads, NEW x \in Events \cup Subs, post(t, x) PROVE DeliveryInv'
  BY <1>6, postBoard
<1>7. ASSUME NEW s \in Subs, disconnect(s) \/ DisconnectStep(s) \/ owner_expires(s) PROVE DeliveryInv'
  BY <1>7, disconnectBoard, disconnect_accessBoard, removeBoard, owner_expiresBoard DEF DisconnectStep
<1>8. CASE dispatch \/ DispatchStep
  BY <1>8, dispatchBoard, cutBoard, apply_to_boardBoard, dispatch_allBoard, next_subscriptionBoard,
     invokeBoard, clearBoard DEF DispatchStep
<1>9. CASE Next
  <2>1. \/ \E p \in Producers : (mint(p) \/ stage(p) \/ release_slot(p)) /\ UNCHANGED bus
        \/ \E c \in Commits : (commit(c) \/ pipe_enqueue(c) \/ CommitStep(c) \/ run_cancelled(c)) /\ UNCHANGED bus
        \/ \E w \in Writers : (write(w) \/ CommitStep(w) \/ commit_cancelled(w)) /\ UNCHANGED bus
        \/ (discard \/ clear_staged \/ destroy) /\ UNCHANGED bus
        \/ \E t \in Threads, x \in Events \cup Subs : post(t, x)
        \/ \E s \in Subs : disconnect(s) \/ DisconnectStep(s) \/ owner_expires(s)
        \/ dispatch \/ DispatchStep
    BY <1>9 DEF Next, publish, add_subscription
  <2> QED  BY <1>2, <1>3, <1>4, <1>5, <1>6, <1>7, <1>8, <2>1
<1> QED  BY <1>1, <1>9

\* For any threads, lanes, events and subscriptions: an event is delivered at most once
\* to a subscription and, when it is cleared, has been to every live subscription its
\* publisher made before it; once disconnect has returned the handler is not running
\* and the subscription is on the board no more.
THEOREM BusDeliveryExact == Spec => []DeliveryExact
<1>1. SafetySpec => [](CommandsInv /\ DeliveryInv)
  BY CommandsInit, CommandsNext, DeliveryInit, DeliveryNext, PTL DEF SafetySpec
<1>2. CommandsInv /\ DeliveryInv => DeliveryExact
  <2> SUFFICES ASSUME CommandsInv, DeliveryInv PROVE DeliveryExact
    OBVIOUS
  <2>1. CASE use = "program"
    <3>1. \A s \in Subs : pc[s] = "out"
      BY <2>1 DEF CommandsInv, PcTypes
    <3>2. dispatched = {} /\ \A s \in Subs : got[s] = <<>>
      BY <2>1 DEF DeliveryInv, Unused
    <3> QED  BY <3>1, <3>2 DEF DeliveryExact
  <2>2. CASE use = "bus"
    <3>1. BusTypes /\ BoardInv /\ RunInv /\ GotInv
      BY <2>2, BoardIs
    <3>2. \A s \in Subs : \A i, j \in DOMAIN got[s] : got[s][i] = got[s][j] => i = j
      BY <3>1 DEF GotInv, Distinct
    <3>3. \A i, k \in Commands :
            (i.what \in Subs /\ k.what \in dispatched /\ i.by = k.by /\ i.n < k.n /\ ~Skipped(i.what))
               => \E j \in DOMAIN got[i.what] : got[i.what][j] = k.what
      <4>1. \A q, x : x \in In(q) => \E j \in DOMAIN q : q[j] = x
        BY DEF In
      <4> QED  BY <3>1, <4>1 DEF GotInv
    <3>4. ASSUME NEW s \in Subs, pc[s] = "gone" PROVE running # s /\ \A i \in DOMAIN subs : subs[i] # s
      <4>1. \A i \in DOMAIN subs : subs[i] # s
        BY <3>1, <3>4 DEF BoardInv, In
      <4>2. s # None
        BY Names
      <4> QED  BY <3>1, <4>1, <4>2 DEF RunInv
    <3> QED  BY <3>2, <3>3, <3>4 DEF DeliveryExact
  <2> QED  BY <2>1, <2>2 DEF CommandsInv, PcTypes
<1> QED  BY <1>1, <1>2, PTL DEF Spec

=============================================================================
