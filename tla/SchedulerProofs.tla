-------------------------- MODULE SchedulerProofs --------------------------
(***************************************************************************)
(* The scheduler's safety properties, for any number of workers, outside   *)
(* threads and entries: the invariant is built in four layers, each        *)
(* inductive given the ones before it: the threads' types and shapes, the  *)
(* counters, the places of the entries, and the wake-ups.                  *)
(***************************************************************************)
EXTENDS Scheduler, Integers, FiniteSetTheorems, SequenceTheorems, TLAPS

-----------------------------------------------------------------------------
(* Layer 1: what a thread may look like *)

Scans == {"high", "low_valve", "global_valve", "take", "normal", "steal", "steal_cas", "low"}
MainPcs == Scans \cup {"quit_check", "all_empty", "go_idle", "exited", "body", "run"}
SpinPcs == Scans \cup {"spin_check", "spun_out", "relinquish", "run", "prepare"}
ParkPcs == Scans \cup {"park_check", "commit", "asleep", "run"}
Pcs == MainPcs \cup SpinPcs \cup ParkPcs
Sigs == {"idle", "push", "count", "claim", "publish", "signal", "spinners", "wake", "promote"}
Entry == Tasks \cup {NoTask}
Slot == [task : Tasks, ready : BOOLEAN]
Frame == Tasks \X (Nat \ {0})

ThreadSet ==
    [pc : Pcs, from : {"main", "spin", "park"}, got : Entry, spins : Nat, moved : BOOLEAN,
     victims : Seq(Workers), top_read : Nat, place : Nat \ {0}, since_low : Nat,
     since_global : Nat, idle : BOOLEAN, frames : Seq(Frame)]

QueueTypes ==
    /\ queues \in [Classes -> Seq(Slot)]
    /\ local_normal \in [Workers -> Seq(Tasks)]
    /\ top \in [Workers -> Nat]
    /\ yield_signal \in [{"high", "normal"} -> Int]
FlagTypes ==
    /\ quit \in BOOLEAN /\ dtor \in {"no", "quit", "advanced", "joining"}
    /\ (dtor = "no" <=> ~quit)
    /\ num_spinning \in Int /\ idle_workers \in Int
    /\ idle_policy \in Policies
SubTypes ==
    /\ sig \in [Actors -> Sigs]
    /\ sub \in [Actors -> Entry]
    /\ issued \in [Externals -> Nat]
    /\ \A e \in Externals : issued[e] <= Len(Program[e])
    /\ \A a \in Actors : sig[a] \in {"push", "count", "claim", "publish"} => sub[a] \in Tasks
    /\ \A a \in Actors : sig[a] = "count" => Priority[sub[a]] # "low"
    /\ quit => \A e \in Externals : sig[e] = "idle" /\ issued[e] = Len(Program[e])
    /\ runs \in [Tasks -> Nat]

\* Which fields of a thread go together.
Shaped(r) ==
    /\ r.from = "main" => r.pc \in MainPcs
    /\ r.from = "spin" => r.pc \in SpinPcs
    /\ r.from = "park" => r.pc \in ParkPcs
    /\ (r.got # NoTask) <=> r.pc \in {"run", "relinquish"}
    /\ (r.frames # <<>>) <=> r.pc = "body"
    /\ r.idle => r.pc # "body"
    /\ r.moved => r.from = "park"
    /\ r.pc \notin {"all_empty", "go_idle"} => r.place = 1
    /\ r.pc \in {"all_empty", "exited"} => quit
    /\ r.from # "main" => idle_policy # "spin"
    /\ r.pc = "relinquish" => idle_policy = "handoff" /\ r.from = "spin"
    /\ r.pc = "steal_cas" => r.victims # <<>>

\* A worker submits from a body only; it promotes a spinner on its way to one.
SignalsFrom(s, r) ==
    s # "idle" => r.pc = "body" \/ (r.pc = "run" /\ s \in {"promote", "wake"})

Shapes ==
    /\ worker \in [Workers -> ThreadSet]
    /\ \A w \in Workers : Shaped(worker[w]) /\ SignalsFrom(sig[w], worker[w])

\* The thief's compare-and-swap finds the top it read only while there is an entry.
StealSafe ==
    \A w \in Workers : worker[w].pc = "steal_cas" =>
        LET v == Head(worker[w].victims) IN
        worker[w].top_read <= top[v] /\ (worker[w].top_read = top[v] => local_normal[v] # <<>>)

Types == QueueTypes /\ FlagTypes /\ SubTypes /\ Shapes /\ StealSafe

-----------------------------------------------------------------------------
(* Layer 2: what the counters count *)

Claiming(c) == {a \in Actors : sig[a] = "claim" /\ Priority[sub[a]] = c}
Spinner(r) == idle_policy = "handoff" /\ r.from = "spin" /\ r.pc \notin {"prepare", "run"}
Spinners == {w \in Workers : Spinner(worker[w])}
IdleOnes == {w \in Workers : worker[w].idle}

YieldCounts ==
    \A c \in {"high", "normal"} :
        IsFiniteSet(Claiming(c)) /\ yield_signal[c] = Len(queues[c]) + Cardinality(Claiming(c))
WorkerCounts ==
    num_spinning = Cardinality(Spinners) /\ idle_workers = Cardinality(IdleOnes)
DequesFit == \A w \in Workers : Len(local_normal[w]) <= DequeCap

Counts == YieldCounts /\ WorkerCounts /\ DequesFit

-----------------------------------------------------------------------------
(* Layer 3: where an entry is *)

Claims == {"push", "count", "claim"}

Queued == {t \in Tasks : \E c \in Classes : \E i \in DOMAIN queues[c] : queues[c][i].task = t}
Dequed == {t \in Tasks : \E w \in Workers : \E i \in DOMAIN local_normal[w] : local_normal[w][i] = t}
Held == {t \in Tasks : \E w \in Workers : worker[w].got = t}
Submitting == {t \in Tasks : \E a \in Actors : sig[a] \in Claims /\ sub[a] = t}
Ran == {t \in Tasks : runs[t] # 0}

QueuedOnce ==
    \A c, d \in Classes : \A i \in DOMAIN queues[c], j \in DOMAIN queues[d] :
        queues[c][i].task = queues[d][j].task => c = d /\ i = j
DequedOnce ==
    \A v, w \in Workers : \A i \in DOMAIN local_normal[v], j \in DOMAIN local_normal[w] :
        local_normal[v][i] = local_normal[w][j] => v = w /\ i = j
HeldOnce ==
    \A v, w \in Workers : worker[v].got # NoTask /\ worker[v].got = worker[w].got => v = w
SubmittingOnce ==
    \A a, b \in Actors : sig[a] \in Claims /\ sig[b] \in Claims /\ sub[a] = sub[b] => a = b
RanOnce == \A t \in Tasks : runs[t] <= 1

FramesOnce ==
    \A v, w \in Workers : \A i \in DOMAIN worker[v].frames, j \in DOMAIN worker[w].frames :
        worker[v].frames[i][1] = worker[w].frames[j][1] => v = w /\ i = j
FramesRan ==
    \A w \in Workers : \A i \in DOMAIN worker[w].frames : runs[worker[w].frames[i][1]] # 0

Issued == {t \in Tasks : \E e \in Externals : \E i \in 1..issued[e] : Program[e][i] = t}
\* Entry i of u's body is behind every frame of u.
Behind(u, i) ==
    \A w \in Workers : \A j \in DOMAIN worker[w].frames :
        worker[w].frames[j][1] = u => i < worker[w].frames[j][2]
Forked ==
    {t \in Tasks : \E u \in Tasks : runs[u] # 0 /\ \E i \in DOMAIN Spawns[u] :
        Spawns[u][i] = t /\ Behind(u, i)}

Apart ==
    /\ Queued \cap Dequed = {} /\ Queued \cap Held = {} /\ Queued \cap Submitting = {}
    /\ Queued \cap Ran = {} /\ Dequed \cap Held = {} /\ Dequed \cap Submitting = {}
    /\ Dequed \cap Ran = {} /\ Held \cap Submitting = {} /\ Held \cap Ran = {}
    /\ Submitting \cap Ran = {}
Accounted == Queued \cup Dequed \cup Held \cup Submitting \cup Ran = Issued \cup Forked

\* Who submits what.
Origin ==
    /\ \A e \in Externals : sig[e] \in Claims => \E i \in DOMAIN Program[e] : sub[e] = Program[e][i]
    /\ \A w \in Workers : sig[w] \in Claims =>
        \E u \in Tasks : \E i \in DOMAIN Spawns[u] : sub[w] = Spawns[u][i]

Places ==
    /\ QueuedOnce /\ DequedOnce /\ HeldOnce /\ SubmittingOnce /\ RanOnce
    /\ FramesOnce /\ FramesRan /\ Apart /\ Accounted /\ Origin

-----------------------------------------------------------------------------
(* Layer 4: who will look *)

After(c) ==
    CASE c = "high"   -> ParkPcs \ {"high", "run"}
      [] c = "normal" -> {"steal", "steal_cas", "low", "park_check", "commit", "asleep"}
      [] c = "low"    -> {"park_check", "commit", "asleep"}
\* A park that has looked at class c, and whose key is still good.
PassedBy(r, c) == r.from = "park" /\ ~r.moved /\ r.pc \in After(c)
IndexOf(c) == CASE c = "high" -> 1 [] c = "normal" -> 2 [] c = "low" -> 3

\* The thread will still look at class c before it sleeps or leaves.
Responsible(r, c) ==
    /\ r.pc \notin {"asleep", "exited"}
    /\ r.pc = "all_empty" => r.place <= IndexOf(c)
    /\ ~PassedBy(r, c)

Publishing == \E a \in Actors : sig[a] \in {"publish", "signal"}
Waking == \E a \in Actors : sig[a] \in {"publish", "signal", "spinners", "wake"}

UnreadyOwned ==
    \A c \in Classes : \A i \in DOMAIN queues[c] :
        ~queues[c][i].ready => \E a \in Actors : sig[a] = "publish" /\ sub[a] = queues[c][i].task
KeysGood ==
    \A w \in Workers, c \in Classes : PassedBy(worker[w], c) /\ queues[c] # <<>> => Publishing
SomebodyLooks ==
    \A c \in Classes : queues[c] # <<>> => Waking \/ \E w \in Workers : Responsible(worker[w], c)
OwnersLook ==
    \A w \in Workers : local_normal[w] # <<>> =>
        worker[w].pc \in {"high", "low_valve", "global_valve", "take", "run", "relinquish", "body"}

WakeUps == UnreadyOwned /\ KeysGood /\ SomebodyLooks /\ OwnersLook

-----------------------------------------------------------------------------
(* Layer 1, proved: the effect of one worker's step on its thread *)

\* The constants' facts, one at a time.
LEMMA Constants ==
    /\ N \in Nat /\ N >= 1 /\ NoTask \notin Tasks /\ Externals \cap Workers = {}
    /\ Priority \in [Tasks -> Classes] /\ Spawns \in [Tasks -> Seq(Tasks)]
    /\ Program \in [Externals -> Seq(Tasks)]
    /\ Policies \subseteq {"spin", "spin_then_block", "handoff"}
    /\ SpinCycles \in Nat /\ DequeCap \in Nat /\ LowValve \in Nat /\ GlobalValve \in Nat
BY SchedulerAssumption DEF SchedulerAssumption

LEMMA HeadTail ==
    ASSUME NEW S, NEW s \in Seq(S), s # <<>>
    PROVE  /\ Head(s) \in S /\ Head(s) = s[1] /\ Len(s) \in Nat /\ Len(s) >= 1
           /\ Tail(s) \in Seq(S) /\ Len(Tail(s)) = Len(s) - 1
           /\ \A i \in 1..(Len(s) - 1) : Tail(s)[i] = s[i + 1]
BY HeadTailProperties, EmptySeq, LenProperties

\* Only w's thread changes, and it keeps its shape.
Local(w) ==
    /\ worker' \in [Workers -> ThreadSet]
    /\ \A v \in Workers : v # w => worker'[v] = worker[v]
    /\ Shaped(worker'[w])
SameHand(w) == worker'[w].got = worker[w].got /\ worker'[w].frames = worker[w].frames
SameIdle(w) == worker'[w].idle <=> worker[w].idle
SameKey(w) == worker[w].moved => worker'[w].moved
At2(w, from, pc) == worker'[w].from = from /\ worker'[w].pc = pc

LEMMA Becomes ==
    ASSUME worker \in [Workers -> ThreadSet], NEW w \in Workers, NEW r \in ThreadSet,
           worker' = [worker EXCEPT ![w] = r]
    PROVE  /\ worker' \in [Workers -> ThreadSet] /\ worker'[w] = r
           /\ \A v \in Workers : v # w => worker'[v] = worker[v]
OBVIOUS

LEMMA GotoEffect ==
    ASSUME Types, NEW w \in Workers, NEW s \in Pcs, Goto(w, s)
    PROVE  /\ worker' \in [Workers -> ThreadSet] /\ \A v \in Workers : v # w => worker'[v] = worker[v]
           /\ At2(w, worker[w].from, s) /\ SameHand(w) /\ SameIdle(w) /\ SameKey(w)
           /\ worker'[w].moved => worker[w].moved
           /\ worker'[w].place = worker[w].place /\ worker'[w].victims = worker[w].victims
           /\ worker'[w].top_read = worker[w].top_read /\ worker[w] \in ThreadSet
<1> DEFINE r == [worker[w] EXCEPT !.pc = s]
<1>1. worker \in [Workers -> ThreadSet] /\ worker[w] \in ThreadSet
  BY DEF Types, Shapes
<1>2. r \in ThreadSet
  BY <1>1 DEF ThreadSet
<1>3. worker' = [worker EXCEPT ![w] = r]
  BY <1>1 DEF Goto
<1>4. worker' \in [Workers -> ThreadSet] /\ worker'[w] = r
      /\ \A v \in Workers : v # w => worker'[v] = worker[v]
  BY <1>1, <1>2, <1>3, Becomes
<1>5. /\ r.pc = s /\ r.from = worker[w].from /\ r.got = worker[w].got
      /\ r.frames = worker[w].frames /\ r.place = worker[w].place
      /\ r.victims = worker[w].victims /\ r.top_read = worker[w].top_read
      /\ (r.idle <=> worker[w].idle) /\ (r.moved <=> worker[w].moved)
  BY <1>1 DEF ThreadSet
<1> QED  BY <1>1, <1>4, <1>5 DEF At2, SameHand, SameIdle, SameKey

LEMMA ServeEffect ==
    ASSUME Types, NEW w \in Workers, worker[w].pc \in Scans, NEW t \in Tasks, NEW low \in Nat,
           NEW global \in Nat, Serve(w, t, low, global)
    PROVE  /\ Local(w) /\ SameIdle(w) /\ worker'[w].got = t /\ worker'[w].frames = worker[w].frames
           /\ worker'[w].from = worker[w].from
           /\ worker'[w].pc = IF Spinner(worker[w]) THEN "relinquish" ELSE "run"
<1> DEFINE next == IF worker[w].from = "spin" /\ idle_policy = "handoff" THEN "relinquish" ELSE "run"
           r == [worker[w] EXCEPT !.pc = next, !.got = t, !.since_low = low, !.since_global = global]
<1>1. worker \in [Workers -> ThreadSet] /\ worker[w] \in ThreadSet /\ Shaped(worker[w])
  BY DEF Types, Shapes
<1>2. next \in Pcs /\ next \in {"relinquish", "run"} /\ NoTask \notin Tasks
  BY Constants DEF Pcs, SpinPcs
<1>3. r \in ThreadSet
  BY <1>1, <1>2 DEF ThreadSet, Entry
<1>4. worker' = [worker EXCEPT ![w] = r]
  BY <1>1 DEF Serve
<1>5. worker' \in [Workers -> ThreadSet] /\ worker'[w] = r
      /\ \A v \in Workers : v # w => worker'[v] = worker[v]
  BY <1>1, <1>3, <1>4, Becomes
<1>6. /\ r.pc = next /\ r.from = worker[w].from /\ r.got = t
      /\ r.frames = worker[w].frames /\ r.place = worker[w].place
      /\ (r.idle <=> worker[w].idle) /\ (r.moved <=> worker[w].moved)
  BY <1>1 DEF ThreadSet
<1>7. Shaped(r)
  BY <1>1, <1>2, <1>6 DEF Shaped, Scans, MainPcs, SpinPcs, ParkPcs
<1>8. next = IF Spinner(worker[w]) THEN "relinquish" ELSE "run"
  BY <1>1 DEF Spinner, Scans
<1> HIDE DEF r, next
<1> QED  BY <1>5, <1>6, <1>7, <1>8 DEF Local, SameIdle

\* A turn of find_work that found nothing: on to one of the statements in S.
Turn(w, S) ==
    /\ Local(w) /\ SameHand(w) /\ SameIdle(w) /\ SameKey(w)
    /\ worker'[w].from = worker[w].from /\ worker'[w].pc \in S

LEMMA GotoTurn ==
    ASSUME Types, NEW w \in Workers, NEW s \in Scans, worker[w].pc \in Scans, Goto(w, s),
           s # "steal_cas"
    PROVE  Turn(w, {s})
<1>1. /\ worker' \in [Workers -> ThreadSet] /\ \A v \in Workers : v # w => worker'[v] = worker[v]
      /\ At2(w, worker[w].from, s) /\ SameHand(w) /\ SameIdle(w) /\ SameKey(w)
      /\ worker'[w].moved => worker[w].moved
      /\ worker'[w].place = worker[w].place
  BY GotoEffect DEF Pcs, MainPcs
<1>2. Shaped(worker[w])
  BY DEF Types, Shapes
<1>3. Shaped(worker'[w])
  BY <1>1, <1>2 DEF Shaped, Scans, MainPcs, SpinPcs, ParkPcs, At2, SameHand, SameIdle
<1> QED  BY <1>1, <1>3 DEF Turn, Local, At2

LEMMA MissEffect ==
    ASSUME Types, NEW w \in Workers, worker[w].pc \in Scans, Miss(w)
    PROVE  /\ Turn(w, {"quit_check", "spin_check", "park_check"})
           /\ worker'[w].pc = "park_check" <=> worker[w].from = "park"
<1>0. Shaped(worker[w]) /\ worker[w].from \in {"main", "spin", "park"}
  BY DEF Types, Shapes, ThreadSet
<1>1. PICK s \in {"quit_check", "spin_check", "park_check"} :
        /\ Goto(w, s) /\ (worker[w].from = "main" => s = "quit_check")
        /\ (worker[w].from = "spin" => s = "spin_check")
        /\ (worker[w].from = "park" => s = "park_check")
  BY <1>0 DEF Miss
<1>2. /\ worker' \in [Workers -> ThreadSet] /\ \A v \in Workers : v # w => worker'[v] = worker[v]
      /\ At2(w, worker[w].from, s) /\ SameHand(w) /\ SameIdle(w) /\ SameKey(w)
      /\ worker'[w].moved => worker[w].moved
      /\ worker'[w].place = worker[w].place
  BY <1>1, GotoEffect DEF Pcs, MainPcs, SpinPcs, ParkPcs
<1>3. Shaped(worker'[w])
  BY <1>0, <1>1, <1>2 DEF Shaped, Scans, MainPcs, SpinPcs, ParkPcs, At2, SameHand, SameIdle
<1> QED  BY <1>0, <1>1, <1>2, <1>3 DEF Turn, Local, At2

\* A scan may also leave its thread-local counters at zero.
LEMMA CounterTurn ==
    ASSUME Types, NEW w \in Workers, NEW s \in Scans, worker[w].pc \in Scans, s # "steal_cas",
           \/ worker' = [worker EXCEPT ![w].since_low = 0, ![w].pc = s]
           \/ worker' = [worker EXCEPT ![w].since_global = 0, ![w].pc = s]
    PROVE  Turn(w, {s})
<1>1. worker \in [Workers -> ThreadSet] /\ worker[w] \in ThreadSet /\ Shaped(worker[w]) /\ s \in Pcs
  BY DEF Types, Shapes, Pcs, MainPcs
<1>2. PICK r : /\ r \in ThreadSet /\ worker' = [worker EXCEPT ![w] = r]
               /\ r.pc = s /\ r.from = worker[w].from /\ r.got = worker[w].got
               /\ r.frames = worker[w].frames /\ r.place = worker[w].place
               /\ (r.idle <=> worker[w].idle) /\ (r.moved <=> worker[w].moved)
  <2>1. CASE worker' = [worker EXCEPT ![w].since_low = 0, ![w].pc = s]
    <3> DEFINE q == [worker[w] EXCEPT !.since_low = 0, !.pc = s]
    <3>1. q \in ThreadSet /\ worker' = [worker EXCEPT ![w] = q]
      BY <1>1, <2>1 DEF ThreadSet
    <3>2. /\ q.pc = s /\ q.from = worker[w].from /\ q.got = worker[w].got
          /\ q.frames = worker[w].frames /\ q.place = worker[w].place
          /\ (q.idle <=> worker[w].idle) /\ (q.moved <=> worker[w].moved)
      BY <1>1 DEF ThreadSet
    <3> QED  BY <3>1, <3>2
  <2>2. CASE worker' = [worker EXCEPT ![w].since_global = 0, ![w].pc = s]
    <3> DEFINE q == [worker[w] EXCEPT !.since_global = 0, !.pc = s]
    <3>1. q \in ThreadSet /\ worker' = [worker EXCEPT ![w] = q]
      BY <1>1, <2>2 DEF ThreadSet
    <3>2. /\ q.pc = s /\ q.from = worker[w].from /\ q.got = worker[w].got
          /\ q.frames = worker[w].frames /\ q.place = worker[w].place
          /\ (q.idle <=> worker[w].idle) /\ (q.moved <=> worker[w].moved)
      BY <1>1 DEF ThreadSet
    <3> QED  BY <3>1, <3>2
  <2> QED  BY <2>1, <2>2
<1>3. worker' \in [Workers -> ThreadSet] /\ worker'[w] = r
      /\ \A v \in Workers : v # w => worker'[v] = worker[v]
  BY <1>1, <1>2, Becomes
<1>4. Shaped(r)
  BY <1>1, <1>2 DEF Shaped, Scans, MainPcs, SpinPcs, ParkPcs
<1> QED  BY <1>2, <1>3, <1>4 DEF Turn, Local, SameHand, SameIdle, SameKey

LEMMA RoundType ==
    ASSUME NEW w \in Workers, NEW begin \in Workers
    PROVE  Round(w, begin) \in Seq(Workers)
<1>1. N \in Nat /\ N >= 1 /\ w \in Nat /\ begin \in Nat
  BY Constants DEF Workers
<1>2. ASSUME NEW i \in 1..(N - 1) PROVE ((w + ((begin + i) % (N - 1))) % N) + 1 \in Workers
  <2>1. PICK m \in Int : m = N - 1
    BY <1>1
  <2>2. m > 0 /\ begin + i \in Int
    BY <1>1, <2>1
  <2>3. (begin + i) % m \in Int
    BY <2>2
  <2>4. PICK k \in Int : k = w + ((begin + i) % (N - 1))
    BY <1>1, <2>1, <2>3
  <2>5. k % N \in 0..(N - 1)
    BY <1>1
  <2> QED  BY <1>1, <2>4, <2>5 DEF Workers
<1>3. N - 1 \in Nat
  BY <1>1
<1> QED  BY <1>2, <1>3 DEF Round

LEMMA VictimTurn ==
    ASSUME Types, NEW w \in Workers, worker[w].pc \in Scans, NEW s \in Seq(Workers),
           worker' = [worker EXCEPT ![w].victims = s, ![w].pc = "steal"]
    PROVE  Turn(w, {"steal"})
<1>1. worker \in [Workers -> ThreadSet] /\ worker[w] \in ThreadSet /\ Shaped(worker[w])
      /\ "steal" \in Pcs
  BY DEF Types, Shapes, Pcs, MainPcs, Scans
<1> DEFINE r == [worker[w] EXCEPT !.victims = s, !.pc = "steal"]
<1>2. r \in ThreadSet /\ worker' = [worker EXCEPT ![w] = r]
  BY <1>1 DEF ThreadSet
<1>3. /\ r.pc = "steal" /\ r.from = worker[w].from /\ r.got = worker[w].got
      /\ r.frames = worker[w].frames /\ r.place = worker[w].place
      /\ (r.idle <=> worker[w].idle) /\ (r.moved <=> worker[w].moved)
  BY <1>1 DEF ThreadSet
<1>4. worker' \in [Workers -> ThreadSet] /\ worker'[w] = r
      /\ \A v \in Workers : v # w => worker'[v] = worker[v]
  BY <1>1, <1>2, Becomes
<1>5. Shaped(r)
  BY <1>1, <1>3 DEF Shaped, Scans, MainPcs, SpinPcs, ParkPcs
<1> HIDE DEF r
<1> QED  BY <1>3, <1>4, <1>5 DEF Turn, Local, SameHand, SameIdle, SameKey

-----------------------------------------------------------------------------
(* The steps of find_work, by what they do *)

\* The attempt misses.
Scanned(w, S) == Turn(w, S) /\ UNCHANGED <<queueVars, flagVars, subVars, runs>>

\* The attempt finds entry t.
Finds(w, t) ==
    /\ Local(w) /\ SameIdle(w) /\ t \in Tasks /\ worker'[w].got = t
    /\ worker[w].got = NoTask /\ worker[w].pc \in Scans
    /\ worker'[w].frames = worker[w].frames /\ worker'[w].from = worker[w].from
    /\ worker'[w].pc = IF Spinner(worker[w]) THEN "relinquish" ELSE "run"
    /\ UNCHANGED <<flagVars, subVars, runs>>
Pops(w, c) ==
    Poppable(c) /\ pop(c) /\ Finds(w, First(c)) /\ UNCHANGED <<local_normal, top>>
Takes(w) ==
    LET d == local_normal[w] IN
    /\ d # <<>> /\ Finds(w, d[Len(d)])
    /\ local_normal' = [local_normal EXCEPT ![w] = SubSeq(d, 1, Len(d) - 1)]
    /\ top' = [top EXCEPT ![w] = IF Len(d) = 1 THEN @ + 1 ELSE @]
    /\ UNCHANGED <<queues, yield_signal>>
StealReads(w) ==
    /\ Turn(w, {"steal_cas"}) /\ UNCHANGED <<queueVars, flagVars, subVars, runs>>
    /\ worker[w].pc = "steal"
    /\ LET v == Head(worker'[w].victims) IN
       v \in Workers /\ local_normal[v] # <<>> /\ worker'[w].top_read = top[v]
Steals(w, v) ==
    /\ v \in Workers /\ local_normal[v] # <<>> /\ Finds(w, Head(local_normal[v]))
    /\ local_normal' = [local_normal EXCEPT ![v] = Tail(@)]
    /\ top' = [top EXCEPT ![v] = @ + 1]
    /\ UNCHANGED <<queues, yield_signal>>

LEMMA PopsForm ==
    ASSUME Types, NEW w \in Workers, worker[w].pc \in Scans, NEW c \in Classes, Poppable(c), pop(c),
           NEW low \in Nat, NEW global \in Nat, Serve(w, First(c), low, global),
           UNCHANGED <<local_normal, top, flagVars, subVars, runs>>
    PROVE  Pops(w, c)
<1>1. First(c) \in Tasks
  <2>1. queues[c] \in Seq(Slot) /\ queues[c] # <<>>
    BY DEF Types, QueueTypes, Poppable
  <2>2. Head(queues[c]) \in Slot
    BY <2>1, HeadTail
  <2> QED  BY <2>2 DEF First, Slot
<1>2. worker[w].got = NoTask
  BY DEF Types, Shapes, Shaped, Scans
<1> QED  BY <1>1, <1>2, ServeEffect DEF Pops, Finds

LEMMA CountersTyped ==
    ASSUME Types, NEW w \in Workers
    PROVE  Older(w) \in Nat /\ Global(w) \in Nat /\ Global(w) + 1 \in Nat
BY DEF Types, Shapes, ThreadSet, Older, Global

LEMMA pop_highForm ==
    ASSUME Types, NEW w \in Workers, pop_high(w)
    PROVE  \/ Pops(w, "high")
           \/ /\ worker[w].pc = "high" /\ ~Poppable("high")
              /\ Scanned(w, {"low_valve", "global_valve", "take"})
<1>1. worker[w].pc = "high" /\ worker[w].pc \in Scans /\ "high" \in Classes
  BY DEF pop_high, At, Scans, Classes
<1>2. CASE Poppable("high") /\ pop("high") /\ Serve(w, First("high"), Older(w), Global(w))
  BY <1>1, <1>2, PopsForm, CountersTyped DEF pop_high
<1>3. CASE ~Poppable("high") /\ Goto(w, AfterHigh(w)) /\ UNCHANGED <<queues, yield_signal>>
  <2>1. AfterHigh(w) \in {"low_valve", "global_valve", "take"}
    BY DEF AfterHigh, AfterLow
  <2>2. Turn(w, {AfterHigh(w)})
    BY <1>1, <1>3, <2>1, GotoTurn DEF Scans
  <2> QED  BY <1>1, <1>3, <2>1, <2>2 DEF Turn, Scanned, pop_high, queueVars
<1> QED  BY <1>2, <1>3 DEF pop_high

LEMMA low_valveForm ==
    ASSUME Types, NEW w \in Workers, low_valve(w)
    PROVE  \/ Pops(w, "low")
           \/ worker[w].pc = "low_valve" /\ Scanned(w, {"global_valve", "take"})
<1>1. worker[w].pc = "low_valve" /\ worker[w].pc \in Scans /\ "low" \in Classes
  BY DEF low_valve, At, Scans, Classes
<1>2. CASE Poppable("low") /\ pop("low") /\ Serve(w, First("low"), 0, Global(w))
  BY <1>1, <1>2, PopsForm, CountersTyped DEF low_valve
<1>3. CASE /\ worker' = [worker EXCEPT ![w].since_low = 0, ![w].pc = AfterLow(w)]
           /\ UNCHANGED <<queues, yield_signal>>
  <2>1. AfterLow(w) \in {"global_valve", "take"}
    BY DEF AfterLow
  <2>2. Turn(w, {AfterLow(w)})
    BY <1>1, <1>3, <2>1, CounterTurn DEF Scans
  <2> QED  BY <1>1, <1>3, <2>1, <2>2 DEF Turn, Scanned, low_valve, queueVars
<1> QED  BY <1>2, <1>3 DEF low_valve

LEMMA global_valveForm ==
    ASSUME Types, NEW w \in Workers, global_valve(w)
    PROVE  \/ Pops(w, "normal")
           \/ worker[w].pc = "global_valve" /\ Scanned(w, {"take"})
<1>1. worker[w].pc = "global_valve" /\ worker[w].pc \in Scans /\ "normal" \in Classes
  BY DEF global_valve, At, Scans, Classes
<1>2. CASE Poppable("normal") /\ pop("normal") /\ Serve(w, First("normal"), Older(w), 0)
  BY <1>1, <1>2, PopsForm, CountersTyped DEF global_valve
<1>3. CASE /\ worker' = [worker EXCEPT ![w].since_global = 0, ![w].pc = "take"]
           /\ UNCHANGED <<queues, yield_signal>>
  <2>2. Turn(w, {"take"})
    BY <1>1, <1>3, CounterTurn DEF Scans
  <2> QED  BY <1>1, <1>3, <2>2 DEF Turn, Scanned, global_valve, queueVars
<1> QED  BY <1>2, <1>3 DEF global_valve

LEMMA takeForm ==
    ASSUME Types, NEW w \in Workers, take(w)
    PROVE  \/ Takes(w)
           \/ worker[w].pc = "take" /\ local_normal[w] = <<>> /\ Scanned(w, {"normal"})
<1> DEFINE d == local_normal[w]
<1>1. worker[w].pc = "take" /\ worker[w].pc \in Scans /\ d \in Seq(Tasks)
  BY DEF take, At, Scans, Types, QueueTypes
<1>2. CASE /\ d # <<>>
           /\ Serve(w, d[Len(d)], Older(w), Global(w) + 1)
           /\ local_normal' = [local_normal EXCEPT ![w] = SubSeq(d, 1, Len(d) - 1)]
           /\ top' = [top EXCEPT ![w] = IF Len(d) = 1 THEN @ + 1 ELSE @]
  <2>1. d[Len(d)] \in Tasks
    BY <1>1, <1>2
  <2>2. worker[w].got = NoTask
    BY <1>1 DEF Types, Shapes, Shaped, Scans
  <2>3. Finds(w, d[Len(d)])
    BY <1>1, <1>2, <2>1, <2>2, ServeEffect, CountersTyped DEF Finds, take
  <2> QED  BY <1>2, <2>3 DEF Takes, take
<1>3. CASE d = <<>> /\ Goto(w, "normal") /\ UNCHANGED <<local_normal, top>>
  BY <1>1, <1>3, GotoTurn DEF Scans, Scanned, take, queueVars
<1> QED  BY <1>2, <1>3 DEF take

LEMMA pop_normalForm ==
    ASSUME Types, NEW w \in Workers, pop_normal(w)
    PROVE  \/ Pops(w, "normal")
           \/ worker[w].pc = "normal" /\ ~Poppable("normal") /\ Scanned(w, {"steal"})
<1>1. worker[w].pc = "normal" /\ worker[w].pc \in Scans /\ "normal" \in Classes
  BY DEF pop_normal, At, Scans, Classes
<1>2. CASE Poppable("normal") /\ pop("normal") /\ Serve(w, First("normal"), Older(w), 0)
  BY <1>1, <1>2, PopsForm, CountersTyped DEF pop_normal
<1>3. CASE /\ ~Poppable("normal")
           /\ \E begin \in Workers :
                worker' = [worker EXCEPT ![w].pc = "steal", ![w].victims = Round(w, begin)]
           /\ UNCHANGED <<queues, yield_signal>>
  <2>1. PICK s \in Seq(Workers) : worker' = [worker EXCEPT ![w].pc = "steal", ![w].victims = s]
    BY <1>3, RoundType
  <2>2. worker \in [Workers -> ThreadSet] /\ worker[w] \in ThreadSet
    BY DEF Types, Shapes
  <2>3. worker' = [worker EXCEPT ![w].victims = s, ![w].pc = "steal"]
    BY <2>1, <2>2 DEF ThreadSet
  <2>4. Turn(w, {"steal"})
    BY <1>1, <2>3, VictimTurn
  <2> QED  BY <1>1, <1>3, <2>4 DEF Scanned, pop_normal, queueVars
<1> QED  BY <1>2, <1>3 DEF pop_normal

LEMMA stealForm ==
    ASSUME Types, NEW w \in Workers, steal(w)
    PROVE  \/ worker[w].pc = "steal" /\ Scanned(w, {"steal", "low"})
           \/ StealReads(w)
<1>0. worker \in [Workers -> ThreadSet] /\ worker[w] \in ThreadSet /\ Shaped(worker[w])
      /\ top \in [Workers -> Nat]
  BY DEF Types, Shapes, QueueTypes
<1>1. worker[w].pc = "steal" /\ worker[w].pc \in Scans /\ worker[w].victims \in Seq(Workers)
  BY <1>0 DEF steal, At, Scans, ThreadSet
<1>2. CASE worker[w].victims = <<>> /\ Goto(w, "low")
  <2>1. Turn(w, {"low"})
    BY <1>1, <1>2, GotoTurn DEF Scans
  <2> QED  BY <1>1, <2>1 DEF Scanned, steal, Turn
<1>3. CASE /\ worker[w].victims # <<>> /\ local_normal[Victim(w)] = <<>>
           /\ worker' = [worker EXCEPT ![w].victims = Tail(@)]
  <2>1. PICK s \in Seq(Workers) : s = Tail(worker[w].victims)
    BY <1>1, <1>3, HeadTail
  <2>2. worker' = [worker EXCEPT ![w].victims = s, ![w].pc = "steal"]
    BY <1>0, <1>1, <1>3, <2>1 DEF ThreadSet
  <2>3. Turn(w, {"steal"})
    BY <1>1, <2>2, VictimTurn
  <2> QED  BY <1>1, <2>3 DEF Scanned, steal, Turn
<1>4. CASE /\ worker[w].victims # <<>> /\ local_normal[Victim(w)] # <<>>
           /\ worker' = [worker EXCEPT ![w].top_read = top[Victim(w)], ![w].pc = "steal_cas"]
  <2>1. Victim(w) \in Workers /\ top[Victim(w)] \in Nat
    BY <1>0, <1>1, <1>4 DEF Victim
  <2> DEFINE r == [worker[w] EXCEPT !.top_read = top[Victim(w)], !.pc = "steal_cas"]
  <2>2. r \in ThreadSet /\ worker' = [worker EXCEPT ![w] = r]
    BY <1>0, <1>4, <2>1 DEF ThreadSet, Pcs, MainPcs, Scans
  <2>3. /\ r.pc = "steal_cas" /\ r.from = worker[w].from /\ r.got = worker[w].got
        /\ r.frames = worker[w].frames /\ r.place = worker[w].place
        /\ r.victims = worker[w].victims /\ r.top_read = top[Victim(w)]
        /\ (r.idle <=> worker[w].idle) /\ (r.moved <=> worker[w].moved)
    BY <1>0 DEF ThreadSet
  <2>4. worker' \in [Workers -> ThreadSet] /\ worker'[w] = r
        /\ \A v \in Workers : v # w => worker'[v] = worker[v]
    BY <1>0, <2>2, Becomes
  <2>5. Shaped(r)
    BY <1>0, <1>1, <1>4, <2>3 DEF Shaped, Scans, MainPcs, SpinPcs, ParkPcs
  <2> HIDE DEF r
  <2>6. Turn(w, {"steal_cas"})
    BY <2>3, <2>4, <2>5 DEF Turn, Local, SameHand, SameIdle, SameKey
  <2>7. Head(worker'[w].victims) = Victim(w)
    BY <2>3, <2>4 DEF Victim
  <2> QED  BY <1>1, <1>4, <2>1, <2>3, <2>4, <2>6, <2>7 DEF StealReads, steal
<1> QED  BY <1>2, <1>3, <1>4 DEF steal

LEMMA steal_casForm ==
    ASSUME Types, NEW w \in Workers, steal_cas(w)
    PROVE  \/ worker[w].pc = "steal_cas" /\ Scanned(w, {"steal"})
           \/ \E v \in Workers : Steals(w, v)
<1>0. worker \in [Workers -> ThreadSet] /\ worker[w] \in ThreadSet /\ Shaped(worker[w])
      /\ local_normal \in [Workers -> Seq(Tasks)]
  BY DEF Types, Shapes, QueueTypes
<1>1. worker[w].pc = "steal_cas" /\ worker[w].pc \in Scans /\ worker[w].victims \in Seq(Workers)
      /\ worker[w].victims # <<>>
  BY <1>0 DEF steal_cas, At, Scans, ThreadSet, Shaped
<1> DEFINE v == Victim(w)
<1>2. v \in Workers
  BY <1>1 DEF Victim
<1>3. CASE /\ top[v] = worker[w].top_read
           /\ Serve(w, Head(local_normal[v]), Older(w), Global(w))
           /\ local_normal' = [local_normal EXCEPT ![v] = Tail(@)]
           /\ top' = [top EXCEPT ![v] = @ + 1]
  <2>1. local_normal[v] # <<>>
    BY <1>1, <1>3 DEF Types, StealSafe, Victim
  <2>2. Head(local_normal[v]) \in Tasks
    BY <1>0, <1>2, <2>1
  <2>3. worker[w].got = NoTask
    BY <1>0, <1>1 DEF Shaped, Scans
  <2>4. Finds(w, Head(local_normal[v]))
    BY <1>1, <1>3, <2>2, <2>3, ServeEffect, CountersTyped DEF Finds, steal_cas
  <2> QED  BY <1>2, <1>3, <2>1, <2>4 DEF Steals, steal_cas
<1>4. CASE /\ top[v] # worker[w].top_read
           /\ worker' = [worker EXCEPT ![w].victims = Tail(@), ![w].pc = "steal"]
           /\ UNCHANGED <<local_normal, top>>
  <2>1. PICK s \in Seq(Workers) : s = Tail(worker[w].victims)
    BY <1>1, HeadTail
  <2>2. worker' = [worker EXCEPT ![w].victims = s, ![w].pc = "steal"]
    BY <1>4, <2>1
  <2>3. Turn(w, {"steal"})
    BY <1>1, <2>2, VictimTurn
  <2> QED  BY <1>1, <1>4, <2>3 DEF Scanned, steal_cas, queueVars
<1> QED  BY <1>3, <1>4 DEF steal_cas

LEMMA pop_lowForm ==
    ASSUME Types, NEW w \in Workers, pop_low(w)
    PROVE  \/ Pops(w, "low")
           \/ /\ worker[w].pc = "low" /\ ~Poppable("low")
              /\ Scanned(w, {"quit_check", "spin_check", "park_check"})
<1>1. worker[w].pc = "low" /\ worker[w].pc \in Scans /\ "low" \in Classes
  BY DEF pop_low, At, Scans, Classes
<1>2. CASE Poppable("low") /\ pop("low") /\ Serve(w, First("low"), 0, Global(w))
  BY <1>1, <1>2, PopsForm, CountersTyped DEF pop_low
<1>3. CASE ~Poppable("low") /\ Miss(w) /\ UNCHANGED <<queues, yield_signal>>
  BY <1>1, <1>3, MissEffect DEF Scanned, pop_low, queueVars
<1> QED  BY <1>2, <1>3 DEF pop_low

-----------------------------------------------------------------------------
(* The steps of the worker loop and of the idle policies, by what they do *)

LEMMA GotoShaped ==
    ASSUME Types, NEW w \in Workers, NEW s \in Pcs, Goto(w, s),
           s \notin {"run", "relinquish", "body", "steal_cas", "exited"},
           worker[w].pc \notin {"run", "relinquish", "body"},
           worker[w].from = "main" => s \in MainPcs,
           worker[w].from = "spin" => s \in SpinPcs,
           worker[w].from = "park" => s \in ParkPcs,
           s \in {"all_empty", "go_idle"} \/ worker[w].place = 1,
           s = "all_empty" => quit
    PROVE  Turn(w, {s}) /\ worker'[w].place = worker[w].place
<1>1. /\ worker' \in [Workers -> ThreadSet] /\ \A v \in Workers : v # w => worker'[v] = worker[v]
      /\ At2(w, worker[w].from, s) /\ SameHand(w) /\ SameIdle(w) /\ SameKey(w)
      /\ worker'[w].moved => worker[w].moved
      /\ worker'[w].place = worker[w].place
  BY GotoEffect
<1>2. Shaped(worker[w])
  BY DEF Types, Shapes
<1>3. Shaped(worker'[w])
  BY <1>1, <1>2 DEF Shaped, At2, SameHand, SameIdle
<1> QED  BY <1>1, <1>3 DEF Turn, Local, At2

LEMMA FreshFields ==
    ASSUME Types, NEW w \in Workers
    PROVE  /\ Fresh(w) \in ThreadSet /\ Fresh(w).pc = "high" /\ Fresh(w).from = "main"
           /\ Fresh(w).got = NoTask /\ Fresh(w).frames = <<>> /\ Fresh(w).place = 1
           /\ ~Fresh(w).moved /\ (Fresh(w).idle <=> worker[w].idle)
<1>1. worker[w] \in ThreadSet
  BY DEF Types, Shapes
<1>2. /\ worker[w].since_low \in Nat /\ Global(w) \in Nat /\ worker[w].idle \in BOOLEAN
  BY <1>1 DEF ThreadSet, Global
<1>3. "high" \in Pcs /\ NoTask \in Entry /\ <<>> \in Seq(Workers) /\ <<>> \in Seq(Frame)
  BY DEF Pcs, MainPcs, Scans, Entry
<1>4. Thread \in ThreadSet
  BY <1>3 DEF Thread, ThreadSet
<1>5. /\ Thread.pc = "high" /\ Thread.from = "main" /\ Thread.got = NoTask /\ ~Thread.moved
      /\ Thread.frames = <<>> /\ Thread.place = 1
  BY DEF Thread
<1> DEFINE f == [Thread EXCEPT !.since_low = worker[w].since_low,
                               !.since_global = Global(w), !.idle = worker[w].idle]
<1>6. f \in ThreadSet
  BY <1>2, <1>4 DEF ThreadSet
<1>7. /\ f.pc = "high" /\ f.from = "main" /\ f.got = NoTask /\ ~f.moved
      /\ f.frames = <<>> /\ f.place = 1 /\ (f.idle <=> worker[w].idle)
  BY <1>2, <1>4, <1>5 DEF ThreadSet
<1> QED  BY <1>6, <1>7 DEF Fresh

\* Back to the top of the worker loop with nothing in hand.
Loops(w) ==
    /\ Local(w) /\ SameIdle(w) /\ worker'[w].got = NoTask /\ worker'[w].frames = <<>>
    /\ worker'[w].from = "main" /\ worker'[w].pc = "high"

LEMMA LoopEffect ==
    ASSUME Types, NEW w \in Workers, Loop(w)
    PROVE  Loops(w)
<1>1. worker \in [Workers -> ThreadSet]
  BY DEF Types, Shapes
<1>2. /\ Fresh(w) \in ThreadSet /\ Fresh(w).pc = "high" /\ Fresh(w).from = "main"
      /\ Fresh(w).got = NoTask /\ Fresh(w).frames = <<>> /\ Fresh(w).place = 1
      /\ ~Fresh(w).moved /\ (Fresh(w).idle <=> worker[w].idle)
  BY FreshFields
<1>3. worker' \in [Workers -> ThreadSet] /\ worker'[w] = Fresh(w)
      /\ \A v \in Workers : v # w => worker'[v] = worker[v]
  BY <1>1, <1>2, Becomes DEF Loop
<1>4. Shaped(Fresh(w))
  BY <1>2 DEF Shaped, Scans, MainPcs
<1> QED  BY <1>2, <1>3, <1>4 DEF Loops, Local, SameIdle

IdlePcs == {"quit_check", "all_empty", "go_idle", "spin_check", "spun_out", "prepare",
            "park_check", "commit", "asleep"}

LEMMA EmptyHanded ==
    ASSUME Types, NEW w \in Workers, worker[w].pc \in IdlePcs \cup Scans
    PROVE  /\ worker[w].got = NoTask /\ worker[w].frames = <<>> /\ sig[w] = "idle"
           /\ (worker[w].pc \in {"quit_check", "all_empty", "go_idle"} => worker[w].from = "main")
           /\ (worker[w].pc \in {"spin_check", "spun_out", "prepare"} => worker[w].from = "spin")
           /\ (worker[w].pc \in {"park_check", "commit", "asleep"} => worker[w].from = "park")
<1>1. worker[w] \in ThreadSet /\ Shaped(worker[w]) /\ SignalsFrom(sig[w], worker[w])
  BY DEF Types, Shapes
<1>2. worker[w].from \in {"main", "spin", "park"} /\ worker[w].pc \notin {"body", "run", "relinquish"}
  BY <1>1 DEF ThreadSet, IdlePcs, Scans
<1> QED  BY <1>1, <1>2 DEF Shaped, SignalsFrom, MainPcs, SpinPcs, ParkPcs, Scans

LEMMA quit_checkForm ==
    ASSUME Types, NEW w \in Workers, quit_check(w)
    PROVE  /\ worker[w].pc = "quit_check" /\ Scanned(w, {"all_empty", "go_idle"})
           /\ worker'[w].place = 1
<1>1. worker[w].pc = "quit_check" /\ worker[w].from = "main" /\ worker[w].place = 1
  BY EmptyHanded DEF quit_check, At, IdlePcs, Types, Shapes, Shaped
<1>2. PICK s \in {"all_empty", "go_idle"} : Goto(w, s) /\ (s = "all_empty" => quit)
  BY DEF quit_check
<1>3. Turn(w, {s}) /\ worker'[w].place = worker[w].place
  BY <1>1, <1>2, GotoShaped DEF Pcs, MainPcs
<1> QED  BY <1>1, <1>3 DEF Turn, Scanned, quit_check

\* all_empty finds one place empty and goes on to the next.
GoesOn(w) ==
    /\ worker[w].pc = "all_empty" /\ IsEmpty(worker[w].place) /\ Scanned(w, {"all_empty"})
    /\ worker'[w].place = worker[w].place + 1
Exits(w) ==
    /\ worker[w].pc = "all_empty" /\ worker[w].place = 3 + N
    /\ Local(w) /\ SameHand(w) /\ ~worker'[w].idle
    /\ worker'[w].from = "main" /\ worker'[w].pc = "exited" /\ idle_workers' = Marked(w, FALSE)
    /\ UNCHANGED <<queueVars, quit, num_spinning, idle_policy, dtor, subVars, runs>>

LEMMA all_emptyForm ==
    ASSUME Types, NEW w \in Workers, all_empty(w)
    PROVE  \/ worker[w].pc = "all_empty" /\ Scanned(w, {"go_idle"})
           \/ GoesOn(w)
           \/ Exits(w)
<1>0. worker \in [Workers -> ThreadSet] /\ worker[w] \in ThreadSet /\ Shaped(worker[w])
  BY DEF Types, Shapes
<1>1. /\ worker[w].pc = "all_empty" /\ worker[w].from = "main" /\ worker[w].got = NoTask
      /\ worker[w].frames = <<>> /\ quit
  BY <1>0, EmptyHanded DEF all_empty, At, IdlePcs, Shaped
<1> DEFINE i == worker[w].place
<1>2. i \in Nat /\ i >= 1
  BY <1>0 DEF ThreadSet
<1>3. CASE ~IsEmpty(i) /\ Goto(w, "go_idle") /\ UNCHANGED idle_workers
  <2>1. Turn(w, {"go_idle"})
    BY <1>1, <1>3, GotoShaped DEF Pcs, MainPcs
  <2> QED  BY <1>1, <1>3, <2>1 DEF Scanned, all_empty, flagVars
<1>4. CASE /\ IsEmpty(i) /\ i < 3 + N
           /\ worker' = [worker EXCEPT ![w].place = i + 1] /\ UNCHANGED idle_workers
  <2> DEFINE r == [worker[w] EXCEPT !.place = i + 1]
  <2>1. r \in ThreadSet /\ worker' = [worker EXCEPT ![w] = r]
    <3>1. i + 1 \in Nat \ {0}
      BY <1>2
    <3>2. PICK n \in Nat \ {0} : n = i + 1
      BY <3>1
    <3>3. [worker[w] EXCEPT !.place = n] \in ThreadSet
      BY <1>0 DEF ThreadSet
    <3> QED  BY <1>4, <3>2, <3>3
  <2>2. /\ r.pc = worker[w].pc /\ r.from = worker[w].from /\ r.got = worker[w].got
        /\ r.frames = worker[w].frames /\ r.place = i + 1
        /\ (r.idle <=> worker[w].idle) /\ (r.moved <=> worker[w].moved)
    BY <1>0 DEF ThreadSet
  <2>3. worker' \in [Workers -> ThreadSet] /\ worker'[w] = r
        /\ \A v \in Workers : v # w => worker'[v] = worker[v]
    BY <1>0, <2>1, Becomes
  <2>4. Shaped(r)
    BY <1>0, <1>1, <2>2 DEF Shaped
  <2> HIDE DEF r
  <2>5. Turn(w, {"all_empty"})
    BY <1>1, <2>2, <2>3, <2>4 DEF Turn, Local, SameHand, SameIdle, SameKey
  <2> QED  BY <1>1, <1>4, <2>2, <2>3, <2>5 DEF GoesOn, Scanned, all_empty, flagVars
<1>5. CASE /\ IsEmpty(i) /\ i = 3 + N
           /\ worker' = [worker EXCEPT ![w] = [Fresh(w) EXCEPT !.pc = "exited", !.idle = FALSE]]
           /\ idle_workers' = Marked(w, FALSE)
  <2>1. PICK f : f = Fresh(w)
    OBVIOUS
  <2>2. /\ f \in ThreadSet /\ f.from = "main" /\ f.got = NoTask /\ f.frames = <<>> /\ f.place = 1
        /\ ~f.moved
    BY <2>1, FreshFields
  <2> DEFINE r == [f EXCEPT !.pc = "exited", !.idle = FALSE]
  <2>3. r \in ThreadSet /\ worker' = [worker EXCEPT ![w] = r]
    BY <1>5, <2>1, <2>2 DEF ThreadSet, Pcs, MainPcs
  <2>4. /\ r.pc = "exited" /\ r.from = "main" /\ r.got = NoTask /\ r.frames = <<>> /\ r.place = 1
        /\ ~r.idle /\ ~r.moved
    BY <2>2 DEF ThreadSet
  <2>5. worker' \in [Workers -> ThreadSet] /\ worker'[w] = r
        /\ \A v \in Workers : v # w => worker'[v] = worker[v]
    BY <1>0, <2>3, Becomes
  <2>6. Shaped(r)
    BY <1>1, <2>4 DEF Shaped, MainPcs
  <2> HIDE DEF r
  <2> QED  BY <1>1, <1>5, <2>4, <2>5, <2>6 DEF Exits, Local, SameHand, all_empty
<1> QED  BY <1>3, <1>4, <1>5 DEF all_empty

GoesIdle(w) ==
    /\ worker[w].pc = "go_idle" /\ Local(w) /\ SameHand(w) /\ worker'[w].idle
    /\ worker'[w].from = (IF idle_policy = "spin" THEN "main" ELSE "spin")
    /\ worker'[w].pc \in {"high", "spun_out"}
    /\ idle_workers' = Marked(w, TRUE)
    /\ num_spinning' = IF idle_policy = "handoff" THEN num_spinning + 1 ELSE num_spinning
    /\ UNCHANGED <<queueVars, quit, idle_policy, dtor, subVars, runs>>

LEMMA wait_for_workForm ==
    ASSUME Types, NEW w \in Workers, wait_for_work(w)
    PROVE  GoesIdle(w)
<1>0. worker \in [Workers -> ThreadSet] /\ worker[w] \in ThreadSet /\ Shaped(worker[w])
  BY DEF Types, Shapes
<1>1. /\ worker[w].pc = "go_idle" /\ worker[w].got = NoTask /\ worker[w].frames = <<>>
  BY <1>0, EmptyHanded DEF wait_for_work, At, IdlePcs
<1>2. PICK f : f = Fresh(w)
  OBVIOUS
<1>3. /\ f \in ThreadSet /\ f.from = "main" /\ f.got = NoTask /\ f.frames = <<>> /\ f.place = 1
      /\ ~f.moved
  BY <1>2, FreshFields
<1>4. PICK from : from = (IF idle_policy = "spin" THEN "main" ELSE "spin")
  OBVIOUS
<1>5. PICK pc : pc = IF idle_policy # "spin" /\ SpinCycles = 0 THEN "spun_out" ELSE "high"
  OBVIOUS
<1> DEFINE r == [f EXCEPT !.idle = TRUE, !.from = from, !.pc = pc]
<1>6. worker' = [worker EXCEPT ![w] = r]
  BY <1>2, <1>4, <1>5 DEF wait_for_work
<1>11. pc \in Pcs /\ from \in {"main", "spin", "park"}
  BY <1>4, <1>5 DEF Pcs, MainPcs, SpinPcs, Scans
<1>7. r \in ThreadSet
  BY <1>3, <1>11 DEF ThreadSet
<1>8. /\ r.pc = pc /\ r.from = from /\ r.got = NoTask /\ r.frames = <<>> /\ r.place = 1
      /\ r.idle /\ ~r.moved
  BY <1>3 DEF ThreadSet
<1>9. worker' \in [Workers -> ThreadSet] /\ worker'[w] = r
      /\ \A v \in Workers : v # w => worker'[v] = worker[v]
  BY <1>0, <1>6, <1>7, Becomes
<1>10. Shaped(r)
  BY <1>4, <1>5, <1>8 DEF Shaped, MainPcs, SpinPcs, Scans
<1> HIDE DEF r
<1> QED  BY <1>1, <1>4, <1>5, <1>8, <1>9, <1>10 DEF GoesIdle, Local, SameHand, wait_for_work

Spins(w) ==
    /\ worker[w].pc = "spin_check" /\ Turn(w, {"high", "spun_out"}) /\ UNCHANGED num_spinning
StopsSpinning(w) ==
    /\ worker[w].pc \in {"spin_check", "spun_out"} /\ Turn(w, {"prepare"})
    /\ (worker[w].pc = "spin_check" => idle_policy # "handoff")
    /\ num_spinning' = OneLess
LeavesSpin(w) ==
    /\ worker[w].pc = "spin_check" /\ idle_policy = "handoff" /\ Loops(w)
    /\ num_spinning' = num_spinning - 1
SpinRest == UNCHANGED <<queueVars, quit, idle_workers, idle_policy, dtor, subVars, runs>>

LEMMA spin_checkForm ==
    ASSUME Types, NEW w \in Workers, spin_check(w)
    PROVE  (Spins(w) \/ StopsSpinning(w) \/ LeavesSpin(w)) /\ SpinRest
<1>0. worker \in [Workers -> ThreadSet] /\ worker[w] \in ThreadSet /\ Shaped(worker[w])
  BY DEF Types, Shapes
<1>1. /\ worker[w].pc = "spin_check" /\ worker[w].from = "spin" /\ worker[w].got = NoTask
      /\ worker[w].frames = <<>> /\ worker[w].place = 1
  BY <1>0, EmptyHanded DEF spin_check, At, IdlePcs, Shaped
<1>2. SpinRest
  BY DEF spin_check, SpinRest
<1>3. CASE quit /\ idle_policy = "handoff" /\ Loop(w) /\ num_spinning' = num_spinning - 1
  BY <1>1, <1>2, <1>3, LoopEffect DEF LeavesSpin
<1>4. CASE quit /\ idle_policy # "handoff" /\ Goto(w, "prepare") /\ UNCHANGED num_spinning
  <2>1. Turn(w, {"prepare"})
    BY <1>1, <1>4, GotoShaped DEF Pcs, SpinPcs
  <2> QED  BY <1>1, <1>2, <1>4, <2>1 DEF StopsSpinning, OneLess
<1>5. CASE /\ ~quit
           /\ worker' = [worker EXCEPT ![w].spins = worker[w].spins + 1,
                          ![w].pc = IF worker[w].spins + 1 < SpinCycles THEN "high" ELSE "spun_out"]
           /\ UNCHANGED num_spinning
  <2>1. PICK n \in Nat : n = worker[w].spins + 1
    BY <1>0 DEF ThreadSet
  <2>2. PICK s \in {"high", "spun_out"} : s = IF n < SpinCycles THEN "high" ELSE "spun_out"
    OBVIOUS
  <2> DEFINE r == [worker[w] EXCEPT !.spins = n, !.pc = s]
  <2>3. worker' = [worker EXCEPT ![w] = r]
    BY <1>5, <2>1, <2>2
  <2>4. s \in Pcs /\ s \in SpinPcs
    BY <2>2 DEF Pcs, SpinPcs, Scans
  <2>5. r \in ThreadSet
    BY <1>0, <2>4 DEF ThreadSet
  <2>6. /\ r.pc = s /\ r.from = worker[w].from /\ r.got = worker[w].got
        /\ r.frames = worker[w].frames /\ r.place = worker[w].place
        /\ (r.idle <=> worker[w].idle) /\ (r.moved <=> worker[w].moved)
    BY <1>0 DEF ThreadSet
  <2>7. worker' \in [Workers -> ThreadSet] /\ worker'[w] = r
        /\ \A v \in Workers : v # w => worker'[v] = worker[v]
    BY <1>0, <2>3, <2>5, Becomes
  <2>8. Shaped(r)
    BY <1>0, <1>1, <2>2, <2>4, <2>6 DEF Shaped
  <2> HIDE DEF r
  <2>9. Turn(w, {"high", "spun_out"})
    BY <2>2, <2>6, <2>7, <2>8 DEF Turn, Local, SameHand, SameIdle, SameKey
  <2> QED  BY <1>1, <1>2, <1>5, <2>9 DEF Spins
<1> QED  BY <1>3, <1>4, <1>5 DEF spin_check

LEMMA spun_outForm ==
    ASSUME Types, NEW w \in Workers, spun_out(w)
    PROVE  StopsSpinning(w) /\ SpinRest
<1>0. worker[w] \in ThreadSet /\ Shaped(worker[w])
  BY DEF Types, Shapes
<1>1. /\ worker[w].pc = "spun_out" /\ worker[w].from = "spin" /\ worker[w].place = 1
  BY <1>0, EmptyHanded DEF spun_out, At, IdlePcs, Shaped
<1>2. Turn(w, {"prepare"})
  BY <1>1, GotoShaped DEF spun_out, Pcs, SpinPcs
<1> QED  BY <1>1, <1>2 DEF spun_out, StopsSpinning, SpinRest

Relinquishes(w) ==
    /\ worker[w].pc = "relinquish" /\ worker[w].from = "spin" /\ idle_policy = "handoff"
    /\ sig[w] = "idle" /\ Local(w) /\ SameHand(w) /\ SameIdle(w)
    /\ worker'[w].from = "spin" /\ worker'[w].pc = "run"
    /\ num_spinning' = num_spinning - 1
    /\ (Then(w, "promote") \/ UNCHANGED sig)
    /\ UNCHANGED <<queueVars, quit, idle_workers, idle_policy, dtor, sub, issued, runs>>

LEMMA relinquishForm ==
    ASSUME Types, NEW w \in Workers, relinquish(w)
    PROVE  Relinquishes(w)
<1>0. worker[w] \in ThreadSet /\ Shaped(worker[w]) /\ SignalsFrom(sig[w], worker[w])
  BY DEF Types, Shapes
<1>1. /\ worker[w].pc = "relinquish" /\ worker[w].from = "spin" /\ worker[w].place = 1
      /\ idle_policy = "handoff" /\ sig[w] = "idle"
  BY <1>0 DEF relinquish, At, Shaped, SignalsFrom
<1>2. /\ worker' \in [Workers -> ThreadSet] /\ \A v \in Workers : v # w => worker'[v] = worker[v]
      /\ At2(w, worker[w].from, "run") /\ SameHand(w) /\ SameIdle(w)
      /\ worker'[w].moved => worker[w].moved
      /\ worker'[w].place = worker[w].place
  BY GotoEffect DEF relinquish, Pcs, MainPcs
<1>3. Shaped(worker'[w])
  BY <1>0, <1>1, <1>2 DEF Shaped, SpinPcs, At2, SameHand, SameIdle
<1> QED  BY <1>1, <1>2, <1>3 DEF Relinquishes, relinquish, Local, At2

Prepares(w) ==
    /\ worker[w].pc = "prepare" /\ Local(w) /\ SameHand(w) /\ SameIdle(w)
    /\ worker'[w].from = "park" /\ worker'[w].pc = "high"
    /\ UNCHANGED <<queueVars, flagVars, subVars, runs>>

LEMMA prepare_waitForm ==
    ASSUME Types, NEW w \in Workers, prepare_wait(w)
    PROVE  Prepares(w)
<1>0. worker \in [Workers -> ThreadSet] /\ worker[w] \in ThreadSet /\ Shaped(worker[w])
  BY DEF Types, Shapes
<1>1. /\ worker[w].pc = "prepare" /\ worker[w].from = "spin" /\ worker[w].place = 1
  BY <1>0, EmptyHanded DEF prepare_wait, At, IdlePcs, Shaped
<1> DEFINE r == [worker[w] EXCEPT !.from = "park", !.pc = "high"]
<1>2. r \in ThreadSet
  BY <1>0 DEF ThreadSet, Pcs, MainPcs, Scans
<1>3. worker' = [worker EXCEPT ![w] = r]
  BY DEF prepare_wait
<1>4. /\ r.pc = "high" /\ r.from = "park" /\ r.got = worker[w].got
      /\ r.frames = worker[w].frames /\ r.place = worker[w].place
      /\ (r.idle <=> worker[w].idle) /\ (r.moved <=> worker[w].moved)
  BY <1>0 DEF ThreadSet
<1>5. worker' \in [Workers -> ThreadSet] /\ worker'[w] = r
      /\ \A v \in Workers : v # w => worker'[v] = worker[v]
  BY <1>0, <1>2, <1>3, Becomes
<1>6. Shaped(r)
  BY <1>0, <1>1, <1>4 DEF Shaped, ParkPcs, Scans
<1> HIDE DEF r
<1> QED  BY <1>1, <1>4, <1>5, <1>6 DEF Prepares, Local, SameHand, SameIdle, prepare_wait

Rest == UNCHANGED <<queueVars, flagVars, subVars, runs>>

LEMMA park_checkForm ==
    ASSUME Types, NEW w \in Workers, park_check(w)
    PROVE  /\ worker[w].pc = "park_check"
           /\ Scanned(w, {"commit"}) \/ (Loops(w) /\ SameHand(w) /\ Rest)
<1>0. worker[w] \in ThreadSet /\ Shaped(worker[w])
  BY DEF Types, Shapes
<1>1. /\ worker[w].pc = "park_check" /\ worker[w].from = "park" /\ worker[w].place = 1
      /\ worker[w].got = NoTask /\ worker[w].frames = <<>>
  BY <1>0, EmptyHanded DEF park_check, At, IdlePcs, Shaped
<1>2. CASE quit
  BY <1>1, <1>2, LoopEffect DEF park_check, Rest, Loops, SameHand
<1>3. CASE ~quit
  <2>1. Turn(w, {"commit"})
    BY <1>1, <1>3, GotoShaped DEF park_check, Pcs, ParkPcs
  <2> QED  BY <1>1, <2>1 DEF Scanned, park_check
<1> QED  BY <1>2, <1>3

LEMMA commit_waitForm ==
    ASSUME Types, NEW w \in Workers, commit_wait(w)
    PROVE  /\ worker[w].pc = "commit" /\ worker[w].from = "park"
           /\ (~worker[w].moved /\ Scanned(w, {"asleep"})) \/ (Loops(w) /\ SameHand(w) /\ Rest)
<1>0. worker[w] \in ThreadSet /\ Shaped(worker[w])
  BY DEF Types, Shapes
<1>1. /\ worker[w].pc = "commit" /\ worker[w].from = "park" /\ worker[w].place = 1
      /\ worker[w].got = NoTask /\ worker[w].frames = <<>>
  BY <1>0, EmptyHanded DEF commit_wait, At, IdlePcs, Shaped
<1>2. CASE worker[w].moved
  BY <1>1, <1>2, LoopEffect DEF commit_wait, Rest, Loops, SameHand
<1>3. CASE ~worker[w].moved
  <2>1. Turn(w, {"asleep"})
    BY <1>1, <1>3, GotoShaped DEF commit_wait, Pcs, ParkPcs
  <2> QED  BY <1>1, <1>3, <2>1 DEF Scanned, commit_wait
<1> QED  BY <1>2, <1>3

-----------------------------------------------------------------------------
(* The steps of bodies, by what they do *)

Runs(w) ==
    /\ worker[w].pc = "run" /\ sig[w] = "idle" /\ worker[w].got \in Tasks
    /\ Local(w) /\ worker'[w].got = NoTask /\ worker'[w].frames = <<<<worker[w].got, 1>>>>
    /\ ~worker'[w].idle /\ worker'[w].from = "main" /\ worker'[w].pc = "body"
    /\ idle_workers' = Marked(w, FALSE) /\ Started(worker[w].got)
    /\ UNCHANGED <<queueVars, quit, num_spinning, idle_policy, dtor, subVars>>

LEMMA run_taskForm ==
    ASSUME Types, NEW w \in Workers, run_task(w)
    PROVE  Runs(w)
<1>0. worker \in [Workers -> ThreadSet] /\ worker[w] \in ThreadSet /\ Shaped(worker[w])
  BY DEF Types, Shapes
<1>1. /\ worker[w].pc = "run" /\ sig[w] = "idle" /\ worker[w].got \in Tasks
  BY <1>0 DEF run_task, At, Shaped, ThreadSet, Entry
<1>2. PICK f : f = Fresh(w)
  OBVIOUS
<1>3. /\ f \in ThreadSet /\ f.from = "main" /\ f.got = NoTask /\ f.place = 1 /\ ~f.moved
  BY <1>2, FreshFields
<1>4. PICK s \in Seq(Frame) : s = <<<<worker[w].got, 1>>>>
  <2>0. <<worker[w].got, 1>> \in Frame
    BY <1>1 DEF Frame
  <2>1. PICK x \in Frame : x = <<worker[w].got, 1>>
    BY <2>0
  <2>2. <<x>> \in Seq(Frame)
    OBVIOUS
  <2> QED  BY <2>1, <2>2
<1>5. s # <<>>
  BY <1>4
<1> DEFINE r == [f EXCEPT !.pc = "body", !.idle = FALSE, !.frames = s]
<1>6. worker' = [worker EXCEPT ![w] = r]
  BY <1>2, <1>4 DEF run_task
<1>7. r \in ThreadSet
  BY <1>3 DEF ThreadSet, Pcs, MainPcs
<1>8. /\ r.pc = "body" /\ r.from = "main" /\ r.got = NoTask /\ r.frames = s /\ r.place = 1
      /\ ~r.idle /\ ~r.moved
  BY <1>3 DEF ThreadSet
<1>9. worker' \in [Workers -> ThreadSet] /\ worker'[w] = r
      /\ \A v \in Workers : v # w => worker'[v] = worker[v]
  BY <1>0, <1>6, <1>7, Becomes
<1>10. Shaped(r)
  BY <1>5, <1>8 DEF Shaped, MainPcs
<1> HIDE DEF r
<1> QED  BY <1>1, <1>4, <1>8, <1>9, <1>10 DEF Runs, Local, run_task

\* A body's stack becomes s.
Stacks(w, s) ==
    /\ worker[w].pc = "body" /\ sig[w] = "idle" /\ worker[w].frames \in Seq(Frame)
    /\ worker[w].frames # <<>> /\ Local(w) /\ SameIdle(w)
    /\ worker'[w].got = worker[w].got /\ worker[w].got = NoTask /\ worker'[w].frames = s
    /\ worker'[w].from = "main" /\ worker'[w].pc = "body"
    /\ s \in Seq(Frame) /\ s # <<>>

LEMMA FramesEffect ==
    ASSUME Types, NEW w \in Workers, InBody(w), NEW s \in Seq(Frame), s # <<>>,
           worker' = [worker EXCEPT ![w].frames = s]
    PROVE  Stacks(w, s)
<1>0. worker \in [Workers -> ThreadSet] /\ worker[w] \in ThreadSet /\ Shaped(worker[w])
  BY DEF Types, Shapes
<1>1. /\ worker[w].pc = "body" /\ sig[w] = "idle" /\ worker[w].got = NoTask
      /\ worker[w].frames # <<>> /\ worker[w].frames \in Seq(Frame) /\ worker[w].from = "main"
  BY <1>0 DEF InBody, At, Shaped, ThreadSet, MainPcs, SpinPcs, ParkPcs, Scans
<1> DEFINE r == [worker[w] EXCEPT !.frames = s]
<1>2. r \in ThreadSet /\ worker' = [worker EXCEPT ![w] = r]
  BY <1>0 DEF ThreadSet
<1>3. /\ r.pc = worker[w].pc /\ r.from = worker[w].from /\ r.got = worker[w].got
      /\ r.frames = s /\ r.place = worker[w].place
      /\ (r.idle <=> worker[w].idle) /\ (r.moved <=> worker[w].moved)
  BY <1>0 DEF ThreadSet
<1>4. worker' \in [Workers -> ThreadSet] /\ worker'[w] = r
      /\ \A v \in Workers : v # w => worker'[v] = worker[v]
  BY <1>0, <1>2, Becomes
<1>5. Shaped(r)
  BY <1>0, <1>1, <1>3 DEF Shaped
<1> HIDE DEF r
<1> QED  BY <1>1, <1>3, <1>4, <1>5 DEF Stacks, Local, SameIdle

LEMMA BodyFrame ==
    ASSUME Types, NEW w \in Workers, InBody(w)
    PROVE  /\ worker[w].frames \in Seq(Frame) /\ worker[w].frames # <<>>
           /\ Len(worker[w].frames) \in Nat /\ Len(worker[w].frames) >= 1
           /\ worker[w].frames[1] \in Frame /\ Body(w) \in Tasks
           /\ Spawned(w) \in Nat /\ Spawned(w) >= 1 /\ Spawns[Body(w)] \in Seq(Tasks)
           /\ worker[w].frames[1] = <<Body(w), Spawned(w)>>
<1>1. worker[w].frames \in Seq(Frame) /\ worker[w].frames # <<>>
  BY DEF InBody, At, Types, Shapes, Shaped, ThreadSet
<1>2. PICK s \in Seq(Frame) : s = worker[w].frames
  BY <1>1
<1>3. s # <<>> /\ Len(s) \in Nat /\ Len(s) >= 1 /\ s[1] \in Frame
  BY <1>1, <1>2, HeadTail
<1>4. s[1][1] \in Tasks /\ s[1][2] \in Nat \ {0} /\ s[1] = <<s[1][1], s[1][2]>>
  BY <1>3 DEF Frame
<1> QED  BY <1>1, <1>2, <1>3, <1>4, Constants DEF Body, Spawned

Forks(w, s) ==
    /\ Stacks(w, s) /\ Len(s) = Len(worker[w].frames)
    /\ s[1] = <<Body(w), Spawned(w) + 1>>
    /\ \A j \in 2..Len(s) : s[j] = worker[w].frames[j]
    /\ Body(w) \in Tasks /\ Spawned(w) \in 1..Len(Spawns[Body(w)])
    /\ sub' = [sub EXCEPT ![w] = Spawns[Body(w)][Spawned(w)]] /\ Then(w, "push")
    /\ UNCHANGED <<queueVars, flagVars, issued, runs>>

LEMMA spawnForm ==
    ASSUME Types, NEW w \in Workers, spawn(w)
    PROVE  \E s \in Seq(Frame) : Forks(w, s)
<1>1. InBody(w) /\ Spawned(w) <= Len(Spawns[Body(w)])
  BY DEF spawn
<1>2. /\ worker[w].frames \in Seq(Frame) /\ worker[w].frames # <<>>
      /\ Len(worker[w].frames) \in Nat /\ Len(worker[w].frames) >= 1
      /\ worker[w].frames[1] \in Frame /\ Body(w) \in Tasks
      /\ Spawned(w) \in Nat /\ Spawned(w) >= 1 /\ Spawns[Body(w)] \in Seq(Tasks)
      /\ worker[w].frames[1] = <<Body(w), Spawned(w)>>
  BY <1>1, BodyFrame
<1>3. PICK f \in Seq(Frame) : f = worker[w].frames
  BY <1>2
<1>4. PICK n \in Nat : n = Spawned(w)
  BY <1>2
<1>5. PICK k \in Nat \ {0} : k = n + 1
  OBVIOUS
<1>6. <<Body(w), k>> \in Frame
  BY <1>2 DEF Frame
<1>7. PICK s : s = [f EXCEPT ![1] = <<Body(w), k>>]
  OBVIOUS
<1>8. /\ s \in Seq(Frame) /\ Len(s) = Len(f) /\ s[1] = <<Body(w), k>>
      /\ \A j \in 2..Len(s) : s[j] = f[j]
  <2>1. 1 \in 1..Len(f) /\ Len(f) \in Nat
    BY <1>2, <1>3
  <2> QED  BY <1>6, <1>7, <2>1
<1>9. s # <<>>
  BY <1>2, <1>3, <1>8
<1>10. [f EXCEPT ![1][2] = @ + 1] = s
  <2>1. f[1] = <<Body(w), n>>
    BY <1>2, <1>3, <1>4
  <2>2. [f[1] EXCEPT ![2] = @ + 1] = <<Body(w), k>>
    BY <1>5, <2>1
  <2> QED  BY <1>7, <2>2
<1>11. worker' = [worker EXCEPT ![w].frames = s]
  BY <1>3, <1>10 DEF spawn
<1>12. Stacks(w, s)
  BY <1>1, <1>8, <1>9, <1>11, FramesEffect
<1>13. Len(Spawns[Body(w)]) \in Nat
  BY <1>2
<1> QED  BY <1>1, <1>2, <1>3, <1>4, <1>5, <1>8, <1>12, <1>13 DEF Forks, spawn

Returns(w, s) ==
    /\ Stacks(w, s) /\ Len(worker[w].frames) >= 2 /\ s = Tail(worker[w].frames)
    /\ Spawned(w) > Len(Spawns[Body(w)]) /\ Rest
ReturnsLast(w) ==
    /\ Loops(w) /\ worker[w].pc = "body" /\ sig[w] = "idle" /\ worker[w].got = NoTask
    /\ Len(worker[w].frames) = 1 /\ Spawned(w) > Len(Spawns[Body(w)]) /\ Rest

LEMMA returnForm ==
    ASSUME Types, NEW w \in Workers, return(w)
    PROVE  ReturnsLast(w) \/ \E s \in Seq(Frame) : Returns(w, s)
<1>1. InBody(w) /\ Spawned(w) > Len(Spawns[Body(w)]) /\ Rest
  BY DEF return, Rest
<1>2. /\ worker[w].frames \in Seq(Frame) /\ worker[w].frames # <<>>
      /\ Len(worker[w].frames) \in Nat /\ Len(worker[w].frames) >= 1
  BY <1>1, BodyFrame
<1>3. CASE Len(worker[w].frames) = 1
  <2>1. worker[w].got = NoTask /\ worker[w].pc = "body" /\ sig[w] = "idle"
    BY <1>1 DEF InBody, At, Types, Shapes, Shaped
  <2> QED  BY <1>1, <1>3, <2>1, LoopEffect DEF return, ReturnsLast
<1>4. CASE Len(worker[w].frames) # 1
  <2>0. PICK f \in Seq(Frame) : f = worker[w].frames
    BY <1>2
  <2>1. PICK s : s = Tail(f)
    OBVIOUS
  <2>2. s \in Seq(Frame) /\ Len(s) = Len(f) - 1
    BY <1>2, <2>0, <2>1, HeadTail
  <2>3. Len(f) >= 2 /\ Len(s) >= 1
    <3>1. PICK n \in Nat : n = Len(f) /\ n >= 1 /\ n # 1
      BY <1>2, <1>4, <2>0
    <3>2. n >= 2 /\ n - 1 >= 1
      BY <3>1
    <3> QED  BY <2>2, <3>1, <3>2
  <2>4. s # <<>>
    BY <2>3
  <2>5. worker' = [worker EXCEPT ![w].frames = s]
    BY <1>4, <2>0, <2>1 DEF return
  <2>6. Stacks(w, s)
    BY <1>1, <2>2, <2>4, <2>5, FramesEffect
  <2> QED  BY <1>1, <2>0, <2>1, <2>2, <2>3, <2>6 DEF Returns
<1> QED  BY <1>3, <1>4

Yields(w, c, s) ==
    /\ Stacks(w, s) /\ Len(s) = Len(worker[w].frames) + 1
    /\ s[1] = <<First(c), 1>> /\ \A j \in 2..Len(s) : s[j] = worker[w].frames[j - 1]
    /\ Poppable(c) /\ pop(c) /\ First(c) \in Tasks /\ Started(First(c))
    /\ UNCHANGED <<local_normal, top, flagVars, subVars>>

LEMMA yield_to_higherForm ==
    ASSUME Types, NEW w \in Workers, yield_to_higher(w)
    PROVE  \E c \in {"high", "normal"} : \E s \in Seq(Frame) : Yields(w, c, s)
<1>1. PICK c \in YieldsTo(w) :
        /\ pop(c) /\ Started(First(c))
        /\ worker' = [worker EXCEPT ![w].frames = <<<<First(c), 1>>>> \o @]
  BY DEF yield_to_higher
<1>2. c \in {"high", "normal"} /\ c \in Classes /\ Poppable(c)
  BY <1>1 DEF YieldsTo, Classes
<1>3. InBody(w)
  BY DEF yield_to_higher
<1>4. /\ worker[w].frames \in Seq(Frame) /\ worker[w].frames # <<>>
      /\ Len(worker[w].frames) \in Nat /\ Len(worker[w].frames) >= 1
  BY <1>3, BodyFrame
<1>5. First(c) \in Tasks
  <2>1. queues[c] \in Seq(Slot) /\ queues[c] # <<>>
    BY <1>2 DEF Types, QueueTypes, Poppable
  <2>2. Head(queues[c]) \in Slot
    BY <2>1, HeadTail
  <2> QED  BY <2>2 DEF First, Slot
<1>6. PICK f \in Seq(Frame) : f = worker[w].frames
  BY <1>4
<1>7. <<First(c), 1>> \in Frame
  BY <1>5 DEF Frame
<1>8. PICK x \in Frame : x = <<First(c), 1>>
  BY <1>7
<1>9. PICK s : s = <<x>> \o f
  OBVIOUS
<1>10. /\ s \in Seq(Frame) /\ Len(s) = Len(f) + 1 /\ s[1] = x
       /\ \A j \in 2..Len(s) : s[j] = f[j - 1]
  BY <1>9
<1>11. s # <<>>
  BY <1>10
<1>12. worker' = [worker EXCEPT ![w].frames = s]
  BY <1>1, <1>6, <1>8, <1>9
<1>13. Stacks(w, s)
  BY <1>3, <1>10, <1>11, <1>12, FramesEffect
<1> QED  BY <1>1, <1>2, <1>5, <1>6, <1>8, <1>10, <1>13 DEF Yields, yield_to_higher

-----------------------------------------------------------------------------
(* The broadcasts, by what they do *)

SameThread(v) ==
    /\ worker'[v].pc = worker[v].pc /\ worker'[v].from = worker[v].from /\ SameHand(v) /\ SameIdle(v)
    /\ worker'[v].place = worker[v].place /\ worker'[v].victims = worker[v].victims
    /\ worker'[v].top_read = worker[v].top_read
\* Every park under way has its key spoilt.
Advanced ==
    /\ worker' \in [Workers -> ThreadSet]
    /\ \A v \in Workers : /\ Shaped(worker'[v]) /\ SameThread(v)
                          /\ (worker'[v].from = "park" => worker'[v].moved)

LEMMA AdvanceEffect ==
    ASSUME Types, advance
    PROVE  Advanced
<1>0. worker \in [Workers -> ThreadSet]
  BY DEF Types, Shapes
<1>1. ASSUME NEW v \in Workers
      PROVE  /\ worker'[v] \in ThreadSet /\ Shaped(worker'[v]) /\ SameThread(v)
             /\ (worker'[v].from = "park" => worker'[v].moved)
  <2>1. worker[v] \in ThreadSet /\ Shaped(worker[v])
    BY DEF Types, Shapes
  <2>2. PICK b \in BOOLEAN : b = (worker[v].from = "park")
    OBVIOUS
  <2> DEFINE r == [worker[v] EXCEPT !.moved = b]
  <2>3. r \in ThreadSet
    BY <2>1 DEF ThreadSet
  <2>4. worker'[v] = r
    BY <2>2 DEF advance
  <2>5. /\ r.pc = worker[v].pc /\ r.from = worker[v].from /\ r.got = worker[v].got
        /\ r.frames = worker[v].frames /\ r.place = worker[v].place
        /\ r.victims = worker[v].victims /\ r.top_read = worker[v].top_read
        /\ (r.idle <=> worker[v].idle) /\ (r.moved <=> worker[v].from = "park")
    BY <2>1, <2>2 DEF ThreadSet
  <2>6. Shaped(r)
    BY <2>1, <2>5 DEF Shaped
  <2> HIDE DEF r
  <2> QED  BY <2>3, <2>4, <2>5, <2>6 DEF SameThread, SameHand, SameIdle
<1>2. worker' \in [Workers -> ThreadSet]
  <2>1. worker' = [v \in Workers |-> worker'[v]]
    BY DEF advance
  <2> QED  BY <1>1, <2>1
<1> QED  BY <1>1, <1>2 DEF Advanced

Roused(w) == worker[w].pc = "asleep" /\ worker[w].from = "park" /\ Turn(w, {"commit"})

LEMMA RouseEffect ==
    ASSUME Types, rouse
    PROVE  \/ UNCHANGED worker /\ \A w \in Workers : worker[w].pc # "asleep"
           \/ \E w \in Workers : Roused(w)
<1>1. CASE Asleep = {}
  BY <1>1 DEF rouse, Asleep, At
<1>2. CASE Asleep # {}
  <2>1. PICK w \in Workers : worker[w].pc = "asleep" /\ Goto(w, "commit")
    BY <1>2 DEF rouse, Asleep, At, Goto
  <2>2. worker[w].from = "park" /\ worker[w].place = 1
    BY <2>1, EmptyHanded DEF IdlePcs, Types, Shapes, Shaped
  <2> QED  BY <2>1, <2>2, GotoShaped DEF Roused, Pcs, ParkPcs
<1> QED  BY <1>1, <1>2

\* Every sleeper is up, and nothing else has changed.
AllRoused ==
    /\ worker' \in [Workers -> ThreadSet]
    /\ \A v \in Workers :
        \/ worker[v].pc # "asleep" /\ worker'[v] = worker[v]
        \/ /\ worker[v].pc = "asleep" /\ worker'[v].pc = "commit" /\ Shaped(worker'[v])
           /\ worker'[v].from = worker[v].from /\ SameHand(v) /\ SameIdle(v) /\ SameKey(v)

LEMMA WakeAllEffect ==
    ASSUME Types, worker' = [w \in Workers |->
                     IF w \in Asleep THEN [worker[w] EXCEPT !.pc = "commit"] ELSE worker[w]]
    PROVE  AllRoused
<1>1. ASSUME NEW v \in Workers
      PROVE  /\ worker'[v] \in ThreadSet
             /\ \/ worker[v].pc # "asleep" /\ worker'[v] = worker[v]
                \/ /\ worker[v].pc = "asleep" /\ worker'[v].pc = "commit" /\ Shaped(worker'[v])
                   /\ worker'[v].from = worker[v].from /\ SameHand(v) /\ SameIdle(v) /\ SameKey(v)
  <2>1. worker[v] \in ThreadSet /\ Shaped(worker[v])
    BY DEF Types, Shapes
  <2>2. CASE worker[v].pc # "asleep"
    BY <2>1, <2>2 DEF Asleep, At
  <2>3. CASE worker[v].pc = "asleep"
    <3> DEFINE r == [worker[v] EXCEPT !.pc = "commit"]
    <3>1. r \in ThreadSet
      BY <2>1 DEF ThreadSet, Pcs, ParkPcs
    <3>2. worker'[v] = r
      BY <2>3 DEF Asleep, At
    <3>3. /\ r.pc = "commit" /\ r.from = worker[v].from /\ r.got = worker[v].got
          /\ r.frames = worker[v].frames /\ r.place = worker[v].place
          /\ (r.idle <=> worker[v].idle) /\ (r.moved <=> worker[v].moved)
      BY <2>1 DEF ThreadSet
    <3>4. Shaped(r)
      BY <2>1, <2>3, <3>3 DEF Shaped, MainPcs, SpinPcs, ParkPcs, Scans
    <3> HIDE DEF r
    <3> QED  BY <2>3, <3>1, <3>2, <3>3, <3>4 DEF SameHand, SameIdle, SameKey
  <2> QED  BY <2>2, <2>3
<1>2. worker' \in [Workers -> ThreadSet]
  <2>1. worker' = [v \in Workers |-> worker'[v]]
    OBVIOUS
  <2> QED  BY <1>1, <2>1
<1> QED  BY <1>1, <1>2 DEF AllRoused

-----------------------------------------------------------------------------
(* Layer 1 is kept *)

LEMMA ShapesLocal ==
    ASSUME Types, NEW w \in Workers, Local(w), quit' = quit, idle_policy' = idle_policy,
           SignalsFrom(sig'[w], worker'[w]), \A v \in Workers : v # w => sig'[v] = sig[v]
    PROVE  Shapes'
<1>1. worker' \in [Workers -> ThreadSet]
  BY DEF Local
<1>2. ASSUME NEW v \in Workers PROVE Shaped(worker[v])' /\ SignalsFrom(sig[v], worker[v])'
  <2>1. CASE v = w
    BY <2>1 DEF Local, Shaped, SignalsFrom
  <2>2. CASE v # w
    <3>1. worker'[v] = worker[v] /\ sig'[v] = sig[v]
      BY <2>2 DEF Local
    <3>2. Shaped(worker[v]) /\ SignalsFrom(sig[v], worker[v])
      BY DEF Types, Shapes
    <3> QED  BY <3>1, <3>2 DEF Shaped, SignalsFrom
  <2> QED  BY <2>1, <2>2
<1> QED  BY <1>1, <1>2 DEF Shapes

LEMMA StealLocal ==
    ASSUME Types, NEW w \in Workers, Local(w), worker'[w].pc # "steal_cas",
           UNCHANGED <<top, local_normal>>
    PROVE  StealSafe'
BY DEF Types, StealSafe, Local

LEMMA TypesQuiet ==
    ASSUME Types, NEW w \in Workers, Local(w), worker'[w].pc # "steal_cas",
           UNCHANGED <<queueVars, subVars, quit, dtor, idle_policy>>,
           num_spinning' \in Int, idle_workers' \in Int, runs' \in [Tasks -> Nat],
           SignalsFrom(sig[w], worker'[w])
    PROVE  Types'
<1>1. QueueTypes' /\ FlagTypes' /\ SubTypes'
  BY DEF Types, QueueTypes, FlagTypes, SubTypes, queueVars, subVars
<1>2. Shapes'
  BY ShapesLocal DEF subVars
<1>3. StealSafe'
  BY StealLocal DEF queueVars
<1> QED  BY <1>1, <1>2, <1>3 DEF Types

LEMMA SubsKept ==
    ASSUME Types, UNCHANGED <<subVars, quit, runs>>
    PROVE  SubTypes'
BY DEF Types, SubTypes, subVars

LEMMA MarkedType ==
    ASSUME Types, NEW w \in Workers, NEW b \in BOOLEAN
    PROVE  Marked(w, b) \in Int
BY DEF Types, FlagTypes, Marked

LEMMA ScannedTypes ==
    ASSUME Types, NEW w \in Workers, NEW S, Scanned(w, S), "steal_cas" \notin S,
           worker[w].pc \in IdlePcs \cup Scans
    PROVE  Types'
<1>1. sig[w] = "idle"
  BY EmptyHanded
<1>2. Local(w) /\ worker'[w].pc # "steal_cas" /\ UNCHANGED <<queueVars, flagVars, subVars, runs>>
  BY DEF Scanned, Turn
<1>3. num_spinning' \in Int /\ idle_workers' \in Int /\ runs' \in [Tasks -> Nat]
  BY <1>2 DEF Types, FlagTypes, SubTypes, flagVars
<1>4. SignalsFrom(sig[w], worker'[w])
  BY <1>1 DEF SignalsFrom
<1> QED  BY <1>2, <1>3, <1>4, TypesQuiet DEF flagVars

LEMMA StealReadsTypes ==
    ASSUME Types, NEW w \in Workers, StealReads(w)
    PROVE  Types'
<1>1. sig[w] = "idle"
  BY EmptyHanded DEF StealReads, IdlePcs, Scans
<1>2. Local(w) /\ UNCHANGED <<queueVars, flagVars, subVars, runs>>
  BY DEF StealReads, Turn
<1>3. QueueTypes' /\ FlagTypes' /\ SubTypes'
  BY <1>2 DEF Types, QueueTypes, FlagTypes, SubTypes, queueVars, subVars, flagVars
<1>4. Shapes'
  BY <1>1, <1>2, ShapesLocal DEF SignalsFrom, subVars, flagVars
<1>5. StealSafe'
  <2>1. PICK v \in Workers : v = Head(worker'[w].victims) /\ local_normal[v] # <<>>
                             /\ worker'[w].top_read = top[v] /\ top[v] \in Nat
    BY DEF StealReads, Types, QueueTypes
  <2> QED  BY <1>2, <2>1 DEF Types, StealSafe, Local, queueVars
<1> QED  BY <1>3, <1>4, <1>5 DEF Types

LEMMA FindsShapes ==
    ASSUME Types, NEW w \in Workers, NEW t, Finds(w, t)
    PROVE  Shapes' /\ FlagTypes' /\ SubTypes' /\ worker'[w].pc \in {"run", "relinquish"}
<1>1. sig[w] = "idle" /\ Local(w) /\ UNCHANGED <<flagVars, subVars, runs>>
      /\ worker'[w].pc \in {"run", "relinquish"}
  BY EmptyHanded DEF Finds
<1>2. Shapes'
  BY <1>1, ShapesLocal DEF SignalsFrom, subVars, flagVars
<1>3. SubTypes'
  BY <1>1, SubsKept DEF flagVars
<1>4. FlagTypes'
  BY <1>1 DEF Types, FlagTypes, flagVars
<1> QED  BY <1>1, <1>2, <1>3, <1>4

LEMMA popTypes ==
    ASSUME Types, NEW c \in Classes, Poppable(c), pop(c), UNCHANGED <<local_normal, top>>
    PROVE  QueueTypes'
<1>1. queues \in [Classes -> Seq(Slot)] /\ yield_signal \in [{"high", "normal"} -> Int]
      /\ queues[c] \in Seq(Slot) /\ queues[c] # <<>>
  BY DEF Types, QueueTypes, Poppable
<1>2. Tail(queues[c]) \in Seq(Slot)
  BY <1>1, HeadTail
<1>3. queues' \in [Classes -> Seq(Slot)]
  BY <1>1, <1>2 DEF pop
<1>4. yield_signal' \in [{"high", "normal"} -> Int]
  BY <1>1 DEF pop, Classes
<1> QED  BY <1>3, <1>4 DEF Types, QueueTypes

LEMMA PopsTypes ==
    ASSUME Types, NEW w \in Workers, NEW c \in Classes, Pops(w, c)
    PROVE  Types'
<1>1. /\ Shapes' /\ FlagTypes' /\ SubTypes' /\ worker'[w].pc # "steal_cas"
  BY FindsShapes DEF Pops
<1>2. QueueTypes'
  BY popTypes DEF Pops
<1>3. StealSafe'
  BY <1>1, StealLocal DEF Pops, Finds
<1> QED  BY <1>1, <1>2, <1>3 DEF Types

\* Taking from the bottom: the rest of the deque.
LEMMA Front ==
    ASSUME NEW S, NEW d \in Seq(S), d # <<>>
    PROVE  /\ SubSeq(d, 1, Len(d) - 1) \in Seq(S) /\ Len(SubSeq(d, 1, Len(d) - 1)) = Len(d) - 1
           /\ \A i \in 1..(Len(d) - 1) : SubSeq(d, 1, Len(d) - 1)[i] = d[i]
           /\ Len(d) \in Nat /\ Len(d) >= 1
<1>1. Len(d) \in Nat /\ Len(d) >= 1
  BY HeadTail
<1>2. PICK n \in Nat : n = Len(d) - 1
  BY <1>1
<1>3. /\ SubSeq(d, 1, n) \in Seq(S) /\ Len(SubSeq(d, 1, n)) = n
      /\ \A i \in 1..n : SubSeq(d, 1, n)[i] = d[i]
  BY <1>1, <1>2
<1> QED  BY <1>1, <1>2, <1>3

LEMMA TakesTypes ==
    ASSUME Types, NEW w \in Workers, Takes(w)
    PROVE  Types'
<1>0. PICK d \in Seq(Tasks) : d = local_normal[w]
  BY DEF Types, QueueTypes
<1>1. /\ d # <<>> /\ Finds(w, d[Len(d)])
      /\ local_normal' = [local_normal EXCEPT ![w] = SubSeq(d, 1, Len(d) - 1)]
      /\ top' = [top EXCEPT ![w] = IF Len(d) = 1 THEN @ + 1 ELSE @]
      /\ UNCHANGED <<queues, yield_signal>>
  BY <1>0 DEF Takes
<1>2. PICK f \in Seq(Tasks) : f = SubSeq(d, 1, Len(d) - 1) /\ Len(f) = Len(d) - 1
  BY <1>1, Front
<1>3. /\ Shapes' /\ FlagTypes' /\ SubTypes' /\ worker'[w].pc # "steal_cas" /\ Local(w)
  BY <1>1, FindsShapes DEF Finds
<1>4. local_normal \in [Workers -> Seq(Tasks)] /\ top \in [Workers -> Nat]
  BY DEF Types, QueueTypes
<1>5. local_normal' \in [Workers -> Seq(Tasks)] /\ local_normal'[w] = f
      /\ \A v \in Workers : v # w => local_normal'[v] = local_normal[v]
  BY <1>1, <1>2, <1>4
<1>6. top' \in [Workers -> Nat] /\ top'[w] = (IF Len(d) = 1 THEN top[w] + 1 ELSE top[w])
      /\ \A v \in Workers : v # w => top'[v] = top[v]
  BY <1>1, <1>4
<1>7. QueueTypes'
  BY <1>1, <1>5, <1>6 DEF Types, QueueTypes
<1>8. StealSafe'
  <2> SUFFICES ASSUME NEW u \in Workers, worker'[u].pc = "steal_cas"
               PROVE  LET v == Head(worker'[u].victims) IN
                      /\ worker'[u].top_read <= top'[v]
                      /\ worker'[u].top_read = top'[v] => local_normal'[v] # <<>>
    BY DEF StealSafe
  <2>1. u # w /\ worker'[u] = worker[u]
    BY <1>3 DEF Local
  <2>2. worker[u] \in ThreadSet /\ worker[u].victims # <<>>
    BY <2>1 DEF Types, Shapes, Shaped
  <2>3. PICK v \in Workers : v = Head(worker[u].victims)
    BY <2>2, HeadTail DEF ThreadSet
  <2>4. PICK n \in Nat : n = worker[u].top_read
    BY <2>2 DEF ThreadSet
  <2>5. n <= top[v] /\ (n = top[v] => local_normal[v] # <<>>)
    BY <2>1, <2>3, <2>4 DEF Types, StealSafe
  <2>6. n <= top'[v] /\ (n = top'[v] => local_normal'[v] # <<>>)
    <3>1. CASE v # w
      BY <1>5, <1>6, <2>5, <3>1
    <3>2. CASE v = w /\ Len(d) = 1
      <4>1. top'[v] = top[v] + 1 /\ top[v] \in Nat
        BY <1>4, <1>6, <3>2
      <4> QED  BY <2>5, <4>1
    <3>3. CASE v = w /\ Len(d) # 1
      <4>1. top'[v] = top[v] /\ local_normal'[v] = f
        BY <1>5, <1>6, <3>3
      <4>2. Len(f) # 0
        BY <1>2, <3>3
      <4>3. f # <<>>
        BY <4>2
      <4> QED  BY <2>5, <4>1, <4>3
    <3> QED  BY <3>1, <3>2, <3>3
  <2> QED  BY <2>1, <2>3, <2>4, <2>6
<1> QED  BY <1>3, <1>7, <1>8 DEF Types

LEMMA StealsTypes ==
    ASSUME Types, NEW w \in Workers, NEW x \in Workers, Steals(w, x)
    PROVE  Types'
<1>1. /\ local_normal[x] # <<>> /\ Finds(w, Head(local_normal[x]))
      /\ local_normal' = [local_normal EXCEPT ![x] = Tail(@)]
      /\ top' = [top EXCEPT ![x] = @ + 1]
      /\ UNCHANGED <<queues, yield_signal>>
  BY DEF Steals
<1>2. local_normal \in [Workers -> Seq(Tasks)] /\ top \in [Workers -> Nat]
  BY DEF Types, QueueTypes
<1>3. Tail(local_normal[x]) \in Seq(Tasks)
  BY <1>1, <1>2, HeadTail
<1>4. /\ Shapes' /\ FlagTypes' /\ SubTypes' /\ worker'[w].pc # "steal_cas" /\ Local(w)
  BY <1>1, FindsShapes DEF Finds
<1>5. local_normal' \in [Workers -> Seq(Tasks)]
      /\ \A v \in Workers : v # x => local_normal'[v] = local_normal[v]
  BY <1>1, <1>2, <1>3
<1>6. top' \in [Workers -> Nat] /\ top'[x] = top[x] + 1
      /\ \A v \in Workers : v # x => top'[v] = top[v]
  BY <1>1, <1>2
<1>7. QueueTypes'
  BY <1>1, <1>5, <1>6 DEF Types, QueueTypes
<1>8. StealSafe'
  <2> SUFFICES ASSUME NEW u \in Workers, worker'[u].pc = "steal_cas"
               PROVE  LET v == Head(worker'[u].victims) IN
                      /\ worker'[u].top_read <= top'[v]
                      /\ worker'[u].top_read = top'[v] => local_normal'[v] # <<>>
    BY DEF StealSafe
  <2>1. u # w /\ worker'[u] = worker[u]
    BY <1>4 DEF Local
  <2>2. worker[u] \in ThreadSet /\ worker[u].victims # <<>>
    BY <2>1 DEF Types, Shapes, Shaped
  <2>3. PICK v \in Workers : v = Head(worker[u].victims)
    BY <2>2, HeadTail DEF ThreadSet
  <2>4. PICK n \in Nat : n = worker[u].top_read
    BY <2>2 DEF ThreadSet
  <2>5. n <= top[v] /\ (n = top[v] => local_normal[v] # <<>>)
    BY <2>1, <2>3, <2>4 DEF Types, StealSafe
  <2>6. n <= top'[v] /\ (n = top'[v] => local_normal'[v] # <<>>)
    <3>1. CASE v # x
      BY <1>5, <1>6, <2>5, <3>1
    <3>2. CASE v = x
      <4>1. top'[v] = top[v] + 1 /\ top[v] \in Nat
        BY <1>2, <1>6, <3>2
      <4> QED  BY <2>5, <4>1
    <3> QED  BY <3>1, <3>2
  <2> QED  BY <2>1, <2>3, <2>4, <2>6
<1> QED  BY <1>4, <1>7, <1>8 DEF Types

LEMMA LoopsTypes ==
    ASSUME Types, NEW w \in Workers, sig[w] = "idle", Rest,
           Loops(w) \/ \E s \in Seq(Frame) : Stacks(w, s)
    PROVE  Types'
<1>1. Local(w) /\ worker'[w].pc # "steal_cas"
  BY DEF Loops, Stacks
<1>2. num_spinning' \in Int /\ idle_workers' \in Int /\ runs' \in [Tasks -> Nat]
  BY DEF Rest, Types, FlagTypes, SubTypes, flagVars
<1>3. SignalsFrom(sig[w], worker'[w])
  BY DEF SignalsFrom
<1> QED  BY <1>1, <1>2, <1>3, TypesQuiet DEF Rest, flagVars

LEMMA IdlingTypes ==
    ASSUME Types, NEW w \in Workers,
           \/ Exits(w) \/ GoesIdle(w) \/ Prepares(w)
           \/ (Spins(w) \/ StopsSpinning(w) \/ LeavesSpin(w)) /\ SpinRest
    PROVE  Types'
<1>1. sig[w] = "idle"
  BY EmptyHanded DEF IdlePcs, Exits, GoesIdle, Prepares, Spins, StopsSpinning, LeavesSpin
<1>2. Local(w) /\ worker'[w].pc # "steal_cas"
  BY DEF Exits, GoesIdle, Prepares, Spins, StopsSpinning, LeavesSpin, Turn, Loops
<1>3. UNCHANGED <<queueVars, subVars, quit, dtor, idle_policy, runs>>
  BY DEF Exits, GoesIdle, Prepares, SpinRest, flagVars
<1>4. idle_workers \in Int /\ num_spinning \in Int /\ Marked(w, TRUE) \in Int /\ Marked(w, FALSE) \in Int
  BY MarkedType DEF Types, FlagTypes
<1>5. idle_workers' \in Int
  BY <1>4 DEF Exits, GoesIdle, Prepares, SpinRest, flagVars
<1>6. num_spinning' \in Int
  <2>1. num_spinning + 1 \in Int /\ num_spinning - 1 \in Int
    BY <1>4
  <2>2. num_spinning' \in {num_spinning, num_spinning + 1, num_spinning - 1}
    BY DEF Exits, GoesIdle, Prepares, Spins, StopsSpinning, LeavesSpin, OneLess, flagVars
  <2> QED  BY <1>4, <2>1, <2>2
<1>7. runs' \in [Tasks -> Nat] /\ SignalsFrom(sig[w], worker'[w])
  BY <1>1, <1>3 DEF Types, SubTypes, SignalsFrom
<1> QED  BY <1>2, <1>3, <1>5, <1>6, <1>7, TypesQuiet

LEMMA StartedTypes ==
    ASSUME Types, NEW t \in Tasks, Started(t)
    PROVE  runs' \in [Tasks -> Nat] /\ runs'[t] = runs[t] + 1 /\ \A u \in Tasks : u # t => runs'[u] = runs[u]
BY DEF Types, SubTypes, Started

LEMMA RunsTypes ==
    ASSUME Types, NEW w \in Workers, Runs(w)
    PROVE  Types'
<1>1. runs' \in [Tasks -> Nat]
  BY StartedTypes DEF Runs
<1>2. idle_workers' \in Int /\ num_spinning' \in Int
  BY MarkedType DEF Runs, Types, FlagTypes
<1>3. Local(w) /\ worker'[w].pc # "steal_cas" /\ SignalsFrom(sig[w], worker'[w])
      /\ UNCHANGED <<queueVars, subVars, quit, dtor, idle_policy>>
  BY DEF Runs, SignalsFrom
<1> QED  BY <1>1, <1>2, <1>3, TypesQuiet

LEMMA YieldsTypes ==
    ASSUME Types, NEW w \in Workers, NEW c \in {"high", "normal"}, NEW s \in Seq(Frame), Yields(w, c, s)
    PROVE  Types'
<1>1. runs' \in [Tasks -> Nat]
  BY StartedTypes DEF Yields
<1>2. QueueTypes'
  BY popTypes DEF Yields, Classes
<1>3. Local(w) /\ worker'[w].pc = "body" /\ UNCHANGED <<local_normal, top, flagVars, subVars>>
  BY DEF Yields, Stacks
<1>4. Shapes' /\ StealSafe'
  BY <1>3, ShapesLocal, StealLocal DEF SignalsFrom, flagVars, subVars
<1>5. FlagTypes' /\ SubTypes'
  BY <1>1, <1>3 DEF Types, FlagTypes, SubTypes, flagVars, subVars
<1> QED  BY <1>2, <1>4, <1>5 DEF Types

LEMMA ThenSub ==
    ASSUME Types, NEW a \in Actors, sig[a] # "idle" \/ a \in Workers, NEW s \in Sigs, Then(a, s),
           UNCHANGED <<sub, issued, quit, runs>>,
           s \in {"push", "count", "claim", "publish"} => sub[a] \in Tasks,
           s = "count" => Priority[sub[a]] # "low"
    PROVE  SubTypes' /\ sig'[a] = s /\ \A b \in Actors : b # a => sig'[b] = sig[b]
<1>1. sig \in [Actors -> Sigs] /\ sig' = [sig EXCEPT ![a] = s]
  BY DEF Types, SubTypes, Then
<1>2. sig' \in [Actors -> Sigs] /\ sig'[a] = s /\ \A b \in Actors : b # a => sig'[b] = sig[b]
  BY <1>1
<1>3. quit => \A e \in Externals : e # a
  BY Constants DEF Types, SubTypes
<1>4. \A e \in Externals : e \in Actors
  BY DEF Actors
<1> QED  BY <1>2, <1>3, <1>4 DEF Types, SubTypes

\* An actor in the middle of its submit goes on.
Signals(a, s) ==
    /\ sig[a] \notin {"idle", "promote", "wake"} /\ s \in Sigs /\ Then(a, s)
    /\ (s \in {"push", "count", "claim", "publish"} => sub[a] \in Tasks)
    /\ (s = "count" => Priority[sub[a]] # "low")
    /\ UNCHANGED <<sub, issued, runs, flagVars>>

LEMMA SignalsSub ==
    ASSUME Types, NEW a \in Actors, NEW s, Signals(a, s)
    PROVE  /\ SubTypes' /\ FlagTypes' /\ s \in Sigs /\ sig'[a] = s
           /\ \A b \in Actors : b # a => sig'[b] = sig[b]
           /\ a \in Workers => worker[a].pc = "body"
<1>1. SubTypes' /\ s \in Sigs /\ sig'[a] = s /\ \A b \in Actors : b # a => sig'[b] = sig[b]
  BY ThenSub DEF Signals, flagVars
<1>2. FlagTypes'
  BY DEF Types, FlagTypes, Signals, flagVars
<1>3. a \in Workers => worker[a].pc = "body"
  BY DEF Types, Shapes, SignalsFrom, Signals
<1> QED  BY <1>1, <1>2, <1>3

LEMMA SignalsShapes ==
    ASSUME Types, NEW a \in Actors, NEW s, Signals(a, s), UNCHANGED worker
    PROVE  Shapes'
<1>1. /\ sig'[a] = s /\ \A b \in Actors : b # a => sig'[b] = sig[b]
      /\ a \in Workers => worker[a].pc = "body"
  BY SignalsSub
<1>2. ASSUME NEW v \in Workers PROVE Shaped(worker[v])' /\ SignalsFrom(sig[v], worker[v])'
  <2>1. Shaped(worker[v]) /\ SignalsFrom(sig[v], worker[v]) /\ v \in Actors
    BY DEF Types, Shapes, Actors
  <2>2. Shaped(worker[v])'
    BY <2>1 DEF Shaped, Signals, flagVars
  <2>3. SignalsFrom(sig[v], worker[v])'
    BY <1>1, <2>1 DEF SignalsFrom
  <2> QED  BY <2>2, <2>3
<1> QED  BY <1>2 DEF Types, Shapes

\* One actor's step that moves no thread.
LEMMA QuietSignalTypes ==
    ASSUME Types, NEW a \in Actors, NEW s, Signals(a, s), UNCHANGED worker, QueueTypes',
           top' = top, \A v \in Workers : local_normal[v] # <<>> => local_normal'[v] # <<>>
    PROVE  Types'
<1>1. SubTypes' /\ FlagTypes' /\ Shapes'
  BY SignalsSub, SignalsShapes
<1>2. ASSUME NEW w \in Workers, worker[w].pc = "steal_cas"
      PROVE  Head(worker[w].victims) \in Workers
  BY <1>2, HeadTail DEF Types, Shapes, Shaped, ThreadSet
<1>3. StealSafe'
  BY <1>2 DEF Types, StealSafe
<1> QED  BY <1>1, <1>3 DEF Types

\* push puts the entry into the deque, or chooses the global queue.
Deques(a) ==
    /\ sig[a] = "push" /\ a \in Workers /\ Priority[sub[a]] = "normal" /\ sub[a] \in Tasks
    /\ Len(local_normal[a]) < DequeCap
    /\ local_normal' = [local_normal EXCEPT ![a] = Append(@, sub[a])]
    /\ Signals(a, "signal") /\ UNCHANGED <<queues, top, yield_signal, worker>>
Chooses(a, s) ==
    /\ sig[a] = "push" /\ s \in {"count", "claim"} /\ Signals(a, s) /\ sub[a] \in Tasks
    /\ (s = "claim" <=> Priority[sub[a]] = "low")
    /\ UNCHANGED <<queueVars, worker>>

LEMMA pushForm ==
    ASSUME Types, NEW a \in Actors, push(a)
    PROVE  Deques(a) \/ \E s \in {"count", "claim"} : Chooses(a, s)
<1>1. sig[a] = "push" /\ sub[a] \in Tasks
  BY DEF push, Types, SubTypes
<1>2. CASE /\ a \in Workers /\ Priority[sub[a]] = "normal" /\ Len(local_normal[a]) < DequeCap
           /\ local_normal' = [local_normal EXCEPT ![a] = Append(@, sub[a])] /\ Then(a, "signal")
  <2>1. Signals(a, "signal")
    BY <1>1, <1>2 DEF push, Signals, Sigs
  <2> QED  BY <1>1, <1>2, <2>1 DEF Deques, push
<1>3. CASE Then(a, IF Priority[sub[a]] = "low" THEN "claim" ELSE "count") /\ UNCHANGED local_normal
  <2>1. PICK s \in {"count", "claim"} : Then(a, s) /\ (s = "claim" <=> Priority[sub[a]] = "low")
    BY <1>3
  <2>2. Signals(a, s)
    BY <1>1, <2>1 DEF push, Signals, Sigs
  <2> QED  BY <1>1, <1>3, <2>1, <2>2 DEF Chooses, push, queueVars
<1> QED  BY <1>2, <1>3 DEF push

LEMMA Appended ==
    ASSUME NEW S, NEW s \in Seq(S), NEW x \in S
    PROVE  /\ Append(s, x) \in Seq(S) /\ Len(Append(s, x)) = Len(s) + 1 /\ Append(s, x) # <<>>
           /\ Append(s, x)[Len(s) + 1] = x /\ \A i \in 1..Len(s) : Append(s, x)[i] = s[i]
           /\ Len(s) \in Nat
<1>1. /\ Append(s, x) \in Seq(S) /\ Len(Append(s, x)) = Len(s) + 1 /\ Len(s) \in Nat
      /\ Append(s, x)[Len(s) + 1] = x /\ \A i \in 1..Len(s) : Append(s, x)[i] = s[i]
  OBVIOUS
<1>2. Append(s, x) # <<>>
  BY <1>1
<1> QED  BY <1>1, <1>2

LEMMA pushTypes ==
    ASSUME Types, NEW a \in Actors, push(a)
    PROVE  Types'
<1>1. CASE Deques(a)
  <2>1. /\ local_normal \in [Workers -> Seq(Tasks)] /\ local_normal[a] \in Seq(Tasks)
        /\ sub[a] \in Tasks /\ a \in Workers
    BY <1>1 DEF Types, QueueTypes, Deques
  <2>2. Append(local_normal[a], sub[a]) \in Seq(Tasks) /\ Append(local_normal[a], sub[a]) # <<>>
    BY <2>1, Appended
  <2>3. local_normal' \in [Workers -> Seq(Tasks)]
        /\ \A v \in Workers : local_normal[v] # <<>> => local_normal'[v] # <<>>
    BY <1>1, <2>1, <2>2 DEF Deques
  <2>4. QueueTypes'
    BY <1>1, <2>3 DEF Deques, Types, QueueTypes
  <2> QED  BY <1>1, <2>3, <2>4, QuietSignalTypes DEF Deques
<1>2. ASSUME NEW s \in {"count", "claim"}, Chooses(a, s) PROVE Types'
  <2>1. QueueTypes'
    BY <1>2 DEF Chooses, Types, QueueTypes, queueVars
  <2> QED  BY <1>2, <2>1, QuietSignalTypes DEF Chooses, queueVars
<1> QED  BY <1>1, <1>2, pushForm

Counts1(a) ==
    /\ sig[a] = "count" /\ Signals(a, "claim") /\ sub[a] \in Tasks
    /\ Priority[sub[a]] \in {"high", "normal"}
    /\ yield_signal' = [yield_signal EXCEPT ![Priority[sub[a]]] = @ + 1]
    /\ UNCHANGED <<queues, local_normal, top, worker>>

LEMMA countForm ==
    ASSUME Types, NEW a \in Actors, count(a)
    PROVE  Counts1(a) /\ Types'
<1>1. sig[a] = "count" /\ sub[a] \in Tasks /\ Priority[sub[a]] # "low"
  BY DEF count, Types, SubTypes
<1>2. Priority[sub[a]] \in {"high", "normal"}
  BY <1>1, Constants DEF Classes
<1>3. Signals(a, "claim")
  BY <1>1 DEF count, Signals, Sigs
<1>4. Counts1(a)
  BY <1>1, <1>2, <1>3 DEF Counts1, count
<1>5. QueueTypes'
  BY <1>2 DEF count, Types, QueueTypes
<1> QED  BY <1>3, <1>4, <1>5, QuietSignalTypes DEF count

ClaimsSlot(a, c) ==
    /\ sig[a] = "claim" /\ Signals(a, "publish") /\ sub[a] \in Tasks /\ c = Priority[sub[a]]
    /\ c \in Classes
    /\ queues' = [queues EXCEPT ![c] = Append(@, [task |-> sub[a], ready |-> FALSE])]
    /\ UNCHANGED <<local_normal, top, yield_signal, worker>>

LEMMA claimForm ==
    ASSUME Types, NEW a \in Actors, claim(a)
    PROVE  (\E c \in Classes : ClaimsSlot(a, c)) /\ Types'
<1>1. sig[a] = "claim" /\ sub[a] \in Tasks
  BY DEF claim, Types, SubTypes
<1>2. PICK c \in Classes : c = Priority[sub[a]]
  BY <1>1, Constants
<1>3. Signals(a, "publish")
  BY <1>1 DEF claim, Signals, Sigs
<1>4. ClaimsSlot(a, c)
  BY <1>1, <1>2, <1>3 DEF ClaimsSlot, claim
<1>5. QueueTypes'
  <2>1. queues \in [Classes -> Seq(Slot)] /\ queues[c] \in Seq(Slot)
    BY DEF Types, QueueTypes
  <2>2. PICK x \in Slot : x = [task |-> sub[a], ready |-> FALSE]
    BY <1>1 DEF Slot
  <2>3. Append(queues[c], x) \in Seq(Slot)
    BY <2>1, Appended
  <2>4. queues' \in [Classes -> Seq(Slot)]
    BY <1>4, <2>1, <2>2, <2>3 DEF ClaimsSlot
  <2> QED  BY <1>4, <2>4 DEF ClaimsSlot, Types, QueueTypes
<1> QED  BY <1>3, <1>4, <1>5, QuietSignalTypes DEF claim

Publishes(a, c, i) ==
    /\ sig[a] = "publish" /\ Signals(a, "signal") /\ sub[a] \in Tasks
    /\ i \in 1..Len(queues[c]) /\ queues[c][i].task = sub[a] /\ queues' \in [Classes -> Seq(Slot)]
    /\ Len(queues'[c]) = Len(queues[c]) /\ queues'[c][i].task = sub[a] /\ queues'[c][i].ready
    /\ \A j \in 1..Len(queues[c]) : j # i => queues'[c][j] = queues[c][j]
    /\ \A d \in Classes : d # c => queues'[d] = queues[d]
    /\ UNCHANGED <<local_normal, top, yield_signal, worker>>

LEMMA publishForm ==
    ASSUME Types, NEW a \in Actors, publish(a)
    PROVE  (\E c \in Classes : \E i \in 1..Len(queues[c]) : Publishes(a, c, i)) /\ Types'
<1>1. sig[a] = "publish" /\ sub[a] \in Tasks
  BY DEF publish, Types, SubTypes
<1>2. PICK c \in Classes : c = Priority[sub[a]]
  BY <1>1, Constants
<1>3. PICK i \in DOMAIN queues[c] : /\ queues[c][i].task = sub[a]
                                    /\ queues' = [queues EXCEPT ![c][i].ready = TRUE]
  BY <1>2 DEF publish
<1>4. queues \in [Classes -> Seq(Slot)] /\ queues[c] \in Seq(Slot)
  BY DEF Types, QueueTypes
<1>5. i \in 1..Len(queues[c]) /\ queues[c][i] \in Slot
  BY <1>3, <1>4
<1>6. PICK x \in Slot : x = [queues[c][i] EXCEPT !.ready = TRUE] /\ x.ready /\ x.task = sub[a]
  <2>1. PICK y \in Slot : y = queues[c][i] /\ y.task = sub[a]
    BY <1>3, <1>5
  <2>2. [y EXCEPT !.ready = TRUE] \in Slot
    BY DEF Slot
  <2>3. [y EXCEPT !.ready = TRUE].ready /\ [y EXCEPT !.ready = TRUE].task = y.task
    BY DEF Slot
  <2> QED  BY <2>1, <2>2, <2>3
<1>7. PICK q : q = [queues[c] EXCEPT ![i] = x]
  OBVIOUS
<1>8. /\ q \in Seq(Slot) /\ Len(q) = Len(queues[c]) /\ q[i] = x
      /\ \A j \in 1..Len(queues[c]) : j # i => q[j] = queues[c][j]
  BY <1>4, <1>5, <1>7
<1>9. queues' = [queues EXCEPT ![c] = q]
  BY <1>3, <1>6, <1>7
<1>10. queues' \in [Classes -> Seq(Slot)] /\ queues'[c] = q
       /\ \A d \in Classes : d # c => queues'[d] = queues[d]
  BY <1>4, <1>8, <1>9
<1>11. Signals(a, "signal")
  BY <1>1 DEF publish, Signals, Sigs
<1>12. Publishes(a, c, i)
  BY <1>1, <1>3, <1>5, <1>6, <1>8, <1>10, <1>11 DEF Publishes, publish
<1>13. QueueTypes'
  BY <1>10 DEF publish, Types, QueueTypes
<1> QED  BY <1>5, <1>11, <1>12, <1>13, QuietSignalTypes DEF publish

\* signal_submit and promote move the epoch.
Advances(a, s) ==
    /\ sig[a] \in {"signal", "promote"} /\ s \in {"spinners", "wake"} /\ Then(a, s) /\ Advanced
    /\ idle_policy # "spin" \/ sig[a] = "promote"
    /\ UNCHANGED <<queueVars, flagVars, sub, issued, runs>>

LEMMA signal_submitForm ==
    ASSUME Types, NEW a \in Actors, signal_submit(a)
    PROVE  \/ /\ idle_policy = "spin" /\ sig[a] = "signal" /\ Signals(a, "idle")
              /\ UNCHANGED <<queueVars, worker>>
           \/ \E s \in {"spinners", "wake"} : Advances(a, s) /\ sig[a] = "signal"
<1>1. CASE idle_policy = "spin" /\ Then(a, "idle") /\ UNCHANGED worker
  BY <1>1 DEF signal_submit, Signals, Sigs
<1>2. CASE /\ idle_policy # "spin" /\ advance
           /\ Then(a, IF idle_policy = "handoff" THEN "spinners" ELSE "wake")
  <2>1. PICK s \in {"spinners", "wake"} : Then(a, s)
    BY <1>2
  <2> QED  BY <1>2, <2>1, AdvanceEffect DEF Advances, signal_submit
<1> QED  BY <1>1, <1>2 DEF signal_submit

LEMMA promoteForm ==
    ASSUME Types, NEW w \in Workers, promote(w)
    PROVE  Advances(w, "wake") /\ sig[w] = "promote" /\ w \in Actors
BY AdvanceEffect DEF promote, Advances, Actors

LEMMA AdvancedShapes ==
    ASSUME Types, Advanced, UNCHANGED <<quit, idle_policy, top, local_normal>>,
           \A v \in Workers : SignalsFrom(sig'[v], worker[v])
    PROVE  Shapes' /\ StealSafe'
<1>1. ASSUME NEW v \in Workers PROVE Shaped(worker[v])' /\ SignalsFrom(sig[v], worker[v])'
  <2>1. Shaped(worker'[v]) /\ SameThread(v) /\ SignalsFrom(sig'[v], worker[v])
    BY DEF Advanced
  <2>2. Shaped(worker[v])'
    BY <2>1 DEF Shaped
  <2>3. SignalsFrom(sig[v], worker[v])'
    BY <2>1 DEF SignalsFrom, SameThread
  <2> QED  BY <2>2, <2>3
<1>2. Shapes'
  BY <1>1 DEF Shapes, Advanced
<1>3. StealSafe'
  BY DEF Types, StealSafe, Advanced, SameThread
<1> QED  BY <1>2, <1>3

LEMMA QueuesKept ==
    ASSUME Types, UNCHANGED queueVars
    PROVE  QueueTypes'
BY DEF Types, QueueTypes, queueVars

LEMMA AdvancesTypes ==
    ASSUME Types, NEW a \in Actors, NEW s \in {"spinners", "wake"}, Advances(a, s),
           sig[a] = "signal" \/ (sig[a] = "promote" /\ s = "wake")
    PROVE  Types'
<1>1. SubTypes' /\ sig'[a] = s /\ \A b \in Actors : b # a => sig'[b] = sig[b]
  BY ThenSub DEF Advances, Sigs, flagVars
<1>2. ASSUME NEW v \in Workers PROVE SignalsFrom(sig'[v], worker[v])
  <2>1. SignalsFrom(sig[v], worker[v]) /\ v \in Actors
    BY DEF Types, Shapes, Actors
  <2> QED  BY <1>1, <2>1 DEF SignalsFrom
<1>3. Shapes' /\ StealSafe'
  BY <1>2, AdvancedShapes DEF Advances, queueVars, flagVars
<1>4. QueueTypes' /\ FlagTypes'
  BY QueuesKept DEF Advances, Types, FlagTypes, flagVars
<1> QED  BY <1>1, <1>3, <1>4 DEF Types

LEMMA signal_submitTypes ==
    ASSUME Types, NEW a \in Actors, signal_submit(a)
    PROVE  Types'
<1>1. CASE /\ Signals(a, "idle") /\ UNCHANGED <<queueVars, worker>>
  BY <1>1, QueuesKept, QuietSignalTypes DEF queueVars
<1>2. ASSUME NEW s \in {"spinners", "wake"}, Advances(a, s), sig[a] = "signal" PROVE Types'
  BY <1>2, AdvancesTypes
<1> QED  BY <1>1, <1>2, signal_submitForm

Looks(a, s) ==
    /\ sig[a] = "spinners" /\ Signals(a, s) /\ UNCHANGED <<queueVars, worker>>
    /\ s \in {"wake", "idle"} /\ (s = "idle" => num_spinning # 0)

LEMMA spinnersForm ==
    ASSUME Types, NEW a \in Actors, spinners(a)
    PROVE  (\E s \in {"wake", "idle"} : Looks(a, s)) /\ Types'
<1>1. PICK s \in {"wake", "idle"} : Then(a, s) /\ (s = "idle" => num_spinning # 0)
  BY DEF spinners
<1>2. Looks(a, s)
  BY <1>1 DEF Looks, Signals, spinners, Sigs
<1> QED  BY <1>2, QueuesKept, QuietSignalTypes DEF Looks, queueVars

Wakes(a) ==
    /\ sig[a] = "wake" /\ Then(a, "idle")
    /\ \/ UNCHANGED worker /\ \A w \in Workers : worker[w].pc # "asleep"
       \/ \E w \in Workers : Roused(w)
    /\ UNCHANGED <<queueVars, flagVars, sub, issued, runs>>

LEMMA wake_oneForm ==
    ASSUME Types, NEW a \in Actors, wake_one(a)
    PROVE  Wakes(a) /\ Types'
<1>1. Wakes(a)
  BY RouseEffect DEF wake_one, Wakes
<1>2. SubTypes' /\ sig'[a] = "idle" /\ \A b \in Actors : b # a => sig'[b] = sig[b]
  BY ThenSub DEF wake_one, Sigs, flagVars
<1>3. QueueTypes' /\ FlagTypes'
  BY QueuesKept DEF wake_one, Types, FlagTypes, flagVars
<1>4. CASE UNCHANGED worker
  <2>1. ASSUME NEW v \in Workers PROVE Shaped(worker[v])' /\ SignalsFrom(sig[v], worker[v])'
    <3>1. Shaped(worker[v]) /\ SignalsFrom(sig[v], worker[v]) /\ v \in Actors
      BY DEF Types, Shapes, Actors
    <3>2. Shaped(worker[v])'
      BY <1>4, <3>1 DEF Shaped, wake_one, flagVars
    <3>3. SignalsFrom(sig[v], worker[v])'
      BY <1>2, <1>4, <3>1 DEF SignalsFrom
    <3> QED  BY <3>2, <3>3
  <2>2. Shapes' /\ StealSafe'
    BY <1>4, <2>1 DEF Types, Shapes, StealSafe, wake_one, queueVars
  <2> QED  BY <1>1, <1>2, <1>3, <2>2 DEF Types
<1>5. ASSUME NEW w \in Workers, Roused(w) PROVE Types'
  <2>1. Local(w) /\ worker'[w].pc # "steal_cas" /\ sig[w] = "idle"
    BY <1>5, EmptyHanded DEF Roused, Turn, IdlePcs
  <2>2. w # a /\ sig'[w] = "idle" /\ w \in Actors
    BY <1>2, <2>1 DEF wake_one, Actors
  <2>3. ASSUME NEW v \in Workers PROVE Shaped(worker[v])' /\ SignalsFrom(sig[v], worker[v])'
    <3>1. Shaped(worker[v]) /\ SignalsFrom(sig[v], worker[v]) /\ v \in Actors
      BY DEF Types, Shapes, Actors
    <3>2. Shaped(worker[v])'
      BY <2>1, <3>1 DEF Shaped, Local, wake_one, flagVars
    <3>3. SignalsFrom(sig[v], worker[v])'
      BY <1>2, <2>1, <2>2, <3>1 DEF SignalsFrom, Local
    <3> QED  BY <3>2, <3>3
  <2>4. Shapes'
    BY <2>1, <2>3 DEF Shapes, Local
  <2>5. StealSafe'
    BY <2>1, StealLocal DEF wake_one, queueVars
  <2> QED  BY <1>2, <1>3, <2>4, <2>5 DEF Types
<1> QED  BY <1>1, <1>4, <1>5 DEF Wakes

LEMMA RelinquishesTypes ==
    ASSUME Types, NEW w \in Workers, Relinquishes(w)
    PROVE  Types'
<1>1. w \in Actors
  BY DEF Actors
<1>2. SubTypes' /\ sig'[w] \in {"idle", "promote"} /\ \A b \in Actors : b # w => sig'[b] = sig[b]
  <2>1. CASE Then(w, "promote")
    BY <1>1, <2>1, ThenSub DEF Relinquishes, Sigs
  <2>2. CASE UNCHANGED sig
    <3>1. UNCHANGED <<subVars, quit, runs>>
      BY <2>2 DEF Relinquishes, subVars
    <3> QED  BY <2>2, <3>1, SubsKept DEF Relinquishes
  <2> QED  BY <2>1, <2>2 DEF Relinquishes
<1>3. QueueTypes' /\ FlagTypes'
  <2>1. num_spinning - 1 \in Int
    BY DEF Types, FlagTypes
  <2> QED  BY <2>1, QueuesKept DEF Relinquishes, Types, FlagTypes
<1>4. Local(w) /\ SignalsFrom(sig'[w], worker'[w]) /\ worker'[w].pc # "steal_cas"
  BY <1>2 DEF Relinquishes, SignalsFrom
<1>5. Shapes'
  <2>1. \A v \in Workers : v # w => sig'[v] = sig[v]
    BY <1>2 DEF Actors
  <2> QED  BY <1>4, <2>1, ShapesLocal DEF Relinquishes
<1>6. StealSafe'
  BY <1>4, StealLocal DEF Relinquishes, queueVars
<1> QED  BY <1>2, <1>3, <1>5, <1>6 DEF Types

LEMMA ForksTypes ==
    ASSUME Types, NEW w \in Workers, NEW s \in Seq(Frame), Forks(w, s)
    PROVE  Types' /\ sub'[w] \in Tasks /\ sub'[w] = Spawns[Body(w)][Spawned(w)] /\ sig'[w] = "push"
           /\ \A b \in Actors : b # w => sub'[b] = sub[b] /\ sig'[b] = sig[b]
<1>1. PICK t \in Tasks : t = Spawns[Body(w)][Spawned(w)]
  <2>1. Spawns[Body(w)] \in Seq(Tasks)
    BY Constants DEF Forks
  <2> QED  BY <2>1 DEF Forks
<1>2. w \in Actors /\ sub \in [Actors -> Entry] /\ sig \in [Actors -> Sigs] /\ t \in Entry
  BY DEF Actors, Types, SubTypes, Entry
<1>3. /\ sub' \in [Actors -> Entry] /\ sub'[w] = t /\ sig' \in [Actors -> Sigs] /\ sig'[w] = "push"
      /\ \A b \in Actors : b # w => sub'[b] = sub[b] /\ sig'[b] = sig[b]
  BY <1>1, <1>2 DEF Forks, Then, Sigs
<1>4. \A e \in Externals : e # w /\ e \in Actors
  BY Constants DEF Actors
<1>5. SubTypes'
  BY <1>3, <1>4 DEF Types, SubTypes, Forks, flagVars
<1>6. QueueTypes' /\ FlagTypes'
  BY QueuesKept DEF Forks, Types, FlagTypes, flagVars
<1>7. Local(w) /\ worker'[w].pc = "body"
  BY DEF Forks, Stacks
<1>8. Shapes' /\ StealSafe'
  <2>1. \A v \in Workers : v # w => sig'[v] = sig[v]
    BY <1>3 DEF Actors
  <2>2. SignalsFrom(sig'[w], worker'[w])
    BY <1>7 DEF SignalsFrom
  <2>3. Shapes'
    BY <1>7, <2>1, <2>2, ShapesLocal DEF Forks, flagVars
  <2>4. StealSafe'
    BY <1>7, StealLocal DEF Forks, queueVars
  <2> QED  BY <2>3, <2>4
<1> QED  BY <1>1, <1>3, <1>5, <1>6, <1>8 DEF Types

LEMMA issueTypes ==
    ASSUME Types, NEW e \in Externals, issue(e)
    PROVE  /\ Types' /\ sub'[e] \in Tasks /\ sub'[e] = Program[e][issued[e] + 1] /\ sig'[e] = "push"
           /\ e \in Actors /\ issued[e] + 1 \in DOMAIN Program[e]
           /\ issued'[e] = issued[e] + 1 /\ \A f \in Externals : f # e => issued'[f] = issued[f]
           /\ \A b \in Actors : b # e => sub'[b] = sub[b] /\ sig'[b] = sig[b]
<1>1. Program[e] \in Seq(Tasks) /\ e \in Actors /\ e \notin Workers
  BY Constants DEF Actors
<1>2. issued \in [Externals -> Nat] /\ issued[e] \in Nat /\ Len(Program[e]) \in Nat
  BY <1>1 DEF Types, SubTypes
<1>3. PICK n \in Nat : n = issued[e] + 1 /\ n \in 1..Len(Program[e])
  BY <1>2 DEF issue
<1>4. PICK t \in Tasks : t = Program[e][n]
  BY <1>1, <1>3
<1>5. sub \in [Actors -> Entry] /\ sig \in [Actors -> Sigs] /\ t \in Entry
  BY DEF Types, SubTypes, Entry
<1>6. /\ sub' \in [Actors -> Entry] /\ sub'[e] = t /\ sig' \in [Actors -> Sigs] /\ sig'[e] = "push"
      /\ \A b \in Actors : b # e => sub'[b] = sub[b] /\ sig'[b] = sig[b]
  BY <1>1, <1>3, <1>4, <1>5 DEF issue, Then, Sigs
<1>7. issued' \in [Externals -> Nat] /\ issued'[e] = n
      /\ \A f \in Externals : f # e => issued'[f] = issued[f]
  BY <1>2, <1>3 DEF issue
<1>8. ~quit
  <2>1. issued[e] < Len(Program[e])
    BY DEF issue
  <2> QED  BY <1>2, <2>1 DEF Types, SubTypes
<1>9. SubTypes'
  <2>1. \A f \in Externals : issued'[f] <= Len(Program[f])
    <3>1. \A f \in Externals : issued[f] <= Len(Program[f])
      BY DEF Types, SubTypes
    <3>2. n <= Len(Program[e])
      BY <1>2, <1>3
    <3> QED  BY <1>7, <3>1, <3>2
  <2>2. quit' = quit /\ runs' = runs
    BY DEF issue, flagVars
  <2>3. \A a \in Actors : sig'[a] \in {"push", "count", "claim", "publish"} => sub'[a] \in Tasks
    BY <1>6 DEF Types, SubTypes
  <2>4. \A a \in Actors : sig'[a] = "count" => Priority[sub'[a]] # "low"
    BY <1>6 DEF Types, SubTypes
  <2>5. runs' \in [Tasks -> Nat]
    BY <2>2 DEF Types, SubTypes
  <2> QED  BY <1>6, <1>7, <1>8, <2>1, <2>2, <2>3, <2>4, <2>5 DEF SubTypes
<1>10. QueueTypes' /\ FlagTypes'
  BY QueuesKept DEF issue, Types, FlagTypes, flagVars
<1>11. ASSUME NEW v \in Workers PROVE Shaped(worker[v])' /\ SignalsFrom(sig[v], worker[v])'
  <2>1. Shaped(worker[v]) /\ SignalsFrom(sig[v], worker[v]) /\ v \in Actors /\ v # e
    BY <1>1 DEF Types, Shapes, Actors
  <2>2. Shaped(worker[v])'
    BY <2>1 DEF Shaped, issue, flagVars
  <2>3. SignalsFrom(sig[v], worker[v])'
    BY <1>6, <2>1 DEF SignalsFrom, issue
  <2> QED  BY <2>2, <2>3
<1>12. Shapes' /\ StealSafe'
  BY <1>11 DEF Types, Shapes, StealSafe, issue, queueVars
<1>13. n \in DOMAIN Program[e]
  BY <1>1, <1>3
<1> QED  BY <1>1, <1>3, <1>4, <1>6, <1>7, <1>9, <1>10, <1>12, <1>13 DEF Types

LEMMA set_quitTypes ==
    ASSUME Types, set_quit
    PROVE  Types'
<1>1. QueueTypes' /\ FlagTypes'
  BY QueuesKept DEF set_quit, Types, FlagTypes
<1>2. SubTypes'
  BY DEF set_quit, Types, SubTypes, subVars
<1>3. ASSUME NEW v \in Workers PROVE Shaped(worker[v])' /\ SignalsFrom(sig[v], worker[v])'
  <2>1. Shaped(worker[v]) /\ SignalsFrom(sig[v], worker[v])
    BY DEF Types, Shapes
  <2>2. Shaped(worker[v])'
    BY <2>1 DEF Shaped, set_quit
  <2>3. SignalsFrom(sig[v], worker[v])'
    BY <2>1 DEF SignalsFrom, set_quit, subVars
  <2> QED  BY <2>2, <2>3
<1>4. Shapes' /\ StealSafe'
  BY <1>3 DEF Types, Shapes, StealSafe, set_quit, queueVars
<1> QED  BY <1>1, <1>2, <1>4 DEF Types

LEMMA advance_allTypes ==
    ASSUME Types, advance_all
    PROVE  Types' /\ Advanced
<1>1. Advanced
  BY AdvanceEffect DEF advance_all
<1>2. QueueTypes' /\ FlagTypes'
  BY QueuesKept DEF advance_all, Types, FlagTypes
<1>3. SubTypes'
  BY SubsKept DEF advance_all
<1>4. \A v \in Workers : SignalsFrom(sig'[v], worker[v])
  BY DEF advance_all, Types, Shapes, subVars
<1>5. Shapes' /\ StealSafe'
  BY <1>1, <1>4, AdvancedShapes DEF advance_all, queueVars
<1> QED  BY <1>1, <1>2, <1>3, <1>5 DEF Types

LEMMA wake_allTypes ==
    ASSUME Types, wake_all
    PROVE  Types' /\ AllRoused
<1>1. AllRoused
  BY WakeAllEffect DEF wake_all
<1>2. QueueTypes' /\ FlagTypes'
  BY QueuesKept DEF wake_all, Types, FlagTypes
<1>3. SubTypes'
  BY SubsKept DEF wake_all
<1>4. ASSUME NEW v \in Workers PROVE Shaped(worker[v])' /\ SignalsFrom(sig[v], worker[v])'
  <2>1. Shaped(worker[v]) /\ SignalsFrom(sig[v], worker[v])
    BY DEF Types, Shapes
  <2>2. UNCHANGED <<quit, idle_policy, sig>>
    BY DEF wake_all, subVars
  <2>3. CASE worker'[v] = worker[v]
    BY <2>1, <2>2, <2>3 DEF Shaped, SignalsFrom
  <2>4. CASE worker[v].pc = "asleep" /\ Shaped(worker'[v])
    <3>1. SignalsFrom(sig[v], worker[v])'
      BY <2>1, <2>2, <2>4 DEF SignalsFrom
    <3> QED  BY <2>2, <2>4, <3>1 DEF Shaped
  <2> QED  BY <1>1, <2>3, <2>4 DEF AllRoused
<1>5. Shapes'
  BY <1>1, <1>4 DEF Shapes, AllRoused
<1>6. StealSafe'
  BY <1>1 DEF Types, StealSafe, AllRoused, wake_all, queueVars
<1> QED  BY <1>1, <1>2, <1>3, <1>5, <1>6 DEF Types

LEMMA InitTypes ==
    ASSUME Init
    PROVE  Types
<1>1. QueueTypes
  BY DEF Init, QueueTypes
<1>2. FlagTypes
  <2>1. quit = FALSE /\ dtor = "no" /\ num_spinning = 0 /\ idle_workers = 0 /\ idle_policy \in Policies
    BY DEF Init
  <2>2. quit \in BOOLEAN /\ ~quit
    BY <2>1
  <2> QED  BY <2>1, <2>2 DEF FlagTypes
<1>3. SubTypes
  <2>1. \A e \in Externals : Len(Program[e]) \in Nat
    BY Constants
  <2> QED  BY <2>1 DEF Init, SubTypes, Sigs, Entry
<1>4. Thread \in ThreadSet
  <2>1. "high" \in Pcs /\ NoTask \in Entry /\ <<>> \in Seq(Workers) /\ <<>> \in Seq(Frame)
    BY DEF Pcs, MainPcs, Scans, Entry
  <2> QED  BY <2>1 DEF Thread, ThreadSet
<1>5. Shaped(Thread) /\ Thread.pc = "high"
  BY DEF Shaped, Thread, MainPcs, Scans
<1>6. \A w \in Workers : worker[w] = Thread /\ sig[w] = "idle"
  BY DEF Init, Actors
<1>7. Shapes
  BY <1>4, <1>5, <1>6 DEF Shapes, SignalsFrom, Init
<1>8. StealSafe
  BY <1>5, <1>6 DEF StealSafe
<1> QED  BY <1>1, <1>2, <1>3, <1>7, <1>8 DEF Types

LEMMA SignallingTypes ==
    ASSUME Types, NEW a \in Actors, Signalling(a)
    PROVE  Types'
BY pushTypes, countForm, claimForm, publishForm, signal_submitTypes, spinnersForm, wake_oneForm
   DEF Signalling

LEMMA FindWorkTypes ==
    ASSUME Types, NEW w \in Workers, FindWork(w)
    PROVE  Types'
<1>1. CASE \E c \in Classes : Pops(w, c)
  BY <1>1, PopsTypes
<1>2. ASSUME NEW S, Scanned(w, S), "steal_cas" \notin S, worker[w].pc \in Scans PROVE Types'
  BY <1>2, ScannedTypes
<1>3. CASE pop_high(w)
  BY <1>1, <1>2, <1>3, pop_highForm DEF Classes, Scans
<1>4. CASE low_valve(w)
  BY <1>1, <1>2, <1>4, low_valveForm DEF Classes, Scans
<1>5. CASE global_valve(w)
  BY <1>1, <1>2, <1>5, global_valveForm DEF Classes, Scans
<1>6. CASE take(w)
  BY <1>2, <1>6, takeForm, TakesTypes DEF Scans
<1>7. CASE pop_normal(w)
  BY <1>1, <1>2, <1>7, pop_normalForm DEF Classes, Scans
<1>8. CASE steal(w)
  BY <1>2, <1>8, stealForm, StealReadsTypes DEF Scans
<1>9. CASE steal_cas(w)
  BY <1>2, <1>9, steal_casForm, StealsTypes DEF Scans
<1>10. CASE pop_low(w)
  BY <1>1, <1>2, <1>10, pop_lowForm DEF Classes, Scans
<1> QED  BY <1>3, <1>4, <1>5, <1>6, <1>7, <1>8, <1>9, <1>10 DEF FindWork

LEMMA IdlingStepTypes ==
    ASSUME Types, NEW w \in Workers, Idling(w)
    PROVE  Types'
<1>1. ASSUME NEW S, Scanned(w, S), "steal_cas" \notin S, worker[w].pc \in IdlePcs PROVE Types'
  BY <1>1, ScannedTypes
<1>2. ASSUME Loops(w), Rest, worker[w].pc \in IdlePcs PROVE Types'
  BY <1>2, EmptyHanded, LoopsTypes
<1>3. CASE quit_check(w)
  BY <1>1, <1>3, quit_checkForm DEF IdlePcs
<1>4. CASE all_empty(w)
  BY <1>1, <1>4, all_emptyForm, IdlingTypes DEF IdlePcs, GoesOn
<1>5. CASE wait_for_work(w)
  BY <1>5, wait_for_workForm, IdlingTypes
<1>6. CASE spin_check(w)
  BY <1>6, spin_checkForm, IdlingTypes
<1>7. CASE spun_out(w)
  BY <1>7, spun_outForm, IdlingTypes
<1>8. CASE relinquish(w)
  BY <1>8, relinquishForm, RelinquishesTypes
<1>9. CASE promote(w)
  BY <1>9, promoteForm, AdvancesTypes
<1>10. CASE prepare_wait(w)
  BY <1>10, prepare_waitForm, IdlingTypes
<1>11. CASE park_check(w)
  BY <1>1, <1>2, <1>11, park_checkForm DEF IdlePcs
<1>12. CASE commit_wait(w)
  BY <1>1, <1>2, <1>12, commit_waitForm DEF IdlePcs
<1> QED  BY <1>3, <1>4, <1>5, <1>6, <1>7, <1>8, <1>9, <1>10, <1>11, <1>12 DEF Idling

LEMMA TypesStep ==
    ASSUME Types, [Next]_vars
    PROVE  Types'
<1>1. ASSUME NEW w \in Workers, WorkerStep(w) \/ yield_to_higher(w) PROVE Types'
  <2>1. CASE Signalling(w)
    BY <2>1, SignallingTypes DEF Actors
  <2>2. CASE FindWork(w)
    BY <2>2, FindWorkTypes
  <2>3. CASE Idling(w)
    BY <2>3, IdlingStepTypes
  <2>4. CASE run_task(w)
    BY <2>4, run_taskForm, RunsTypes
  <2>5. CASE spawn(w)
    BY <2>5, spawnForm, ForksTypes
  <2>6. CASE return(w)
    BY <2>6, returnForm, LoopsTypes DEF Returns, ReturnsLast, Stacks
  <2>7. CASE yield_to_higher(w)
    BY <2>7, yield_to_higherForm, YieldsTypes
  <2> QED  BY <1>1, <2>1, <2>2, <2>3, <2>4, <2>5, <2>6, <2>7 DEF WorkerStep
<1>2. ASSUME NEW e \in Externals, Signalling(e) \/ issue(e) PROVE Types'
  BY <1>2, SignallingTypes, issueTypes DEF Actors
<1>3. CASE Destructor
  BY <1>3, set_quitTypes, advance_allTypes, wake_allTypes DEF Destructor
<1>4. CASE UNCHANGED vars
  <2>1. UNCHANGED <<queueVars, flagVars, worker, subVars, runs>>
    BY <1>4 DEF vars
  <2>2. QueueTypes' /\ FlagTypes' /\ SubTypes'
    BY <2>1 DEF Types, QueueTypes, FlagTypes, SubTypes, queueVars, flagVars, subVars
  <2>3. Shapes' /\ StealSafe'
    BY <2>1 DEF Types, Shapes, Shaped, SignalsFrom, StealSafe, queueVars, flagVars, subVars
  <2> QED  BY <2>2, <2>3 DEF Types
<1> QED  BY <1>1, <1>2, <1>3, <1>4 DEF Next

-----------------------------------------------------------------------------
(* Layer 2, proved: the counters *)

LEMMA CardAdd ==
    ASSUME NEW A, NEW B, NEW x, IsFiniteSet(A), x \notin A, x \in B, \A y : y # x => (y \in A <=> y \in B)
    PROVE  IsFiniteSet(B) /\ Cardinality(B) = Cardinality(A) + 1 /\ Cardinality(A) \in Nat
<1>1. B = A \cup {x}
  OBVIOUS
<1> QED  BY <1>1, FS_AddElement, FS_CardinalityType

LEMMA CardDel ==
    ASSUME NEW A, NEW B, NEW x, IsFiniteSet(A), x \in A, x \notin B, \A y : y # x => (y \in A <=> y \in B)
    PROVE  IsFiniteSet(B) /\ Cardinality(B) = Cardinality(A) - 1 /\ Cardinality(A) \in Nat
<1>1. B = A \ {x}
  OBVIOUS
<1> QED  BY <1>1, FS_RemoveElement, FS_CardinalityType

LEMMA WorkersFinite ==
    /\ IsFiniteSet(Workers) /\ Cardinality(Workers) = N
    /\ \A S \in SUBSET Workers : IsFiniteSet(S) /\ Cardinality(S) \in 0..N
                                 /\ (Cardinality(S) = N => S = Workers)
<1>1. N \in Nat /\ N >= 1
  BY Constants
<1>2. PICK one \in Int : one = 1
  OBVIOUS
<1>3. IsFiniteSet(one..N) /\ Cardinality(one..N) = IF one > N THEN 0 ELSE N - one + 1
  BY <1>1, FS_Interval
<1>4. IsFiniteSet(Workers) /\ Cardinality(Workers) = N
  BY <1>1, <1>2, <1>3 DEF Workers
<1>5. ASSUME NEW S \in SUBSET Workers
      PROVE  IsFiniteSet(S) /\ Cardinality(S) \in 0..N /\ (Cardinality(S) = N => S = Workers)
  <2>1. IsFiniteSet(S) /\ Cardinality(S) <= Cardinality(Workers)
        /\ (Cardinality(Workers) = Cardinality(S) => Workers = S)
    BY <1>4, FS_Subset
  <2>2. Cardinality(S) \in Nat
    BY <2>1, FS_CardinalityType
  <2> QED  BY <1>1, <1>4, <2>1, <2>2
<1> QED  BY <1>4, <1>5

\* How w's step moves the number of spinners and of idle workers.
SpinMove(w) ==
    \/ (Spinner(worker'[w]) <=> Spinner(worker[w])) /\ num_spinning' = num_spinning
    \/ ~Spinner(worker[w]) /\ Spinner(worker'[w]) /\ num_spinning' = num_spinning + 1
    \/ Spinner(worker[w]) /\ ~Spinner(worker'[w]) /\ num_spinning' = num_spinning - 1
IdleMove(w) ==
    \/ SameIdle(w) /\ idle_workers' = idle_workers
    \/ ~worker[w].idle /\ worker'[w].idle /\ idle_workers' = idle_workers + 1
    \/ worker[w].idle /\ ~worker'[w].idle /\ idle_workers' = idle_workers - 1

LEMMA MarkedMove ==
    ASSUME NEW w \in Workers, NEW b \in BOOLEAN, worker'[w].idle <=> b, idle_workers' = Marked(w, b)
    PROVE  IdleMove(w)
BY DEF IdleMove, SameIdle, Marked

LEMMA LocalCounts ==
    ASSUME Types, WorkerCounts, NEW w \in Workers, Local(w), idle_policy' = idle_policy,
           SpinMove(w), IdleMove(w)
    PROVE  WorkerCounts'
<1>1. PICK A, B : A = Spinners /\ B = Spinners'
  OBVIOUS
<1>2. PICK C, D : C = IdleOnes /\ D = IdleOnes'
  OBVIOUS
<1>3. IsFiniteSet(A) /\ IsFiniteSet(C)
  BY <1>1, <1>2, WorkersFinite DEF Spinners, IdleOnes
<1>4. \A v : v # w => (v \in A <=> v \in B)
  BY <1>1 DEF Spinners, Spinner, Local
<1>5. (w \in A <=> Spinner(worker[w])) /\ (w \in B <=> Spinner(worker'[w]))
  BY <1>1 DEF Spinners, Spinner
<1>6. \A v : v # w => (v \in C <=> v \in D)
  BY <1>2 DEF IdleOnes, Local
<1>7. (w \in C <=> worker[w].idle) /\ (w \in D <=> worker'[w].idle)
  BY <1>2 DEF IdleOnes
<1>8. num_spinning = Cardinality(A) /\ idle_workers = Cardinality(C)
  BY <1>1, <1>2 DEF WorkerCounts
<1>9. num_spinning' = Cardinality(B)
  <2>1. CASE (w \in B <=> w \in A) /\ num_spinning' = num_spinning
    <3>1. A = B
      BY <1>4, <2>1
    <3> QED  BY <1>8, <2>1, <3>1
  <2>2. CASE w \notin A /\ w \in B /\ num_spinning' = num_spinning + 1
    BY <1>3, <1>4, <1>8, <2>2, CardAdd
  <2>3. CASE w \in A /\ w \notin B /\ num_spinning' = num_spinning - 1
    BY <1>3, <1>4, <1>8, <2>3, CardDel
  <2> QED  BY <1>5, <2>1, <2>2, <2>3 DEF SpinMove
<1>10. idle_workers' = Cardinality(D)
  <2>1. CASE (w \in D <=> w \in C) /\ idle_workers' = idle_workers
    <3>1. C = D
      BY <1>6, <2>1
    <3> QED  BY <1>8, <2>1, <3>1
  <2>2. CASE w \notin C /\ w \in D /\ idle_workers' = idle_workers + 1
    BY <1>3, <1>6, <1>8, <2>2, CardAdd
  <2>3. CASE w \in C /\ w \notin D /\ idle_workers' = idle_workers - 1
    BY <1>3, <1>6, <1>8, <2>3, CardDel
  <2> QED  BY <1>7, <2>1, <2>2, <2>3 DEF IdleMove, SameIdle
<1> QED  BY <1>1, <1>2, <1>9, <1>10 DEF WorkerCounts

LEMMA SameCounts ==
    ASSUME WorkerCounts, UNCHANGED <<idle_policy, num_spinning, idle_workers>>,
           \A v \in Workers : (Spinner(worker'[v]) <=> Spinner(worker[v])) /\ SameIdle(v)
    PROVE  WorkerCounts'
<1>1. Spinners' = Spinners
  BY DEF Spinners, Spinner
<1>2. IdleOnes' = IdleOnes
  BY DEF IdleOnes, SameIdle
<1> QED  BY <1>1, <1>2 DEF WorkerCounts

\* The steps that leave the queues and the submits alone.
LEMMA QuietCounts ==
    ASSUME Types, Counts, UNCHANGED <<queueVars, subVars>>, WorkerCounts'
    PROVE  Counts'
<1>1. \A c \in {"high", "normal"} : Claiming(c)' = Claiming(c)
  BY DEF Claiming, subVars
<1>2. YieldCounts'
  BY <1>1 DEF Counts, YieldCounts, queueVars
<1>3. DequesFit'
  BY DEF Counts, DequesFit, queueVars
<1> QED  BY <1>2, <1>3 DEF Counts

LEMMA ScannedCounts ==
    ASSUME Types, Counts, NEW w \in Workers, NEW S, Scanned(w, S),
           S \cap {"run", "prepare"} = {}, worker[w].pc \notin {"run", "prepare"}
    PROVE  Counts'
<1>1. Local(w) /\ SpinMove(w) /\ IdleMove(w) /\ idle_policy' = idle_policy
  <2>1. worker'[w].pc \notin {"run", "prepare"} /\ worker'[w].from = worker[w].from
        /\ UNCHANGED <<num_spinning, idle_workers, idle_policy>> /\ SameIdle(w) /\ Local(w)
    BY DEF Scanned, Turn, flagVars
  <2>2. Spinner(worker'[w]) <=> Spinner(worker[w])
    BY <2>1 DEF Spinner
  <2> QED  BY <2>1, <2>2 DEF SpinMove, IdleMove
<1>2. WorkerCounts'
  BY <1>1, LocalCounts DEF Counts
<1> QED  BY <1>2, QuietCounts DEF Scanned

LEMMA StealReadsCounts ==
    ASSUME Types, Counts, NEW w \in Workers, StealReads(w)
    PROVE  Counts'
<1>1. Scanned(w, {"steal_cas"}) /\ worker[w].pc = "steal"
  BY DEF StealReads, Scanned
<1> QED  BY <1>1, ScannedCounts

LEMMA FindsCounts ==
    ASSUME Types, Counts, NEW w \in Workers, NEW t, Finds(w, t)
    PROVE  WorkerCounts' /\ \A c \in {"high", "normal"} : Claiming(c)' = Claiming(c)
<1>1. Local(w) /\ SpinMove(w) /\ IdleMove(w) /\ idle_policy' = idle_policy
  <2>1. /\ UNCHANGED <<num_spinning, idle_workers, idle_policy>> /\ SameIdle(w) /\ Local(w)
        /\ worker'[w].from = worker[w].from
        /\ worker'[w].pc = IF Spinner(worker[w]) THEN "relinquish" ELSE "run"
    BY DEF Finds, flagVars
  <2>2. Spinner(worker'[w]) <=> Spinner(worker[w])
    BY <2>1 DEF Spinner
  <2> QED  BY <2>1, <2>2 DEF SpinMove, IdleMove
<1>2. WorkerCounts'
  BY <1>1, LocalCounts DEF Counts
<1> QED  BY <1>2 DEF Finds, Claiming, subVars

\* A pop takes one slot and one count.
LEMMA popCounts ==
    ASSUME Types, Counts, NEW c \in Classes, Poppable(c), pop(c),
           \A d \in {"high", "normal"} : Claiming(d)' = Claiming(d)
    PROVE  YieldCounts'
<1>1. queues \in [Classes -> Seq(Slot)] /\ yield_signal \in [{"high", "normal"} -> Int]
      /\ queues[c] \in Seq(Slot) /\ queues[c] # <<>>
  BY DEF Types, QueueTypes, Poppable
<1>2. Len(Tail(queues[c])) = Len(queues[c]) - 1 /\ Len(queues[c]) \in Nat
  BY <1>1, HeadTail
<1> SUFFICES ASSUME NEW d \in {"high", "normal"}
             PROVE  IsFiniteSet(Claiming(d))' /\ yield_signal'[d] = Len(queues'[d]) + Cardinality(Claiming(d)')
  BY DEF YieldCounts
<1>3. Claiming(d)' = Claiming(d) /\ IsFiniteSet(Claiming(d)) /\ d \in Classes
      /\ yield_signal[d] = Len(queues[d]) + Cardinality(Claiming(d)) /\ Cardinality(Claiming(d)) \in Nat
  BY FS_CardinalityType DEF Counts, YieldCounts, Classes
<1>4. CASE d = c
  <2>1. queues'[d] = Tail(queues[d]) /\ yield_signal'[d] = yield_signal[d] - 1
    BY <1>1, <1>4 DEF pop
  <2> QED  BY <1>2, <1>3, <1>4, <2>1
<1>5. CASE d # c
  <2>1. queues'[d] = queues[d] /\ yield_signal'[d] = yield_signal[d]
    BY <1>1, <1>3, <1>5 DEF pop, Classes
  <2> QED  BY <1>3, <2>1
<1> QED  BY <1>4, <1>5

LEMMA PopsCounts ==
    ASSUME Types, Counts, NEW w \in Workers, NEW c \in Classes, Pops(w, c)
    PROVE  Counts'
<1>1. WorkerCounts' /\ \A d \in {"high", "normal"} : Claiming(d)' = Claiming(d)
  BY FindsCounts DEF Pops
<1>2. YieldCounts'
  BY <1>1, popCounts DEF Pops
<1>3. DequesFit'
  BY DEF Counts, DequesFit, Pops
<1> QED  BY <1>1, <1>2, <1>3 DEF Counts

LEMMA YieldKept ==
    ASSUME Types, Counts, UNCHANGED <<queues, yield_signal>>,
           \A c \in {"high", "normal"} : Claiming(c)' = Claiming(c)
    PROVE  YieldCounts'
BY DEF Counts, YieldCounts

LEMMA TakesCounts ==
    ASSUME Types, Counts, NEW w \in Workers, Takes(w) \/ \E v \in Workers : Steals(w, v)
    PROVE  Counts'
<1>1. WorkerCounts' /\ \A c \in {"high", "normal"} : Claiming(c)' = Claiming(c)
  BY FindsCounts DEF Takes, Steals
<1>2. YieldCounts'
  BY <1>1, YieldKept DEF Takes, Steals
<1>3. PICK v \in Workers, d \in Seq(Tasks) :
        local_normal' = [local_normal EXCEPT ![v] = d] /\ Len(d) <= Len(local_normal[v])
  <2>1. local_normal \in [Workers -> Seq(Tasks)]
    BY DEF Types, QueueTypes
  <2>2. CASE Takes(w)
    <3>1. PICK d \in Seq(Tasks) : d = local_normal[w]
      BY <2>1
    <3>2. PICK f \in Seq(Tasks) : f = SubSeq(d, 1, Len(d) - 1) /\ Len(f) = Len(d) - 1 /\ Len(d) \in Nat
      BY <2>2, <3>1, Front DEF Takes
    <3>3. local_normal' = [local_normal EXCEPT ![w] = f] /\ Len(f) <= Len(local_normal[w])
      BY <2>2, <3>1, <3>2 DEF Takes
    <3> QED  BY <3>3
  <2>3. ASSUME NEW v \in Workers, Steals(w, v)
        PROVE  \E d \in Seq(Tasks) : local_normal' = [local_normal EXCEPT ![v] = d]
                                     /\ Len(d) <= Len(local_normal[v])
    <3>1. PICK d \in Seq(Tasks) : d = Tail(local_normal[v]) /\ Len(d) = Len(local_normal[v]) - 1
                                  /\ Len(local_normal[v]) \in Nat
      BY <2>1, <2>3, HeadTail DEF Steals
    <3>2. Len(d) <= Len(local_normal[v])
      BY <3>1
    <3>3. local_normal' = [local_normal EXCEPT ![v] = d]
      BY <2>3, <3>1 DEF Steals
    <3> QED  BY <3>2, <3>3
  <2> QED  BY <2>2, <2>3
<1>4. DequesFit'
  <2> SUFFICES ASSUME NEW u \in Workers PROVE Len(local_normal'[u]) <= DequeCap
    BY DEF DequesFit
  <2>1. local_normal \in [Workers -> Seq(Tasks)] /\ Len(local_normal[u]) <= DequeCap
    BY DEF Types, QueueTypes, Counts, DequesFit
  <2>2. CASE u = v
    <3>1. local_normal'[u] = d /\ Len(d) \in Nat /\ Len(local_normal[u]) \in Nat /\ DequeCap \in Nat
      BY <1>3, <2>1, <2>2, Constants
    <3> QED  BY <1>3, <2>1, <2>2, <3>1
  <2>3. CASE u # v
    BY <1>3, <2>1, <2>3
  <2> QED  BY <2>2, <2>3
<1> QED  BY <1>1, <1>2, <1>4 DEF Counts

LEMMA IdlingCounts ==
    ASSUME Types, Counts, NEW w \in Workers,
           \/ Exits(w) \/ GoesIdle(w) \/ Prepares(w)
           \/ (Spins(w) \/ StopsSpinning(w) \/ LeavesSpin(w)) /\ SpinRest
           \/ Loops(w) /\ Rest /\ worker[w].pc \in {"park_check", "commit", "body"}
           \/ Rest /\ \E s \in Seq(Frame) : Stacks(w, s)
    PROVE  Counts'
<1>0. Shaped(worker[w]) /\ worker[w].from \in {"main", "spin", "park"}
  BY DEF Types, Shapes, ThreadSet
<1>1. Local(w) /\ SpinMove(w) /\ IdleMove(w) /\ idle_policy' = idle_policy
      /\ UNCHANGED <<queueVars, subVars>>
  <2>1. CASE Exits(w)
    <3>1. ~Spinner(worker[w]) /\ ~Spinner(worker'[w])
      BY <1>0, <2>1 DEF Exits, Spinner, Shaped, SpinPcs, Scans
    <3>2. IdleMove(w)
      BY <2>1, MarkedMove DEF Exits
    <3> QED  BY <2>1, <3>1, <3>2 DEF Exits, SpinMove
  <2>2. CASE GoesIdle(w)
    <3>1. ~Spinner(worker[w]) /\ (Spinner(worker'[w]) <=> idle_policy = "handoff")
      BY <1>0, <2>2 DEF GoesIdle, Spinner, Shaped, SpinPcs, Scans
    <3>2. IdleMove(w)
      BY <2>2, MarkedMove DEF GoesIdle
    <3> QED  BY <2>2, <3>1, <3>2 DEF GoesIdle, SpinMove
  <2>3. CASE Prepares(w)
    <3>1. ~Spinner(worker[w]) /\ ~Spinner(worker'[w])
      BY <2>3 DEF Prepares, Spinner
    <3> QED  BY <2>3, <3>1 DEF Prepares, SpinMove, IdleMove, flagVars
  <2>4. CASE Spins(w) /\ SpinRest
    <3>1. Spinner(worker'[w]) <=> Spinner(worker[w])
      BY <2>4 DEF Spins, Turn, Spinner
    <3> QED  BY <2>4, <3>1 DEF Spins, SpinRest, SpinMove, IdleMove, Turn
  <2>5. CASE StopsSpinning(w) /\ SpinRest
    <3>1. worker[w].from = "spin" /\ (Spinner(worker[w]) <=> idle_policy = "handoff")
      BY <1>0, <2>5, EmptyHanded DEF StopsSpinning, Spinner, IdlePcs
    <3>2. ~Spinner(worker'[w])
      BY <2>5 DEF StopsSpinning, Spinner, Turn
    <3> QED  BY <2>5, <3>1, <3>2 DEF StopsSpinning, SpinRest, SpinMove, IdleMove, Turn, OneLess
  <2>6. CASE LeavesSpin(w) /\ SpinRest
    <3>1. Spinner(worker[w]) /\ ~Spinner(worker'[w])
      BY <1>0, <2>6, EmptyHanded DEF LeavesSpin, Loops, Spinner, IdlePcs
    <3> QED  BY <2>6, <3>1 DEF LeavesSpin, SpinRest, SpinMove, IdleMove, Loops
  <2>7. CASE Loops(w) /\ Rest /\ worker[w].pc \in {"park_check", "commit", "body"}
    <3>1. ~Spinner(worker[w]) /\ ~Spinner(worker'[w])
      BY <1>0, <2>7 DEF Loops, Spinner, Shaped, SpinPcs, Scans
    <3> QED  BY <2>7, <3>1 DEF Loops, Rest, SpinMove, IdleMove, flagVars
  <2>8. CASE Rest /\ \E s \in Seq(Frame) : Stacks(w, s)
    <3>1. worker[w].pc = "body" /\ worker'[w].from = "main" /\ Local(w) /\ SameIdle(w)
      BY <2>8 DEF Stacks
    <3>2. ~Spinner(worker[w]) /\ ~Spinner(worker'[w])
      BY <1>0, <3>1 DEF Spinner, Shaped, SpinPcs, Scans
    <3> QED  BY <2>8, <3>1, <3>2 DEF Rest, SpinMove, IdleMove, flagVars
  <2> QED  BY <2>1, <2>2, <2>3, <2>4, <2>5, <2>6, <2>7, <2>8
<1>2. WorkerCounts'
  BY <1>1, LocalCounts DEF Counts
<1> QED  BY <1>1, <1>2, QuietCounts

LEMMA RunsCounts ==
    ASSUME Types, Counts, NEW w \in Workers, Runs(w)
    PROVE  Counts'
<1>1. ~Spinner(worker[w]) /\ ~Spinner(worker'[w])
  BY DEF Runs, Spinner
<1>2. SpinMove(w) /\ IdleMove(w) /\ Local(w) /\ idle_policy' = idle_policy
  BY <1>1, MarkedMove DEF Runs, SpinMove
<1>3. WorkerCounts'
  BY <1>2, LocalCounts DEF Counts
<1> QED  BY <1>3, QuietCounts DEF Runs

LEMMA YieldsCounts ==
    ASSUME Types, Counts, NEW w \in Workers, NEW c \in {"high", "normal"}, NEW s \in Seq(Frame),
           Yields(w, c, s)
    PROVE  Counts'
<1>1. worker[w].pc = "body" /\ worker'[w].from = "main" /\ Local(w) /\ SameIdle(w)
      /\ UNCHANGED <<flagVars, subVars, local_normal>>
  BY DEF Yields, Stacks
<1>2. ~Spinner(worker[w]) /\ ~Spinner(worker'[w])
  BY <1>1 DEF Spinner, Types, Shapes, Shaped, SpinPcs, Scans
<1>3. SpinMove(w) /\ IdleMove(w) /\ idle_policy' = idle_policy
  BY <1>1, <1>2 DEF SpinMove, IdleMove, flagVars
<1>4. WorkerCounts'
  BY <1>1, <1>3, LocalCounts DEF Counts
<1>5. \A d \in {"high", "normal"} : Claiming(d)' = Claiming(d)
  BY <1>1 DEF Claiming, subVars
<1>6. YieldCounts'
  BY <1>5, popCounts DEF Yields, Classes
<1>7. DequesFit'
  BY <1>1 DEF Counts, DequesFit
<1> QED  BY <1>4, <1>6, <1>7 DEF Counts

\* An actor that is not about to claim, and will not be, is no part of the count.
LEMMA ClaimingKept ==
    ASSUME NEW a \in Actors, sig[a] # "claim", sig'[a] # "claim",
           \A b \in Actors : b # a => sub'[b] = sub[b] /\ sig'[b] = sig[b]
    PROVE  \A c \in {"high", "normal"} : Claiming(c)' = Claiming(c)
BY DEF Claiming

LEMMA SubmitCounts ==
    ASSUME Types, Counts, NEW a \in Actors, sig[a] # "claim", sig'[a] # "claim",
           \A b \in Actors : b # a => sub'[b] = sub[b] /\ sig'[b] = sig[b],
           UNCHANGED <<queueVars, flagVars>>,
           \A v \in Workers : (Spinner(worker'[v]) <=> Spinner(worker[v])) /\ SameIdle(v)
    PROVE  Counts'
<1>1. WorkerCounts'
  BY SameCounts DEF Counts, flagVars
<1>2. YieldCounts'
  BY ClaimingKept, YieldKept DEF queueVars
<1>3. DequesFit'
  BY DEF Counts, DequesFit, queueVars
<1> QED  BY <1>1, <1>2, <1>3 DEF Counts

LEMMA IssueCounts ==
    ASSUME Types, Counts, NEW e \in Externals, issue(e)
    PROVE  Counts'
<1>1. /\ sig'[e] = "push" /\ e \in Actors /\ sig[e] # "claim"
      /\ \A b \in Actors : b # e => sub'[b] = sub[b] /\ sig'[b] = sig[b]
  BY issueTypes DEF issue
<1>2. worker' = worker /\ UNCHANGED <<queueVars, flagVars>>
  BY DEF issue
<1> QED  BY <1>1, <1>2, SubmitCounts DEF SameIdle

LEMMA ForksCounts ==
    ASSUME Types, Counts, NEW w \in Workers, NEW s \in Seq(Frame), Forks(w, s)
    PROVE  Counts'
<1>1. /\ sig'[w] = "push" /\ w \in Actors /\ sig[w] # "claim"
      /\ \A b \in Actors : b # w => sub'[b] = sub[b] /\ sig'[b] = sig[b]
  BY ForksTypes DEF Forks, Stacks, Actors
<1>2. worker[w].pc = "body" /\ worker'[w].from = "main" /\ Local(w) /\ SameIdle(w)
      /\ UNCHANGED <<queueVars, flagVars>>
  BY DEF Forks, Stacks
<1>3. ~Spinner(worker[w]) /\ ~Spinner(worker'[w])
  BY <1>2 DEF Spinner, Types, Shapes, Shaped, SpinPcs, Scans
<1>4. \A v \in Workers : (Spinner(worker'[v]) <=> Spinner(worker[v])) /\ SameIdle(v)
  BY <1>2, <1>3 DEF Local, SameIdle
<1> QED  BY <1>1, <1>2, <1>4, SubmitCounts

LEMMA AdvancedSame ==
    ASSUME Types, Advanced
    PROVE  \A v \in Workers : (Spinner(worker'[v]) <=> Spinner(worker[v])) /\ SameIdle(v)
BY DEF Advanced, SameThread, Spinner

LEMMA AdvancesCounts ==
    ASSUME Types, Counts, NEW a \in Actors, NEW s \in {"spinners", "wake"}, Advances(a, s)
    PROVE  Counts'
<1>1. SubTypes' /\ sig'[a] = s /\ \A b \in Actors : b # a => sig'[b] = sig[b]
  BY ThenSub DEF Advances, Sigs, flagVars
<1>2. sub' = sub /\ sig[a] # "claim" /\ UNCHANGED <<queueVars, flagVars>> /\ Advanced
  BY DEF Advances
<1> QED  BY <1>1, <1>2, AdvancedSame, SubmitCounts

LEMMA WakesCounts ==
    ASSUME Types, Counts, NEW a \in Actors, Wakes(a)
    PROVE  Counts'
<1>1. sig'[a] = "idle" /\ \A b \in Actors : b # a => sig'[b] = sig[b]
  BY ThenSub DEF Wakes, Sigs, flagVars
<1>2. sub' = sub /\ sig[a] # "claim" /\ UNCHANGED <<queueVars, flagVars>>
  BY DEF Wakes
<1>3. \A v \in Workers : (Spinner(worker'[v]) <=> Spinner(worker[v])) /\ SameIdle(v)
  <2>1. CASE UNCHANGED worker
    BY <2>1 DEF SameIdle
  <2>2. ASSUME NEW w \in Workers, Roused(w), NEW v \in Workers
        PROVE  (Spinner(worker'[v]) <=> Spinner(worker[v])) /\ SameIdle(v)
    BY <2>2 DEF Roused, Turn, Local, SameIdle, Spinner
  <2> QED  BY <2>1, <2>2 DEF Wakes
<1> QED  BY <1>1, <1>2, <1>3, SubmitCounts

\* The submit's own steps on the queues.
LEMMA SignalsCounts ==
    ASSUME Types, Counts, NEW a \in Actors, NEW s, Signals(a, s), UNCHANGED worker
    PROVE  /\ WorkerCounts' /\ sig'[a] = s
           /\ \A b \in Actors : b # a => sub'[b] = sub[b] /\ sig'[b] = sig[b]
           /\ sub'[a] = sub[a]
<1>1. WorkerCounts'
  BY SameCounts DEF Signals, SameIdle, Counts, flagVars
<1> QED  BY <1>1, SignalsSub DEF Signals

LEMMA DequesCounts ==
    ASSUME Types, Counts, NEW a \in Actors, Deques(a)
    PROVE  Counts'
<1>1. /\ WorkerCounts' /\ sig'[a] = "signal"
      /\ \A b \in Actors : b # a => sub'[b] = sub[b] /\ sig'[b] = sig[b]
  BY SignalsCounts DEF Deques
<1>2. YieldCounts'
  BY <1>1, ClaimingKept, YieldKept DEF Deques
<1>3. DequesFit'
  <2> SUFFICES ASSUME NEW u \in Workers PROVE Len(local_normal'[u]) <= DequeCap
    BY DEF DequesFit
  <2>1. local_normal \in [Workers -> Seq(Tasks)] /\ Len(local_normal[u]) <= DequeCap /\ DequeCap \in Nat
    BY Constants DEF Types, QueueTypes, Counts, DequesFit
  <2>2. CASE u = a
    <3>1. PICK d \in Seq(Tasks) : d = local_normal[a]
      BY <2>1, <2>2
    <3>2. Len(Append(d, sub[a])) = Len(d) + 1 /\ Len(d) \in Nat /\ Len(d) < DequeCap
      BY <3>1, Appended DEF Deques
    <3>3. local_normal'[u] = Append(d, sub[a])
      BY <2>1, <2>2, <3>1 DEF Deques
    <3>4. Len(d) + 1 <= DequeCap
      BY <2>1, <3>2
    <3> QED  BY <3>2, <3>3, <3>4
  <2>3. CASE u # a
    BY <2>1, <2>3 DEF Deques
  <2> QED  BY <2>2, <2>3
<1> QED  BY <1>1, <1>2, <1>3 DEF Counts

LEMMA ChoosesCounts ==
    ASSUME Types, Counts, NEW a \in Actors, NEW s \in {"count", "claim"}, Chooses(a, s)
    PROVE  Counts'
<1>1. /\ WorkerCounts' /\ sig'[a] = s /\ sub'[a] = sub[a]
      /\ \A b \in Actors : b # a => sub'[b] = sub[b] /\ sig'[b] = sig[b]
  BY SignalsCounts DEF Chooses
<1>2. \A c \in {"high", "normal"} : Claiming(c)' = Claiming(c)
  BY <1>1 DEF Chooses, Claiming
<1>3. YieldCounts' /\ DequesFit'
  BY <1>2, YieldKept DEF Chooses, queueVars, Counts, DequesFit
<1> QED  BY <1>1, <1>3 DEF Counts

LEMMA Counts1Counts ==
    ASSUME Types, Counts, NEW a \in Actors, Counts1(a)
    PROVE  Counts'
<1>1. /\ WorkerCounts' /\ sig'[a] = "claim" /\ sub'[a] = sub[a]
      /\ \A b \in Actors : b # a => sub'[b] = sub[b] /\ sig'[b] = sig[b]
  BY SignalsCounts DEF Counts1
<1>2. DequesFit'
  BY DEF Counts1, Counts, DequesFit
<1>3. YieldCounts'
  <2> SUFFICES ASSUME NEW c \in {"high", "normal"}
               PROVE  IsFiniteSet(Claiming(c)') /\ yield_signal'[c] = Len(queues'[c]) + Cardinality(Claiming(c)')
    BY DEF YieldCounts
  <2>1. PICK A, B : A = Claiming(c) /\ B = Claiming(c)'
    OBVIOUS
  <2>2. IsFiniteSet(A) /\ yield_signal[c] = Len(queues[c]) + Cardinality(A) /\ Cardinality(A) \in Nat
        /\ queues' = queues /\ Len(queues[c]) \in Nat
    BY <2>1, FS_CardinalityType DEF Counts, YieldCounts, Counts1, Types, QueueTypes, Classes
  <2>3. a \notin A /\ (a \in B <=> Priority[sub[a]] = c) /\ \A y : y # a => (y \in A <=> y \in B)
    BY <1>1, <2>1 DEF Counts1, Claiming
  <2>4. yield_signal \in [{"high", "normal"} -> Int]
    BY DEF Types, QueueTypes
  <2>5. CASE Priority[sub[a]] = c
    <3>1. IsFiniteSet(B) /\ Cardinality(B) = Cardinality(A) + 1
      BY <2>2, <2>3, <2>5, CardAdd
    <3>2. yield_signal'[c] = yield_signal[c] + 1
      BY <2>4, <2>5 DEF Counts1
    <3> QED  BY <2>1, <2>2, <3>1, <3>2
  <2>6. CASE Priority[sub[a]] # c
    <3>1. A = B
      BY <2>3, <2>6
    <3>2. yield_signal'[c] = yield_signal[c]
      BY <2>4, <2>6 DEF Counts1
    <3> QED  BY <2>1, <2>2, <3>1, <3>2
  <2> QED  BY <2>5, <2>6
<1> QED  BY <1>1, <1>2, <1>3 DEF Counts

LEMMA ClaimsSlotCounts ==
    ASSUME Types, Counts, NEW a \in Actors, NEW d \in Classes, ClaimsSlot(a, d)
    PROVE  Counts'
<1>1. /\ WorkerCounts' /\ sig'[a] = "publish" /\ sub'[a] = sub[a]
      /\ \A b \in Actors : b # a => sub'[b] = sub[b] /\ sig'[b] = sig[b]
  BY SignalsCounts DEF ClaimsSlot
<1>2. DequesFit'
  BY DEF ClaimsSlot, Counts, DequesFit
<1>3. YieldCounts'
  <2> SUFFICES ASSUME NEW c \in {"high", "normal"}
               PROVE  IsFiniteSet(Claiming(c)') /\ yield_signal'[c] = Len(queues'[c]) + Cardinality(Claiming(c)')
    BY DEF YieldCounts
  <2>1. PICK A, B : A = Claiming(c) /\ B = Claiming(c)'
    OBVIOUS
  <2>2. IsFiniteSet(A) /\ yield_signal[c] = Len(queues[c]) + Cardinality(A) /\ Cardinality(A) \in Nat
        /\ yield_signal' = yield_signal /\ c \in Classes /\ queues[c] \in Seq(Slot)
        /\ queues \in [Classes -> Seq(Slot)]
    BY <2>1, FS_CardinalityType DEF Counts, YieldCounts, ClaimsSlot, Types, QueueTypes, Classes
  <2>3. a \notin B /\ (a \in A <=> d = c) /\ \A y : y # a => (y \in A <=> y \in B)
    BY <1>1, <2>1 DEF ClaimsSlot, Claiming
  <2>4. CASE d = c
    <3>1. IsFiniteSet(B) /\ Cardinality(B) = Cardinality(A) - 1
      BY <2>2, <2>3, <2>4, CardDel
    <3>2. PICK x \in Slot : x = [task |-> sub[a], ready |-> FALSE]
      BY DEF Slot, ClaimsSlot
    <3>3. queues'[c] = Append(queues[c], x)
      BY <2>2, <2>4, <3>2 DEF ClaimsSlot
    <3>4. Len(queues'[c]) = Len(queues[c]) + 1 /\ Len(queues[c]) \in Nat
      BY <2>2, <3>3, Appended
    <3> QED  BY <2>1, <2>2, <3>1, <3>4
  <2>5. CASE d # c
    <3>1. A = B
      BY <2>3, <2>5
    <3>2. queues'[c] = queues[c]
      BY <2>2, <2>5 DEF ClaimsSlot
    <3> QED  BY <2>1, <2>2, <3>1, <3>2
  <2> QED  BY <2>4, <2>5
<1> QED  BY <1>1, <1>2, <1>3 DEF Counts

LEMMA PublishesCounts ==
    ASSUME Types, Counts, NEW a \in Actors, NEW d \in Classes, NEW i \in 1..Len(queues[d]),
           Publishes(a, d, i)
    PROVE  Counts'
<1>1. /\ WorkerCounts' /\ sig'[a] = "signal" /\ sub'[a] = sub[a]
      /\ \A b \in Actors : b # a => sub'[b] = sub[b] /\ sig'[b] = sig[b]
  BY SignalsCounts DEF Publishes
<1>2. DequesFit'
  BY DEF Publishes, Counts, DequesFit
<1>3. \A c \in {"high", "normal"} : Claiming(c)' = Claiming(c)
  BY <1>1, ClaimingKept DEF Publishes
<1>4. \A c \in {"high", "normal"} : Len(queues'[c]) = Len(queues[c])
  BY DEF Publishes, Classes
<1>5. YieldCounts'
  BY <1>3, <1>4 DEF Publishes, Counts, YieldCounts
<1> QED  BY <1>1, <1>2, <1>5 DEF Counts

LEMMA RelinquishesCounts ==
    ASSUME Types, Counts, NEW w \in Workers, Relinquishes(w)
    PROVE  Counts'
<1>1. Spinner(worker[w]) /\ ~Spinner(worker'[w])
  BY DEF Relinquishes, Spinner
<1>2. SpinMove(w) /\ IdleMove(w) /\ Local(w) /\ idle_policy' = idle_policy
  BY <1>1 DEF Relinquishes, SpinMove, IdleMove
<1>3. WorkerCounts'
  BY <1>2, LocalCounts DEF Counts
<1>4. sig'[w] \in {"idle", "promote"} /\ \A b \in Actors : b # w => sig'[b] = sig[b]
  BY DEF Relinquishes, Then, Types, SubTypes, Actors
<1>5. \A c \in {"high", "normal"} : Claiming(c)' = Claiming(c)
  BY <1>4, ClaimingKept DEF Relinquishes, Actors
<1>6. YieldCounts' /\ DequesFit'
  BY <1>5, YieldKept DEF Relinquishes, queueVars, Counts, DequesFit
<1> QED  BY <1>3, <1>6 DEF Counts

LEMMA InitCounts ==
    ASSUME Init
    PROVE  Counts
<1>1. \A w \in Workers : worker[w] = Thread
  BY DEF Init
<1>2. Thread.from = "main" /\ ~Thread.idle
  BY DEF Thread
<1>3. Spinners = {} /\ IdleOnes = {}
  BY <1>1, <1>2 DEF Spinners, Spinner, IdleOnes
<1>4. \A c : Claiming(c) = {}
  BY DEF Init, Claiming
<1>5. YieldCounts
  <2> SUFFICES ASSUME NEW c \in {"high", "normal"}
               PROVE  IsFiniteSet(Claiming(c)) /\ yield_signal[c] = Len(queues[c]) + Cardinality(Claiming(c))
    BY DEF YieldCounts
  <2>1. yield_signal[c] = 0 /\ queues[c] = <<>>
    BY DEF Init, Classes
  <2>2. Len(queues[c]) = 0
    BY <2>1
  <2>3. IsFiniteSet(Claiming(c)) /\ Cardinality(Claiming(c)) = 0
    BY <1>4, FS_EmptySet
  <2> QED  BY <2>1, <2>2, <2>3
<1>6. WorkerCounts
  BY <1>3, FS_EmptySet DEF WorkerCounts, Init
<1>7. DequesFit
  BY Constants DEF DequesFit, Init
<1> QED  BY <1>5, <1>6, <1>7 DEF Counts

LEMMA SignallingCounts ==
    ASSUME Types, Counts, NEW a \in Actors, Signalling(a)
    PROVE  Counts'
<1>1. CASE push(a)
  BY <1>1, pushForm, DequesCounts, ChoosesCounts
<1>2. CASE count(a)
  BY <1>2, countForm, Counts1Counts
<1>3. CASE claim(a)
  BY <1>3, claimForm, ClaimsSlotCounts
<1>4. CASE publish(a)
  BY <1>4, publishForm, PublishesCounts
<1>5. ASSUME NEW s \in {"idle", "wake"}, Signals(a, s), UNCHANGED <<queueVars, worker>>, sig[a] # "claim"
      PROVE  Counts'
  <2>1. /\ WorkerCounts' /\ sig'[a] = s
        /\ \A b \in Actors : b # a => sub'[b] = sub[b] /\ sig'[b] = sig[b]
    BY <1>5, SignalsCounts
  <2>2. \A v \in Workers : (Spinner(worker'[v]) <=> Spinner(worker[v])) /\ SameIdle(v)
    BY <1>5 DEF SameIdle
  <2> QED  BY <1>5, <2>1, <2>2, SubmitCounts DEF Signals
<1>6. CASE signal_submit(a)
  BY <1>5, <1>6, signal_submitForm, AdvancesCounts
<1>7. CASE spinners(a)
  BY <1>5, <1>7, spinnersForm DEF Looks
<1>8. CASE wake_one(a)
  BY <1>8, wake_oneForm, WakesCounts
<1> QED  BY <1>1, <1>2, <1>3, <1>4, <1>6, <1>7, <1>8 DEF Signalling

LEMMA FindWorkCounts ==
    ASSUME Types, Counts, NEW w \in Workers, FindWork(w)
    PROVE  Counts'
<1>1. CASE \E c \in Classes : Pops(w, c)
  BY <1>1, PopsCounts
<1>2. ASSUME NEW S, Scanned(w, S), S \cap {"run", "prepare"} = {}, worker[w].pc \in Scans PROVE Counts'
  BY <1>2, ScannedCounts DEF Scans
<1>3. CASE pop_high(w)
  BY <1>1, <1>2, <1>3, pop_highForm DEF Classes, Scans
<1>4. CASE low_valve(w)
  BY <1>1, <1>2, <1>4, low_valveForm DEF Classes, Scans
<1>5. CASE global_valve(w)
  BY <1>1, <1>2, <1>5, global_valveForm DEF Classes, Scans
<1>6. CASE take(w)
  BY <1>2, <1>6, takeForm, TakesCounts DEF Scans
<1>7. CASE pop_normal(w)
  BY <1>1, <1>2, <1>7, pop_normalForm DEF Classes, Scans
<1>8. CASE steal(w)
  BY <1>2, <1>8, stealForm, StealReadsCounts DEF Scans
<1>9. CASE steal_cas(w)
  BY <1>2, <1>9, steal_casForm, TakesCounts DEF Scans
<1>10. CASE pop_low(w)
  BY <1>1, <1>2, <1>10, pop_lowForm DEF Classes, Scans
<1> QED  BY <1>3, <1>4, <1>5, <1>6, <1>7, <1>8, <1>9, <1>10 DEF FindWork

LEMMA IdlingStepCounts ==
    ASSUME Types, Counts, NEW w \in Workers, Idling(w)
    PROVE  Counts'
<1>1. ASSUME NEW S, Scanned(w, S), S \cap {"run", "prepare"} = {},
             worker[w].pc \notin {"run", "prepare"} PROVE Counts'
  BY <1>1, ScannedCounts
<1>3. CASE quit_check(w)
  BY <1>1, <1>3, quit_checkForm
<1>4. CASE all_empty(w)
  BY <1>1, <1>4, all_emptyForm, IdlingCounts DEF GoesOn
<1>5. CASE wait_for_work(w)
  BY <1>5, wait_for_workForm, IdlingCounts
<1>6. CASE spin_check(w)
  BY <1>6, spin_checkForm, IdlingCounts
<1>7. CASE spun_out(w)
  BY <1>7, spun_outForm, IdlingCounts
<1>8. CASE relinquish(w)
  BY <1>8, relinquishForm, RelinquishesCounts
<1>9. CASE promote(w)
  BY <1>9, promoteForm, AdvancesCounts
<1>10. CASE prepare_wait(w)
  BY <1>10, prepare_waitForm, IdlingCounts
<1>11. CASE park_check(w)
  BY <1>1, <1>11, park_checkForm, IdlingCounts
<1>12. CASE commit_wait(w)
  BY <1>1, <1>12, commit_waitForm, IdlingCounts
<1> QED  BY <1>3, <1>4, <1>5, <1>6, <1>7, <1>8, <1>9, <1>10, <1>11, <1>12 DEF Idling

LEMMA DestructorCounts ==
    ASSUME Types, Counts, Destructor
    PROVE  Counts'
<1>1. UNCHANGED <<queueVars, subVars, num_spinning, idle_workers, idle_policy>>
  BY DEF Destructor, set_quit, advance_all, wake_all
<1>2. \A v \in Workers : (Spinner(worker'[v]) <=> Spinner(worker[v])) /\ SameIdle(v)
  <2>1. CASE set_quit
    BY <2>1 DEF set_quit, SameIdle
  <2>2. CASE advance_all
    BY <2>2, advance_allTypes, AdvancedSame
  <2>3. CASE wake_all
    <3>1. AllRoused
      BY <2>3, wake_allTypes
    <3>2. ASSUME NEW v \in Workers
          PROVE  (Spinner(worker'[v]) <=> Spinner(worker[v])) /\ SameIdle(v)
      <4>1. CASE worker'[v] = worker[v]
        BY <4>1 DEF SameIdle
      <4>2. CASE worker[v].pc = "asleep" /\ worker'[v].pc = "commit" /\ worker'[v].from = worker[v].from
                 /\ SameIdle(v)
        BY <4>2 DEF Spinner
      <4> QED  BY <3>1, <4>1, <4>2 DEF AllRoused
    <3> QED  BY <3>2
  <2> QED  BY <2>1, <2>2, <2>3 DEF Destructor
<1>3. WorkerCounts'
  BY <1>1, <1>2, SameCounts DEF Counts
<1> QED  BY <1>1, <1>3, QuietCounts

LEMMA CountsStep ==
    ASSUME Types, Counts, [Next]_vars
    PROVE  Counts'
<1>1. ASSUME NEW w \in Workers, WorkerStep(w) \/ yield_to_higher(w) PROVE Counts'
  <2>1. CASE Signalling(w)
    BY <2>1, SignallingCounts DEF Actors
  <2>2. CASE FindWork(w)
    BY <2>2, FindWorkCounts
  <2>3. CASE Idling(w)
    BY <2>3, IdlingStepCounts
  <2>4. CASE run_task(w)
    BY <2>4, run_taskForm, RunsCounts
  <2>5. CASE spawn(w)
    BY <2>5, spawnForm, ForksCounts
  <2>6. CASE return(w)
    BY <2>6, returnForm, IdlingCounts DEF Returns, ReturnsLast
  <2>7. CASE yield_to_higher(w)
    BY <2>7, yield_to_higherForm, YieldsCounts
  <2> QED  BY <1>1, <2>1, <2>2, <2>3, <2>4, <2>5, <2>6, <2>7 DEF WorkerStep
<1>2. ASSUME NEW e \in Externals, Signalling(e) \/ issue(e) PROVE Counts'
  BY <1>2, SignallingCounts, IssueCounts DEF Actors
<1>3. CASE Destructor
  BY <1>3, DestructorCounts
<1>4. CASE UNCHANGED vars
  <2>1. UNCHANGED <<queueVars, flagVars, worker, subVars, runs>>
    BY <1>4 DEF vars
  <2>2. WorkerCounts'
    BY <2>1, SameCounts DEF Counts, flagVars, SameIdle
  <2> QED  BY <2>1, <2>2, QuietCounts
<1> QED  BY <1>1, <1>2, <1>3, <1>4 DEF Next

\* The two layers give the property.
LEMMA CountsEnough ==
    ASSUME Types, Counts
    PROVE  CountsSafe
<1>1. num_spinning \in 0..N /\ idle_workers \in 0..N
  <2>1. Spinners \in SUBSET Workers /\ IdleOnes \in SUBSET Workers
    BY DEF Spinners, IdleOnes
  <2> QED  BY <2>1, WorkersFinite DEF Counts, WorkerCounts
<1>2. \A c \in {"high", "normal"} : yield_signal[c] \in Nat /\ yield_signal[c] >= Len(queues[c])
  <2> SUFFICES ASSUME NEW c \in {"high", "normal"}
               PROVE  yield_signal[c] \in Nat /\ yield_signal[c] >= Len(queues[c])
    OBVIOUS
  <2>1. PICK k \in Nat : k = Cardinality(Claiming(c)) /\ yield_signal[c] = Len(queues[c]) + k
    BY FS_CardinalityType DEF Counts, YieldCounts
  <2>2. Len(queues[c]) \in Nat
    BY DEF Types, QueueTypes, Classes
  <2> QED  BY <2>1, <2>2
<1>3. yield_signal \in [{"high", "normal"} -> Nat]
  BY <1>2 DEF Types, QueueTypes
<1>4. ASSUME NEW w \in Workers
      PROVE  /\ worker[w].got \in Tasks \cup {NoTask}
             /\ worker[w].moved \in BOOLEAN /\ worker[w].idle \in BOOLEAN
             /\ worker[w].frames \in Seq(Tasks \X (Nat \ {0}))
  BY DEF Types, Shapes, ThreadSet, Entry, Frame
<1>5. TypeOK
  BY <1>1, <1>3, <1>4 DEF TypeOK, Types, QueueTypes, FlagTypes, SubTypes, Shapes, Counts, DequesFit,
     Slot, Entry
<1>6. YieldCountsCover
  BY <1>2 DEF YieldCountsCover
<1>7. QuiescentRunsNothing
  <2> SUFFICES ASSUME idle_workers = N, NEW w \in Workers PROVE worker[w].frames = <<>>
    BY DEF QuiescentRunsNothing
  <2>1. IdleOnes \in SUBSET Workers /\ Cardinality(IdleOnes) = N
    BY DEF IdleOnes, Counts, WorkerCounts
  <2>2. worker[w].idle
    BY <2>1, WorkersFinite DEF IdleOnes
  <2> QED  BY <2>2 DEF Types, Shapes, Shaped
<1> QED  BY <1>5, <1>6, <1>7 DEF CountsSafe

\* Whatever the number of workers and of outside threads, the scheduler's advisory
\* counts err on the safe side: the yield points' counts cover their queues, the
\* spinner and idle counts stay between zero and the number of workers, and
\* quiescent() is false while a body runs.
THEOREM SchedulerCountsSafe == Spec => []CountsSafe
<1>1. Init => Types /\ Counts
  BY InitTypes, InitCounts
<1>2. Types /\ Counts /\ [Next]_vars => (Types /\ Counts)'
  BY TypesStep, CountsStep
<1>3. Types /\ Counts => CountsSafe
  BY CountsEnough
<1>4. Spec => SafetySpec
  BY DEF Spec
<1> QED  BY <1>1, <1>2, <1>3, <1>4, PTL DEF SafetySpec

-----------------------------------------------------------------------------
(* Layer 3, proved: where each entry is *)

(* --- what a step does to one kind of place --- *)

LEMMA QueuesTyped ==
    ASSUME Types, NEW c \in Classes
    PROVE  /\ queues \in [Classes -> Seq(Slot)] /\ queues[c] \in Seq(Slot) /\ Len(queues[c]) \in Nat
           /\ DOMAIN queues[c] = 1..Len(queues[c])
           /\ \A i \in 1..Len(queues[c]) : queues[c][i].task \in Tasks
<1>1. queues \in [Classes -> Seq(Slot)] /\ queues[c] \in Seq(Slot)
  BY DEF Types, QueueTypes
<1>2. Len(queues[c]) \in Nat /\ DOMAIN queues[c] = 1..Len(queues[c])
      /\ \A i \in 1..Len(queues[c]) : queues[c][i] \in Slot
  BY <1>1
<1> QED  BY <1>1, <1>2 DEF Slot

LEMMA popPlaces ==
    ASSUME Types, QueuedOnce, NEW c \in Classes, Poppable(c), queues' = [queues EXCEPT ![c] = Tail(@)]
    PROVE  First(c) \in Queued /\ Queued' = Queued \ {First(c)} /\ QueuedOnce'
<1>1. /\ queues \in [Classes -> Seq(Slot)] /\ queues[c] \in Seq(Slot) /\ queues[c] # <<>>
      /\ DOMAIN queues[c] = 1..Len(queues[c])
  BY QueuesTyped DEF Poppable
<1>2. PICK q \in Seq(Slot) : q = Tail(queues[c])
  BY <1>1, HeadTail
<1>3. PICK n \in Nat : n = Len(queues[c]) /\ n >= 1
  BY <1>1, HeadTail
<1>4. /\ Len(q) = n - 1 /\ \A i \in 1..(n - 1) : q[i] = queues[c][i + 1]
      /\ First(c) = queues[c][1].task
  BY <1>1, <1>2, <1>3, HeadTail DEF First
<1>5. queues'[c] = q /\ DOMAIN q = 1..(n - 1) /\ \A d \in Classes : d # c => queues'[d] = queues[d]
  <2>1. queues'[c] = Tail(queues[c]) /\ \A d \in Classes : d # c => queues'[d] = queues[d]
    BY <1>1
  <2>2. DOMAIN q = 1..Len(q)
    BY <1>2, LenProperties
  <2> QED  BY <1>2, <1>4, <2>1, <2>2
<1>6. \A i \in 1..n : i # 1 => i - 1 \in 1..(n - 1) /\ q[i - 1] = queues[c][i]
  <2> SUFFICES ASSUME NEW i \in 1..n, i # 1
               PROVE  i - 1 \in 1..(n - 1) /\ q[i - 1] = queues[c][i]
    OBVIOUS
  <2>1. PICK k \in 1..(n - 1) : k = i - 1 /\ k + 1 = i
    OBVIOUS
  <2> QED  BY <1>4, <2>1
<1>7. \A i \in 1..(n - 1) : i + 1 \in 1..n /\ i + 1 # 1 /\ q[i] = queues[c][i + 1]
  <2>1. \A i \in 1..(n - 1) : i + 1 \in 1..n /\ i + 1 # 1
    BY <1>3
  <2> QED  BY <1>4, <2>1
<1>8. 1 \in 1..n /\ DOMAIN queues[c] = 1..n
  BY <1>1, <1>3
<1>9. First(c) \in Tasks
  <2>1. queues[c][1] \in Slot
    BY <1>1, <1>3
  <2> QED  BY <1>4, <2>1 DEF Slot
<1>10. First(c) \in Queued
  BY <1>4, <1>8, <1>9 DEF Queued
<1>11. ASSUME NEW d \in Classes, NEW i \in DOMAIN queues'[d]
       PROVE  \E j \in DOMAIN queues[d] : /\ queues'[d][i] = queues[d][j] /\ (d = c => j = i + 1 /\ j # 1)
                                          /\ (d # c => j = i)
  BY <1>5, <1>7, <1>8, <1>11
<1>12. QueuedOnce'
  <2> SUFFICES ASSUME NEW d \in Classes, NEW e \in Classes, NEW i \in DOMAIN queues'[d],
                      NEW j \in DOMAIN queues'[e], queues'[d][i].task = queues'[e][j].task
               PROVE  d = e /\ i = j
    BY DEF QueuedOnce
  <2>1. PICK k \in DOMAIN queues[d] : queues'[d][i] = queues[d][k] /\ (d = c => k = i + 1) /\ (d # c => k = i)
    BY <1>11
  <2>2. PICK l \in DOMAIN queues[e] : queues'[e][j] = queues[e][l] /\ (e = c => l = j + 1) /\ (e # c => l = j)
    BY <1>11
  <2>3. d = e /\ k = l
    BY <2>1, <2>2 DEF QueuedOnce
  <2>4. CASE d # c
    BY <2>1, <2>2, <2>3, <2>4
  <2>5. CASE d = c
    <3>1. i \in Nat /\ j \in Nat
      BY <1>5, <2>3, <2>5
    <3> QED  BY <2>1, <2>2, <2>3, <2>5, <3>1
  <2> QED  BY <2>4, <2>5
<1>13. ASSUME NEW t \in Tasks PROVE t \in Queued' <=> t \in Queued /\ t # First(c)
  <2>1. ASSUME t \in Queued' PROVE t \in Queued /\ t # First(c)
    <3>0. PICK d \in Classes : \E i \in DOMAIN queues'[d] : queues'[d][i].task = t
      BY <2>1 DEF Queued
    <3>1. PICK i \in DOMAIN queues'[d] : queues'[d][i].task = t
      BY <3>0
    <3>2. PICK j \in DOMAIN queues[d] : queues'[d][i] = queues[d][j] /\ (d = c => j # 1)
      BY <1>11
    <3>3. t \in Queued
      BY <3>1, <3>2 DEF Queued
    <3>4. t # First(c)
      BY <1>4, <1>8, <3>1, <3>2 DEF QueuedOnce
    <3> QED  BY <3>3, <3>4
  <2>2. ASSUME t \in Queued, t # First(c) PROVE t \in Queued'
    <3>0. PICK d \in Classes : \E i \in DOMAIN queues[d] : queues[d][i].task = t
      BY <2>2 DEF Queued
    <3>1. PICK i \in DOMAIN queues[d] : queues[d][i].task = t
      BY <3>0
    <3>2. \E j \in DOMAIN queues'[d] : queues'[d][j] = queues[d][i]
      <4>1. CASE d # c
        BY <1>5, <4>1
      <4>2. CASE d = c
        <5>1. i \in 1..n /\ i # 1
          BY <1>4, <1>8, <2>2, <3>1, <4>2
        <5> QED  BY <1>5, <1>6, <4>2, <5>1
      <4> QED  BY <4>1, <4>2
    <3> QED  BY <3>1, <3>2 DEF Queued
  <2> QED  BY <2>1, <2>2
<1>14. Queued' = Queued \ {First(c)}
  BY <1>13 DEF Queued
<1> QED  BY <1>10, <1>12, <1>14

LEMMA claimPlaces ==
    ASSUME Types, QueuedOnce, NEW a, NEW c \in Classes, ClaimsSlot(a, c), sub[a] \notin Queued
    PROVE  Queued' = Queued \cup {sub[a]} /\ QueuedOnce'
<1>1. /\ queues \in [Classes -> Seq(Slot)] /\ queues[c] \in Seq(Slot)
      /\ DOMAIN queues[c] = 1..Len(queues[c]) /\ sub[a] \in Tasks
  BY QueuesTyped DEF ClaimsSlot
<1> DEFINE y == [task |-> sub[a], ready |-> FALSE]
<1>15. y \in Slot /\ y.task = sub[a]
  BY <1>1 DEF Slot
<1>2. PICK x \in Slot : x = y /\ x.task = sub[a]
  BY <1>15
<1>3. PICK q \in Seq(Slot) : q = Append(queues[c], x)
  BY <1>1, Appended
<1>4. PICK n \in Nat : n = Len(queues[c])
  BY QueuesTyped
<1>5. Len(q) = n + 1 /\ q[n + 1] = x /\ \A i \in 1..n : q[i] = queues[c][i]
  BY <1>1, <1>3, <1>4, Appended
<1>16. queues' = [queues EXCEPT ![c] = q]
  BY <1>2, <1>3 DEF ClaimsSlot
<1>17. DOMAIN q = 1..(n + 1)
  BY <1>3, <1>5
<1>6. queues'[c] = q /\ DOMAIN q = 1..(n + 1) /\ \A d \in Classes : d # c => queues'[d] = queues[d]
  BY <1>1, <1>16, <1>17
<1>7. \A i \in 1..(n + 1) : i = n + 1 \/ i \in 1..n
  BY <1>4
<1>8. \A i \in 1..n : i \in 1..(n + 1) /\ i # n + 1
  BY <1>4
<1>9. DOMAIN queues[c] = 1..n /\ n + 1 \in 1..(n + 1)
  BY <1>1, <1>4
<1>10. ASSUME NEW d \in Classes, NEW i \in DOMAIN queues'[d]
       PROVE  \/ d = c /\ i = n + 1 /\ queues'[d][i].task = sub[a]
              \/ i \in DOMAIN queues[d] /\ queues'[d][i] = queues[d][i]
  BY <1>2, <1>5, <1>6, <1>7, <1>9, <1>10
<1>11. ASSUME NEW d \in Classes, NEW i \in DOMAIN queues[d]
       PROVE  i \in DOMAIN queues'[d] /\ queues'[d][i] = queues[d][i] /\ queues[d][i].task # sub[a]
  <2>1. queues[d][i].task # sub[a]
    BY <1>1, <1>11 DEF Queued
  <2> QED  BY <1>5, <1>6, <1>8, <1>9, <1>11, <2>1
<1>12. QueuedOnce'
  <2> SUFFICES ASSUME NEW d \in Classes, NEW e \in Classes, NEW i \in DOMAIN queues'[d],
                      NEW j \in DOMAIN queues'[e], queues'[d][i].task = queues'[e][j].task
               PROVE  d = e /\ i = j
    BY DEF QueuedOnce
  <2> QED  BY <1>10, <1>11 DEF QueuedOnce
<1>13. ASSUME NEW t \in Tasks PROVE t \in Queued' <=> t \in Queued \/ t = sub[a]
  <2>1. ASSUME t \in Queued' PROVE t \in Queued \/ t = sub[a]
    BY <1>10, <2>1 DEF Queued
  <2>2. ASSUME t \in Queued PROVE t \in Queued'
    BY <1>11, <2>2 DEF Queued
  <2>3. sub[a] \in Queued'
    BY <1>1, <1>2, <1>5, <1>6, <1>9 DEF Queued
  <2> QED  BY <2>1, <2>2, <2>3
<1>14. Queued' = Queued \cup {sub[a]}
  BY <1>1, <1>13 DEF Queued
<1> QED  BY <1>12, <1>14

LEMMA publishPlaces ==
    ASSUME Types, QueuedOnce, NEW a, NEW c \in Classes, NEW i \in 1..Len(queues[c]), Publishes(a, c, i)
    PROVE  Queued' = Queued /\ QueuedOnce'
<1>1. /\ queues' \in [Classes -> Seq(Slot)] /\ Len(queues'[c]) = Len(queues[c])
      /\ \A d \in Classes : d # c => queues'[d] = queues[d]
  BY DEF Publishes
<1>2. \A d \in Classes : DOMAIN queues[d] = 1..Len(queues[d]) /\ DOMAIN queues'[d] = 1..Len(queues'[d])
  BY <1>1, QueuesTyped
<1>3. \A d \in Classes : DOMAIN queues'[d] = DOMAIN queues[d]
  BY <1>1, <1>2
<1>4. ASSUME NEW d \in Classes, NEW j \in DOMAIN queues[d] PROVE queues'[d][j].task = queues[d][j].task
  <2>1. CASE d = c /\ j = i
    BY <2>1 DEF Publishes
  <2>2. CASE d = c /\ j # i
    BY <1>2, <1>4, <2>2 DEF Publishes
  <2>3. CASE d # c
    BY <1>1, <2>3
  <2> QED  BY <2>1, <2>2, <2>3
<1>5. QueuedOnce'
  BY <1>3, <1>4 DEF QueuedOnce
<1>6. Queued' = Queued
  BY <1>3, <1>4 DEF Queued
<1> QED  BY <1>5, <1>6

LEMMA DequesTyped ==
    ASSUME Types, NEW w \in Workers
    PROVE  /\ local_normal \in [Workers -> Seq(Tasks)] /\ local_normal[w] \in Seq(Tasks)
           /\ Len(local_normal[w]) \in Nat /\ DOMAIN local_normal[w] = 1..Len(local_normal[w])
<1>1. local_normal \in [Workers -> Seq(Tasks)] /\ local_normal[w] \in Seq(Tasks)
  BY DEF Types, QueueTypes
<1> QED  BY <1>1, LenProperties

\* The cells of w's deque become those of d; the others stay.
Cells(w, d) ==
    local_normal'[w] = d /\ \A v \in Workers : v # w => local_normal'[v] = local_normal[v]

LEMMA dequePlaces ==
    ASSUME Types, DequedOnce, NEW w \in Workers, NEW t \in Tasks, t \notin Dequed,
           local_normal' = [local_normal EXCEPT ![w] = Append(@, t)]
    PROVE  Dequed' = Dequed \cup {t} /\ DequedOnce'
<1>1. /\ local_normal \in [Workers -> Seq(Tasks)] /\ local_normal[w] \in Seq(Tasks)
      /\ DOMAIN local_normal[w] = 1..Len(local_normal[w])
  BY DequesTyped
<1>2. PICK q \in Seq(Tasks) : q = Append(local_normal[w], t)
  BY <1>1, Appended
<1>3. PICK n \in Nat : n = Len(local_normal[w])
  BY DequesTyped
<1>4. Len(q) = n + 1 /\ q[n + 1] = t /\ \A i \in 1..n : q[i] = local_normal[w][i]
  BY <1>1, <1>2, <1>3, Appended
<1>5. DOMAIN q = 1..(n + 1)
  BY <1>2, <1>4, LenProperties
<1>6. Cells(w, q)
  BY <1>1, <1>2 DEF Cells
<1>7. \A i \in 1..(n + 1) : i = n + 1 \/ i \in 1..n
  BY <1>3
<1>8. \A i \in 1..n : i \in 1..(n + 1) /\ i # n + 1
  BY <1>3
<1>9. DOMAIN local_normal[w] = 1..n /\ n + 1 \in 1..(n + 1)
  BY <1>1, <1>3
<1>10. ASSUME NEW v \in Workers, NEW i \in DOMAIN local_normal'[v]
       PROVE  \/ v = w /\ i = n + 1 /\ local_normal'[v][i] = t
              \/ i \in DOMAIN local_normal[v] /\ local_normal'[v][i] = local_normal[v][i]
  BY <1>4, <1>5, <1>6, <1>7, <1>9, <1>10 DEF Cells
<1>11. ASSUME NEW v \in Workers, NEW i \in DOMAIN local_normal[v]
       PROVE  /\ i \in DOMAIN local_normal'[v] /\ local_normal'[v][i] = local_normal[v][i]
              /\ local_normal[v][i] # t
  <2>1. local_normal[v][i] # t
    BY <1>11 DEF Dequed
  <2> QED  BY <1>4, <1>5, <1>6, <1>8, <1>9, <1>11, <2>1 DEF Cells
<1>12. DequedOnce'
  <2> SUFFICES ASSUME NEW v \in Workers, NEW x \in Workers, NEW i \in DOMAIN local_normal'[v],
                      NEW j \in DOMAIN local_normal'[x], local_normal'[v][i] = local_normal'[x][j]
               PROVE  v = x /\ i = j
    BY DEF DequedOnce
  <2> QED  BY <1>10, <1>11 DEF DequedOnce
<1>13. ASSUME NEW u \in Tasks PROVE u \in Dequed' <=> u \in Dequed \/ u = t
  <2>1. ASSUME u \in Dequed' PROVE u \in Dequed \/ u = t
    BY <1>10, <2>1 DEF Dequed
  <2>2. ASSUME u \in Dequed PROVE u \in Dequed'
    BY <1>11, <2>2 DEF Dequed
  <2>3. t \in Dequed'
    BY <1>4, <1>5, <1>6, <1>9 DEF Dequed, Cells
  <2> QED  BY <2>1, <2>2, <2>3
<1>14. Dequed' = Dequed \cup {t}
  BY <1>13 DEF Dequed
<1> QED  BY <1>12, <1>14

LEMMA takePlaces ==
    ASSUME Types, DequedOnce, NEW w \in Workers, local_normal[w] # <<>>,
           local_normal' = [local_normal EXCEPT ![w] = SubSeq(@, 1, Len(@) - 1)]
    PROVE  LET t == local_normal[w][Len(local_normal[w])] IN
           t \in Dequed /\ Dequed' = Dequed \ {t} /\ DequedOnce'
<1>1. /\ local_normal \in [Workers -> Seq(Tasks)] /\ local_normal[w] \in Seq(Tasks)
      /\ DOMAIN local_normal[w] = 1..Len(local_normal[w])
  BY DequesTyped
<1>2. PICK n \in Nat : n = Len(local_normal[w]) /\ n >= 1
  BY <1>1, Front
<1>3. PICK q \in Seq(Tasks) : q = SubSeq(local_normal[w], 1, Len(local_normal[w]) - 1)
  BY <1>1, Front
<1>4. Len(q) = n - 1 /\ \A i \in 1..(n - 1) : q[i] = local_normal[w][i]
  BY <1>1, <1>2, <1>3, Front
<1>5. DOMAIN q = 1..(n - 1)
  BY <1>3, <1>4, LenProperties
<1>6. Cells(w, q)
  BY <1>1, <1>3 DEF Cells
<1>7. /\ \A i \in 1..(n - 1) : i \in 1..n /\ i # n
      /\ \A i \in 1..n : i # n => i \in 1..(n - 1)
      /\ n \in 1..n
  BY <1>2
<1>8. DOMAIN local_normal[w] = 1..n
  BY <1>1, <1>2
<1>9. PICK t \in Tasks : t = local_normal[w][n]
  <2>1. local_normal[w][n] \in Tasks
    BY <1>1, <1>7, <1>8
  <2> QED  BY <2>1
<1>10. t \in Dequed
  BY <1>7, <1>8, <1>9 DEF Dequed
<1>11. ASSUME NEW v \in Workers, NEW i \in DOMAIN local_normal'[v]
       PROVE  /\ i \in DOMAIN local_normal[v] /\ local_normal'[v][i] = local_normal[v][i]
              /\ local_normal[v][i] # t
  <2>1. i \in DOMAIN local_normal[v] /\ local_normal'[v][i] = local_normal[v][i] /\ (v = w => i # n)
    BY <1>4, <1>5, <1>6, <1>7, <1>8, <1>11 DEF Cells
  <2>2. local_normal[v][i] # t
    BY <1>7, <1>8, <1>9, <2>1 DEF DequedOnce
  <2> QED  BY <2>1, <2>2
<1>12. ASSUME NEW v \in Workers, NEW i \in DOMAIN local_normal[v], local_normal[v][i] # t
       PROVE  i \in DOMAIN local_normal'[v] /\ local_normal'[v][i] = local_normal[v][i]
  <2>1. CASE v # w
    BY <1>6, <1>12, <2>1 DEF Cells
  <2>2. CASE v = w
    <3>1. i \in 1..(n - 1)
      BY <1>7, <1>8, <1>9, <1>12, <2>2
    <3> QED  BY <1>4, <1>5, <1>6, <2>2, <3>1 DEF Cells
  <2> QED  BY <2>1, <2>2
<1>13. DequedOnce'
  <2> SUFFICES ASSUME NEW v \in Workers, NEW x \in Workers, NEW i \in DOMAIN local_normal'[v],
                      NEW j \in DOMAIN local_normal'[x], local_normal'[v][i] = local_normal'[x][j]
               PROVE  v = x /\ i = j
    BY DEF DequedOnce
  <2> QED  BY <1>11 DEF DequedOnce
<1>14. ASSUME NEW u \in Tasks PROVE u \in Dequed' <=> u \in Dequed /\ u # t
  <2>1. ASSUME u \in Dequed' PROVE u \in Dequed /\ u # t
    BY <1>11, <2>1 DEF Dequed
  <2>2. ASSUME u \in Dequed, u # t PROVE u \in Dequed'
    BY <1>12, <2>2 DEF Dequed
  <2> QED  BY <2>1, <2>2
<1>15. Dequed' = Dequed \ {t}
  BY <1>14 DEF Dequed
<1> QED  BY <1>2, <1>9, <1>10, <1>13, <1>15

LEMMA stealPlaces ==
    ASSUME Types, DequedOnce, NEW w \in Workers, local_normal[w] # <<>>,
           local_normal' = [local_normal EXCEPT ![w] = Tail(@)]
    PROVE  LET t == Head(local_normal[w]) IN
           t \in Dequed /\ Dequed' = Dequed \ {t} /\ DequedOnce'
<1>1. /\ local_normal \in [Workers -> Seq(Tasks)] /\ local_normal[w] \in Seq(Tasks)
      /\ DOMAIN local_normal[w] = 1..Len(local_normal[w])
  BY DequesTyped
<1>2. PICK n \in Nat : n = Len(local_normal[w]) /\ n >= 1
  BY <1>1, HeadTail
<1>3. PICK q \in Seq(Tasks) : q = Tail(local_normal[w])
  BY <1>1, HeadTail
<1>4. Len(q) = n - 1 /\ \A i \in 1..(n - 1) : q[i] = local_normal[w][i + 1]
  BY <1>1, <1>2, <1>3, HeadTail
<1>5. DOMAIN q = 1..(n - 1)
  BY <1>3, <1>4, LenProperties
<1>6. Cells(w, q)
  BY <1>1, <1>3 DEF Cells
<1>7. /\ \A i \in 1..(n - 1) : i + 1 \in 1..n /\ i + 1 # 1
      /\ 1 \in 1..n
  BY <1>2
<1>8. DOMAIN local_normal[w] = 1..n
  BY <1>1, <1>2
<1>9. PICK t \in Tasks : t = local_normal[w][1] /\ t = Head(local_normal[w])
  BY <1>1, <1>2, <1>7, HeadTail
<1>10. t \in Dequed
  BY <1>7, <1>8, <1>9 DEF Dequed
<1>11. ASSUME NEW v \in Workers, NEW i \in DOMAIN local_normal'[v]
       PROVE  \E j \in DOMAIN local_normal[v] :
                  /\ local_normal'[v][i] = local_normal[v][j] /\ local_normal[v][j] # t
                  /\ (v = w => j = i + 1) /\ (v # w => j = i)
  <2>1. PICK j \in DOMAIN local_normal[v] : /\ local_normal'[v][i] = local_normal[v][j]
                                            /\ (v = w => j = i + 1 /\ j # 1) /\ (v # w => j = i)
    BY <1>4, <1>5, <1>6, <1>7, <1>8, <1>11 DEF Cells
  <2>2. local_normal[v][j] # t
    BY <1>7, <1>8, <1>9, <2>1 DEF DequedOnce
  <2> QED  BY <2>1, <2>2
<1>12. ASSUME NEW v \in Workers, NEW i \in DOMAIN local_normal[v], local_normal[v][i] # t
       PROVE  \E j \in DOMAIN local_normal'[v] : local_normal'[v][j] = local_normal[v][i]
  <2>1. CASE v # w
    BY <1>6, <1>12, <2>1 DEF Cells
  <2>2. CASE v = w
    <3>1. i \in 1..n /\ i # 1
      BY <1>8, <1>9, <1>12, <2>2
    <3>2. PICK k \in 1..(n - 1) : k + 1 = i
      <4>1. i - 1 \in 1..(n - 1) /\ (i - 1) + 1 = i
        BY <3>1
      <4> QED  BY <4>1
    <3> QED  BY <1>4, <1>5, <1>6, <2>2, <3>2 DEF Cells
  <2> QED  BY <2>1, <2>2
<1>13. DequedOnce'
  <2> SUFFICES ASSUME NEW v \in Workers, NEW x \in Workers, NEW i \in DOMAIN local_normal'[v],
                      NEW j \in DOMAIN local_normal'[x], local_normal'[v][i] = local_normal'[x][j]
               PROVE  v = x /\ i = j
    BY DEF DequedOnce
  <2>1. PICK k \in DOMAIN local_normal[v] : /\ local_normal'[v][i] = local_normal[v][k]
                                            /\ (v = w => k = i + 1) /\ (v # w => k = i)
    BY <1>11
  <2>2. PICK l \in DOMAIN local_normal[x] : /\ local_normal'[x][j] = local_normal[x][l]
                                            /\ (x = w => l = j + 1) /\ (x # w => l = j)
    BY <1>11
  <2>3. v = x /\ k = l
    BY <2>1, <2>2 DEF DequedOnce
  <2>4. CASE v # w
    BY <2>1, <2>2, <2>3, <2>4
  <2>5. CASE v = w
    <3>1. i \in Nat /\ j \in Nat
      BY <1>5, <1>6, <2>3, <2>5 DEF Cells
    <3> QED  BY <2>1, <2>2, <2>3, <2>5, <3>1
  <2> QED  BY <2>4, <2>5
<1>14. ASSUME NEW u \in Tasks PROVE u \in Dequed' <=> u \in Dequed /\ u # t
  <2>1. ASSUME u \in Dequed' PROVE u \in Dequed /\ u # t
    BY <1>11, <2>1 DEF Dequed
  <2>2. ASSUME u \in Dequed, u # t PROVE u \in Dequed'
    BY <1>12, <2>2 DEF Dequed
  <2> QED  BY <2>1, <2>2
<1>15. Dequed' = Dequed \ {t}
  BY <1>14 DEF Dequed
<1> QED  BY <1>9, <1>10, <1>13, <1>15

LEMMA HeldSame ==
    ASSUME HeldOnce, \A v \in Workers : worker'[v].got = worker[v].got
    PROVE  Held' = Held /\ HeldOnce'
BY DEF Held, HeldOnce

LEMMA HeldGain ==
    ASSUME HeldOnce, NEW w \in Workers, NEW t \in Tasks, t \notin Held, worker'[w].got = t,
           worker[w].got = NoTask, \A v \in Workers : v # w => worker'[v] = worker[v]
    PROVE  Held' = Held \cup {t} /\ HeldOnce'
<1>1. NoTask \notin Tasks
  BY Constants
<1>2. \A v \in Workers : v # w => worker'[v].got = worker[v].got /\ worker[v].got # t
  BY DEF Held
<1>3. HeldOnce'
  BY <1>2 DEF HeldOnce
<1>4. \A u \in Tasks : u \in Held' <=> u \in Held \/ u = t
  BY <1>1, <1>2 DEF Held
<1>5. Held' = Held \cup {t}
  BY <1>4 DEF Held
<1> QED  BY <1>3, <1>5

LEMMA HeldLose ==
    ASSUME HeldOnce, NEW w \in Workers, worker[w].got \in Tasks, worker'[w].got = NoTask,
           \A v \in Workers : v # w => worker'[v] = worker[v]
    PROVE  worker[w].got \in Held /\ Held' = Held \ {worker[w].got} /\ HeldOnce'
<1>1. NoTask \notin Tasks
  BY Constants
<1>2. \A v \in Workers : v # w => worker'[v].got = worker[v].got /\ worker[v].got # worker[w].got
  BY <1>1 DEF HeldOnce
<1>3. HeldOnce'
  BY <1>2 DEF HeldOnce
<1>4. \A u \in Tasks : u \in Held' <=> u \in Held /\ u # worker[w].got
  BY <1>1, <1>2 DEF Held
<1>5. Held' = Held \ {worker[w].got}
  BY <1>4 DEF Held
<1> QED  BY <1>3, <1>5 DEF Held

LEMMA SubmittingSame ==
    ASSUME SubmittingOnce, Origin, sub' = sub,
           \A a \in Actors : sig'[a] \in Claims <=> sig[a] \in Claims
    PROVE  Submitting' = Submitting /\ SubmittingOnce' /\ Origin'
<1>1. Submitting' = Submitting
  BY DEF Submitting
<1>2. SubmittingOnce'
  BY DEF SubmittingOnce
<1>3. Origin'
  BY DEF Origin, Actors
<1> QED  BY <1>1, <1>2, <1>3

LEMMA SubmittingLose ==
    ASSUME SubmittingOnce, Origin, NEW a \in Actors, sig[a] \in Claims, sig'[a] \notin Claims,
           sub[a] \in Tasks, sub' = sub, \A b \in Actors : b # a => sig'[b] = sig[b]
    PROVE  /\ sub[a] \in Submitting /\ Submitting' = Submitting \ {sub[a]} /\ SubmittingOnce' /\ Origin'
<1>1. \A b \in Actors : sig'[b] \in Claims => sig[b] \in Claims /\ b # a
  OBVIOUS
<1>2. SubmittingOnce'
  BY <1>1 DEF SubmittingOnce
<1>3. Origin'
  BY <1>1 DEF Origin, Actors
<1>4. \A u \in Tasks : u \in Submitting' <=> u \in Submitting /\ u # sub[a]
  BY <1>1 DEF Submitting, SubmittingOnce
<1>5. Submitting' = Submitting \ {sub[a]}
  BY <1>4 DEF Submitting
<1> QED  BY <1>2, <1>3, <1>5 DEF Submitting

LEMMA SubmittingGain ==
    ASSUME SubmittingOnce, NEW a \in Actors, NEW t \in Tasks, t \notin Submitting,
           sig[a] \notin Claims, sig'[a] \in Claims, sub'[a] = t,
           \A b \in Actors : b # a => sub'[b] = sub[b] /\ sig'[b] = sig[b]
    PROVE  Submitting' = Submitting \cup {t} /\ SubmittingOnce'
<1>1. \A b \in Actors : b # a /\ sig'[b] \in Claims => sig[b] \in Claims /\ sub'[b] = sub[b] /\ sub[b] # t
  BY DEF Submitting
<1>2. SubmittingOnce'
  BY <1>1 DEF SubmittingOnce
<1>3. \A u \in Tasks : u \in Submitting' <=> u \in Submitting \/ u = t
  BY <1>1 DEF Submitting
<1>4. Submitting' = Submitting \cup {t}
  BY <1>3 DEF Submitting
<1> QED  BY <1>2, <1>4

LEMMA RanGain ==
    ASSUME Types, RanOnce, NEW t \in Tasks, t \notin Ran, Started(t)
    PROVE  Ran' = Ran \cup {t} /\ RanOnce' /\ runs[t] = 0 /\ runs'[t] = 1
<1>1. runs[t] = 0
  BY DEF Ran
<1>2. runs'[t] = 1 /\ \A u \in Tasks : u # t => runs'[u] = runs[u]
  BY <1>1, StartedTypes
<1>3. RanOnce'
  BY <1>2 DEF RanOnce
<1>4. \A u \in Tasks : u \in Ran' <=> u \in Ran \/ u = t
  BY <1>2 DEF Ran
<1>5. Ran' = Ran \cup {t}
  BY <1>4 DEF Ran
<1> QED  BY <1>1, <1>2, <1>3, <1>5

LEMMA FramesSame ==
    ASSUME FramesOnce, FramesRan, runs' = runs,
           \A v \in Workers : worker'[v].frames = worker[v].frames
    PROVE  FramesOnce' /\ FramesRan' /\ Forked' = Forked
<1>1. FramesOnce' /\ FramesRan'
  BY DEF FramesOnce, FramesRan
<1>2. \A u, i : Behind(u, i)' <=> Behind(u, i)
  BY DEF Behind
<1>3. Forked' = Forked
  BY <1>2 DEF Forked
<1> QED  BY <1>1, <1>3

LEMMA SpawnsTyped ==
    ASSUME NEW u \in Tasks
    PROVE  /\ Spawns[u] \in Seq(Tasks) /\ Len(Spawns[u]) \in Nat /\ DOMAIN Spawns[u] = 1..Len(Spawns[u])
           /\ \A i \in DOMAIN Spawns[u] : i \in Nat /\ i >= 1 /\ i <= Len(Spawns[u]) /\ Spawns[u][i] \in Tasks
<1>1. Spawns[u] \in Seq(Tasks)
  BY Constants
<1>2. Len(Spawns[u]) \in Nat /\ DOMAIN Spawns[u] = 1..Len(Spawns[u])
  BY <1>1, LenProperties
<1>3. \A i \in DOMAIN Spawns[u] : Spawns[u][i] \in Tasks
  BY <1>1, <1>2
<1> QED  BY <1>1, <1>2, <1>3

LEMMA StackTyped ==
    ASSUME Types, NEW w \in Workers
    PROVE  /\ worker[w].frames \in Seq(Frame) /\ Len(worker[w].frames) \in Nat
           /\ DOMAIN worker[w].frames = 1..Len(worker[w].frames)
           /\ \A j \in DOMAIN worker[w].frames :
                worker[w].frames[j] \in Frame /\ worker[w].frames[j][1] \in Tasks
                /\ worker[w].frames[j][2] \in Nat
<1>1. worker[w].frames \in Seq(Frame)
  BY DEF Types, Shapes, ThreadSet
<1>2. Len(worker[w].frames) \in Nat /\ DOMAIN worker[w].frames = 1..Len(worker[w].frames)
  BY <1>1, LenProperties
<1>3. \A j \in DOMAIN worker[w].frames : worker[w].frames[j] \in Frame
  BY <1>1, <1>2
<1>4. \A f \in Frame : f[1] \in Tasks /\ f[2] \in Nat
  BY DEF Frame
<1> QED  BY <1>1, <1>2, <1>3, <1>4

\* The innermost body, which has submitted all it submits, leaves the stack.
LEMMA FramesDrop ==
    ASSUME Types, FramesOnce, FramesRan, runs' = runs, NEW w \in Workers,
           \A v \in Workers : v # w => worker'[v] = worker[v],
           worker[w].frames # <<>>, worker'[w].frames = Tail(worker[w].frames),
           Spawned(w) > Len(Spawns[Body(w)])
    PROVE  FramesOnce' /\ FramesRan' /\ Forked' = Forked
<1>1. /\ worker[w].frames \in Seq(Frame) /\ DOMAIN worker[w].frames = 1..Len(worker[w].frames)
  BY StackTyped
<1>2. PICK n \in Nat : n = Len(worker[w].frames) /\ n >= 1
  BY <1>1, HeadTail
<1>3. PICK s \in Seq(Frame) : s = Tail(worker[w].frames)
  BY <1>1, HeadTail
<1>4. Len(s) = n - 1 /\ \A i \in 1..(n - 1) : s[i] = worker[w].frames[i + 1]
  BY <1>1, <1>2, <1>3, HeadTail
<1>5. DOMAIN s = 1..(n - 1) /\ DOMAIN worker[w].frames = 1..n
  BY <1>1, <1>2, <1>3, <1>4, LenProperties
<1>6. \A j \in DOMAIN s : j \in Nat /\ j + 1 \in DOMAIN worker[w].frames /\ s[j] = worker[w].frames[j + 1]
  <2>1. \A j \in 1..(n - 1) : j \in Nat /\ j + 1 \in 1..n
    BY <1>2
  <2> QED  BY <1>4, <1>5, <2>1
<1>7. ASSUME NEW k \in DOMAIN worker[w].frames, k # 1
      PROVE  \E j \in DOMAIN s : s[j] = worker[w].frames[k]
  <2>1. k - 1 \in 1..(n - 1) /\ (k - 1) + 1 = k
    BY <1>5, <1>7
  <2> QED  BY <1>4, <1>5, <2>1
<1>8. ASSUME NEW v \in Workers, NEW j \in DOMAIN worker'[v].frames
      PROVE  \E k \in DOMAIN worker[v].frames : /\ worker'[v].frames[j] = worker[v].frames[k]
                                                /\ (v = w => j \in Nat /\ k = j + 1) /\ (v # w => k = j)
  BY <1>3, <1>6, <1>8
<1>9. FramesOnce'
  <2> SUFFICES ASSUME NEW v \in Workers, NEW x \in Workers, NEW i \in DOMAIN worker'[v].frames,
                      NEW j \in DOMAIN worker'[x].frames,
                      worker'[v].frames[i][1] = worker'[x].frames[j][1]
               PROVE  v = x /\ i = j
    BY DEF FramesOnce
  <2>1. PICK k \in DOMAIN worker[v].frames : /\ worker'[v].frames[i] = worker[v].frames[k]
                                             /\ (v = w => i \in Nat /\ k = i + 1) /\ (v # w => k = i)
    BY <1>8
  <2>2. PICK l \in DOMAIN worker[x].frames : /\ worker'[x].frames[j] = worker[x].frames[l]
                                             /\ (x = w => j \in Nat /\ l = j + 1) /\ (x # w => l = j)
    BY <1>8
  <2>3. v = x /\ k = l
    BY <2>1, <2>2 DEF FramesOnce
  <2>4. CASE v # w
    BY <2>1, <2>2, <2>3, <2>4
  <2>5. CASE v = w
    BY <2>1, <2>2, <2>3, <2>5
  <2> QED  BY <2>4, <2>5
<1>10. FramesRan'
  <2> SUFFICES ASSUME NEW v \in Workers, NEW j \in DOMAIN worker'[v].frames
               PROVE  runs[worker'[v].frames[j][1]] # 0
    BY DEF FramesRan
  <2> QED  BY <1>8 DEF FramesRan
<1>11. ASSUME NEW u \in Tasks, NEW i \in DOMAIN Spawns[u] PROVE Behind(u, i)' <=> Behind(u, i)
  <2>1. ASSUME Behind(u, i) PROVE Behind(u, i)'
    <3> SUFFICES ASSUME NEW v \in Workers, NEW j \in DOMAIN worker'[v].frames,
                        worker'[v].frames[j][1] = u
                 PROVE  i < worker'[v].frames[j][2]
      BY DEF Behind
    <3> QED  BY <1>8, <2>1 DEF Behind
  <2>2. ASSUME Behind(u, i)' PROVE Behind(u, i)
    <3> SUFFICES ASSUME NEW v \in Workers, NEW k \in DOMAIN worker[v].frames,
                        worker[v].frames[k][1] = u
                 PROVE  i < worker[v].frames[k][2]
      BY DEF Behind
    <3>1. CASE v = w /\ k = 1
      <4>1. PICK m \in Nat : m = Len(Spawns[u])
        BY SpawnsTyped
      <4>2. PICK p \in Nat : p = worker[w].frames[1][2]
        BY <3>1, StackTyped
      <4>3. i \in Nat /\ i <= m
        BY <4>1, SpawnsTyped
      <4>4. p > m
        BY <3>1, <4>1, <4>2 DEF Spawned, Body
      <4>5. i < p
        BY <4>3, <4>4
      <4> QED  BY <3>1, <4>2, <4>5
    <3>2. CASE v = w /\ k # 1
      <4>1. PICK j \in DOMAIN s : s[j] = worker[w].frames[k]
        BY <1>7, <3>2
      <4>2. j \in DOMAIN worker'[w].frames /\ worker'[w].frames[j] = worker[w].frames[k]
        BY <1>3, <4>1
      <4> QED  BY <2>2, <3>2, <4>2 DEF Behind
    <3>3. CASE v # w
      BY <2>2, <3>3 DEF Behind
    <3> QED  BY <3>1, <3>2, <3>3
  <2> QED  BY <2>1, <2>2
<1>12. Forked' = Forked
  BY <1>11 DEF Forked
<1> QED  BY <1>9, <1>10, <1>12

\* A body is started on top of w's stack.
Tops(w, t) ==
    /\ \A v \in Workers : v # w => worker'[v] = worker[v]
    /\ 1 \in DOMAIN worker'[w].frames /\ worker'[w].frames[1] = <<t, 1>>
    /\ \A j \in DOMAIN worker'[w].frames :
        j = 1 \/ \E k \in DOMAIN worker[w].frames : j = k + 1 /\ worker'[w].frames[j] = worker[w].frames[k]
    /\ \A k \in DOMAIN worker[w].frames :
        k + 1 \in DOMAIN worker'[w].frames /\ worker'[w].frames[k + 1] = worker[w].frames[k]

LEMMA FramesTop ==
    ASSUME Types, FramesOnce, FramesRan, NEW w \in Workers, NEW t \in Tasks, Tops(w, t),
           runs[t] = 0, runs'[t] = 1, \A u \in Tasks : u # t => runs'[u] = runs[u]
    PROVE  FramesOnce' /\ FramesRan' /\ Forked' = Forked
<1>1. \A v \in Workers : \A j \in DOMAIN worker[v].frames :
        worker[v].frames[j][1] \in Tasks /\ worker[v].frames[j][1] # t
  BY StackTyped DEF FramesRan
<1>2. <<t, 1>>[1] = t /\ <<t, 1>>[2] = 1
  OBVIOUS
<1>3. ASSUME NEW v \in Workers, NEW j \in DOMAIN worker'[v].frames
      PROVE  \/ v = w /\ j = 1 /\ worker'[v].frames[j] = <<t, 1>>
             \/ \E k \in DOMAIN worker[v].frames : /\ worker'[v].frames[j] = worker[v].frames[k]
                                                   /\ (v = w => j = k + 1) /\ (v # w => j = k)
  BY <1>3 DEF Tops
<1>4. ASSUME NEW v \in Workers, NEW k \in DOMAIN worker[v].frames
      PROVE  \E j \in DOMAIN worker'[v].frames : worker'[v].frames[j] = worker[v].frames[k]
  BY <1>4 DEF Tops
<1>5. FramesOnce'
  <2> SUFFICES ASSUME NEW v \in Workers, NEW x \in Workers, NEW i \in DOMAIN worker'[v].frames,
                      NEW j \in DOMAIN worker'[x].frames,
                      worker'[v].frames[i][1] = worker'[x].frames[j][1]
               PROVE  v = x /\ i = j
    BY DEF FramesOnce
  <2>1. CASE v = w /\ i = 1 /\ worker'[v].frames[i] = <<t, 1>>
    <3>1. ~ \E k \in DOMAIN worker[x].frames : worker'[x].frames[j] = worker[x].frames[k]
      BY <1>1, <1>2, <2>1
    <3>2. x = w /\ j = 1
      BY <1>3, <3>1
    <3> QED  BY <2>1, <3>2
  <2>2. CASE x = w /\ j = 1 /\ worker'[x].frames[j] = <<t, 1>>
    <3>1. ~ \E k \in DOMAIN worker[v].frames : worker'[v].frames[i] = worker[v].frames[k]
      BY <1>1, <1>2, <2>2
    <3>2. v = w /\ i = 1
      BY <1>3, <3>1
    <3> QED  BY <2>2, <3>2
  <2>3. CASE /\ \E k \in DOMAIN worker[v].frames : /\ worker'[v].frames[i] = worker[v].frames[k]
                                                   /\ (v = w => i = k + 1) /\ (v # w => i = k)
             /\ \E k \in DOMAIN worker[x].frames : /\ worker'[x].frames[j] = worker[x].frames[k]
                                                   /\ (x = w => j = k + 1) /\ (x # w => j = k)
    <3>1. PICK k \in DOMAIN worker[v].frames : /\ worker'[v].frames[i] = worker[v].frames[k]
                                               /\ (v = w => i = k + 1) /\ (v # w => i = k)
      BY <2>3
    <3>2. PICK l \in DOMAIN worker[x].frames : /\ worker'[x].frames[j] = worker[x].frames[l]
                                               /\ (x = w => j = l + 1) /\ (x # w => j = l)
      BY <2>3
    <3>3. v = x /\ k = l
      BY <3>1, <3>2 DEF FramesOnce
    <3> QED  BY <3>1, <3>2, <3>3
  <2> QED  BY <1>3, <2>1, <2>2, <2>3
<1>6. FramesRan'
  <2> SUFFICES ASSUME NEW v \in Workers, NEW j \in DOMAIN worker'[v].frames
               PROVE  runs'[worker'[v].frames[j][1]] # 0
    BY DEF FramesRan
  <2>1. CASE worker'[v].frames[j] = <<t, 1>>
    BY <1>2, <2>1
  <2>2. CASE \E k \in DOMAIN worker[v].frames : worker'[v].frames[j] = worker[v].frames[k]
    BY <1>1, <2>2 DEF FramesRan
  <2> QED  BY <1>3, <2>1, <2>2
<1>7. ASSUME NEW u \in Tasks, NEW i \in DOMAIN Spawns[u], u # t PROVE Behind(u, i)' <=> Behind(u, i)
  <2>1. ASSUME Behind(u, i) PROVE Behind(u, i)'
    <3> SUFFICES ASSUME NEW v \in Workers, NEW j \in DOMAIN worker'[v].frames,
                        worker'[v].frames[j][1] = u
                 PROVE  i < worker'[v].frames[j][2]
      BY DEF Behind
    <3>1. worker'[v].frames[j] # <<t, 1>>
      BY <1>2, <1>7
    <3> QED  BY <1>3, <2>1, <3>1 DEF Behind
  <2>2. ASSUME Behind(u, i)' PROVE Behind(u, i)
    <3> SUFFICES ASSUME NEW v \in Workers, NEW k \in DOMAIN worker[v].frames,
                        worker[v].frames[k][1] = u
                 PROVE  i < worker[v].frames[k][2]
      BY DEF Behind
    <3> QED  BY <1>4, <2>2 DEF Behind
  <2> QED  BY <2>1, <2>2
<1>8. ASSUME NEW i \in DOMAIN Spawns[t] PROVE ~ Behind(t, i)'
  <2>1. i \in Nat /\ i >= 1
    BY SpawnsTyped
  <2>2. ~ (i < 1)
    BY <2>1
  <2> QED  BY <1>2, <2>2 DEF Behind, Tops
<1>9. Forked' = Forked
  BY <1>7, <1>8 DEF Forked
<1> QED  BY <1>5, <1>6, <1>9

\* The program's submission points are distinct.
LEMMA OnePoint ==
    /\ \A e, f \in Externals : \A i \in DOMAIN Program[e], j \in DOMAIN Program[f] :
          Program[e][i] = Program[f][j] => e = f /\ i = j
    /\ \A t, u \in Tasks : \A i \in DOMAIN Spawns[t], j \in DOMAIN Spawns[u] :
          Spawns[t][i] = Spawns[u][j] => t = u /\ i = j
    /\ \A e \in Externals, t \in Tasks : \A i \in DOMAIN Program[e], j \in DOMAIN Spawns[t] :
          Program[e][i] # Spawns[t][j]
BY SchedulerAssumption DEF SchedulerAssumption

LEMMA IssuedPoints ==
    ASSUME Types, NEW e \in Externals, NEW i \in 1..issued[e]
    PROVE  i \in DOMAIN Program[e] /\ i \in Nat
<1>1. Program[e] \in Seq(Tasks) /\ issued[e] \in Nat /\ issued[e] <= Len(Program[e])
  BY Constants DEF Types, SubTypes
<1>2. Len(Program[e]) \in Nat /\ DOMAIN Program[e] = 1..Len(Program[e])
  BY <1>1, LenProperties
<1> QED  BY <1>1, <1>2

\* The innermost body of w submits its next entry.
LEMMA FramesFork ==
    ASSUME Types, FramesOnce, FramesRan, NEW w \in Workers, NEW s \in Seq(Frame), Forks(w, s)
    PROVE  LET t == Spawns[Body(w)][Spawned(w)] IN
           /\ t \in Tasks /\ t \notin Issued /\ t \notin Forked
           /\ FramesOnce' /\ FramesRan' /\ Forked' = Forked \cup {t}
<1>1. /\ worker[w].frames \in Seq(Frame) /\ DOMAIN worker[w].frames = 1..Len(worker[w].frames)
      /\ Len(worker[w].frames) \in Nat
  BY StackTyped
<1>2. /\ worker'[w].frames = s /\ Len(s) = Len(worker[w].frames) /\ s # <<>> /\ runs' = runs
      /\ \A v \in Workers : v # w => worker'[v] = worker[v]
  BY DEF Forks, Stacks, Local
<1>3. DOMAIN s = DOMAIN worker[w].frames /\ 1 \in DOMAIN s
  <2>1. DOMAIN s = 1..Len(s) /\ Len(s) \in Nat /\ Len(s) >= 1
    BY <1>2, HeadTail, LenProperties
  <2> QED  BY <1>1, <1>2, <2>1
<1>4. PICK b \in Tasks : b = Body(w) /\ b = worker[w].frames[1][1]
  BY DEF Forks, Body
<1>5. PICK p \in Nat : p = Spawned(w) /\ p \in 1..Len(Spawns[b]) /\ p = worker[w].frames[1][2]
  <2>1. Spawned(w) \in 1..Len(Spawns[b])
    BY <1>4 DEF Forks
  <2>2. Spawned(w) \in Nat
    BY <1>4, <2>1, SpawnsTyped
  <2> QED  BY <2>1, <2>2 DEF Spawned
<1>6. p \in DOMAIN Spawns[b]
  BY <1>5, SpawnsTyped
<1>7. PICK t \in Tasks : t = Spawns[b][p]
  BY <1>6, SpawnsTyped
<1>8. s[1] = <<b, p + 1>> /\ s[1][1] = b /\ s[1][2] = p + 1
  BY <1>4, <1>5 DEF Forks
<1>9. \A j \in DOMAIN s : j # 1 => s[j] = worker[w].frames[j]
  <2>1. \A j \in DOMAIN s : j # 1 => j \in 2..Len(s)
    BY <1>1, <1>2, <1>3
  <2> QED  BY <2>1 DEF Forks
<1>10. ASSUME NEW v \in Workers
       PROVE  /\ DOMAIN worker'[v].frames = DOMAIN worker[v].frames
              /\ \A j \in DOMAIN worker[v].frames :
                    /\ worker'[v].frames[j][1] = worker[v].frames[j][1]
                    /\ ((v = w /\ j = 1) \/ worker'[v].frames[j] = worker[v].frames[j])
  <2>1. CASE v # w
    BY <1>2, <2>1
  <2>2. CASE v = w
    BY <1>2, <1>3, <1>4, <1>8, <1>9, <2>2
  <2> QED  BY <2>1, <2>2
<1>11. FramesOnce'
  <2> SUFFICES ASSUME NEW v \in Workers, NEW x \in Workers, NEW i \in DOMAIN worker'[v].frames,
                      NEW j \in DOMAIN worker'[x].frames,
                      worker'[v].frames[i][1] = worker'[x].frames[j][1]
               PROVE  v = x /\ i = j
    BY DEF FramesOnce
  <2> QED  BY <1>10 DEF FramesOnce
<1>12. FramesRan'
  <2> SUFFICES ASSUME NEW v \in Workers, NEW j \in DOMAIN worker'[v].frames
               PROVE  runs[worker'[v].frames[j][1]] # 0
    BY <1>2 DEF FramesRan
  <2> QED  BY <1>10 DEF FramesRan
<1>13. \A v \in Workers : \A j \in DOMAIN worker[v].frames :
          worker[v].frames[j][1] = b => v = w /\ j = 1
  BY <1>3, <1>4 DEF FramesOnce
<1>14. \A i \in DOMAIN Spawns[b] : Behind(b, i) <=> i < p
  BY <1>3, <1>4, <1>5, <1>13 DEF Behind
<1>15. \A i \in DOMAIN Spawns[b] : Behind(b, i)' <=> i < p + 1
  <2>1. \A v \in Workers : \A j \in DOMAIN worker'[v].frames :
          worker'[v].frames[j][1] = b => v = w /\ j = 1
    BY <1>10, <1>13
  <2>2. worker'[w].frames[1][1] = b /\ worker'[w].frames[1][2] = p + 1 /\ 1 \in DOMAIN worker'[w].frames
    BY <1>2, <1>3, <1>8
  <2> QED  BY <2>1, <2>2 DEF Behind
<1>16. ASSUME NEW u \in Tasks, u # b, NEW i \in DOMAIN Spawns[u] PROVE Behind(u, i)' <=> Behind(u, i)
  <2>1. ASSUME NEW v \in Workers, NEW j \in DOMAIN worker[v].frames, worker[v].frames[j][1] = u
        PROVE  worker'[v].frames[j] = worker[v].frames[j]
    BY <1>4, <1>10, <1>16, <2>1
  <2> QED  BY <1>10, <2>1 DEF Behind
<1>17. \A i \in DOMAIN Spawns[b] : i < p + 1 <=> i < p \/ i = p
  <2>1. \A i \in DOMAIN Spawns[b] : i \in Nat
    BY SpawnsTyped
  <2> QED  BY <2>1
<1>18. t \notin Forked
  <2> SUFFICES ASSUME NEW u \in Tasks, NEW i \in DOMAIN Spawns[u], Spawns[u][i] = t, Behind(u, i)
               PROVE  FALSE
    BY DEF Forked
  <2>1. u = b /\ i = p
    BY <1>6, <1>7, OnePoint
  <2>2. ~ (p < p)
    OBVIOUS
  <2> QED  BY <1>6, <1>14, <2>1, <2>2
<1>19. t \notin Issued
  <2> SUFFICES ASSUME NEW e \in Externals, NEW i \in 1..issued[e], Program[e][i] = t PROVE FALSE
    BY DEF Issued
  <2> QED  BY <1>6, <1>7, IssuedPoints, OnePoint
<1>20. runs[b] # 0
  BY <1>3, <1>4 DEF FramesRan
<1>21. ASSUME NEW x \in Tasks PROVE x \in Forked' <=> x \in Forked \/ x = t
  <2>1. t \in Forked'
    BY <1>2, <1>6, <1>7, <1>15, <1>17, <1>20 DEF Forked
  <2>2. ASSUME x \in Forked PROVE x \in Forked'
    <3>1. PICK u \in Tasks : runs[u] # 0 /\ \E i \in DOMAIN Spawns[u] : Spawns[u][i] = x /\ Behind(u, i)
      BY <2>2 DEF Forked
    <3>2. PICK i \in DOMAIN Spawns[u] : Spawns[u][i] = x /\ Behind(u, i)
      BY <3>1
    <3>3. Behind(u, i)'
      BY <1>14, <1>15, <1>16, <1>17, <3>2
    <3> QED  BY <1>2, <3>1, <3>2, <3>3 DEF Forked
  <2>3. ASSUME x \in Forked', x # t PROVE x \in Forked
    <3>1. PICK u \in Tasks : runs'[u] # 0 /\ \E i \in DOMAIN Spawns[u] : Spawns[u][i] = x /\ Behind(u, i)'
      BY <2>3 DEF Forked
    <3>2. PICK i \in DOMAIN Spawns[u] : Spawns[u][i] = x /\ Behind(u, i)'
      BY <3>1
    <3>3. Behind(u, i)
      BY <1>7, <1>14, <1>15, <1>16, <1>17, <2>3, <3>2
    <3> QED  BY <1>2, <3>1, <3>2, <3>3 DEF Forked
  <2> QED  BY <2>1, <2>2, <2>3
<1>22. Forked' = Forked \cup {t}
  BY <1>21 DEF Forked
<1> QED  BY <1>4, <1>5, <1>7, <1>11, <1>12, <1>18, <1>19, <1>22

LEMMA IssuedGain ==
    ASSUME Types, NEW e \in Externals, issue(e)
    PROVE  /\ sub'[e] \in Tasks /\ sub'[e] \notin Issued /\ sub'[e] \notin Forked
           /\ Issued' = Issued \cup {sub'[e]}
<1>1. /\ issued \in [Externals -> Nat] /\ issued[e] \in Nat
  BY DEF Types, SubTypes
<1>2. PICK n \in Nat : n = issued[e]
  BY <1>1
<1>3. PICK t \in Tasks : t = sub'[e] /\ t = Program[e][n + 1]
  BY <1>2, issueTypes
<1>4. n + 1 \in DOMAIN Program[e] /\ issued'[e] = n + 1
      /\ \A f \in Externals : f # e => issued'[f] = issued[f]
  BY <1>2, issueTypes
<1>5. t \notin Forked
  BY <1>3, <1>4, OnePoint DEF Forked
<1>6. t \notin Issued
  <2> SUFFICES ASSUME NEW f \in Externals, NEW i \in 1..issued[f], Program[f][i] = t PROVE FALSE
    BY DEF Issued
  <2>1. f = e /\ i = n + 1
    BY <1>3, <1>4, IssuedPoints, OnePoint
  <2>2. n + 1 \notin 1..n
    BY <1>2
  <2> QED  BY <1>2, <2>1, <2>2
<1>7. \A i : i \in 1..(n + 1) <=> i \in 1..n \/ i = n + 1
  BY <1>2
<1>8. ASSUME NEW x \in Tasks PROVE x \in Issued' <=> x \in Issued \/ x = t
  <2>1. (\E i \in 1..issued'[e] : Program[e][i] = x) <=> (\E i \in 1..issued[e] : Program[e][i] = x) \/ x = t
    BY <1>2, <1>3, <1>4, <1>7
  <2>2. \A f \in Externals : f # e => ((\E i \in 1..issued'[f] : Program[f][i] = x) <=>
                                       (\E i \in 1..issued[f] : Program[f][i] = x))
    BY <1>4
  <2> QED  BY <2>1, <2>2 DEF Issued
<1>9. Issued' = Issued \cup {t}
  BY <1>8 DEF Issued
<1> QED  BY <1>3, <1>5, <1>6, <1>9

(* --- what a step does to all the places --- *)

LEMMA QueuesSame ==
    ASSUME queues' = queues
    PROVE  Queued' = Queued /\ (QueuedOnce => QueuedOnce')
BY DEF Queued, QueuedOnce

LEMMA DequesSame ==
    ASSUME local_normal' = local_normal
    PROVE  Dequed' = Dequed /\ (DequedOnce => DequedOnce')
BY DEF Dequed, DequedOnce

LEMMA RanSame ==
    ASSUME runs' = runs
    PROVE  Ran' = Ran /\ (RanOnce => RanOnce')
BY DEF Ran, RanOnce

LEMMA IssuedSame ==
    ASSUME issued' = issued
    PROVE  Issued' = Issued
BY DEF Issued

\* Everything in Places but the whereabouts of the entries.
Singly ==
    /\ QueuedOnce /\ DequedOnce /\ HeldOnce /\ SubmittingOnce /\ RanOnce
    /\ FramesOnce /\ FramesRan /\ Origin

LEMMA PlacesParts == Places <=> Singly /\ Apart /\ Accounted
BY DEF Places, Singly

\* A step that moves no entry.
LEMMA PlacesSame ==
    ASSUME Places, UNCHANGED <<queues, local_normal, runs, sub, issued>>,
           \A v \in Workers : SameHand(v), \A a \in Actors : sig'[a] \in Claims <=> sig[a] \in Claims
    PROVE  Places'
<1>1. Queued' = Queued /\ QueuedOnce' /\ Dequed' = Dequed /\ DequedOnce' /\ Ran' = Ran /\ RanOnce'
      /\ Issued' = Issued
  BY QueuesSame, DequesSame, RanSame, IssuedSame DEF Places
<1>2. Held' = Held /\ HeldOnce'
  BY HeldSame DEF Places, SameHand
<1>3. Submitting' = Submitting /\ SubmittingOnce' /\ Origin'
  BY SubmittingSame DEF Places
<1>4. FramesOnce' /\ FramesRan' /\ Forked' = Forked
  BY FramesSame DEF Places, SameHand
<1>5. Apart' /\ Accounted'
  BY <1>1, <1>2, <1>3, <1>4 DEF Places, Apart, Accounted
<1> QED  BY <1>1, <1>2, <1>3, <1>4, <1>5 DEF Places

\* A worker's attempt takes an entry into its hand.
LEMMA FindsPlaces ==
    ASSUME Types, Places, NEW w \in Workers, NEW t \in Tasks, Finds(w, t), t \notin Held
    PROVE  /\ Held' = Held \cup {t} /\ HeldOnce' /\ Submitting' = Submitting /\ SubmittingOnce' /\ Origin'
           /\ FramesOnce' /\ FramesRan' /\ Forked' = Forked /\ Ran' = Ran /\ RanOnce' /\ Issued' = Issued
<1>1. /\ worker'[w].got = t /\ worker[w].got = NoTask /\ worker'[w].frames = worker[w].frames
      /\ \A v \in Workers : v # w => worker'[v] = worker[v]
      /\ sig' = sig /\ sub' = sub /\ issued' = issued /\ runs' = runs
  BY DEF Finds, Local, subVars
<1>2. Held' = Held \cup {t} /\ HeldOnce'
  BY <1>1, HeldGain DEF Places
<1>3. \A v \in Workers : worker'[v].frames = worker[v].frames
  BY <1>1
<1>4. FramesOnce' /\ FramesRan' /\ Forked' = Forked
  BY <1>1, <1>3, FramesSame DEF Places
<1>5. Submitting' = Submitting /\ SubmittingOnce' /\ Origin'
  BY <1>1, SubmittingSame DEF Places
<1> QED  BY <1>1, <1>2, <1>4, <1>5, RanSame, IssuedSame DEF Places

LEMMA PopsPlaces ==
    ASSUME Types, Places, NEW w \in Workers, NEW c \in Classes, Pops(w, c)
    PROVE  Places'
<1>1. PICK t \in Tasks : t = First(c)
  BY DEF Pops, Finds
<1>2. t \in Queued /\ Queued' = Queued \ {t} /\ QueuedOnce'
  BY <1>1, popPlaces DEF Pops, pop, Places
<1>3. t \notin Held
  BY <1>2 DEF Places, Apart
<1>4. /\ Held' = Held \cup {t} /\ HeldOnce' /\ Submitting' = Submitting /\ SubmittingOnce' /\ Origin'
      /\ FramesOnce' /\ FramesRan' /\ Forked' = Forked /\ Ran' = Ran /\ RanOnce' /\ Issued' = Issued
  BY <1>1, <1>3, FindsPlaces DEF Pops
<1>5. Dequed' = Dequed /\ DequedOnce'
  BY DequesSame DEF Pops, Places
<1>6. Apart' /\ Accounted'
  <2>1. Apart'
    BY <1>2, <1>4, <1>5 DEF Places, Apart
  <2>2. Accounted'
    BY <1>2, <1>4, <1>5 DEF Places, Accounted
  <2> QED  BY <2>1, <2>2
<1> QED  BY <1>2, <1>4, <1>5, <1>6 DEF Places

\* The same for an entry of a deque, its owner's or a thief's.
LEMMA LeavesDeque ==
    ASSUME Types, Places, NEW w \in Workers, NEW t \in Tasks, Finds(w, t), queues' = queues,
           t \in Dequed, Dequed' = Dequed \ {t}, DequedOnce'
    PROVE  Places'
<1>3. t \notin Held
  BY DEF Places, Apart
<1>4. /\ Held' = Held \cup {t} /\ HeldOnce' /\ Submitting' = Submitting /\ SubmittingOnce' /\ Origin'
      /\ FramesOnce' /\ FramesRan' /\ Forked' = Forked /\ Ran' = Ran /\ RanOnce' /\ Issued' = Issued
  BY <1>3, FindsPlaces
<1>5. Queued' = Queued /\ QueuedOnce'
  BY QueuesSame DEF Places
<1>6. Apart'
  BY <1>4, <1>5 DEF Places, Apart
<1>7. Accounted'
  BY <1>4, <1>5 DEF Places, Accounted
<1> QED  BY <1>4, <1>5, <1>6, <1>7 DEF Places

LEMMA TakesPlaces ==
    ASSUME Types, Places, NEW w \in Workers, Takes(w) \/ \E v \in Workers : Steals(w, v)
    PROVE  Places'
<1>1. CASE Takes(w)
  <2>1. local_normal' = [local_normal EXCEPT ![w] = SubSeq(@, 1, Len(@) - 1)] /\ local_normal[w] # <<>>
        /\ queues' = queues
    BY <1>1, DequesTyped DEF Takes
  <2>2. PICK t \in Tasks : t = local_normal[w][Len(local_normal[w])] /\ Finds(w, t)
    BY <1>1 DEF Takes, Finds
  <2>3. t \in Dequed /\ Dequed' = Dequed \ {t} /\ DequedOnce'
    BY <2>1, <2>2, takePlaces DEF Places
  <2> QED  BY <2>1, <2>2, <2>3, LeavesDeque
<1>2. CASE \E v \in Workers : Steals(w, v)
  <2>1. PICK v \in Workers : Steals(w, v)
    BY <1>2
  <2>2. PICK t \in Tasks : t = Head(local_normal[v]) /\ Finds(w, t)
    BY <2>1 DEF Steals, Finds
  <2>3. t \in Dequed /\ Dequed' = Dequed \ {t} /\ DequedOnce'
    BY <2>1, <2>2, stealPlaces DEF Places, Steals
  <2> QED  BY <2>1, <2>2, <2>3, LeavesDeque DEF Steals
<1> QED  BY <1>1, <1>2

LEMMA RunsPlaces ==
    ASSUME Types, Places, NEW w \in Workers, Runs(w)
    PROVE  Places'
<1>1. PICK t \in Tasks : t = worker[w].got
  BY DEF Runs
<1>2. \A v \in Workers : v # w => worker'[v] = worker[v]
  BY DEF Runs, Local
<1>3. t \in Held /\ Held' = Held \ {t} /\ HeldOnce'
  BY <1>1, <1>2, HeldLose DEF Runs, Places
<1>4. t \notin Ran /\ Started(t)
  BY <1>1, <1>3 DEF Places, Apart, Runs
<1>5. Ran' = Ran \cup {t} /\ RanOnce' /\ runs[t] = 0 /\ runs'[t] = 1
  BY <1>4, RanGain DEF Places
<1>6. \A u \in Tasks : u # t => runs'[u] = runs[u]
  BY <1>4, StartedTypes
<1>7. worker[w].frames = <<>>
  BY DEF Runs, Types, Shapes, Shaped
<1>8. Tops(w, t)
  <2>1. worker'[w].frames = <<<<t, 1>>>>
    BY <1>1 DEF Runs
  <2>2. DOMAIN worker'[w].frames = {1} /\ worker'[w].frames[1] = <<t, 1>>
    BY <2>1
  <2>3. DOMAIN worker[w].frames = {}
    BY <1>7
  <2> QED  BY <1>2, <2>2, <2>3 DEF Tops
<1>9. FramesOnce' /\ FramesRan' /\ Forked' = Forked
  BY <1>5, <1>6, <1>8, FramesTop DEF Places
<1>10. Queued' = Queued /\ QueuedOnce' /\ Dequed' = Dequed /\ DequedOnce' /\ Issued' = Issued
  BY QueuesSame, DequesSame, IssuedSame DEF Places, Runs, queueVars, subVars
<1>11. Submitting' = Submitting /\ SubmittingOnce' /\ Origin'
  BY SubmittingSame DEF Places, Runs, subVars
<1>12. Apart'
  BY <1>3, <1>5, <1>9, <1>10, <1>11 DEF Places, Apart
<1>13. Accounted'
  BY <1>3, <1>5, <1>9, <1>10, <1>11 DEF Places, Accounted
<1> QED  BY <1>3, <1>5, <1>9, <1>10, <1>11, <1>12, <1>13 DEF Places

LEMMA YieldsPlaces ==
    ASSUME Types, Places, NEW w \in Workers, NEW c \in {"high", "normal"}, NEW s \in Seq(Frame),
           Yields(w, c, s)
    PROVE  Places'
<1>1. PICK t \in Tasks : t = First(c)
  BY DEF Yields
<1>2. \A v \in Workers : v # w => worker'[v] = worker[v]
  BY DEF Yields, Stacks, Local
<1>3. t \in Queued /\ Queued' = Queued \ {t} /\ QueuedOnce'
  BY <1>1, popPlaces DEF Yields, pop, Places, Classes
<1>4. t \notin Ran /\ Started(t)
  BY <1>1, <1>3 DEF Places, Apart, Yields
<1>5. Ran' = Ran \cup {t} /\ RanOnce' /\ runs[t] = 0 /\ runs'[t] = 1
  BY <1>4, RanGain DEF Places
<1>6. \A u \in Tasks : u # t => runs'[u] = runs[u]
  BY <1>4, StartedTypes
<1>7. PICK n \in Nat : n = Len(worker[w].frames) /\ DOMAIN worker[w].frames = 1..n
  BY StackTyped
<1>8. Tops(w, t)
  <2>1. worker'[w].frames = s /\ Len(s) = n + 1 /\ s[1] = <<t, 1>>
        /\ \A j \in 2..Len(s) : s[j] = worker[w].frames[j - 1]
    BY <1>1, <1>7 DEF Yields, Stacks
  <2>2. DOMAIN s = 1..(n + 1)
    BY <2>1, LenProperties
  <2>3. ASSUME NEW j \in 1..(n + 1), j # 1
        PROVE  \E k \in 1..n : j = k + 1 /\ s[j] = worker[w].frames[k]
    <3>1. j \in 2..(n + 1) /\ j - 1 \in 1..n /\ j = (j - 1) + 1
      BY <1>7, <2>3
    <3> QED  BY <2>1, <3>1
  <2>4. ASSUME NEW k \in 1..n PROVE k + 1 \in 1..(n + 1) /\ s[k + 1] = worker[w].frames[k]
    <3>1. k + 1 \in 1..(n + 1) /\ k + 1 \in 2..(n + 1) /\ (k + 1) - 1 = k
      BY <1>7, <2>4
    <3> QED  BY <2>1, <3>1
  <2>5. 1 \in 1..(n + 1)
    BY <1>7
  <2>6. PICK new, old : new = worker'[w].frames /\ old = worker[w].frames /\ new = s
    BY <2>1
  <2>7. 1 \in DOMAIN new /\ new[1] = <<t, 1>>
    BY <2>1, <2>2, <2>5, <2>6
  <2>8. \A j \in DOMAIN new : j = 1 \/ \E k \in DOMAIN old : j = k + 1 /\ new[j] = old[k]
    BY <1>7, <2>2, <2>3, <2>6
  <2>9. \A k \in DOMAIN old : k + 1 \in DOMAIN new /\ new[k + 1] = old[k]
    BY <1>7, <2>2, <2>4, <2>6
  <2> QED  BY <1>2, <2>6, <2>7, <2>8, <2>9 DEF Tops
<1>9. FramesOnce' /\ FramesRan' /\ Forked' = Forked
  BY <1>5, <1>6, <1>8, FramesTop DEF Places
<1>10. Dequed' = Dequed /\ DequedOnce' /\ Issued' = Issued
  BY DequesSame, IssuedSame DEF Places, Yields, subVars
<1>11. Submitting' = Submitting /\ SubmittingOnce' /\ Origin'
  BY SubmittingSame DEF Places, Yields, subVars
<1>12. Held' = Held /\ HeldOnce'
  BY <1>2, HeldSame DEF Yields, Stacks, Places
<1>13. Apart'
  BY <1>3, <1>5, <1>9, <1>10, <1>11, <1>12 DEF Places, Apart
<1>14. Accounted'
  BY <1>3, <1>5, <1>9, <1>10, <1>11, <1>12 DEF Places, Accounted
<1> QED  BY <1>3, <1>5, <1>9, <1>10, <1>11, <1>12, <1>13, <1>14 DEF Places

LEMMA SignalsStep ==
    ASSUME Types, NEW a \in Actors, NEW s, Signals(a, s)
    PROVE  /\ sig'[a] = s /\ (\A b \in Actors : b # a => sig'[b] = sig[b]) /\ sub' = sub
           /\ issued' = issued /\ runs' = runs
BY SignalsSub DEF Signals

LEMMA DequesPlaces ==
    ASSUME Types, Places, NEW a \in Workers, Deques(a)
    PROVE  Places'
<1>1. a \in Actors /\ Signals(a, "signal") /\ sub[a] \in Tasks /\ sig[a] = "push"
  BY DEF Deques, Actors
<1>2. /\ sig'[a] = "signal" /\ (\A b \in Actors : b # a => sig'[b] = sig[b]) /\ sub' = sub
      /\ issued' = issued /\ runs' = runs
  BY <1>1, SignalsStep
<1>3. /\ sub[a] \in Submitting /\ Submitting' = Submitting \ {sub[a]} /\ SubmittingOnce' /\ Origin'
  BY <1>1, <1>2, SubmittingLose DEF Claims, Places
<1>4. sub[a] \notin Dequed
  BY <1>3 DEF Places, Apart
<1>5. Dequed' = Dequed \cup {sub[a]} /\ DequedOnce'
  BY <1>1, <1>4, dequePlaces DEF Deques, Places
<1>6. Queued' = Queued /\ QueuedOnce' /\ Ran' = Ran /\ RanOnce' /\ Issued' = Issued
  BY <1>2, QueuesSame, RanSame, IssuedSame DEF Deques, Places
<1>7. Held' = Held /\ HeldOnce'
  BY HeldSame DEF Deques, Places
<1>8. FramesOnce' /\ FramesRan' /\ Forked' = Forked
  BY <1>2, FramesSame DEF Deques, Places
<1>9. Apart'
  BY <1>3, <1>5, <1>6, <1>7 DEF Places, Apart
<1>10. Accounted'
  BY <1>3, <1>5, <1>6, <1>7, <1>8 DEF Places, Accounted
<1> QED  BY <1>3, <1>5, <1>6, <1>7, <1>8, <1>9, <1>10 DEF Places

LEMMA ClaimsSlotPlaces ==
    ASSUME Types, Places, NEW a \in Actors, NEW c \in Classes, ClaimsSlot(a, c)
    PROVE  Places'
<1>1. Signals(a, "publish") /\ sub[a] \in Tasks /\ sig[a] = "claim"
  BY DEF ClaimsSlot
<1>2. /\ sig'[a] = "publish" /\ (\A b \in Actors : b # a => sig'[b] = sig[b]) /\ sub' = sub
      /\ issued' = issued /\ runs' = runs
  BY <1>1, SignalsStep
<1>3. /\ sub[a] \in Submitting /\ Submitting' = Submitting \ {sub[a]} /\ SubmittingOnce' /\ Origin'
  BY <1>1, <1>2, SubmittingLose DEF Claims, Places
<1>4. sub[a] \notin Queued
  BY <1>3 DEF Places, Apart
<1>5. Queued' = Queued \cup {sub[a]} /\ QueuedOnce'
  BY <1>4, claimPlaces DEF Places
<1>6. Dequed' = Dequed /\ DequedOnce' /\ Ran' = Ran /\ RanOnce' /\ Issued' = Issued
  BY <1>2, DequesSame, RanSame, IssuedSame DEF ClaimsSlot, Places
<1>7. Held' = Held /\ HeldOnce'
  BY HeldSame DEF ClaimsSlot, Places
<1>8. FramesOnce' /\ FramesRan' /\ Forked' = Forked
  BY <1>2, FramesSame DEF ClaimsSlot, Places
<1>9. Apart'
  BY <1>3, <1>5, <1>6, <1>7 DEF Places, Apart
<1>10. Accounted'
  BY <1>3, <1>5, <1>6, <1>7, <1>8 DEF Places, Accounted
<1> QED  BY <1>3, <1>5, <1>6, <1>7, <1>8, <1>9, <1>10 DEF Places

LEMMA PublishesPlaces ==
    ASSUME Types, Places, NEW a \in Actors, NEW c \in Classes, NEW i \in 1..Len(queues[c]),
           Publishes(a, c, i)
    PROVE  Places'
<1>1. Signals(a, "signal") /\ sig[a] = "publish"
  BY DEF Publishes
<1>2. /\ sig'[a] = "signal" /\ (\A b \in Actors : b # a => sig'[b] = sig[b]) /\ sub' = sub
      /\ issued' = issued /\ runs' = runs
  BY <1>1, SignalsStep
<1>3. \A b \in Actors : sig'[b] \in Claims <=> sig[b] \in Claims
  BY <1>1, <1>2 DEF Claims
<1>4. Submitting' = Submitting /\ SubmittingOnce' /\ Origin'
  BY <1>2, <1>3, SubmittingSame DEF Places
<1>5. Queued' = Queued /\ QueuedOnce'
  BY publishPlaces DEF Places
<1>6. Dequed' = Dequed /\ DequedOnce' /\ Ran' = Ran /\ RanOnce' /\ Issued' = Issued
  BY <1>2, DequesSame, RanSame, IssuedSame DEF Publishes, Places
<1>7. Held' = Held /\ HeldOnce'
  BY HeldSame DEF Publishes, Places
<1>8. FramesOnce' /\ FramesRan' /\ Forked' = Forked
  BY <1>2, FramesSame DEF Publishes, Places
<1>9. Apart'
  BY <1>4, <1>5, <1>6, <1>7 DEF Places, Apart
<1>10. Accounted'
  BY <1>4, <1>5, <1>6, <1>7, <1>8 DEF Places, Accounted
<1> QED  BY <1>4, <1>5, <1>6, <1>7, <1>8, <1>9, <1>10 DEF Places

\* A submit begins: the entry is nowhere yet.
LEMMA Begins ==
    ASSUME Types, Places, NEW a \in Actors, NEW t \in Tasks, t \notin Issued \cup Forked,
           sig[a] = "idle", sig'[a] = "push", sub'[a] = t,
           \A b \in Actors : b # a => sub'[b] = sub[b] /\ sig'[b] = sig[b],
           UNCHANGED <<queues, local_normal, runs>>, \A v \in Workers : worker'[v].got = worker[v].got,
           Issued' \cup Forked' = Issued \cup Forked \cup {t}, FramesOnce', FramesRan', Origin'
    PROVE  Places'
<1>1. /\ t \notin Queued /\ t \notin Dequed /\ t \notin Held /\ t \notin Submitting /\ t \notin Ran
  BY DEF Places, Accounted
<1>2. Submitting' = Submitting \cup {t} /\ SubmittingOnce'
  BY <1>1, SubmittingGain DEF Claims, Places
<1>3. Queued' = Queued /\ QueuedOnce' /\ Dequed' = Dequed /\ DequedOnce' /\ Ran' = Ran /\ RanOnce'
  BY QueuesSame, DequesSame, RanSame DEF Places
<1>4. Held' = Held /\ HeldOnce'
  BY HeldSame DEF Places
<1>5. Apart'
  BY <1>1, <1>2, <1>3, <1>4 DEF Places, Apart
<1>6. Accounted'
  BY <1>2, <1>3, <1>4 DEF Places, Accounted
<1> QED  BY <1>2, <1>3, <1>4, <1>5, <1>6 DEF Places

LEMMA issuePlaces ==
    ASSUME Types, Places, NEW e \in Externals, issue(e)
    PROVE  Places'
<1>1. PICK t \in Tasks : t = sub'[e] /\ t \notin Issued /\ t \notin Forked /\ Issued' = Issued \cup {t}
  BY IssuedGain
<1>2. /\ e \in Actors /\ e \notin Workers /\ sig[e] = "idle" /\ sig'[e] = "push"
      /\ \A b \in Actors : b # e => sub'[b] = sub[b] /\ sig'[b] = sig[b]
  BY issueTypes, Constants DEF issue
<1>3. UNCHANGED <<queues, local_normal, runs, worker>>
  BY DEF issue, queueVars
<1>4. FramesOnce' /\ FramesRan' /\ Forked' = Forked
  BY <1>3, FramesSame DEF Places
<1>5. Origin'
  <2>1. sub'[e] = Program[e][issued[e] + 1] /\ issued[e] + 1 \in DOMAIN Program[e]
    BY issueTypes
  <2>2. \A f \in Externals : sig'[f] \in Claims => \E i \in DOMAIN Program[f] : sub'[f] = Program[f][i]
    BY <1>2, <2>1 DEF Places, Origin, Actors
  <2>3. \A w \in Workers : sig'[w] \in Claims =>
          \E u \in Tasks : \E i \in DOMAIN Spawns[u] : sub'[w] = Spawns[u][i]
    BY <1>2 DEF Places, Origin, Actors
  <2> QED  BY <2>2, <2>3 DEF Origin
<1>6. Issued' \cup Forked' = Issued \cup Forked \cup {t}
  BY <1>1, <1>4
<1> QED  BY <1>1, <1>2, <1>3, <1>4, <1>5, <1>6, Begins

LEMMA ForksPlaces ==
    ASSUME Types, Places, NEW w \in Workers, NEW s \in Seq(Frame), Forks(w, s)
    PROVE  Places'
<1>1. PICK t \in Tasks : /\ t = Spawns[Body(w)][Spawned(w)] /\ t \notin Issued /\ t \notin Forked
                         /\ FramesOnce' /\ FramesRan' /\ Forked' = Forked \cup {t}
  BY FramesFork DEF Places
<1>2. /\ w \in Actors /\ w \notin Externals /\ sig[w] = "idle" /\ sig'[w] = "push" /\ sub'[w] = t
      /\ \A b \in Actors : b # w => sub'[b] = sub[b] /\ sig'[b] = sig[b]
  <2>1. w \in Actors /\ w \notin Externals
    BY Constants DEF Actors
  <2>2. sig[w] = "idle" /\ sub' = [sub EXCEPT ![w] = t] /\ Then(w, "push")
    BY <1>1 DEF Forks, Stacks
  <2>3. sub \in [Actors -> Entry] /\ sig \in [Actors -> Sigs]
    BY DEF Types, SubTypes
  <2>4. sig' = [sig EXCEPT ![w] = "push"]
    BY <2>2 DEF Then
  <2>5. sub'[w] = t /\ \A b \in Actors : b # w => sub'[b] = sub[b]
    BY <2>1, <2>2, <2>3
  <2>6. sig'[w] = "push" /\ \A b \in Actors : b # w => sig'[b] = sig[b]
    BY <2>1, <2>3, <2>4
  <2> QED  BY <2>1, <2>2, <2>5, <2>6
<1>3. UNCHANGED <<queues, local_normal, runs, issued>> /\ \A v \in Workers : worker'[v].got = worker[v].got
  BY DEF Forks, Stacks, Local, queueVars
<1>4. Issued' = Issued
  BY <1>3, IssuedSame
<1>5. Origin'
  <2>1. Body(w) \in Tasks /\ Spawned(w) \in DOMAIN Spawns[Body(w)]
    BY SpawnsTyped DEF Forks
  <2>2. \A f \in Externals : sig'[f] \in Claims => \E i \in DOMAIN Program[f] : sub'[f] = Program[f][i]
    BY <1>2 DEF Places, Origin, Actors
  <2>3. \A v \in Workers : sig'[v] \in Claims =>
          \E u \in Tasks : \E i \in DOMAIN Spawns[u] : sub'[v] = Spawns[u][i]
    BY <1>1, <1>2, <2>1 DEF Places, Origin, Actors
  <2> QED  BY <2>2, <2>3 DEF Origin
<1>6. Issued' \cup Forked' = Issued \cup Forked \cup {t}
  BY <1>1, <1>4
<1> QED  BY <1>1, <1>2, <1>3, <1>5, <1>6, Begins

LEMMA ReturnsPlaces ==
    ASSUME Types, Places, NEW w \in Workers, ReturnsLast(w) \/ \E s \in Seq(Frame) : Returns(w, s)
    PROVE  Places'
<1>1. /\ UNCHANGED <<queues, local_normal, runs, sub, sig, issued>>
      /\ \A v \in Workers : v # w => worker'[v] = worker[v]
      /\ worker'[w].got = worker[w].got /\ Spawned(w) > Len(Spawns[Body(w)])
  BY DEF ReturnsLast, Returns, Stacks, Loops, Local, Rest, queueVars, subVars
<1>2. worker[w].frames # <<>> /\ worker'[w].frames = Tail(worker[w].frames)
  <2>1. CASE ReturnsLast(w)
    <3>1. worker[w].frames \in Seq(Frame) /\ Len(worker[w].frames) = 1 /\ worker'[w].frames = <<>>
      BY <2>1, StackTyped DEF ReturnsLast, Loops
    <3>2. worker[w].frames # <<>>
      BY <3>1
    <3>3. PICK s \in Seq(Frame) : s = Tail(worker[w].frames) /\ Len(s) = 0
      <4>1. Tail(worker[w].frames) \in Seq(Frame) /\ Len(Tail(worker[w].frames)) = Len(worker[w].frames) - 1
        BY <3>1, <3>2, HeadTail
      <4>2. Len(Tail(worker[w].frames)) = 0
        BY <3>1, <4>1
      <4> QED  BY <4>1, <4>2
    <3>4. s = <<>>
      BY <3>3, EmptySeq
    <3> QED  BY <3>1, <3>2, <3>3, <3>4
  <2>2. CASE \E s \in Seq(Frame) : Returns(w, s)
    BY <2>2 DEF Returns, Stacks
  <2> QED  BY <2>1, <2>2
<1>3. FramesOnce' /\ FramesRan' /\ Forked' = Forked
  BY <1>1, <1>2, FramesDrop DEF Places
<1>4. Queued' = Queued /\ QueuedOnce' /\ Dequed' = Dequed /\ DequedOnce' /\ Ran' = Ran /\ RanOnce'
      /\ Issued' = Issued
  BY <1>1, QueuesSame, DequesSame, RanSame, IssuedSame DEF Places
<1>5. Held' = Held /\ HeldOnce'
  BY <1>1, HeldSame DEF Places
<1>6. Submitting' = Submitting /\ SubmittingOnce' /\ Origin'
  BY <1>1, SubmittingSame DEF Places
<1>7. Apart' /\ Accounted'
  BY <1>3, <1>4, <1>5, <1>6 DEF Places, Apart, Accounted
<1> QED  BY <1>3, <1>4, <1>5, <1>6, <1>7 DEF Places

(* --- layer 3 is kept --- *)

LEMMA LocalPlaces ==
    ASSUME Places, NEW w \in Workers, Local(w), SameHand(w),
           UNCHANGED <<queues, local_normal, runs, sub, sig, issued>>
    PROVE  Places'
<1>1. \A v \in Workers : SameHand(v)
  BY DEF Local, SameHand
<1> QED  BY <1>1, PlacesSame

LEMMA ScannedPlaces ==
    ASSUME Places, NEW w \in Workers, NEW S, Scanned(w, S) \/ StealReads(w)
    PROVE  Places'
BY LocalPlaces DEF Scanned, StealReads, Turn, queueVars, subVars

LEMMA IdlingPlaces ==
    ASSUME Types, Places, NEW w \in Workers,
           \/ Exits(w) \/ GoesIdle(w) \/ Prepares(w)
           \/ (Spins(w) \/ StopsSpinning(w) \/ LeavesSpin(w)) /\ SpinRest
           \/ Loops(w) /\ SameHand(w) /\ Rest
    PROVE  Places'
<1>1. Local(w) /\ UNCHANGED <<queues, local_normal, runs, sub, sig, issued>>
  BY DEF Exits, GoesIdle, Prepares, Spins, StopsSpinning, LeavesSpin, SpinRest, Loops, Rest, Turn,
     queueVars, subVars
<1>2. SameHand(w)
  <2>1. CASE LeavesSpin(w)
    <3>1. worker[w].got = NoTask /\ worker[w].frames = <<>>
      BY <2>1, EmptyHanded DEF LeavesSpin, IdlePcs
    <3> QED  BY <2>1, <3>1 DEF LeavesSpin, Loops, SameHand
  <2>2. CASE ~LeavesSpin(w)
    BY <2>2 DEF Exits, GoesIdle, Prepares, Spins, StopsSpinning, Turn
  <2> QED  BY <2>1, <2>2
<1> QED  BY <1>1, <1>2, LocalPlaces

\* An actor goes on with its submit, without moving the entry.
LEMMA SignalPlaces ==
    ASSUME Types, Places, NEW a \in Actors, NEW s, sig'[a] = s, sig[a] \in Claims <=> s \in Claims,
           \A b \in Actors : b # a => sig'[b] = sig[b], \A v \in Workers : SameHand(v),
           UNCHANGED <<queues, local_normal, runs, sub, issued>>
    PROVE  Places'
<1>1. \A b \in Actors : sig'[b] \in Claims <=> sig[b] \in Claims
  OBVIOUS
<1> QED  BY <1>1, PlacesSame

LEMMA SignalsPlaces ==
    ASSUME Types, Places, NEW a \in Actors, NEW s, Signals(a, s), sig[a] \in Claims <=> s \in Claims,
           UNCHANGED <<queues, local_normal, worker>>
    PROVE  Places'
<1>1. /\ sig'[a] = s /\ (\A b \in Actors : b # a => sig'[b] = sig[b]) /\ sub' = sub
      /\ issued' = issued /\ runs' = runs
  BY SignalsStep
<1> QED  BY <1>1, SignalPlaces DEF SameHand

LEMMA ThenSig ==
    ASSUME Types, NEW a \in Actors, NEW s, Then(a, s)
    PROVE  sig'[a] = s /\ \A b \in Actors : b # a => sig'[b] = sig[b]
BY DEF Then, Types, SubTypes

LEMMA AdvancesPlaces ==
    ASSUME Types, Places, NEW a \in Actors, NEW s \in {"spinners", "wake"}, Advances(a, s)
    PROVE  Places'
<1>1. sig'[a] = s /\ \A b \in Actors : b # a => sig'[b] = sig[b]
  BY ThenSig DEF Advances
<1>2. sig[a] \in Claims <=> s \in Claims
  BY DEF Advances, Claims
<1>3. \A v \in Workers : SameHand(v)
  BY DEF Advances, Advanced, SameThread
<1> QED  BY <1>1, <1>2, <1>3, SignalPlaces DEF Advances, queueVars

LEMMA WakesPlaces ==
    ASSUME Types, Places, NEW a \in Actors, Wakes(a)
    PROVE  Places'
<1>1. sig'[a] = "idle" /\ \A b \in Actors : b # a => sig'[b] = sig[b]
  BY ThenSig DEF Wakes
<1>2. sig[a] \in Claims <=> "idle" \in Claims
  BY DEF Wakes, Claims
<1>3. \A v \in Workers : SameHand(v)
  BY DEF Wakes, Roused, Turn, Local, SameHand
<1> QED  BY <1>1, <1>2, <1>3, SignalPlaces DEF Wakes, queueVars

LEMMA RelinquishesPlaces ==
    ASSUME Types, Places, NEW w \in Workers, Relinquishes(w)
    PROVE  Places'
<1>1. sig'[w] \in {"idle", "promote"} /\ sig[w] = "idle" /\ w \in Actors
      /\ \A b \in Actors : b # w => sig'[b] = sig[b]
  BY ThenSig DEF Relinquishes, Actors
<1>2. PICK s : s = sig'[w]
  OBVIOUS
<1>3. sig[w] \in Claims <=> s \in Claims
  BY <1>1, <1>2 DEF Claims
<1>4. \A v \in Workers : SameHand(v)
  BY DEF Relinquishes, Local, SameHand
<1> QED  BY <1>1, <1>2, <1>3, <1>4, SignalPlaces DEF Relinquishes, queueVars

LEMMA InitPlaces ==
    ASSUME Init
    PROVE  Places
<1>1. \A w \in Workers : worker[w] = Thread
  BY DEF Init
<1>2. Thread.got = NoTask /\ Thread.frames = <<>>
  BY DEF Thread
<1>3. /\ \A c \in Classes : queues[c] = <<>>
      /\ \A w \in Workers : local_normal[w] = <<>>
      /\ \A a \in Actors : sig[a] = "idle"
      /\ \A t \in Tasks : runs[t] = 0
      /\ \A e \in Externals : issued[e] = 0
  BY DEF Init
<1>4. DOMAIN <<>> = {} /\ 1..0 = {}
  OBVIOUS
<1>5. Queued = {} /\ QueuedOnce
  BY <1>3, <1>4 DEF Queued, QueuedOnce
<1>6. Dequed = {} /\ DequedOnce
  BY <1>3, <1>4 DEF Dequed, DequedOnce
<1>7. Held = {} /\ HeldOnce
  BY <1>1, <1>2, Constants DEF Held, HeldOnce
<1>8. Submitting = {} /\ SubmittingOnce /\ Origin
  BY <1>3 DEF Submitting, SubmittingOnce, Origin, Claims, Actors
<1>9. Ran = {} /\ RanOnce
  BY <1>3 DEF Ran, RanOnce
<1>10. FramesOnce /\ FramesRan
  BY <1>1, <1>2, <1>4 DEF FramesOnce, FramesRan
<1>11. Issued = {} /\ Forked = {}
  BY <1>3, <1>4 DEF Issued, Forked
<1>12. Apart /\ Accounted
  BY <1>5, <1>6, <1>7, <1>8, <1>9, <1>11 DEF Apart, Accounted
<1> QED  BY <1>5, <1>6, <1>7, <1>8, <1>9, <1>10, <1>12 DEF Places

LEMMA SignallingPlaces ==
    ASSUME Types, Places, NEW a \in Actors, Signalling(a)
    PROVE  Places'
<1>1. CASE push(a)
  <2>1. CASE Deques(a)
    BY <2>1, DequesPlaces DEF Deques
  <2>2. ASSUME NEW s \in {"count", "claim"}, Chooses(a, s) PROVE Places'
    BY <2>2, SignalsPlaces DEF Chooses, Claims, queueVars
  <2> QED  BY <1>1, <2>1, <2>2, pushForm
<1>2. CASE count(a)
  <2>1. Counts1(a)
    BY <1>2, countForm
  <2> QED  BY <2>1, SignalsPlaces DEF Counts1, Claims
<1>3. CASE claim(a)
  BY <1>3, claimForm, ClaimsSlotPlaces
<1>4. CASE publish(a)
  BY <1>4, publishForm, PublishesPlaces
<1>5. CASE signal_submit(a)
  <2>1. CASE sig[a] = "signal" /\ Signals(a, "idle") /\ UNCHANGED <<queueVars, worker>>
    BY <2>1, SignalsPlaces DEF Claims, queueVars
  <2> QED  BY <1>5, <2>1, signal_submitForm, AdvancesPlaces
<1>6. CASE spinners(a)
  <2>1. PICK s \in {"wake", "idle"} : Looks(a, s)
    BY <1>6, spinnersForm
  <2> QED  BY <2>1, SignalsPlaces DEF Looks, Claims, queueVars
<1>7. CASE wake_one(a)
  BY <1>7, wake_oneForm, WakesPlaces
<1> QED  BY <1>1, <1>2, <1>3, <1>4, <1>5, <1>6, <1>7 DEF Signalling

LEMMA FindWorkPlaces ==
    ASSUME Types, Places, NEW w \in Workers, FindWork(w)
    PROVE  Places'
<1>1. CASE \E c \in Classes : Pops(w, c)
  BY <1>1, PopsPlaces
<1>2. ASSUME NEW S, Scanned(w, S) PROVE Places'
  BY <1>2, ScannedPlaces
<1>3. CASE pop_high(w)
  BY <1>1, <1>2, <1>3, pop_highForm DEF Classes
<1>4. CASE low_valve(w)
  BY <1>1, <1>2, <1>4, low_valveForm DEF Classes
<1>5. CASE global_valve(w)
  BY <1>1, <1>2, <1>5, global_valveForm DEF Classes
<1>6. CASE take(w)
  BY <1>2, <1>6, takeForm, TakesPlaces
<1>7. CASE pop_normal(w)
  BY <1>1, <1>2, <1>7, pop_normalForm DEF Classes
<1>8. CASE steal(w)
  BY <1>2, <1>8, stealForm, ScannedPlaces
<1>9. CASE steal_cas(w)
  BY <1>2, <1>9, steal_casForm, TakesPlaces
<1>10. CASE pop_low(w)
  BY <1>1, <1>2, <1>10, pop_lowForm DEF Classes
<1> QED  BY <1>3, <1>4, <1>5, <1>6, <1>7, <1>8, <1>9, <1>10 DEF FindWork

LEMMA IdlingStepPlaces ==
    ASSUME Types, Places, NEW w \in Workers, Idling(w)
    PROVE  Places'
<1>1. ASSUME NEW S, Scanned(w, S) PROVE Places'
  BY <1>1, ScannedPlaces
<1>3. CASE quit_check(w)
  BY <1>1, <1>3, quit_checkForm
<1>4. CASE all_empty(w)
  BY <1>1, <1>4, all_emptyForm, IdlingPlaces DEF GoesOn
<1>5. CASE wait_for_work(w)
  BY <1>5, wait_for_workForm, IdlingPlaces
<1>6. CASE spin_check(w)
  BY <1>6, spin_checkForm, IdlingPlaces
<1>7. CASE spun_out(w)
  BY <1>7, spun_outForm, IdlingPlaces
<1>8. CASE relinquish(w)
  BY <1>8, relinquishForm, RelinquishesPlaces
<1>9. CASE promote(w)
  BY <1>9, promoteForm, AdvancesPlaces
<1>10. CASE prepare_wait(w)
  BY <1>10, prepare_waitForm, IdlingPlaces
<1>11. CASE park_check(w)
  BY <1>1, <1>11, park_checkForm, IdlingPlaces
<1>12. CASE commit_wait(w)
  BY <1>1, <1>12, commit_waitForm, IdlingPlaces
<1> QED  BY <1>3, <1>4, <1>5, <1>6, <1>7, <1>8, <1>9, <1>10, <1>11, <1>12 DEF Idling

LEMMA DestructorPlaces ==
    ASSUME Types, Places, Destructor
    PROVE  Places'
<1>1. UNCHANGED <<queues, local_normal, runs, sub, sig, issued>>
  BY DEF Destructor, set_quit, advance_all, wake_all, queueVars, subVars
<1>2. \A v \in Workers : SameHand(v)
  <2>1. CASE set_quit
    BY <2>1 DEF set_quit, SameHand
  <2>2. CASE advance_all
    BY <2>2, advance_allTypes DEF Advanced, SameThread
  <2>3. CASE wake_all
    BY <2>3, wake_allTypes DEF AllRoused, SameHand
  <2> QED  BY <2>1, <2>2, <2>3 DEF Destructor
<1> QED  BY <1>1, <1>2, PlacesSame

LEMMA PlacesStep ==
    ASSUME Types, Places, [Next]_vars
    PROVE  Places'
<1>1. ASSUME NEW w \in Workers, WorkerStep(w) \/ yield_to_higher(w) PROVE Places'
  <2>1. CASE Signalling(w)
    BY <2>1, SignallingPlaces DEF Actors
  <2>2. CASE FindWork(w)
    BY <2>2, FindWorkPlaces
  <2>3. CASE Idling(w)
    BY <2>3, IdlingStepPlaces
  <2>4. CASE run_task(w)
    BY <2>4, run_taskForm, RunsPlaces
  <2>5. CASE spawn(w)
    BY <2>5, spawnForm, ForksPlaces
  <2>6. CASE return(w)
    BY <2>6, returnForm, ReturnsPlaces
  <2>7. CASE yield_to_higher(w)
    BY <2>7, yield_to_higherForm, YieldsPlaces
  <2> QED  BY <1>1, <2>1, <2>2, <2>3, <2>4, <2>5, <2>6, <2>7 DEF WorkerStep
<1>2. ASSUME NEW e \in Externals, Signalling(e) \/ issue(e) PROVE Places'
  BY <1>2, SignallingPlaces, issuePlaces DEF Actors
<1>3. CASE Destructor
  BY <1>3, DestructorPlaces
<1>4. CASE UNCHANGED vars
  <2>1. UNCHANGED <<queues, local_normal, runs, sub, sig, issued, worker>>
    BY <1>4 DEF vars, queueVars, subVars
  <2> QED  BY <2>1, PlacesSame DEF SameHand
<1> QED  BY <1>1, <1>2, <1>3, <1>4 DEF Next

-----------------------------------------------------------------------------
(* Layer 4, proved: who will look *)

Owning == {"high", "low_valve", "global_valve", "take", "run", "relinquish", "body"}
Quitting == {"all_empty", "exited"}
\* A worker that sleeps, leaves or has passed a class is at one of these.
Shunning == ParkPcs \cup Quitting

\* A miss on a class with an entry has somebody about to publish.
LEMMA MissedUnready ==
    ASSUME Types, UnreadyOwned, NEW c \in Classes, queues[c] # <<>>, ~Poppable(c)
    PROVE  Publishing /\ Waking
<1>1. queues[c] \in Seq(Slot) /\ 1 \in DOMAIN queues[c] /\ Head(queues[c]) = queues[c][1]
  <2>1. queues[c] \in Seq(Slot) /\ DOMAIN queues[c] = 1..Len(queues[c])
    BY QueuesTyped
  <2>2. Len(queues[c]) \in Nat /\ Len(queues[c]) >= 1 /\ Head(queues[c]) = queues[c][1]
    BY <2>1, HeadTail
  <2>3. 1 \in 1..Len(queues[c])
    BY <2>2
  <2> QED  BY <2>1, <2>2, <2>3
<1>2. ~queues[c][1].ready
  BY <1>1 DEF Poppable
<1> QED  BY <1>1, <1>2 DEF UnreadyOwned, Publishing, Waking

LEMMA UnreadySame ==
    ASSUME UnreadyOwned, queues' = queues,
           \A a \in Actors : sig[a] = "publish" => sig'[a] = "publish" /\ sub'[a] = sub[a]
    PROVE  UnreadyOwned'
BY DEF UnreadyOwned

LEMMA popUnready ==
    ASSUME Types, UnreadyOwned, NEW c \in Classes, Poppable(c), queues' = [queues EXCEPT ![c] = Tail(@)],
           sig' = sig, sub' = sub
    PROVE  UnreadyOwned' /\ \A d \in Classes : queues'[d] # <<>> => queues[d] # <<>>
<1>1. /\ queues \in [Classes -> Seq(Slot)] /\ queues[c] \in Seq(Slot) /\ queues[c] # <<>>
      /\ DOMAIN queues[c] = 1..Len(queues[c])
  BY QueuesTyped DEF Poppable
<1>2. PICK q \in Seq(Slot) : q = Tail(queues[c])
  BY <1>1, HeadTail
<1>3. PICK n \in Nat : n = Len(queues[c]) /\ n >= 1
  BY <1>1, HeadTail
<1>4. Len(q) = n - 1 /\ \A i \in 1..(n - 1) : q[i] = queues[c][i + 1]
  BY <1>1, <1>2, <1>3, HeadTail
<1>5. queues'[c] = q /\ \A d \in Classes : d # c => queues'[d] = queues[d]
  BY <1>1, <1>2
<1>6. DOMAIN q = 1..(n - 1) /\ DOMAIN queues[c] = 1..n
  BY <1>1, <1>2, <1>3, <1>4, LenProperties
<1>7. \A i \in DOMAIN q : i + 1 \in DOMAIN queues[c] /\ q[i] = queues[c][i + 1]
  <2>1. \A i \in 1..(n - 1) : i + 1 \in 1..n
    BY <1>3
  <2> QED  BY <1>4, <1>6, <2>1
<1>8. UnreadyOwned'
  <2> SUFFICES ASSUME NEW d \in Classes, NEW i \in DOMAIN queues'[d], ~queues'[d][i].ready
               PROVE  \E a \in Actors : sig[a] = "publish" /\ sub[a] = queues'[d][i].task
    BY DEF UnreadyOwned
  <2>1. PICK j \in DOMAIN queues[d] : queues[d][j] = queues'[d][i]
    BY <1>5, <1>7
  <2> QED  BY <2>1 DEF UnreadyOwned
<1> QED  BY <1>1, <1>5, <1>8

\* w's step moves neither a queue nor a submit.
LEMMA LooksLocal ==
    ASSUME Types, UnreadyOwned, KeysGood, SomebodyLooks, NEW w \in Workers, Local(w),
           UNCHANGED <<queues, sig, sub>>,
           \A c \in Classes : PassedBy(worker'[w], c) /\ queues[c] # <<>>
                                => PassedBy(worker[w], c) \/ ~Poppable(c),
           \A c \in Classes : Responsible(worker[w], c) /\ queues[c] # <<>>
                                => Responsible(worker'[w], c) \/ PassedBy(worker'[w], c)
    PROVE  UnreadyOwned' /\ KeysGood' /\ SomebodyLooks'
<1>1. UnreadyOwned'
  BY UnreadySame
<1>2. (Publishing' <=> Publishing) /\ (Waking' <=> Waking) /\ (Publishing => Waking)
  BY DEF Publishing, Waking
<1>3. \A v \in Workers : v # w => worker'[v] = worker[v]
  BY DEF Local
<1>4. ASSUME NEW v \in Workers, NEW c \in Classes, PassedBy(worker'[v], c), queues[c] # <<>>
      PROVE  Publishing
  <2>1. CASE PassedBy(worker[v], c)
    BY <1>4, <2>1 DEF KeysGood
  <2>2. CASE ~Poppable(c)
    BY <1>4, <2>2, MissedUnready
  <2> QED  BY <1>3, <1>4, <2>1, <2>2
<1>5. KeysGood'
  BY <1>2, <1>4 DEF KeysGood
<1>6. ASSUME NEW c \in Classes, queues[c] # <<>>
      PROVE  Waking \/ \E v \in Workers : Responsible(worker'[v], c)
  <2>1. CASE Waking
    BY <2>1
  <2>2. ASSUME NEW v \in Workers, Responsible(worker[v], c)
        PROVE  Waking \/ \E x \in Workers : Responsible(worker'[x], c)
    <3>1. CASE v # w
      BY <1>3, <2>2, <3>1
    <3>2. CASE v = w /\ Responsible(worker'[w], c)
      BY <3>2
    <3>3. CASE v = w /\ PassedBy(worker'[w], c)
      BY <1>2, <1>4, <1>6, <3>3
    <3> QED  BY <1>6, <2>2, <3>1, <3>2, <3>3
  <2> QED  BY <1>6, <2>1, <2>2 DEF SomebodyLooks
<1>7. SomebodyLooks'
  BY <1>2, <1>6 DEF SomebodyLooks
<1> QED  BY <1>1, <1>5, <1>7

\* A worker that is none of the above looks at every class yet.
LEMMA Responsive ==
    ASSUME NEW r, r.pc \notin Shunning \/ (r.pc \notin Quitting /\ r.from # "park" /\ r.pc # "asleep"),
           NEW c \in Classes
    PROVE  Responsible(r, c) /\ ~PassedBy(r, c)
<1>1. c \in {"high", "normal", "low"}
  BY DEF Classes
<1>2. "asleep" \in Shunning /\ "all_empty" \in Quitting /\ "exited" \in Quitting /\ Quitting \subseteq Shunning
      /\ ParkPcs \subseteq Shunning
  BY DEF Shunning, ParkPcs, Quitting
<1>3. After(c) \subseteq ParkPcs
  BY <1>1 DEF After, ParkPcs, Scans
<1> QED  BY <1>2, <1>3 DEF Responsible, PassedBy

\* w is awake after its step.
LEMMA LooksBusy ==
    ASSUME KeysGood, SomebodyLooks, NEW w \in Workers, \A v \in Workers : v # w => worker'[v] = worker[v],
           \/ worker'[w].pc \in {"run", "relinquish", "body"}
           \/ worker'[w].pc = "high" /\ worker'[w].from = "main",
           \A c \in Classes : queues'[c] # <<>> => queues[c] # <<>>, Publishing => Publishing'
    PROVE  KeysGood' /\ SomebodyLooks'
<1>1. \A c \in Classes : Responsible(worker'[w], c) /\ ~PassedBy(worker'[w], c)
  <2>1. \A c \in Classes : c \in {"high", "normal", "low"}
    BY DEF Classes
  <2> QED  BY <2>1 DEF Responsible, PassedBy, After, ParkPcs, Scans
<1>2. KeysGood'
  BY <1>1 DEF KeysGood
<1>3. SomebodyLooks'
  BY <1>1 DEF SomebodyLooks
<1> QED  BY <1>2, <1>3

LEMMA OwnersLocal ==
    ASSUME OwnersLook, NEW w \in Workers, \A v \in Workers : v # w => worker'[v] = worker[v],
           \A v \in Workers : v # w /\ local_normal'[v] # <<>> => local_normal[v] # <<>>,
           local_normal'[w] # <<>> => worker'[w].pc \in Owning
    PROVE  OwnersLook'
BY DEF OwnersLook, Owning

LEMMA AfterClasses ==
    /\ Classes = {"high", "normal", "low"}
    /\ After("high") = ParkPcs \ {"high", "run"}
    /\ After("normal") = {"steal", "steal_cas", "low", "park_check", "commit", "asleep"}
    /\ After("low") = {"park_check", "commit", "asleep"}
    /\ ParkPcs = {"high", "low_valve", "global_valve", "take", "normal", "steal", "steal_cas", "low",
                  "park_check", "commit", "asleep", "run"}
BY DEF Classes, After, ParkPcs, Scans

\* A turn that leaves w looking: it passes a class only by missing it.
LEMMA TurnLooks ==
    ASSUME Types, WakeUps, NEW w \in Workers, NEW S, Turn(w, S), UNCHANGED <<queues, local_normal, sig, sub>>,
           \A c \in Classes : worker[w].from = "park" /\ worker'[w].pc \in After(c)
                                => worker[w].pc \in After(c) \/ ~Poppable(c),
           worker'[w].pc \notin {"all_empty", "exited", "asleep"},
           local_normal[w] # <<>> /\ worker[w].pc \in Owning => worker'[w].pc \in Owning
    PROVE  WakeUps'
<1>1. /\ Local(w) /\ worker'[w].from = worker[w].from /\ (worker[w].moved => worker'[w].moved)
      /\ \A v \in Workers : v # w => worker'[v] = worker[v]
  BY DEF Turn, SameKey, Local
<1>2. \A c \in Classes : PassedBy(worker'[w], c) => PassedBy(worker[w], c) \/ ~Poppable(c)
  BY <1>1 DEF PassedBy
<1>3. \A c \in Classes : Responsible(worker'[w], c) \/ PassedBy(worker'[w], c)
  BY DEF Responsible
<1>4. UnreadyOwned' /\ KeysGood' /\ SomebodyLooks'
  BY <1>1, <1>2, <1>3, LooksLocal DEF WakeUps
<1>5. local_normal'[w] # <<>> => worker'[w].pc \in Owning
  BY DEF WakeUps, OwnersLook, Owning
<1>6. OwnersLook'
  BY <1>1, <1>5, OwnersLocal DEF WakeUps
<1> QED  BY <1>4, <1>6 DEF WakeUps

LEMMA ScannedFrame ==
    ASSUME NEW w \in Workers, NEW S, Scanned(w, S)
    PROVE  Turn(w, S) /\ UNCHANGED <<queues, local_normal, sig, sub>> /\ worker'[w].pc \in S
BY DEF Scanned, Turn, queueVars, subVars

\* A worker that is awake and busy after its step.
LEMMA BusyWakes ==
    ASSUME Types, WakeUps, NEW w \in Workers, Local(w), UnreadyOwned',
           \/ worker'[w].pc \in {"run", "relinquish", "body"}
           \/ worker'[w].pc = "high" /\ worker'[w].from = "main",
           \A c \in Classes : queues'[c] # <<>> => queues[c] # <<>>,
           \A v \in Workers : v # w /\ local_normal'[v] # <<>> => local_normal[v] # <<>>,
           Publishing => Publishing'
    PROVE  WakeUps'
<1>1. \A v \in Workers : v # w => worker'[v] = worker[v]
  BY DEF Local
<1>2. KeysGood' /\ SomebodyLooks'
  BY <1>1, LooksBusy DEF WakeUps
<1>3. OwnersLook'
  BY <1>1, OwnersLocal DEF WakeUps, Owning
<1> QED  BY <1>2, <1>3 DEF WakeUps

LEMMA PopsWakes ==
    ASSUME Types, WakeUps, NEW w \in Workers, NEW c \in Classes, Pops(w, c)
    PROVE  WakeUps'
<1>1. /\ Local(w) /\ worker'[w].pc \in {"run", "relinquish"} /\ sig' = sig /\ sub' = sub
      /\ local_normal' = local_normal /\ Poppable(c) /\ queues' = [queues EXCEPT ![c] = Tail(@)]
  BY DEF Pops, Finds, subVars, pop
<1>2. UnreadyOwned' /\ \A d \in Classes : queues'[d] # <<>> => queues[d] # <<>>
  BY <1>1, popUnready DEF WakeUps
<1>3. Publishing => Publishing'
  BY <1>1 DEF Publishing
<1> QED  BY <1>1, <1>2, <1>3, BusyWakes

LEMMA TakesWakes ==
    ASSUME Types, WakeUps, NEW w \in Workers, Takes(w) \/ \E v \in Workers : Steals(w, v)
    PROVE  WakeUps'
<1>1. /\ Local(w) /\ worker'[w].pc \in {"run", "relinquish"} /\ sig' = sig /\ sub' = sub /\ queues' = queues
  BY DEF Takes, Steals, Finds, subVars
<1>2. local_normal \in [Workers -> Seq(Tasks)]
  BY DEF Types, QueueTypes
<1>3. \A v \in Workers : v # w /\ local_normal'[v] # <<>> => local_normal[v] # <<>>
  <2>1. CASE Takes(w)
    BY <1>2, <2>1 DEF Takes
  <2>2. ASSUME NEW x \in Workers, Steals(w, x)
        PROVE  \A v \in Workers : v # w /\ local_normal'[v] # <<>> => local_normal[v] # <<>>
    BY <1>2, <2>2 DEF Steals
  <2> QED  BY <2>1, <2>2
<1>4. UnreadyOwned'
  BY <1>1, UnreadySame DEF WakeUps
<1>5. Publishing => Publishing'
  BY <1>1 DEF Publishing
<1> QED  BY <1>1, <1>3, <1>4, <1>5, BusyWakes

LEMMA FindWorkWakes ==
    ASSUME Types, WakeUps, NEW w \in Workers, FindWork(w)
    PROVE  WakeUps'
<1>1. CASE \E c \in Classes : Pops(w, c)
  BY <1>1, PopsWakes
<1>3. CASE pop_high(w)
  <2>1. ASSUME worker[w].pc = "high", ~Poppable("high"), Scanned(w, {"low_valve", "global_valve", "take"})
        PROVE  WakeUps'
    <3>1. /\ Turn(w, {"low_valve", "global_valve", "take"}) /\ UNCHANGED <<queues, local_normal, sig, sub>>
          /\ worker'[w].pc \in {"low_valve", "global_valve", "take"}
      BY <2>1, ScannedFrame
    <3>2. \A c \in Classes : worker'[w].pc \in After(c) => ~Poppable(c)
      BY <2>1, <3>1, AfterClasses
    <3> QED  BY <3>1, <3>2, TurnLooks DEF Owning
  <2> QED  BY <1>1, <1>3, <2>1, pop_highForm, AfterClasses
<1>4. CASE low_valve(w)
  <2>1. ASSUME worker[w].pc = "low_valve", Scanned(w, {"global_valve", "take"})
        PROVE  WakeUps'
    <3>1. /\ Turn(w, {"global_valve", "take"}) /\ UNCHANGED <<queues, local_normal, sig, sub>>
          /\ worker'[w].pc \in {"global_valve", "take"}
      BY <2>1, ScannedFrame
    <3>2. \A c \in Classes : worker'[w].pc \in After(c) => worker[w].pc \in After(c)
      BY <2>1, <3>1, AfterClasses
    <3> QED  BY <3>1, <3>2, TurnLooks DEF Owning
  <2> QED  BY <1>1, <1>4, <2>1, low_valveForm, AfterClasses
<1>5. CASE global_valve(w)
  <2>1. ASSUME worker[w].pc = "global_valve", Scanned(w, {"take"})
        PROVE  WakeUps'
    <3>1. /\ Turn(w, {"take"}) /\ UNCHANGED <<queues, local_normal, sig, sub>>
          /\ worker'[w].pc = "take"
      BY <2>1, ScannedFrame
    <3>2. \A c \in Classes : worker'[w].pc \in After(c) => worker[w].pc \in After(c)
      BY <2>1, <3>1, AfterClasses
    <3> QED  BY <3>1, <3>2, TurnLooks DEF Owning
  <2> QED  BY <1>1, <1>5, <2>1, global_valveForm, AfterClasses
<1>6. CASE take(w)
  <2>1. ASSUME worker[w].pc = "take", local_normal[w] = <<>>, Scanned(w, {"normal"})
        PROVE  WakeUps'
    <3>1. /\ Turn(w, {"normal"}) /\ UNCHANGED <<queues, local_normal, sig, sub>>
          /\ worker'[w].pc = "normal"
      BY <2>1, ScannedFrame
    <3>2. \A c \in Classes : worker'[w].pc \in After(c) => worker[w].pc \in After(c)
      BY <2>1, <3>1, AfterClasses
    <3> QED  BY <2>1, <3>1, <3>2, TurnLooks
  <2> QED  BY <1>6, <2>1, takeForm, TakesWakes
<1>7. CASE pop_normal(w)
  <2>1. ASSUME worker[w].pc = "normal", ~Poppable("normal"), Scanned(w, {"steal"})
        PROVE  WakeUps'
    <3>1. /\ Turn(w, {"steal"}) /\ UNCHANGED <<queues, local_normal, sig, sub>>
          /\ worker'[w].pc = "steal"
      BY <2>1, ScannedFrame
    <3>2. \A c \in Classes : worker'[w].pc \in After(c) => worker[w].pc \in After(c) \/ ~Poppable(c)
      BY <2>1, <3>1, AfterClasses
    <3> QED  BY <2>1, <3>1, <3>2, TurnLooks DEF Owning
  <2> QED  BY <1>1, <1>7, <2>1, pop_normalForm, AfterClasses
<1>8. CASE steal(w)
  <2>1. ASSUME worker[w].pc = "steal", Scanned(w, {"steal", "low"})
        PROVE  WakeUps'
    <3>1. /\ Turn(w, {"steal", "low"}) /\ UNCHANGED <<queues, local_normal, sig, sub>>
          /\ worker'[w].pc \in {"steal", "low"}
      BY <2>1, ScannedFrame
    <3>2. \A c \in Classes : worker'[w].pc \in After(c) => worker[w].pc \in After(c)
      BY <2>1, <3>1, AfterClasses
    <3> QED  BY <2>1, <3>1, <3>2, TurnLooks DEF Owning
  <2>2. ASSUME StealReads(w) PROVE WakeUps'
    <3>1. /\ Turn(w, {"steal_cas"}) /\ UNCHANGED <<queues, local_normal, sig, sub>>
          /\ worker'[w].pc = "steal_cas" /\ worker[w].pc = "steal"
      BY <2>2 DEF StealReads, Turn, queueVars, subVars
    <3>2. \A c \in Classes : worker'[w].pc \in After(c) => worker[w].pc \in After(c)
      BY <3>1, AfterClasses
    <3> QED  BY <3>1, <3>2, TurnLooks DEF Owning
  <2> QED  BY <1>8, <2>1, <2>2, stealForm
<1>9. CASE steal_cas(w)
  <2>1. ASSUME worker[w].pc = "steal_cas", Scanned(w, {"steal"})
        PROVE  WakeUps'
    <3>1. /\ Turn(w, {"steal"}) /\ UNCHANGED <<queues, local_normal, sig, sub>>
          /\ worker'[w].pc = "steal"
      BY <2>1, ScannedFrame
    <3>2. \A c \in Classes : worker'[w].pc \in After(c) => worker[w].pc \in After(c)
      BY <2>1, <3>1, AfterClasses
    <3> QED  BY <2>1, <3>1, <3>2, TurnLooks DEF Owning
  <2> QED  BY <1>9, <2>1, steal_casForm, TakesWakes
<1>10. CASE pop_low(w)
  <2>1. ASSUME worker[w].pc = "low", ~Poppable("low"), Scanned(w, {"quit_check", "spin_check", "park_check"})
        PROVE  WakeUps'
    <3>1. /\ Turn(w, {"quit_check", "spin_check", "park_check"})
          /\ UNCHANGED <<queues, local_normal, sig, sub>>
          /\ worker'[w].pc \in {"quit_check", "spin_check", "park_check"}
      BY <2>1, ScannedFrame
    <3>2. \A c \in Classes : worker'[w].pc \in After(c) => worker[w].pc \in After(c) \/ ~Poppable(c)
      BY <2>1, <3>1, AfterClasses
    <3> QED  BY <2>1, <3>1, <3>2, TurnLooks DEF Owning
  <2> QED  BY <1>1, <1>10, <2>1, pop_lowForm, AfterClasses
<1> QED  BY <1>3, <1>4, <1>5, <1>6, <1>7, <1>8, <1>9, <1>10 DEF FindWork

\* A step of the idle wait.
LEMMA IdleLooks ==
    ASSUME Types, WakeUps, NEW w \in Workers, Local(w), UNCHANGED <<queues, local_normal, sig, sub>>,
           worker[w].pc \in IdlePcs,
           \A c \in Classes : PassedBy(worker'[w], c) => PassedBy(worker[w], c),
           \A c \in Classes : Responsible(worker[w], c) /\ queues[c] # <<>>
                                => Responsible(worker'[w], c) \/ PassedBy(worker'[w], c)
    PROVE  WakeUps'
<1>1. UnreadyOwned' /\ KeysGood' /\ SomebodyLooks'
  BY LooksLocal DEF WakeUps
<1>2. local_normal[w] = <<>>
  BY DEF WakeUps, OwnersLook, IdlePcs
<1>3. OwnersLook'
  BY <1>2, OwnersLocal DEF WakeUps, Local
<1> QED  BY <1>1, <1>3 DEF WakeUps

\* ... after which w is awake and not in a park.
LEMMA IdleUp ==
    ASSUME Types, WakeUps, NEW w \in Workers, Local(w), UNCHANGED <<queues, local_normal, sig, sub>>,
           worker[w].pc \in IdlePcs, worker'[w].from # "park" \/ worker'[w].pc = "high",
           worker'[w].pc \notin {"all_empty", "exited", "asleep"}
    PROVE  WakeUps'
<1>1. \A c \in Classes : "high" \notin After(c)
  BY AfterClasses
<1>2. \A c \in Classes : ~PassedBy(worker'[w], c) /\ Responsible(worker'[w], c)
  BY <1>1 DEF Responsible, PassedBy
<1> QED  BY <1>2, IdleLooks

LEMMA LoopsWakes ==
    ASSUME Types, WakeUps, NEW w \in Workers, Loops(w), UNCHANGED <<queues, local_normal, sig, sub>>
    PROVE  WakeUps'
<1>1. Local(w) /\ worker'[w].pc = "high" /\ worker'[w].from = "main"
  BY DEF Loops
<1>2. UnreadyOwned'
  BY UnreadySame DEF WakeUps
<1>3. Publishing => Publishing'
  BY DEF Publishing
<1> QED  BY <1>1, <1>2, <1>3, BusyWakes

LEMMA PlaceTyped ==
    ASSUME Types, NEW w \in Workers
    PROVE  worker[w].place \in Nat /\ worker[w].place >= 1
<1>1. worker[w].place \in Nat \ {0}
  BY DEF Types, Shapes, ThreadSet
<1> QED  BY <1>1

LEMMA IndexClass ==
    ASSUME NEW c \in Classes
    PROVE  IndexOf(c) \in 1..3 /\ Class[IndexOf(c)] = c
BY DEF Classes, IndexOf, Class

LEMMA quit_checkWakes ==
    ASSUME Types, WakeUps, NEW w \in Workers, quit_check(w)
    PROVE  WakeUps'
<1>1. worker[w].pc = "quit_check" /\ Scanned(w, {"all_empty", "go_idle"}) /\ worker'[w].place = 1
  BY quit_checkForm
<1>2. /\ UNCHANGED <<queues, local_normal, sig, sub>> /\ worker'[w].pc \in {"all_empty", "go_idle"}
      /\ Local(w) /\ worker'[w].from = worker[w].from
  BY <1>1, ScannedFrame DEF Turn
<1>3. worker[w].from = "main"
  BY <1>1, EmptyHanded DEF IdlePcs
<1>4. \A c \in Classes : ~PassedBy(worker'[w], c) /\ Responsible(worker'[w], c)
  <2>1. \A c \in Classes : 1 <= IndexOf(c)
    BY IndexClass
  <2> QED  BY <1>1, <1>2, <1>3, <2>1 DEF PassedBy, Responsible
<1> QED  BY <1>1, <1>2, <1>4, IdleLooks DEF IdlePcs

LEMMA all_emptyWakes ==
    ASSUME Types, WakeUps, NEW w \in Workers, all_empty(w)
    PROVE  WakeUps'
<1>1. CASE worker[w].pc = "all_empty" /\ Scanned(w, {"go_idle"})
  <2>1. /\ UNCHANGED <<queues, local_normal, sig, sub>> /\ worker'[w].pc \in {"go_idle"}
        /\ Local(w) /\ worker'[w].from = worker[w].from
    BY <1>1, ScannedFrame DEF Turn
  <2>2. worker[w].from = "main"
    BY <1>1, EmptyHanded DEF IdlePcs
  <2> QED  BY <1>1, <2>1, <2>2, IdleUp DEF IdlePcs
<1>2. CASE GoesOn(w)
  <2>1. /\ UNCHANGED <<queues, local_normal, sig, sub>> /\ worker'[w].pc \in {"all_empty"}
        /\ Local(w) /\ worker'[w].from = worker[w].from /\ worker[w].pc = "all_empty"
    BY <1>2, ScannedFrame DEF Turn, GoesOn
  <2>2. worker[w].from = "main"
    BY <2>1, EmptyHanded DEF IdlePcs
  <2>3. PICK n \in Nat : n = worker[w].place /\ worker'[w].place = n + 1
    BY <1>2, PlaceTyped DEF GoesOn
  <2>4. ASSUME NEW c \in Classes, n <= IndexOf(c), queues[c] # <<>> PROVE n + 1 <= IndexOf(c)
    <3>1. PICK k \in 1..3 : k = IndexOf(c) /\ Class[k] = c
      BY IndexClass
    <3>2. n # k
      BY <1>2, <2>3, <2>4, <3>1 DEF GoesOn, IsEmpty
    <3> QED  BY <2>4, <3>1, <3>2
  <2>5. \A c \in Classes : ~PassedBy(worker'[w], c)
    BY <2>1, <2>2 DEF PassedBy
  <2>6. \A c \in Classes : Responsible(worker[w], c) /\ queues[c] # <<>> => Responsible(worker'[w], c)
    BY <2>1, <2>3, <2>4, <2>5 DEF Responsible
  <2> QED  BY <2>1, <2>5, <2>6, IdleLooks DEF IdlePcs
<1>3. CASE Exits(w)
  <2>1. /\ UNCHANGED <<queues, local_normal, sig, sub>> /\ worker'[w].pc = "exited"
        /\ Local(w) /\ worker'[w].from = "main" /\ worker[w].pc = "all_empty"
    BY <1>3 DEF Exits, queueVars, subVars
  <2>2. \A c \in Classes : ~PassedBy(worker'[w], c)
    BY <2>1 DEF PassedBy
  <2>3. ASSUME NEW c \in Classes PROVE ~Responsible(worker[w], c)
    <3>1. PICK k \in 1..3 : k = IndexOf(c)
      BY IndexClass
    <3>2. worker[w].place = 3 + N /\ N \in Nat /\ N >= 1
      BY <1>3, Constants DEF Exits
    <3>3. ~ (3 + N <= k)
      BY <3>1, <3>2
    <3> QED  BY <2>1, <3>1, <3>2, <3>3 DEF Responsible
  <2> QED  BY <2>1, <2>2, <2>3, IdleLooks DEF IdlePcs
<1> QED  BY <1>1, <1>2, <1>3, all_emptyForm

LEMMA wait_for_workWakes ==
    ASSUME Types, WakeUps, NEW w \in Workers, GoesIdle(w)
    PROVE  WakeUps'
<1>1. /\ UNCHANGED <<queues, local_normal, sig, sub>> /\ Local(w) /\ worker[w].pc = "go_idle"
      /\ worker'[w].pc \in {"high", "spun_out"} /\ worker'[w].from \in {"main", "spin"}
  BY DEF GoesIdle, queueVars, subVars
<1> QED  BY <1>1, IdleUp DEF IdlePcs

LEMMA SpinningWakes ==
    ASSUME Types, WakeUps, NEW w \in Workers, Spins(w) \/ StopsSpinning(w) \/ LeavesSpin(w), SpinRest
    PROVE  WakeUps'
<1>1. UNCHANGED <<queues, local_normal, sig, sub>>
  BY DEF SpinRest, queueVars, subVars
<1>2. CASE Spins(w) \/ StopsSpinning(w)
  <2>1. /\ worker[w].pc \in {"spin_check", "spun_out"} /\ worker'[w].pc \in {"high", "spun_out", "prepare"}
        /\ Local(w) /\ worker'[w].from = worker[w].from
    BY <1>2 DEF Spins, StopsSpinning, Turn
  <2>2. worker[w].from = "spin"
    BY <2>1, EmptyHanded DEF IdlePcs
  <2> QED  BY <1>1, <2>1, <2>2, IdleUp DEF IdlePcs
<1>3. CASE LeavesSpin(w)
  BY <1>1, <1>3, LoopsWakes DEF LeavesSpin
<1> QED  BY <1>2, <1>3

LEMMA PreparesWakes ==
    ASSUME Types, WakeUps, NEW w \in Workers, Prepares(w)
    PROVE  WakeUps'
<1>1. UNCHANGED <<queues, local_normal, sig, sub>> /\ Local(w) /\ worker[w].pc = "prepare"
      /\ worker'[w].pc = "high"
  BY DEF Prepares, queueVars, subVars
<1> QED  BY <1>1, IdleUp DEF IdlePcs

LEMMA ParkingWakes ==
    ASSUME Types, WakeUps, NEW w \in Workers, park_check(w) \/ commit_wait(w)
    PROVE  WakeUps'
<1>1. ASSUME Loops(w), Rest PROVE WakeUps'
  BY <1>1, LoopsWakes DEF Rest, queueVars, subVars
<1>2. ASSUME worker[w].pc = "park_check", Scanned(w, {"commit"}) PROVE WakeUps'
  <2>1. /\ Turn(w, {"commit"}) /\ UNCHANGED <<queues, local_normal, sig, sub>> /\ worker'[w].pc \in {"commit"}
    BY <1>2, ScannedFrame
  <2>2. \A c \in Classes : worker'[w].pc \in After(c) => worker[w].pc \in After(c)
    BY <1>2, <2>1, AfterClasses
  <2> QED  BY <1>2, <2>1, <2>2, TurnLooks DEF Owning
<1>3. ASSUME worker[w].pc = "commit", worker[w].from = "park", ~worker[w].moved, Scanned(w, {"asleep"})
      PROVE  WakeUps'
  <2>1. /\ Turn(w, {"asleep"}) /\ UNCHANGED <<queues, local_normal, sig, sub>> /\ worker'[w].pc \in {"asleep"}
    BY <1>3, ScannedFrame
  <2>2. \A c \in Classes : PassedBy(worker[w], c)
    BY <1>3, AfterClasses DEF PassedBy
  <2>3. \A c \in Classes : ~Responsible(worker[w], c)
    BY <2>2 DEF Responsible
  <2>4. Local(w)
    BY <2>1 DEF Turn
  <2> QED  BY <1>3, <2>1, <2>2, <2>3, <2>4, IdleLooks DEF IdlePcs
<1> QED  BY <1>1, <1>2, <1>3, park_checkForm, commit_waitForm

\* Actor a goes from one statement of its submit to the next; everybody else stays.
Steps(a, s) == sig'[a] = s /\ \A b \in Actors : b # a => sig'[b] = sig[b] /\ sub'[b] = sub[b]

\* The part of the layer a submit that moves no entry can disturb.
LEMMA OwnersKept ==
    ASSUME OwnersLook, \A v \in Workers : worker'[v].pc = worker[v].pc, local_normal' = local_normal
    PROVE  OwnersLook'
BY DEF OwnersLook

\* A submit that is not about to wake anybody before or after the step.
LEMMA EarlyWakes ==
    ASSUME Types, WakeUps, NEW a \in Actors, NEW s, Steps(a, s), UNCHANGED <<queues, local_normal, worker>>,
           sig[a] \notin {"publish", "signal", "spinners", "wake"}
    PROVE  WakeUps'
<1>1. \A b \in Actors : sig[b] \in {"publish", "signal", "spinners", "wake"} => sig'[b] = sig[b] /\ sub'[b] = sub[b]
  BY DEF Steps
<1>2. (Publishing => Publishing') /\ (Waking => Waking')
  BY <1>1 DEF Publishing, Waking
<1>3. UnreadyOwned'
  BY <1>1, UnreadySame DEF WakeUps
<1>4. KeysGood' /\ SomebodyLooks'
  BY <1>2 DEF WakeUps, KeysGood, SomebodyLooks
<1>5. OwnersLook'
  BY OwnersKept DEF WakeUps
<1> QED  BY <1>3, <1>4, <1>5 DEF WakeUps

\* The submit is now at its signal: whoever has passed will be told.
LEMMA SignalWakes ==
    ASSUME NEW a \in Actors, sig'[a] \in {"publish", "signal"}
    PROVE  KeysGood' /\ SomebodyLooks'
BY DEF KeysGood, SomebodyLooks, Publishing, Waking

LEMMA SignalsSteps ==
    ASSUME Types, NEW a \in Actors, NEW s, Signals(a, s)
    PROVE  Steps(a, s) /\ sub' = sub
BY SignalsStep DEF Steps

LEMMA DequesWakes ==
    ASSUME Types, WakeUps, NEW a \in Workers, Deques(a)
    PROVE  WakeUps'
<1>1. a \in Actors /\ Signals(a, "signal") /\ sig[a] = "push"
  BY DEF Deques, Actors
<1>2. sig'[a] = "signal" /\ \A b \in Actors : b # a => sig'[b] = sig[b] /\ sub'[b] = sub[b]
  BY <1>1, SignalsSteps DEF Steps
<1>3. KeysGood' /\ SomebodyLooks'
  BY <1>1, <1>2, SignalWakes
<1>4. UnreadyOwned'
  BY <1>1, <1>2, UnreadySame DEF WakeUps, Deques
<1>5. worker[a].pc = "body"
  BY <1>1, SignalsSub
<1>6. \A v \in Workers : v # a => local_normal'[v] = local_normal[v]
  BY DequesTyped DEF Deques
<1>7. OwnersLook'
  BY <1>5, <1>6, OwnersLocal DEF WakeUps, Deques, Owning
<1> QED  BY <1>3, <1>4, <1>7 DEF WakeUps

LEMMA ClaimsSlotWakes ==
    ASSUME Types, WakeUps, NEW a \in Actors, NEW c \in Classes, ClaimsSlot(a, c)
    PROVE  WakeUps'
<1>1. /\ queues \in [Classes -> Seq(Slot)] /\ queues[c] \in Seq(Slot)
      /\ DOMAIN queues[c] = 1..Len(queues[c]) /\ sub[a] \in Tasks
      /\ Signals(a, "publish") /\ sig[a] = "claim"
  BY QueuesTyped DEF ClaimsSlot
<1>2. sig'[a] = "publish" /\ sub' = sub /\ \A b \in Actors : b # a => sig'[b] = sig[b]
  BY <1>1, SignalsSteps DEF Steps
<1>3. KeysGood' /\ SomebodyLooks'
  BY <1>2, SignalWakes
<1> DEFINE y == [task |-> sub[a], ready |-> FALSE]
<1>4. y \in Slot /\ y.task = sub[a]
  BY <1>1 DEF Slot
<1>5. PICK x \in Slot : x = y /\ x.task = sub[a]
  BY <1>4
<1>6. PICK q \in Seq(Slot) : q = Append(queues[c], x)
  BY <1>1, Appended
<1>7. PICK n \in Nat : n = Len(queues[c])
  BY QueuesTyped
<1>8. Len(q) = n + 1 /\ q[n + 1] = x /\ \A i \in 1..n : q[i] = queues[c][i]
  BY <1>1, <1>6, <1>7, Appended
<1>9. queues'[c] = q /\ \A d \in Classes : d # c => queues'[d] = queues[d]
  BY <1>1, <1>5, <1>6 DEF ClaimsSlot
<1>10. DOMAIN q = 1..(n + 1) /\ DOMAIN queues[c] = 1..n /\ \A i \in 1..(n + 1) : i = n + 1 \/ i \in 1..n
  <2>1. DOMAIN q = 1..Len(q)
    BY <1>6, LenProperties
  <2> QED  BY <1>1, <1>7, <1>8, <2>1
<1>11. ASSUME NEW d \in Classes, NEW i \in DOMAIN queues'[d]
       PROVE  \/ queues'[d][i].task = sub[a]
              \/ i \in DOMAIN queues[d] /\ queues'[d][i] = queues[d][i]
  BY <1>5, <1>8, <1>9, <1>10, <1>11
<1>12. UnreadyOwned'
  <2> SUFFICES ASSUME NEW d \in Classes, NEW i \in DOMAIN queues'[d], ~queues'[d][i].ready
               PROVE  \E b \in Actors : sig'[b] = "publish" /\ sub'[b] = queues'[d][i].task
    BY DEF UnreadyOwned
  <2>1. CASE queues'[d][i].task = sub[a]
    BY <1>2, <2>1
  <2>2. CASE i \in DOMAIN queues[d] /\ queues'[d][i] = queues[d][i]
    <3>1. PICK b \in Actors : sig[b] = "publish" /\ sub[b] = queues[d][i].task
      BY <2>2 DEF WakeUps, UnreadyOwned
    <3> QED  BY <1>1, <1>2, <2>2, <3>1
  <2> QED  BY <1>11, <2>1, <2>2
<1>13. OwnersLook'
  BY OwnersKept DEF WakeUps, ClaimsSlot
<1> QED  BY <1>3, <1>12, <1>13 DEF WakeUps

LEMMA PublishesWakes ==
    ASSUME Types, Places, WakeUps, NEW a \in Actors, NEW c \in Classes, NEW i \in 1..Len(queues[c]),
           Publishes(a, c, i)
    PROVE  WakeUps'
<1>1. Signals(a, "signal") /\ sig[a] = "publish"
  BY DEF Publishes
<1>2. sig'[a] = "signal" /\ sub' = sub /\ \A b \in Actors : b # a => sig'[b] = sig[b]
  BY <1>1, SignalsSteps DEF Steps
<1>3. KeysGood' /\ SomebodyLooks'
  BY <1>2, SignalWakes
<1>4. /\ queues' \in [Classes -> Seq(Slot)] /\ Len(queues'[c]) = Len(queues[c])
      /\ \A d \in Classes : d # c => queues'[d] = queues[d]
  BY DEF Publishes
<1>5. \A d \in Classes : DOMAIN queues[d] = 1..Len(queues[d]) /\ DOMAIN queues'[d] = 1..Len(queues'[d])
  BY <1>4, QueuesTyped
<1>6. \A d \in Classes : DOMAIN queues'[d] = DOMAIN queues[d]
  BY <1>4, <1>5
<1>7. UnreadyOwned'
  <2> SUFFICES ASSUME NEW d \in Classes, NEW j \in DOMAIN queues'[d], ~queues'[d][j].ready
               PROVE  \E b \in Actors : sig'[b] = "publish" /\ sub'[b] = queues'[d][j].task
    BY DEF UnreadyOwned
  <2>1. d # c \/ j # i
    BY DEF Publishes
  <2>2. j \in DOMAIN queues[d] /\ queues'[d][j] = queues[d][j]
    BY <1>4, <1>5, <1>6, <2>1 DEF Publishes
  <2>3. PICK b \in Actors : sig[b] = "publish" /\ sub[b] = queues[d][j].task
    BY <2>2 DEF WakeUps, UnreadyOwned
  <2>4. queues[d][j].task # sub[a]
    <3>1. i \in DOMAIN queues[c] /\ queues[c][i].task = sub[a]
      BY <1>5 DEF Publishes
    <3> QED  BY <2>1, <2>2, <3>1 DEF Places, QueuedOnce
  <2>5. b # a
    BY <2>3, <2>4
  <2> QED  BY <1>2, <2>2, <2>3, <2>5
<1>8. OwnersLook'
  BY OwnersKept DEF WakeUps, Publishes
<1> QED  BY <1>3, <1>7, <1>8 DEF WakeUps

\* Outside a shutdown no worker has left or is leaving.
LEMMA NobodyLeaves ==
    ASSUME Types, NEW a \in Actors, sig[a] # "idle"
    PROVE  \/ a \in Workers /\ worker[a].pc \in {"body", "run"}
           \/ \A v \in Workers : worker[v].pc \notin {"all_empty", "exited"}
<1>1. CASE a \in Workers
  BY <1>1 DEF Types, Shapes, SignalsFrom
<1>2. CASE a \in Externals
  <2>1. ~quit
    BY <1>2 DEF Types, SubTypes
  <2> QED  BY <2>1 DEF Types, Shapes, Shaped
<1> QED  BY <1>1, <1>2 DEF Actors

LEMMA AWorker == 1 \in Workers
BY Constants DEF Workers

\* Under the spin policy the submit ends here, and the workers never stop looking.
LEMMA SpinSignalWakes ==
    ASSUME Types, WakeUps, NEW a \in Actors, idle_policy = "spin", sig[a] = "signal",
           Signals(a, "idle"), UNCHANGED <<queues, local_normal, worker>>
    PROVE  WakeUps'
<1>1. sig'[a] = "idle" /\ sub' = sub /\ \A b \in Actors : b # a => sig'[b] = sig[b]
  BY SignalsSteps DEF Steps
<1>2. UnreadyOwned'
  BY <1>1, UnreadySame DEF WakeUps
<1>3. \A v \in Workers : worker[v].from = "main" /\ worker[v].pc # "asleep"
  BY DEF Types, Shapes, Shaped, MainPcs, Scans
<1>4. \A v \in Workers : \A c \in Classes : ~PassedBy(worker[v], c)
  BY <1>3 DEF PassedBy
<1>5. KeysGood'
  BY <1>4 DEF KeysGood
<1>6. \E v \in Workers : worker[v].pc \notin {"all_empty", "exited"}
  BY NobodyLeaves, AWorker
<1>7. SomebodyLooks'
  BY <1>3, <1>4, <1>6 DEF SomebodyLooks, Responsible
<1>8. OwnersLook'
  BY OwnersKept DEF WakeUps
<1> QED  BY <1>2, <1>5, <1>7, <1>8 DEF WakeUps

LEMMA AdvancesWakes ==
    ASSUME Types, WakeUps, NEW a \in Actors, NEW s \in {"spinners", "wake"}, Advances(a, s)
    PROVE  WakeUps'
<1>1. sig'[a] = s /\ sub' = sub /\ queues' = queues /\ local_normal' = local_normal
      /\ \A b \in Actors : b # a => sig'[b] = sig[b]
  BY ThenSig DEF Advances, queueVars
<1>2. UnreadyOwned'
  BY <1>1, UnreadySame DEF WakeUps, Advances
<1>3. Waking'
  BY <1>1 DEF Waking
<1>4. \A v \in Workers : worker'[v].pc = worker[v].pc /\ (worker'[v].from = "park" => worker'[v].moved)
  BY DEF Advances, Advanced, SameThread
<1>5. KeysGood' /\ SomebodyLooks'
  BY <1>3, <1>4 DEF KeysGood, SomebodyLooks, PassedBy
<1>6. OwnersLook'
  BY <1>1, <1>4, OwnersKept DEF WakeUps
<1> QED  BY <1>2, <1>5, <1>6 DEF WakeUps

LEMMA SpinnersLook ==
    ASSUME Types, Counts, num_spinning # 0
    PROVE  \E v \in Workers : \A c \in Classes : Responsible(worker[v], c)
<1>1. Spinners # {}
  BY FS_EmptySet DEF Counts, WorkerCounts
<1>2. PICK v \in Workers : Spinner(worker[v])
  BY <1>1 DEF Spinners
<1>3. worker[v].from = "spin" /\ worker[v].pc \in SpinPcs
  BY <1>2 DEF Spinner, Types, Shapes, Shaped
<1>4. worker[v].pc \notin {"asleep", "exited", "all_empty"}
  BY <1>3 DEF SpinPcs, Scans
<1> QED  BY <1>3, <1>4 DEF Responsible, PassedBy

LEMMA LooksWakes ==
    ASSUME Types, Counts, WakeUps, NEW a \in Actors, NEW s, Looks(a, s)
    PROVE  WakeUps'
<1>1. /\ sig'[a] = s /\ sub' = sub /\ UNCHANGED <<queues, local_normal, worker>> /\ sig[a] = "spinners"
      /\ s \in {"wake", "idle"} /\ (s = "idle" => num_spinning # 0)
      /\ \A b \in Actors : b # a => sig'[b] = sig[b]
  BY SignalsSteps DEF Looks, Steps, queueVars
<1>2. UnreadyOwned'
  BY <1>1, UnreadySame DEF WakeUps
<1>3. Publishing => Publishing'
  BY <1>1 DEF Publishing
<1>4. KeysGood'
  BY <1>1, <1>3 DEF WakeUps, KeysGood
<1>5. Waking' \/ \E v \in Workers : \A c \in Classes : Responsible(worker'[v], c)
  BY <1>1, SpinnersLook DEF Waking
<1>6. SomebodyLooks'
  BY <1>5 DEF SomebodyLooks
<1>7. OwnersLook'
  BY <1>1, OwnersKept DEF WakeUps
<1> QED  BY <1>2, <1>4, <1>6, <1>7 DEF WakeUps

\* Sleepers may be roused; nobody else changes.
Rouses(v) ==
    \/ worker'[v] = worker[v]
    \/ /\ worker[v].pc = "asleep" /\ worker'[v].pc = "commit" /\ worker'[v].from = worker[v].from
       /\ (worker[v].moved => worker'[v].moved)

LEMMA RousesPassed ==
    ASSUME NEW v \in Workers, Rouses(v), NEW c \in Classes, PassedBy(worker'[v], c)
    PROVE  PassedBy(worker[v], c)
BY AfterClasses DEF Rouses, PassedBy

LEMMA RousesOwners ==
    ASSUME OwnersLook, \A v \in Workers : Rouses(v), local_normal' = local_normal
    PROVE  OwnersLook'
BY DEF OwnersLook, Rouses

LEMMA WakesWakes ==
    ASSUME Types, WakeUps, NEW a \in Actors, Wakes(a)
    PROVE  WakeUps'
<1>1. /\ sig'[a] = "idle" /\ sub' = sub /\ queues' = queues /\ local_normal' = local_normal
      /\ sig[a] = "wake" /\ \A b \in Actors : b # a => sig'[b] = sig[b]
  BY ThenSig DEF Wakes, queueVars
<1>2. \A v \in Workers : Rouses(v)
  BY DEF Wakes, Roused, Rouses, Turn, Local, SameKey
<1>3. \E v \in Workers : worker'[v].pc # "asleep"
  <2>1. CASE UNCHANGED worker /\ \A w \in Workers : worker[w].pc # "asleep"
    BY <2>1, AWorker
  <2>2. CASE \E w \in Workers : Roused(w)
    BY <2>2 DEF Roused, Turn
  <2> QED  BY <2>1, <2>2 DEF Wakes
<1>4. UnreadyOwned'
  BY <1>1, UnreadySame DEF WakeUps
<1>5. (Publishing => Publishing') /\ (Publishing' => Waking')
  BY <1>1 DEF Publishing, Waking
<1>6. KeysGood'
  BY <1>1, <1>2, <1>5, RousesPassed DEF WakeUps, KeysGood
<1>7. SomebodyLooks'
  <2> SUFFICES ASSUME NEW c \in Classes, queues[c] # <<>>
               PROVE  Waking' \/ \E v \in Workers : Responsible(worker'[v], c)
    BY <1>1 DEF SomebodyLooks
  <2>1. CASE a \in Workers /\ worker[a].pc \in {"body", "run"}
    <3>1. worker'[a].pc \in {"body", "run"}
      BY <1>2, <2>1 DEF Rouses
    <3>2. "body" \notin After(c) /\ "run" \notin After(c)
      BY AfterClasses
    <3> QED  BY <2>1, <3>1, <3>2 DEF Responsible, PassedBy
  <2>2. CASE \A v \in Workers : worker[v].pc \notin {"all_empty", "exited"}
    <3>1. PICK v \in Workers : worker'[v].pc # "asleep"
      BY <1>3
    <3>2. worker'[v].pc \notin {"all_empty", "exited"}
      BY <1>2, <2>2 DEF Rouses
    <3>3. CASE PassedBy(worker'[v], c)
      <4>1. PassedBy(worker[v], c)
        BY <1>2, <3>3, RousesPassed
      <4>2. Publishing
        BY <4>1 DEF WakeUps, KeysGood
      <4> QED  BY <1>5, <4>2
    <3>4. CASE ~PassedBy(worker'[v], c)
      BY <3>1, <3>2, <3>4 DEF Responsible
    <3> QED  BY <3>3, <3>4
  <2>3. sig[a] # "idle"
    BY <1>1
  <2> QED  BY <2>1, <2>2, <2>3, NobodyLeaves
<1>8. OwnersLook'
  BY <1>1, <1>2, RousesOwners DEF WakeUps
<1> QED  BY <1>4, <1>6, <1>7, <1>8 DEF WakeUps

LEMMA RelinquishesWakes ==
    ASSUME Types, WakeUps, NEW w \in Workers, Relinquishes(w)
    PROVE  WakeUps'
<1>1. sig[w] = "idle" /\ w \in Actors /\ \A b \in Actors : b # w => sig'[b] = sig[b]
  BY ThenSig DEF Relinquishes, Actors
<1>2. Local(w) /\ worker'[w].pc = "run" /\ UNCHANGED <<queues, local_normal, sub>>
  BY DEF Relinquishes, queueVars
<1>3. UnreadyOwned'
  BY <1>1, <1>2, UnreadySame DEF WakeUps
<1>4. Publishing => Publishing'
  BY <1>1 DEF Publishing
<1> QED  BY <1>2, <1>3, <1>4, BusyWakes

LEMMA ForksWakes ==
    ASSUME Types, WakeUps, NEW w \in Workers, NEW s \in Seq(Frame), Forks(w, s)
    PROVE  WakeUps'
<1>1. sig[w] = "idle" /\ w \in Actors /\ \A b \in Actors : b # w => sig'[b] = sig[b] /\ sub'[b] = sub[b]
  <2>1. sig[w] = "idle"
    BY DEF Forks, Stacks
  <2>2. w \in Actors
    BY DEF Actors
  <2>3. \A b \in Actors : b # w => sub'[b] = sub[b] /\ sig'[b] = sig[b]
    BY ForksTypes
  <2> QED  BY <2>1, <2>2, <2>3
<1>2. Local(w) /\ worker'[w].pc = "body" /\ UNCHANGED <<queues, local_normal>>
  BY DEF Forks, Stacks, queueVars
<1>3. UnreadyOwned'
  BY <1>1, <1>2, UnreadySame DEF WakeUps
<1>4. Publishing => Publishing'
  BY <1>1 DEF Publishing
<1> QED  BY <1>2, <1>3, <1>4, BusyWakes

LEMMA BodyWakes ==
    ASSUME Types, WakeUps, NEW w \in Workers,
           Runs(w) \/ ReturnsLast(w) \/ \E s \in Seq(Frame) : Returns(w, s)
    PROVE  WakeUps'
<1>1. /\ Local(w) /\ UNCHANGED <<queues, local_normal, sig, sub>>
      /\ \/ worker'[w].pc = "body"
         \/ worker'[w].pc = "high" /\ worker'[w].from = "main"
  BY DEF Runs, ReturnsLast, Returns, Stacks, Loops, Rest, queueVars, subVars
<1>2. UnreadyOwned'
  BY <1>1, UnreadySame DEF WakeUps
<1>3. Publishing => Publishing'
  BY <1>1 DEF Publishing
<1> QED  BY <1>1, <1>2, <1>3, BusyWakes

LEMMA YieldsWakes ==
    ASSUME Types, WakeUps, NEW w \in Workers, NEW c \in {"high", "normal"}, NEW s \in Seq(Frame),
           Yields(w, c, s)
    PROVE  WakeUps'
<1>1. /\ Local(w) /\ worker'[w].pc = "body" /\ sig' = sig /\ sub' = sub
      /\ local_normal' = local_normal /\ Poppable(c) /\ queues' = [queues EXCEPT ![c] = Tail(@)]
      /\ c \in Classes
  BY DEF Yields, Stacks, subVars, pop, Classes
<1>2. UnreadyOwned' /\ \A d \in Classes : queues'[d] # <<>> => queues[d] # <<>>
  BY <1>1, popUnready DEF WakeUps
<1>3. Publishing => Publishing'
  BY <1>1 DEF Publishing
<1> QED  BY <1>1, <1>2, <1>3, BusyWakes

LEMMA DestructorWakes ==
    ASSUME Types, WakeUps, Destructor
    PROVE  WakeUps'
<1>1. UNCHANGED <<queues, local_normal, sub, sig>>
  BY DEF Destructor, set_quit, advance_all, wake_all, queueVars, subVars
<1>2. UnreadyOwned'
  BY <1>1, UnreadySame DEF WakeUps
<1>3. (Publishing' <=> Publishing) /\ (Waking' <=> Waking)
  BY <1>1 DEF Publishing, Waking
<1>4. CASE advance_all
  <2>1. \A v \in Workers : /\ worker'[v].pc = worker[v].pc /\ worker'[v].place = worker[v].place
                           /\ (worker'[v].from = "park" => worker'[v].moved)
    BY <1>4, advance_allTypes DEF Advanced, SameThread
  <2>2. \A v \in Workers : \A c \in Classes : ~PassedBy(worker'[v], c)
    BY <2>1 DEF PassedBy
  <2>3. KeysGood'
    BY <2>2 DEF KeysGood
  <2>4. \A v \in Workers : \A c \in Classes : Responsible(worker[v], c) => Responsible(worker'[v], c)
    BY <2>1, <2>2 DEF Responsible
  <2>5. SomebodyLooks'
    BY <1>1, <1>3, <2>4 DEF WakeUps, SomebodyLooks
  <2>6. OwnersLook'
    BY <1>1, <2>1, OwnersKept DEF WakeUps
  <2> QED  BY <1>2, <2>3, <2>5, <2>6 DEF WakeUps
<1>5. CASE set_quit \/ wake_all
  <2>1. \A v \in Workers : Rouses(v)
    <3>1. CASE set_quit
      BY <3>1 DEF set_quit, Rouses
    <3>2. CASE wake_all
      BY <3>2, wake_allTypes DEF AllRoused, Rouses, SameKey
    <3> QED  BY <1>5, <3>1, <3>2
  <2>2. KeysGood'
    BY <1>1, <1>3, <2>1, RousesPassed DEF WakeUps, KeysGood
  <2>3. \A v \in Workers : \A c \in Classes : Responsible(worker[v], c) => Responsible(worker'[v], c)
    <3> SUFFICES ASSUME NEW v \in Workers, NEW c \in Classes, Responsible(worker[v], c)
                 PROVE  Responsible(worker'[v], c)
      OBVIOUS
    <3>1. worker'[v] = worker[v]
      BY <2>1 DEF Rouses, Responsible
    <3> QED  BY <3>1
  <2>4. SomebodyLooks'
    BY <1>1, <1>3, <2>3 DEF WakeUps, SomebodyLooks
  <2>5. OwnersLook'
    BY <1>1, <2>1, RousesOwners DEF WakeUps
  <2> QED  BY <1>2, <2>2, <2>4, <2>5 DEF WakeUps
<1> QED  BY <1>4, <1>5 DEF Destructor

LEMMA InitWakes ==
    ASSUME Init
    PROVE  WakeUps
<1>1. \A w \in Workers : worker[w] = Thread
  BY DEF Init
<1>2. Thread.from = "main"
  BY DEF Thread
<1>3. /\ \A c \in Classes : queues[c] = <<>>
      /\ \A w \in Workers : local_normal[w] = <<>>
  BY DEF Init
<1>4. DOMAIN <<>> = {}
  OBVIOUS
<1> QED  BY <1>1, <1>2, <1>3, <1>4 DEF WakeUps, UnreadyOwned, KeysGood, SomebodyLooks, OwnersLook

LEMMA SignallingWakes ==
    ASSUME Types, Counts, Places, WakeUps, NEW a \in Actors, Signalling(a)
    PROVE  WakeUps'
<1>1. CASE push(a)
  <2>1. CASE Deques(a)
    BY <2>1, DequesWakes DEF Deques
  <2>2. ASSUME NEW s \in {"count", "claim"}, Chooses(a, s) PROVE WakeUps'
    BY <2>2, SignalsSteps, EarlyWakes DEF Chooses, queueVars
  <2> QED  BY <1>1, <2>1, <2>2, pushForm
<1>2. CASE count(a)
  <2>1. Counts1(a)
    BY <1>2, countForm
  <2> QED  BY <2>1, SignalsSteps, EarlyWakes DEF Counts1
<1>3. CASE claim(a)
  BY <1>3, claimForm, ClaimsSlotWakes
<1>4. CASE publish(a)
  BY <1>4, publishForm, PublishesWakes
<1>5. CASE signal_submit(a)
  <2>1. CASE idle_policy = "spin" /\ sig[a] = "signal" /\ Signals(a, "idle") /\ UNCHANGED <<queueVars, worker>>
    BY <2>1, SpinSignalWakes DEF queueVars
  <2> QED  BY <1>5, <2>1, signal_submitForm, AdvancesWakes
<1>6. CASE spinners(a)
  BY <1>6, spinnersForm, LooksWakes
<1>7. CASE wake_one(a)
  BY <1>7, wake_oneForm, WakesWakes
<1> QED  BY <1>1, <1>2, <1>3, <1>4, <1>5, <1>6, <1>7 DEF Signalling

LEMMA IdlingWakes ==
    ASSUME Types, WakeUps, NEW w \in Workers, Idling(w)
    PROVE  WakeUps'
<1>1. CASE quit_check(w) \/ all_empty(w) \/ wait_for_work(w)
  BY <1>1, quit_checkWakes, all_emptyWakes, wait_for_workForm, wait_for_workWakes
<1>2. CASE spin_check(w) \/ spun_out(w)
  BY <1>2, spin_checkForm, spun_outForm, SpinningWakes
<1>3. CASE relinquish(w) \/ promote(w)
  BY <1>3, relinquishForm, RelinquishesWakes, promoteForm, AdvancesWakes
<1>4. CASE prepare_wait(w) \/ park_check(w) \/ commit_wait(w)
  BY <1>4, prepare_waitForm, PreparesWakes, ParkingWakes
<1> QED  BY <1>1, <1>2, <1>3, <1>4 DEF Idling

LEMMA issueWakes ==
    ASSUME Types, WakeUps, NEW e \in Externals, issue(e)
    PROVE  WakeUps'
<1>1. e \in Actors /\ Steps(e, "push") /\ sig[e] = "idle" /\ UNCHANGED <<queues, local_normal, worker>>
  BY issueTypes DEF issue, Steps, queueVars
<1> QED  BY <1>1, EarlyWakes

LEMMA WakeUpsStep ==
    ASSUME Types, Counts, Places, WakeUps, [Next]_vars
    PROVE  WakeUps'
<1>1. ASSUME NEW w \in Workers, WorkerStep(w) \/ yield_to_higher(w) PROVE WakeUps'
  <2>1. CASE Signalling(w)
    BY <2>1, SignallingWakes DEF Actors
  <2>2. CASE FindWork(w)
    BY <2>2, FindWorkWakes
  <2>3. CASE Idling(w)
    BY <2>3, IdlingWakes
  <2>4. CASE run_task(w)
    BY <2>4, run_taskForm, BodyWakes
  <2>5. CASE spawn(w)
    BY <2>5, spawnForm, ForksWakes
  <2>6. CASE return(w)
    BY <2>6, returnForm, BodyWakes
  <2>7. CASE yield_to_higher(w)
    BY <2>7, yield_to_higherForm, YieldsWakes
  <2> QED  BY <1>1, <2>1, <2>2, <2>3, <2>4, <2>5, <2>6, <2>7 DEF WorkerStep
<1>2. ASSUME NEW e \in Externals, Signalling(e) \/ issue(e) PROVE WakeUps'
  BY <1>2, SignallingWakes, issueWakes DEF Actors
<1>3. CASE Destructor
  BY <1>3, DestructorWakes
<1>4. CASE UNCHANGED vars
  <2>1. UNCHANGED <<queues, local_normal, sub, sig, worker>>
    BY <1>4 DEF vars, queueVars, subVars
  <2> QED  BY <2>1 DEF WakeUps, UnreadyOwned, KeysGood, SomebodyLooks, OwnersLook, Publishing, Waking
<1> QED  BY <1>1, <1>2, <1>3, <1>4 DEF Next

-----------------------------------------------------------------------------
(* The four layers give the property *)

LEMMA PushedPlaces ==
    ASSUME Types, Places, NEW t \in Tasks
    PROVE  Pushed(t) <=> t \in (Issued \cup Forked) /\ t \notin Submitting
<1>1. ASSUME NEW e \in Externals, NEW i \in 1..issued[e], Program[e][i] = t,
             sub[e] = t => sig[e] \notin Claims
      PROVE  t \in Issued /\ t \notin Submitting
  <2>1. i \in DOMAIN Program[e]
    BY IssuedPoints
  <2>2. ASSUME NEW f \in Externals, sig[f] \in Claims, sub[f] = t PROVE FALSE
    <3>1. PICK k \in DOMAIN Program[f] : sub[f] = Program[f][k]
      BY <2>2 DEF Places, Origin
    <3>2. f = e
      BY <1>1, <2>1, <2>2, <3>1, OnePoint
    <3> QED  BY <1>1, <2>2, <3>2
  <2>3. ASSUME NEW w \in Workers, sig[w] \in Claims, sub[w] = t PROVE FALSE
    <3>1. PICK u \in Tasks : \E k \in DOMAIN Spawns[u] : sub[w] = Spawns[u][k]
      BY <2>3 DEF Places, Origin
    <3> QED  BY <1>1, <2>1, <2>3, <3>1, OnePoint
  <2>4. t \notin Submitting
    BY <2>2, <2>3 DEF Submitting, Actors
  <2> QED  BY <1>1, <2>4 DEF Issued
<1>2. ASSUME NEW u \in Tasks, runs[u] > 0, NEW i \in DOMAIN Spawns[u], Spawns[u][i] = t,
             Behind(u, i), \A w \in Workers : sub[w] = t => sig[w] \notin Claims
      PROVE  t \in Forked /\ t \notin Submitting
  <2>1. ASSUME NEW f \in Externals, sig[f] \in Claims, sub[f] = t PROVE FALSE
    <3>1. PICK k \in DOMAIN Program[f] : sub[f] = Program[f][k]
      BY <2>1 DEF Places, Origin
    <3> QED  BY <1>2, <2>1, <3>1, OnePoint
  <2>2. t \notin Submitting
    BY <1>2, <2>1 DEF Submitting, Actors
  <2>3. runs[u] # 0
    BY <1>2 DEF Types, SubTypes
  <2> QED  BY <1>2, <2>2, <2>3 DEF Forked
<1>3. ASSUME t \in Issued, t \notin Submitting PROVE Pushed(t)
  <2>1. PICK e \in Externals : \E i \in 1..issued[e] : Program[e][i] = t
    BY <1>3 DEF Issued
  <2>2. sub[e] = t => sig[e] \notin {"push", "count", "claim"}
    BY <1>3 DEF Submitting, Actors, Claims
  <2> QED  BY <2>1, <2>2 DEF Pushed
<1>4. ASSUME t \in Forked, t \notin Submitting PROVE Pushed(t)
  <2>1. PICK u \in Tasks : runs[u] # 0 /\ \E i \in DOMAIN Spawns[u] : Spawns[u][i] = t /\ Behind(u, i)
    BY <1>4 DEF Forked
  <2>2. PICK i \in DOMAIN Spawns[u] : Spawns[u][i] = t /\ Behind(u, i)
    BY <2>1
  <2>3. runs[u] > 0
    BY <2>1 DEF Types, SubTypes
  <2>4. \A w \in Workers : sub[w] = t => sig[w] \notin {"push", "count", "claim"}
    BY <1>4 DEF Submitting, Actors, Claims
  <2>5. \A w \in Workers : \A j \in DOMAIN worker[w].frames :
            worker[w].frames[j][1] = u => i < worker[w].frames[j][2]
    BY <2>2 DEF Behind
  <2> QED  BY <2>2, <2>3, <2>4, <2>5 DEF Pushed
<1>5. ASSUME Pushed(t) PROVE t \in (Issued \cup Forked) /\ t \notin Submitting
  <2>1. CASE \E e \in Externals : \E i \in 1..issued[e] :
               Program[e][i] = t /\ (sub[e] = t => sig[e] \notin {"push", "count", "claim"})
    BY <1>1, <2>1 DEF Claims
  <2>2. CASE \E u \in Tasks : runs[u] > 0 /\ \E i \in DOMAIN Spawns[u] : Spawns[u][i] = t /\
               \A w \in Workers :
                   /\ \A j \in DOMAIN worker[w].frames :
                       worker[w].frames[j][1] = u => i < worker[w].frames[j][2]
                   /\ sub[w] = t => sig[w] \notin {"push", "count", "claim"}
    <3>1. PICK u \in Tasks : runs[u] > 0 /\ \E i \in DOMAIN Spawns[u] : Spawns[u][i] = t /\
               \A w \in Workers :
                   /\ \A j \in DOMAIN worker[w].frames :
                       worker[w].frames[j][1] = u => i < worker[w].frames[j][2]
                   /\ sub[w] = t => sig[w] \notin {"push", "count", "claim"}
      BY <2>2
    <3>2. PICK i \in DOMAIN Spawns[u] : Spawns[u][i] = t /\
               \A w \in Workers :
                   /\ \A j \in DOMAIN worker[w].frames :
                       worker[w].frames[j][1] = u => i < worker[w].frames[j][2]
                   /\ sub[w] = t => sig[w] \notin {"push", "count", "claim"}
      BY <3>1
    <3>3. Behind(u, i) /\ \A w \in Workers : sub[w] = t => sig[w] \notin Claims
      BY <3>2 DEF Behind, Claims
    <3> QED  BY <1>2, <3>1, <3>2, <3>3
  <2> QED  BY <1>5, <2>1, <2>2 DEF Pushed
<1> QED  BY <1>3, <1>4, <1>5

LEMMA WaitingAt ==
    ASSUME NEW t, NEW x
    PROVE  x \in Waiting(t) <=>
             \/ \E c \in Classes : \E i \in DOMAIN queues[c] : queues[c][i].task = t /\ x = <<"queue", c, i>>
             \/ \E w \in Workers : \E i \in DOMAIN local_normal[w] :
                    local_normal[w][i] = t /\ x = <<"deque", w, i>>
             \/ \E w \in Workers : worker[w].got = t /\ x = <<"hand", w, 0>>
<1>5. x \in InQueues(t) <=>
          \E c \in Classes : \E i \in DOMAIN queues[c] : queues[c][i].task = t /\ x = <<"queue", c, i>>
  BY DEF InQueues
<1>6. x \in InDeques(t) <=>
          \E w \in Workers : \E i \in DOMAIN local_normal[w] :
              local_normal[w][i] = t /\ x = <<"deque", w, i>>
  BY DEF InDeques
<1>7. x \in InHands(t) <=> \E w \in Workers : worker[w].got = t /\ x = <<"hand", w, 0>>
  BY DEF InHands
<1>8. x \in Waiting(t) <=> x \in InQueues(t) \/ x \in InDeques(t) \/ x \in InHands(t)
  BY DEF Waiting
<1> QED  BY <1>5, <1>6, <1>7, <1>8

LEMMA WaitingOnce ==
    ASSUME Types, Places, NEW t \in Tasks
    PROVE  /\ t \in Queued \cup Dequed \cup Held => Cardinality(Waiting(t)) = 1
           /\ t \notin Queued \cup Dequed \cup Held => Cardinality(Waiting(t)) = 0
<1>1. t \notin Queued => ~ \E c \in Classes : \E i \in DOMAIN queues[c] : queues[c][i].task = t
  BY DEF Queued
<1>2. t \notin Dequed => ~ \E w \in Workers : \E i \in DOMAIN local_normal[w] : local_normal[w][i] = t
  BY DEF Dequed
<1>3. t \notin Held => ~ \E w \in Workers : worker[w].got = t
  BY DEF Held
<1>4. ASSUME NEW y, \A x : x \in Waiting(t) <=> x = y PROVE Cardinality(Waiting(t)) = 1
  <2>1. Waiting(t) = {y}
    BY <1>4
  <2> QED  BY <2>1, FS_Singleton
<1>5. CASE t \in Queued
  <2>1. t \notin Dequed /\ t \notin Held
    BY <1>5 DEF Places, Apart
  <2>2. PICK c \in Classes : \E i \in DOMAIN queues[c] : queues[c][i].task = t
    BY <1>5 DEF Queued
  <2>3. PICK i \in DOMAIN queues[c] : queues[c][i].task = t
    BY <2>2
  <2>4. \A d \in Classes : \A j \in DOMAIN queues[d] : queues[d][j].task = t => d = c /\ j = i
    BY <2>3 DEF Places, QueuedOnce
  <2>5. PICK y : y = <<"queue", c, i>>
    OBVIOUS
  <2>6. ASSUME NEW x PROVE x \in Waiting(t) <=> x = y
    <3>1. x \in Waiting(t) <=>
             \E d \in Classes : \E j \in DOMAIN queues[d] : queues[d][j].task = t /\ x = <<"queue", d, j>>
      BY <1>2, <1>3, <2>1, WaitingAt
    <3> QED  BY <2>3, <2>4, <2>5, <3>1
  <2>7. Cardinality(Waiting(t)) = 1
    BY <1>4, <2>6
  <2> QED  BY <1>5, <2>7
<1>6. CASE t \in Dequed
  <2>1. t \notin Queued /\ t \notin Held
    BY <1>6 DEF Places, Apart
  <2>2. PICK w \in Workers : \E i \in DOMAIN local_normal[w] : local_normal[w][i] = t
    BY <1>6 DEF Dequed
  <2>3. PICK i \in DOMAIN local_normal[w] : local_normal[w][i] = t
    BY <2>2
  <2>4. \A v \in Workers : \A j \in DOMAIN local_normal[v] : local_normal[v][j] = t => v = w /\ j = i
    BY <2>3 DEF Places, DequedOnce
  <2>5. PICK y : y = <<"deque", w, i>>
    OBVIOUS
  <2>6. ASSUME NEW x PROVE x \in Waiting(t) <=> x = y
    <3>1. x \in Waiting(t) <=>
             \E v \in Workers : \E j \in DOMAIN local_normal[v] :
                 local_normal[v][j] = t /\ x = <<"deque", v, j>>
      BY <1>1, <1>3, <2>1, WaitingAt
    <3> QED  BY <2>3, <2>4, <2>5, <3>1
  <2>7. Cardinality(Waiting(t)) = 1
    BY <1>4, <2>6
  <2> QED  BY <1>6, <2>7
<1>7. CASE t \in Held
  <2>1. t \notin Queued /\ t \notin Dequed
    BY <1>7 DEF Places, Apart
  <2>2. PICK w \in Workers : worker[w].got = t
    BY <1>7 DEF Held
  <2>3. \A v \in Workers : worker[v].got = t => v = w
    BY <2>2, Constants DEF Places, HeldOnce
  <2>4. PICK y : y = <<"hand", w, 0>>
    OBVIOUS
  <2>5. ASSUME NEW x PROVE x \in Waiting(t) <=> x = y
    <3>1. x \in Waiting(t) <=> \E v \in Workers : worker[v].got = t /\ x = <<"hand", v, 0>>
      BY <1>1, <1>2, <2>1, WaitingAt
    <3> QED  BY <2>2, <2>3, <2>4, <3>1
  <2>7. Cardinality(Waiting(t)) = 1
    BY <1>4, <2>5
  <2> QED  BY <1>7, <2>7
<1>8. CASE t \notin Queued \cup Dequed \cup Held
  <2>1. \A x : x \notin Waiting(t)
    BY <1>1, <1>2, <1>3, <1>8, WaitingAt
  <2>2. Waiting(t) = {}
    BY <2>1
  <2>3. Cardinality(Waiting(t)) = 0
    BY <2>2, FS_EmptySet
  <2> QED  BY <1>8, <2>3
<1> QED  BY <1>5, <1>6, <1>7, <1>8

LEMMA OnceEnough ==
    ASSUME Types, Places, NEW t \in Tasks
    PROVE  /\ Cardinality(Waiting(t)) + runs[t] = (IF Pushed(t) THEN 1 ELSE 0)
           /\ Pushed(t) => t \in Queued \cup Dequed \cup Held \/ runs[t] = 1
<1>1. Pushed(t) <=> t \in Queued \cup Dequed \cup Held \/ t \in Ran
  BY PushedPlaces DEF Places, Accounted, Apart
<1>2. runs[t] \in Nat /\ runs[t] <= 1 /\ (t \in Ran <=> runs[t] # 0)
  BY DEF Types, SubTypes, Places, RanOnce, Ran
<1>3. t \in Ran => t \notin Queued \cup Dequed \cup Held
  BY DEF Places, Apart
<1>4. PICK k : k = Cardinality(Waiting(t))
  OBVIOUS
<1>5. /\ t \in Queued \cup Dequed \cup Held => k = 1
      /\ t \notin Queued \cup Dequed \cup Held => k = 0
  BY <1>4, WaitingOnce
<1>6. k + runs[t] = (IF Pushed(t) THEN 1 ELSE 0)
  BY <1>1, <1>2, <1>3, <1>5
<1> QED  BY <1>1, <1>2, <1>4, <1>6

LEMMA LookEnough ==
    ASSUME WakeUps
    PROVE  NoLostWakeup
<1> SUFFICES ASSUME \A w \in Workers : worker[w].pc \in {"asleep", "exited"}, Quiet PROVE NothingQueued
  BY DEF NoLostWakeup
<1>1. ~Waking
  BY DEF Waking, Quiet
<1>2. \A c \in Classes : queues[c] = <<>>
  BY <1>1 DEF WakeUps, SomebodyLooks, Responsible
<1>3. \A w \in Workers : local_normal[w] = <<>>
  BY DEF WakeUps, OwnersLook
<1> QED  BY <1>2, <1>3 DEF NothingQueued

LEMMA DrainEnough ==
    ASSUME Types, Places, WakeUps
    PROVE  DrainedAtExit
<1> SUFFICES ASSUME Exited PROVE NothingQueued /\ \A t \in Tasks : Pushed(t) => runs[t] = 1
  BY DEF DrainedAtExit
<1>1. \A w \in Workers : worker[w].pc = "exited" /\ Shaped(worker[w]) /\ SignalsFrom(sig[w], worker[w])
  BY DEF Exited, At, Types, Shapes
<1>2. quit
  BY <1>1, AWorker DEF Shaped
<1>3. Quiet
  <2>1. \A e \in Externals : sig[e] = "idle"
    BY <1>2 DEF Types, SubTypes
  <2>2. \A w \in Workers : sig[w] = "idle"
    BY <1>1 DEF SignalsFrom
  <2> QED  BY <2>1, <2>2 DEF Quiet, Actors
<1>4. NothingQueued
  BY <1>1, <1>3, LookEnough DEF NoLostWakeup
<1>5. Queued = {} /\ Dequed = {}
  <2>1. DOMAIN <<>> = {}
    OBVIOUS
  <2> QED  BY <1>4, <2>1 DEF NothingQueued, Queued, Dequed
<1>6. Held = {}
  BY <1>1, Constants DEF Shaped, Held
<1> QED  BY <1>4, <1>5, <1>6, OnceEnough

\* Whatever the number of workers, outside threads and entries: every entry that has
\* been pushed is in one place or has been started once, no wake-up is lost when the
\* workers go to sleep, and ~Scheduler leaves nothing behind.
THEOREM SchedulerRunOnceAndDrained == Spec => []RunOnceAndDrained
<1> DEFINE IInv == Types /\ Counts /\ Places /\ WakeUps
<1>1. Init => IInv
  BY InitTypes, InitCounts, InitPlaces, InitWakes
<1>2. IInv /\ [Next]_vars => IInv'
  BY TypesStep, CountsStep, PlacesStep, WakeUpsStep
<1>3. IInv => RunOnceAndDrained
  <2> SUFFICES ASSUME Types, Places, WakeUps PROVE RunOnceAndDrained
    OBVIOUS
  <2>1. ExactlyOnce
    BY OnceEnough DEF ExactlyOnce
  <2> QED  BY <2>1, LookEnough, DrainEnough DEF RunOnceAndDrained
<1>4. Spec => SafetySpec
  BY DEF Spec
<1> QED  BY <1>1, <1>2, <1>3, <1>4, PTL DEF SafetySpec
=============================================================================
