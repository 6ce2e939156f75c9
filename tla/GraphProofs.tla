---------------------------- MODULE GraphProofs ----------------------------
(***************************************************************************)
(* Proofs about StaticTaskGraph, for every number of nodes, every set of   *)
(* objects and of unrelated accesses, every choice of access lists and     *)
(* edges and every number of runs.                                         *)
(***************************************************************************)
EXTENDS StaticTaskGraph, FiniteSetTheorems, SequenceTheorems, WellFoundedInduction, TLAPS

-----------------------------------------------------------------------------
(* The inductive invariant *)

BeforeEnd  == {"armed", "line", "ready", "running", "settling"}   \* of a run
NotStarted == {"armed", "line", "ready"}
NodeStages == BeforeEnd \cup {"idle", "completing", "folding"}
CallStages == {"idle", "line", "ready", "kick"}
OutStages  == {"idle", "line", "ready", "gone"}

\* The lines p queues in, and the stages at which it is in all of them.
Lines(p) == IF p \in Indices THEN bound[p]
            ELSE IF p = Caller THEN Uses(launch.holds) ELSE Uses(OutAccess[p])
Granted(p) == stage[p] \in {"ready", "running", "settling", "kick"}

Entries  == [who : Parts, mode : {"read", "write"}]
PipeType == [queue : Seq(Entries), holders : SUBSET Entries]
InLine(P) == {P.queue[k] : k \in DOMAIN P.queue}

StageType ==
    /\ stage \in [Parts -> NodeStages \cup CallStages \cup OutStages]
    /\ \A i \in Indices : stage[i] \in NodeStages
    /\ stage[Caller] \in CallStages
    /\ \A x \in Outsiders : stage[x] \in OutStages

BuildType ==
    /\ built \in {"building", "compiled", "fatal", "destroyed"}
    /\ nodes \in Seq(AccessList) /\ Len(nodes) <= Cardinality(Indices)
    /\ explicit \subseteq Nodes \X Nodes /\ edges \subseteq Nodes \X Nodes
    /\ bound \in [Indices -> SUBSET Objects] /\ links_lent \in BOOLEAN

RunType ==
    /\ deps \in [Indices -> Int] /\ remaining \in Int /\ done \in 0..MaxRuns
    /\ token \in BOOLEAN /\ result \in [0..MaxRuns -> {"pending", "completed", "cancelled"}]

PartType ==
    /\ todo \in [Parts -> SUBSET Indices] /\ ready_buf \in [Indices -> SUBSET Indices]
    /\ ran \in [Indices -> {"no", "ran", "skipped"}]
    /\ launch \in [holds : AccessList, task : BOOLEAN, detach : BOOLEAN]

LineType == pipe \in [Objects -> PipeType] /\ left \in [Parts -> SUBSET Objects]

GraphType == StageType /\ BuildType /\ RunType /\ PartType /\ LineType

InRun == result[done] = "pending"

\* The graph as compiled, and the links as bound.
BuildInv ==
    /\ built = "building" => /\ done = 0 /\ \A p \in Parts : stage[p] = "idle" /\ todo[p] = {}
                             /\ \A i \in Indices : ready_buf[i] = {}
    /\ built # "building" => edges = Compiled /\ (built = "fatal" <=> Visited # Nodes)
    /\ built # "building" => /\ \A i \in Nodes : bound[i] \subseteq Uses(nodes[i])
                             /\ ~links_lent => \A i \in Nodes : bound[i] = Uses(nodes[i])
    /\ InRun => \A i \in Nodes : bound[i] = Uses(nodes[i]) \ Lent
    /\ \A i \in Indices \ Nodes : stage[i] = "idle"

Exclusive(H) == \A g, h \in H : h.mode = "write" => g = h

\* Every entry of a pipe is that of a participant on its way.
LineOK(o) ==
    /\ Exclusive(pipe[o].holders)
    /\ \A e \in pipe[o].holders \cup InLine(pipe[o]) :
        /\ e.mode = ModeOf(e.who, o)
        /\ o \in Lines(e.who) \ left[e.who]
        /\ stage[e.who] = "line" \/ Granted(e.who)
    /\ \A e \in InLine(pipe[o]) : stage[e.who] = "line"

\* A participant has its entry in each line from when it enters until it leaves all;
\* one that has all its turns holds all its lines.
PartOK(p) ==
    /\ left[p] \subseteq Lines(p)
    /\ stage[p] # "line" => left[p] = {}
    /\ stage[p] = "line" => \A o \in Lines(p) \ left[p] : Holds(pipe[o], p) \/ Waits(pipe[o], p)
    /\ Granted(p) => \A o \in Lines(p) : Holds(pipe[o], p)

PipesInv == (\A o \in Objects : LineOK(o)) /\ (\A p \in Parts : PartOK(p))

\* The prerequisites that j has not been counted down for.
Before(i, j) == stage[i] \in BeforeEnd \/ (stage[i] = "completing" /\ j \in todo[i])
Pending(j) == {i \in Nodes : <<i, j>> \in edges /\ Before(i, j)}
Going == {i \in Nodes : stage[i] \notin {"idle", "folding"}}

\* The counters of a run, and who may start a node.
CountInv ==
    /\ \A i \in Nodes : /\ todo[i] \subseteq Succ(i)
                        /\ stage[i] # "completing" => todo[i] = {} /\ ready_buf[i] = {}
    /\ todo[Caller] \subseteq Nodes /\ (stage[Caller] # "kick" => todo[Caller] = {})
    /\ InRun => \A j \in Nodes : /\ deps[j] = Cardinality(Pending(j))
                                 /\ stage[j] # "armed" => Pending(j) = {}
    /\ \A j \in todo[Caller] : stage[j] = "armed" /\ Pending(j) = {}
    /\ \A i \in Nodes : \A j \in ready_buf[i] :
        /\ j \in Nodes /\ stage[j] = "armed" /\ Pending(j) = {} /\ j \notin todo[Caller]
        /\ \A k \in Nodes : j \in ready_buf[k] => k = i

\* While a node is counted, the run's pointers lead to the graph.
AtHome == Going # {} => back = addr /\ built = "compiled"

\* Where a run stands: its nodes and its count, ...
NodesInv ==
    /\ remaining = Cardinality(Going)
    /\ \A i, j \in Nodes : stage[i] = "folding" => remaining = 0 /\ (stage[j] = "folding" => i = j)
    /\ InRun <=> \E i \in Nodes : stage[i] # "idle"
    /\ InRun => done > 0 /\ built \in {"compiled", "destroyed"}
    /\ AtHome
    /\ tails \subseteq kept

\* ... what became of the bodies ...
RanInv ==
    /\ InRun => \A i \in Nodes : ran[i] = "no" <=> stage[i] \in NotStarted
    /\ ~InRun /\ done > 0 => \A i \in Nodes : ran[i] # "no"
    /\ done = 0 => \A i \in Indices : ran[i] = "no"
    /\ \A i \in Indices \ Nodes : ran[i] = "no"
    /\ InRun /\ Cancelled # {} => token
    /\ result[done] = "completed" /\ built # "destroyed" => Cancelled = {}

\* ... and the caller, which an attached run gates.
CallerInv ==
    /\ stage[Caller] \in {"line", "ready"} => built = "compiled" /\ ~InRun /\ done < MaxRuns
    /\ stage[Caller] = "kick" => built = "compiled"
    /\ InRun /\ stage[Caller] # "kick" => Detached

RunInv == NodesInv /\ RanInv /\ CallerInv

GraphInv == GraphType /\ BuildInv /\ PipesInv /\ CountInv /\ RunInv

-----------------------------------------------------------------------------
(* Operators *)

\* A set of naturals that is not empty has a least element.
LEMMA LeastIn ==
    ASSUME NEW S \in SUBSET Nat, S # {}
    PROVE  Least(S) \in S /\ \A y \in S : Least(S) <= y
<1>1. \E x \in S : \A y \in S : ~(<<y, x>> \in OpToRel(<, Nat))
  BY NatLessThanWellFounded, WFMin
<1>2. PICK x \in S : \A y \in S : ~(y < x)
  BY <1>1 DEF OpToRel
<1>3. \A y \in S : x <= y
  BY <1>2
<1> QED
  BY <1>3 DEF Least

\* The leading reads of a queue are a prefix of it.
LEMMA LeadingReads ==
    ASSUME NEW S, NEW q \in Seq(S)
    PROVE  \E m \in 0..Len(q) :
             {k \in DOMAIN q : \A j \in 1..k : q[j].mode = "read"} = 1..m
<1> DEFINE reads == {k \in DOMAIN q : \A j \in 1..k : q[j].mode = "read"}
           others == {k \in DOMAIN q : q[k].mode # "read"}
<1>1. DOMAIN q = 1..Len(q) /\ Len(q) \in Nat
  OBVIOUS
<1>2. CASE others = {}
  <2>1. reads = 1..Len(q)
    BY <1>1, <1>2
  <2> QED
    BY <1>1, <2>1
<1>3. CASE others # {}
  <2>1. others \subseteq Nat
    BY <1>1
  <2>2. \E x \in others : \A y \in others : ~(<<y, x>> \in OpToRel(<, Nat))
    BY <1>3, <2>1, NatLessThanWellFounded, WFMin
  <2>3. PICK x \in others : \A y \in others : ~(y < x)
    BY <2>1, <2>2 DEF OpToRel
  <2>4. x \in 1..Len(q) /\ q[x].mode # "read" /\ \A j \in 1..(x - 1) : q[j].mode = "read"
    BY <1>1, <2>3
  <2>5. reads = 1..(x - 1)
    BY <1>1, <2>4
  <2> QED
    BY <1>1, <2>4, <2>5
<1> QED
  BY <1>2, <1>3

\* A pass takes nobody's grant away, loses no entry and admits a write only alone.
LEMMA PassFacts ==
    ASSUME NEW S, NEW q \in Seq(S), NEW H \in SUBSET S, Exclusive(H)
    PROVE  /\ Pass(q, H) \in [queue : Seq(S), holders : SUBSET S]
           /\ H \subseteq Pass(q, H).holders
           /\ Exclusive(Pass(q, H).holders)
           /\ Pass(q, H).holders \cup InLine(Pass(q, H)) = H \cup {q[k] : k \in DOMAIN q}
           /\ InLine(Pass(q, H)) \subseteq {q[k] : k \in DOMAIN q}
<1> DEFINE reads == {k \in DOMAIN q : \A j \in 1..k : q[j].mode = "read"}
           n == IF \E h \in H : h.mode = "write" THEN 0
                ELSE IF reads # {} THEN Cardinality(reads)
                ELSE IF H = {} /\ q # <<>> THEN 1 ELSE 0
           next == {q[k] : k \in 1..n}
<1>1. Pass(q, H) = [queue |-> SubSeq(q, n + 1, Len(q)), holders |-> H \cup next]
  BY DEF Pass
<1>2. DOMAIN q = 1..Len(q) /\ Len(q) \in Nat
  OBVIOUS
<1>3. PICK m \in 0..Len(q) : reads = 1..m
  BY LeadingReads
<1>4. Cardinality(reads) = m
  <2>1. Cardinality(1..m) = IF 1 > m THEN 0 ELSE m - 1 + 1
    BY <1>2, FS_Interval
  <2>2. m \in Nat
    BY <1>2
  <2>3. Cardinality(1..m) = m
    BY <2>1, <2>2
  <2> QED
    BY <1>3, <2>3
<1>5. \A k \in 1..m : q[k].mode = "read"
  BY <1>2, <1>3
<1> HIDE DEF reads
<1>6. /\ n \in 0..Len(q)
      /\ \/ n = 0
         \/ n = m /\ ~ \E h \in H : h.mode = "write"
         \/ n = 1 /\ H = {}
  <2>1. CASE \E h \in H : h.mode = "write"
    <3>1. n = 0
      BY <2>1
    <3> QED
      BY <1>2, <3>1
  <2>2. CASE ~(\E h \in H : h.mode = "write") /\ reads # {}
    <3>1. n = m
      BY <1>4, <2>2
    <3> QED
      BY <1>2, <2>2, <3>1
  <2>3. CASE ~(\E h \in H : h.mode = "write") /\ reads = {} /\ H = {} /\ q # <<>>
    <3>1. n = 1
      BY <2>3
    <3>2. Len(q) > 0
      BY <2>3, EmptySeq
    <3> QED
      BY <1>2, <2>3, <3>1, <3>2
  <2>4. CASE ~(\E h \in H : h.mode = "write") /\ reads = {} /\ ~(H = {} /\ q # <<>>)
    <3>1. n = 0
      BY <2>4
    <3> QED
      BY <1>2, <3>1
  <2> QED
    BY <2>1, <2>2, <2>3, <2>4
<1> HIDE DEF n
<1>7. next \subseteq S
  BY <1>2, <1>6
<1>8. SubSeq(q, n + 1, Len(q)) \in Seq(S)
  BY <1>2, <1>6, SubSeqProperties
<1>9. Exclusive(H \cup next)
  <2>1. CASE n = 0
    <3>1. next = {}
      BY <2>1
    <3> QED
      BY <3>1
  <2>2. CASE n = m /\ ~ \E h \in H : h.mode = "write"
    BY <1>5, <2>2 DEF Exclusive
  <2>3. CASE n = 1 /\ H = {}
    <3>1. next = {q[1]}
      BY <2>3
    <3> QED
      BY <2>3, <3>1 DEF Exclusive
  <2> QED
    BY <1>6, <2>1, <2>2, <2>3
<1>12. Pass(q, H).holders = H \cup next /\ Pass(q, H).queue = SubSeq(q, n + 1, Len(q))
  <2> DEFINE r == SubSeq(q, n + 1, Len(q))
             I == H \cup next
  <2>1. Pass(q, H) = [queue |-> r, holders |-> I]
    BY <1>1
  <2> HIDE DEF r, I
  <2>2. Pass(q, H).holders = I /\ Pass(q, H).queue = r
    BY <2>1
  <2> QED
    BY <2>2 DEF r, I
<1>10. InLine(Pass(q, H)) = {q[k] : k \in (n + 1)..Len(q)}
  <2> DEFINE r == SubSeq(q, n + 1, Len(q))
  <2>1. DOMAIN r = 1..(Len(q) - n) /\ \A k \in 1..(Len(q) - n) : r[k] = q[n + k]
    BY <1>2, <1>6, SubSeqProperties
  <2> HIDE DEF r
  <2>2. InLine(Pass(q, H)) = {r[k] : k \in DOMAIN r}
    BY <1>12 DEF InLine, r
  <2>3. ASSUME NEW k \in (n + 1)..Len(q) PROVE q[k] \in {r[l] : l \in DOMAIN r}
    <3>1. k - n \in 1..(Len(q) - n) /\ n + (k - n) = k
      BY <1>2, <1>6
    <3> QED
      BY <2>1, <3>1
  <2>4. ASSUME NEW l \in DOMAIN r PROVE r[l] \in {q[k] : k \in (n + 1)..Len(q)}
    <3>1. n + l \in (n + 1)..Len(q)
      BY <1>2, <1>6, <2>1
    <3> QED
      BY <2>1, <3>1
  <2> QED
    BY <2>2, <2>3, <2>4
<1>11. DOMAIN q = (1..n) \cup ((n + 1)..Len(q))
  BY <1>2, <1>6
<1>13. Pass(q, H).holders \cup InLine(Pass(q, H)) = H \cup {q[k] : k \in DOMAIN q}
  BY <1>10, <1>11, <1>12
<1>14. InLine(Pass(q, H)) \subseteq {q[k] : k \in DOMAIN q}
  BY <1>10, <1>11
<1> QED
  BY <1>1, <1>7, <1>8, <1>9, <1>12, <1>13, <1>14

\* Entering takes no grant away and adds one entry.
LEMMA EnterFacts ==
    ASSUME NEW P \in PipeType, Exclusive(P.holders), NEW who, NEW mode,
           Entry(who, mode) \in Entries
    PROVE  /\ Enter(P, who, mode) \in PipeType
           /\ P.holders \subseteq Enter(P, who, mode).holders
           /\ Exclusive(Enter(P, who, mode).holders)
           /\ Enter(P, who, mode).holders \cup InLine(Enter(P, who, mode))
                = P.holders \cup InLine(P) \cup {Entry(who, mode)}
           /\ InLine(Enter(P, who, mode)) \subseteq InLine(P) \cup {Entry(who, mode)}
<1> DEFINE q == Append(P.queue, Entry(who, mode))
<1>1. P.holders \in SUBSET Entries /\ P.queue \in Seq(Entries) /\ q \in Seq(Entries)
  BY DEF PipeType
<1>2. {q[k] : k \in DOMAIN q} = InLine(P) \cup {Entry(who, mode)}
  <2>1. DOMAIN q = 1..(Len(P.queue) + 1) /\ DOMAIN P.queue = 1..Len(P.queue) /\ Len(P.queue) \in Nat
    BY <1>1
  <2>2. q[Len(P.queue) + 1] = Entry(who, mode) /\ \A k \in 1..Len(P.queue) : q[k] = P.queue[k]
    BY <1>1
  <2>3. DOMAIN q = DOMAIN P.queue \cup {Len(P.queue) + 1}
    BY <2>1
  <2> HIDE DEF q
  <2> QED
    BY <2>1, <2>2, <2>3 DEF InLine
<1>3. Enter(P, who, mode) = Pass(q, P.holders)
  BY DEF Enter
<1> HIDE DEF q
<1>4. /\ Pass(q, P.holders) \in [queue : Seq(Entries), holders : SUBSET Entries]
      /\ P.holders \subseteq Pass(q, P.holders).holders
      /\ Exclusive(Pass(q, P.holders).holders)
      /\ Pass(q, P.holders).holders \cup InLine(Pass(q, P.holders)) = P.holders \cup {q[k] : k \in DOMAIN q}
      /\ InLine(Pass(q, P.holders)) \subseteq {q[k] : k \in DOMAIN q}
  BY <1>1, PassFacts
<1> QED
  BY <1>2, <1>3, <1>4 DEF PipeType

\* Leaving takes away the grants of the one that leaves, and nothing else.
LEMMA LeaveFacts ==
    ASSUME NEW P \in PipeType, Exclusive(P.holders), NEW who
    PROVE  /\ Leave(P, who) \in PipeType
           /\ {h \in P.holders : h.who # who} \subseteq Leave(P, who).holders
           /\ Exclusive(Leave(P, who).holders)
           /\ Leave(P, who).holders \cup InLine(Leave(P, who))
                = {h \in P.holders : h.who # who} \cup InLine(P)
           /\ InLine(Leave(P, who)) \subseteq InLine(P)
<1>1. {h \in P.holders : h.who # who} \in SUBSET Entries /\ P.queue \in Seq(Entries)
  BY DEF PipeType
<1>2. Exclusive({h \in P.holders : h.who # who})
  BY DEF Exclusive
<1>3. InLine(P) = {P.queue[k] : k \in DOMAIN P.queue}
  BY DEF InLine
<1> DEFINE q == P.queue
           H == {h \in P.holders : h.who # who}
<1> HIDE DEF q, H
<1>4. q \in Seq(Entries) /\ H \in SUBSET Entries /\ Exclusive(H)
  BY <1>1, <1>2 DEF q, H
<1>5. /\ Pass(q, H) \in [queue : Seq(Entries), holders : SUBSET Entries]
      /\ H \subseteq Pass(q, H).holders
      /\ Exclusive(Pass(q, H).holders)
      /\ Pass(q, H).holders \cup InLine(Pass(q, H)) = H \cup {q[k] : k \in DOMAIN q}
      /\ InLine(Pass(q, H)) \subseteq {q[k] : k \in DOMAIN q}
  BY <1>4, PassFacts
<1>6. Leave(P, who) = Pass(q, H)
  BY DEF Leave, q, H
<1>7. InLine(P) = {q[k] : k \in DOMAIN q}
  BY <1>3 DEF q
<1>8. H = {h \in P.holders : h.who # who}
  BY DEF H
<1> QED
  BY <1>5, <1>6, <1>7, <1>8 DEF PipeType

-----------------------------------------------------------------------------
(* Participants and their lines *)

\* The nodes are numbered from one.
LEMMA NodesFacts ==
    ASSUME GraphType
    PROVE  Nodes = 1..Len(nodes) /\ Len(nodes) \in Nat /\ Nodes \subseteq Indices /\ Indices \subseteq Nat
<1>1. Nodes = 1..Len(nodes) /\ Len(nodes) \in Nat /\ Len(nodes) <= Cardinality(Indices)
  BY DEF GraphType, BuildType, Nodes
<1>2. Cardinality(Indices) \in Nat /\ Indices = 1..Cardinality(Indices)
  BY GraphAssumption, FS_CardinalityType
<1> QED
  BY <1>1, <1>2

\* What a participant does to an object.
LEMMA ModeFacts ==
    ASSUME GraphType, NEW o \in Objects
    PROVE  /\ \A i \in Nodes : ModeOf(i, o) = nodes[i][o] /\ nodes[i] \in AccessList
           /\ ModeOf(Caller, o) = launch.holds[o]
           /\ \A x \in Outsiders : ModeOf(x, o) = OutAccess[x][o]
           /\ \A p \in Parts : ModeOf(p, o) \in Modes
           /\ \A i \in Indices \ Nodes : ModeOf(i, o) = "none"
<1>1. Nodes \subseteq Indices
  BY NodesFacts
<1>2. Caller \notin Indices /\ Caller \notin Outsiders /\ Outsiders \cap Indices = {}
  BY GraphAssumption
<1>3. \A i \in Nodes : ModeOf(i, o) = nodes[i][o] /\ nodes[i] \in AccessList
  <2>1. \A i \in Nodes : nodes[i] \in AccessList
    BY DEF GraphType, BuildType, Nodes
  <2> QED
    BY <1>1, <1>2, <2>1 DEF ModeOf
<1>4. ModeOf(Caller, o) = launch.holds[o]
  BY <1>1, <1>2 DEF ModeOf
<1>5. \A x \in Outsiders : ModeOf(x, o) = OutAccess[x][o]
  BY <1>1, <1>2 DEF ModeOf
<1>6. \A i \in Indices \ Nodes : ModeOf(i, o) = "none"
  BY <1>2 DEF ModeOf
<1>7. launch.holds \in AccessList /\ OutAccess \in [Outsiders -> AccessList]
  BY GraphAssumption DEF GraphType, PartType
<1>8. \A a \in AccessList : a[o] \in Modes
  BY DEF AccessList
<1>9. \A p \in Parts : ModeOf(p, o) \in Modes
  <2>1. \A p \in Outsiders : ModeOf(p, o) \in Modes
    BY <1>5, <1>7, <1>8
  <2>2. ModeOf(Caller, o) \in Modes
    BY <1>4, <1>7, <1>8
  <2>3. \A i \in Nodes : ModeOf(i, o) \in Modes
    BY <1>3, <1>8
  <2>4. \A i \in Indices \ Nodes : ModeOf(i, o) \in Modes
    BY <1>6 DEF Modes
  <2> QED
    BY <1>1, <2>1, <2>2, <2>3, <2>4 DEF Parts
<1> QED
  BY <1>3, <1>4, <1>5, <1>6, <1>9

\* Waiting is having an entry in the queue.
LEMMA WaitsIn ==
    ASSUME NEW P, NEW w
    PROVE  Waits(P, w) <=> \E e \in InLine(P) : e.who = w
  BY DEF Waits, InLine

\* Lines and modes are those of the graph and of the calling task.
LEMMA LinesSame ==
    ASSUME nodes' = nodes, bound' = bound, launch' = launch
    PROVE  \A p : Lines(p)' = Lines(p) /\ \A o : ModeOf(p, o)' = ModeOf(p, o)
  BY DEF Lines, ModeOf, Nodes, Uses

\* A participant that has the turns of all lines but S enters the first of S, or is
\* ready when there is none.
LEMMA EnterStep ==
    ASSUME GraphType, PipesInv, NEW p \in Parts, NEW S \in SUBSET Objects,
           pipe_enter_first(p, S),
           nodes' = nodes, bound' = bound, launch' = launch,
           S \subseteq Lines(p), left[p] \subseteq S,
           \A o \in Lines(p) \ S : Holds(pipe[o], p),
           \A o \in Objects : ~Waits(pipe[o], p),
           \A o \in S : ~Holds(pipe[o], p),
           \A o \in Lines(p) : ModeOf(p, o) # "none"
    PROVE  /\ PipesInv'
           /\ pipe' \in [Objects -> PipeType] /\ left' \in [Parts -> SUBSET Objects]
           /\ \E s \in {"line", "ready"} : stage' = [stage EXCEPT ![p] = s]
<1>0. /\ pipe \in [Objects -> PipeType] /\ left \in [Parts -> SUBSET Objects] /\ DOMAIN stage = Parts
      /\ \A e \in Entries : e.who \in Parts
  BY DEF GraphType, LineType, StageType, Entries
<1>1. \A q : Lines(q)' = Lines(q) /\ \A o : ModeOf(q, o)' = ModeOf(q, o)
  BY LinesSame
<1>2. CASE S = {}
  <2>1. stage' = [stage EXCEPT ![p] = "ready"] /\ pipe' = pipe /\ left' = left /\ left[p] = {}
    BY <1>2 DEF pipe_enter_first
  <2>2. ASSUME NEW o \in Objects PROVE LineOK(o)'
    <3>1. LineOK(o) /\ \A e \in InLine(pipe[o]) : e.who # p
      BY WaitsIn DEF PipesInv
    <3>2. \A e \in pipe[o].holders \cup InLine(pipe[o]) : e.who \in Parts
      BY <1>0 DEF PipeType, InLine
    <3>3. \A q \in Parts : q # p => stage'[q] = stage[q]
      BY <1>0, <2>1
    <3>4. stage'[p] = "ready"
      BY <1>0, <2>1
    <3> QED
      BY <1>1, <2>1, <3>1, <3>2, <3>3, <3>4 DEF LineOK, Granted
  <2>3. ASSUME NEW q \in Parts PROVE PartOK(q)'
    <3>1. PartOK(q)
      BY DEF PipesInv
    <3>2. CASE q = p
      <4>1. stage'[q] = "ready"
        BY <1>0, <2>1, <3>2
      <4>2. \A o \in Lines(q) : Holds(pipe[o], q)
        BY <1>2, <3>2
      <4> QED
        BY <1>1, <2>1, <3>1, <3>2, <4>1, <4>2 DEF PartOK
    <3>3. CASE q # p
      <4>1. stage'[q] = stage[q]
        BY <1>0, <2>1, <3>3
      <4> QED
        BY <1>1, <2>1, <3>1, <4>1 DEF PartOK, Granted
    <3> QED
      BY <3>2, <3>3
  <2> QED
    BY <1>0, <2>1, <2>2, <2>3 DEF PipesInv
<1>3. CASE S # {}
  <2> DEFINE o0 == Least(S)
             m == ModeOf(p, o0)
             E == Entry(p, m)
             Q == Enter(pipe[o0], p, m)
  <2>1. o0 \in S
    BY <1>3, LeastIn, GraphAssumption
  <2>2. /\ stage' = [stage EXCEPT ![p] = "line"]
        /\ pipe' = [pipe EXCEPT ![o0] = Enter(pipe[o0], p, ModeOf(p, o0))]
        /\ left' = [left EXCEPT ![p] = S \ {o0}]
    BY <1>3 DEF pipe_enter_first
  <2>3. m \in {"read", "write"}
    BY <2>1, ModeFacts DEF Modes
  <2>4. E \in Entries /\ E.who = p /\ E.mode = m
    BY <2>3 DEF Entries, Entry
  <2>5. pipe[o0] \in PipeType /\ Exclusive(pipe[o0].holders) /\ o0 \in Objects
    BY <1>0, <2>1 DEF PipesInv, LineOK
  <2>6. /\ Q \in PipeType /\ pipe[o0].holders \subseteq Q.holders /\ Exclusive(Q.holders)
        /\ Q.holders \cup InLine(Q) = pipe[o0].holders \cup InLine(pipe[o0]) \cup {E}
        /\ InLine(Q) \subseteq InLine(pipe[o0]) \cup {E}
    BY <2>4, <2>5, EnterFacts
  <2>7. m = ModeOf(p, o0)
    OBVIOUS
  <2> HIDE DEF o0, m, E, Q
  <2>8. pipe'[o0] = Q /\ \A o \in Objects : o # o0 => pipe'[o] = pipe[o]
    BY <1>0, <2>2, <2>5 DEF Q, m
  <2>9. stage'[p] = "line" /\ left'[p] = S \ {o0}
        /\ \A q \in Parts : q # p => stage'[q] = stage[q] /\ left'[q] = left[q]
    BY <1>0, <2>2
  <2>10. pipe' \in [Objects -> PipeType] /\ left' \in [Parts -> SUBSET Objects]
    <3>1. Enter(pipe[o0], p, ModeOf(p, o0)) = Q
      BY DEF Q, m
    <3> QED
      BY <1>0, <2>2, <2>5, <2>6, <3>1
  <2>11. \A o \in Objects : \A e \in pipe[o].holders \cup InLine(pipe[o]) : e.who \in Parts
    BY <1>0 DEF PipeType, InLine
  <2>12. \A o \in Objects : \A e \in pipe[o].holders \cup InLine(pipe[o]) : e.who = p => o \notin S
    BY WaitsIn DEF Holds
  <2>13. ASSUME NEW o \in Objects, NEW e \in pipe[o].holders \cup InLine(pipe[o])
         PROVE  /\ e.mode = ModeOf(e.who, o)
                /\ o \in Lines(e.who) \ left'[e.who]
                /\ stage'[e.who] = "line" \/ Granted(e.who)'
                /\ e \in InLine(pipe[o]) => stage'[e.who] = "line"
    <3>1. LineOK(o)
      BY DEF PipesInv
    <3>2. CASE e.who = p
      BY <2>9, <2>12, <3>1, <3>2 DEF LineOK
    <3>3. CASE e.who # p
      BY <2>9, <2>11, <3>1, <3>3 DEF LineOK, Granted
    <3> QED
      BY <3>2, <3>3
  <2>14. ASSUME NEW o \in Objects PROVE LineOK(o)'
    <3>1. CASE o # o0
      <4>1. Exclusive(pipe[o].holders)
        BY DEF PipesInv, LineOK
      <4> QED
        BY <1>1, <2>8, <2>13, <3>1, <4>1 DEF LineOK
    <3>2. CASE o = o0
      <4>1. o0 \in Lines(p) \ left'[p]
        BY <2>1, <2>9
      <4> QED
        BY <1>1, <2>4, <2>6, <2>7, <2>8, <2>9, <2>13, <3>2, <4>1 DEF LineOK
    <3> QED
      BY <3>1, <3>2
  <2>15. ASSUME NEW o \in Objects, NEW q \in Parts
         PROVE  /\ Holds(pipe[o], q) => Holds(pipe'[o], q)
                /\ Waits(pipe[o], q) => Holds(pipe'[o], q) \/ Waits(pipe'[o], q)
    <3>1. pipe[o].holders \subseteq pipe'[o].holders
      BY <2>6, <2>8
    <3>2. InLine(pipe[o]) \subseteq pipe'[o].holders \cup InLine(pipe'[o])
      BY <2>6, <2>8
    <3> QED
      BY <3>1, <3>2, WaitsIn DEF Holds
  <2>16. Holds(pipe'[o0], p) \/ Waits(pipe'[o0], p)
    BY <2>4, <2>6, <2>8, WaitsIn DEF Holds
  <2>17. ASSUME NEW q \in Parts PROVE PartOK(q)'
    <3>1. PartOK(q)
      BY DEF PipesInv
    <3>2. CASE q = p
      <4>1. \A o \in Lines(p) \ (S \ {o0}) : Holds(pipe'[o], p) \/ Waits(pipe'[o], p)
        <5>1. Lines(p) \subseteq Objects
          BY GraphAssumption DEF Lines, Uses, GraphType, BuildType
        <5>2. ASSUME NEW o \in Lines(p) \ S PROVE Holds(pipe'[o], p)
          <6>1. o \in Objects /\ Holds(pipe[o], p)
            BY <5>1
          <6> QED
            BY <2>15, <6>1
        <5> QED
          BY <2>16, <5>2
      <4> QED
        BY <1>1, <2>9, <3>2, <4>1 DEF PartOK, Granted
    <3>3. CASE q # p
      <4>1. Lines(q) \subseteq Objects
        BY GraphAssumption DEF Lines, Uses, GraphType, BuildType
      <4>2. stage'[q] = stage[q] /\ left'[q] = left[q]
        BY <2>9, <3>3
      <4>3. ASSUME NEW o \in Lines(q)
            PROVE  /\ Holds(pipe[o], q) => Holds(pipe'[o], q)
                   /\ Waits(pipe[o], q) => Holds(pipe'[o], q) \/ Waits(pipe'[o], q)
        <5>1. o \in Objects
          BY <4>1
        <5> QED
          BY <2>15, <5>1
      <4> QED
        BY <1>1, <3>1, <4>2, <4>3 DEF PartOK, Granted
    <3> QED
      BY <3>2, <3>3
  <2> QED
    BY <2>2, <2>10, <2>14, <2>17 DEF PipesInv
<1> QED
  BY <1>2, <1>3

\* A participant that has all its lines gives them back, and is nowhere afterwards.
LEMMA LeaveStep ==
    ASSUME GraphType, PipesInv, NEW p \in Parts, NEW s \in {"idle", "gone", "completing"},
           Granted(p), advance_pipe_links(p), stage' = [stage EXCEPT ![p] = s],
           nodes' = nodes, bound' = bound, launch' = launch, left' = left
    PROVE  PipesInv' /\ pipe' \in [Objects -> PipeType]
<1>0. /\ pipe \in [Objects -> PipeType] /\ DOMAIN stage = Parts
      /\ \A e \in Entries : e.who \in Parts
  BY DEF GraphType, LineType, StageType, Entries
<1>1. \A q : Lines(q)' = Lines(q) /\ \A o : ModeOf(q, o)' = ModeOf(q, o)
  BY LinesSame
<1>2. stage'[p] = s /\ \A q \in Parts : q # p => stage'[q] = stage[q]
  BY <1>0
<1>3. stage[p] # "line" /\ left[p] = {}
  BY DEF Granted, PipesInv, PartOK
<1>4. ASSUME NEW o \in Objects
      PROVE  /\ pipe'[o] \in PipeType /\ Exclusive(pipe'[o].holders)
             /\ {h \in pipe[o].holders : h.who # p} \subseteq pipe'[o].holders
             /\ pipe'[o].holders \cup InLine(pipe'[o]) = {h \in pipe[o].holders : h.who # p} \cup InLine(pipe[o])
             /\ InLine(pipe'[o]) \subseteq InLine(pipe[o])
             /\ \A e \in InLine(pipe[o]) : e.who # p
  <2>1. pipe[o] \in PipeType /\ LineOK(o)
    BY <1>0 DEF PipesInv
  <2>2. \A e \in InLine(pipe[o]) : e.who # p
    BY <1>3, <2>1 DEF LineOK
  <2>3. CASE Holds(pipe[o], p)
    <3>1. pipe'[o] = Leave(pipe[o], p)
      BY <2>3 DEF advance_pipe_links
    <3> QED
      BY <2>1, <2>2, <3>1, LeaveFacts DEF LineOK
  <2>4. CASE ~Holds(pipe[o], p)
    <3>1. pipe'[o] = pipe[o]
      BY <2>4 DEF advance_pipe_links
    <3>2. {h \in pipe[o].holders : h.who # p} = pipe[o].holders
      BY <2>4 DEF Holds
    <3> QED
      BY <2>1, <2>2, <3>1, <3>2 DEF LineOK
  <2> QED
    BY <2>3, <2>4
<1>5. pipe' \in [Objects -> PipeType]
  BY <1>4 DEF advance_pipe_links
<1>6. ASSUME NEW o \in Objects PROVE LineOK(o)'
  <2>1. LineOK(o) /\ \A e \in pipe[o].holders \cup InLine(pipe[o]) : e.who \in Parts
    BY <1>0 DEF PipesInv, PipeType, InLine
  <2>2. \A e \in pipe'[o].holders \cup InLine(pipe'[o]) :
            e \in pipe[o].holders \cup InLine(pipe[o]) /\ e.who # p
    BY <1>4
  <2> QED
    BY <1>1, <1>2, <1>4, <2>1, <2>2 DEF LineOK, Granted
<1>7. ASSUME NEW q \in Parts PROVE PartOK(q)'
  <2>1. PartOK(q)
    BY DEF PipesInv
  <2>2. CASE q = p
    BY <1>1, <1>2, <1>3, <2>1, <2>2 DEF PartOK, Granted
  <2>3. CASE q # p
    <3>1. Lines(q) \subseteq Objects
      BY GraphAssumption DEF Lines, Uses, GraphType, BuildType
    <3>2. stage'[q] = stage[q]
      BY <1>2, <2>3
    <3>3. ASSUME NEW o \in Lines(q)
          PROVE  /\ Holds(pipe[o], q) => Holds(pipe'[o], q)
                 /\ Waits(pipe[o], q) => Holds(pipe'[o], q) \/ Waits(pipe'[o], q)
      <4>1. o \in Objects
        BY <3>1
      <4>2. /\ {h \in pipe[o].holders : h.who # p} \subseteq pipe'[o].holders
            /\ InLine(pipe[o]) \subseteq pipe'[o].holders \cup InLine(pipe'[o])
        BY <1>4, <4>1
      <4> QED
        BY <2>3, <4>2, WaitsIn DEF Holds
    <3> QED
      BY <1>1, <2>1, <3>2, <3>3 DEF PartOK, Granted
  <2> QED
    BY <2>2, <2>3
<1> QED
  BY <1>5, <1>6, <1>7 DEF PipesInv

\* A step that leaves the pipes alone: a participant either stays as it is, or had no
\* entry and has none.
LEMMA LinesFrame ==
    ASSUME GraphType, PipesInv, pipe' = pipe,
           \A p \in Parts :
              \/ /\ Lines(p)' = Lines(p) /\ left'[p] = left[p]
                 /\ \A o \in Objects : ModeOf(p, o)' = ModeOf(p, o)
                 /\ Granted(p)' <=> Granted(p)
                 /\ stage'[p] = "line" <=> stage[p] = "line"
              \/ /\ stage[p] # "line" /\ ~Granted(p) /\ ~Granted(p)'
                 /\ left'[p] = IF stage'[p] = "line" THEN Lines(p)' ELSE {}
    PROVE  PipesInv'
<1>0. \A o \in Objects : \A e \in pipe[o].holders \cup InLine(pipe[o]) : e.who \in Parts
  <2>1. pipe \in [Objects -> PipeType] /\ \A e \in Entries : e.who \in Parts
    BY DEF GraphType, LineType, StageType, Entries
  <2> QED
    BY <2>1 DEF PipeType, InLine
<1>1. ASSUME NEW o \in Objects PROVE LineOK(o)'
  <2>1. LineOK(o)
    BY DEF PipesInv
  <2>2. ASSUME NEW e \in pipe[o].holders \cup InLine(pipe[o])
        PROVE  /\ e.mode = ModeOf(e.who, o)'
               /\ o \in Lines(e.who)' \ left'[e.who]
               /\ stage'[e.who] = "line" \/ Granted(e.who)'
               /\ e \in InLine(pipe[o]) => stage'[e.who] = "line"
    <3>1. e.who \in Parts /\ (stage[e.who] = "line" \/ Granted(e.who))
      BY <1>0, <2>1 DEF LineOK
    <3>2. /\ Lines(e.who)' = Lines(e.who) /\ left'[e.who] = left[e.who]
          /\ \A i \in Objects : ModeOf(e.who, i)' = ModeOf(e.who, i)
          /\ Granted(e.who)' <=> Granted(e.who)
          /\ stage'[e.who] = "line" <=> stage[e.who] = "line"
      BY <3>1
    <3> QED
      BY <2>1, <3>1, <3>2 DEF LineOK
  <2> QED
    BY <2>1, <2>2 DEF LineOK
<1>2. ASSUME NEW q \in Parts PROVE PartOK(q)'
  <2>1. PartOK(q)
    BY DEF PipesInv
  <2>2. CASE /\ Lines(q)' = Lines(q) /\ left'[q] = left[q]
             /\ Granted(q)' <=> Granted(q)
             /\ stage'[q] = "line" <=> stage[q] = "line"
    BY <2>1, <2>2 DEF PartOK
  <2>3. CASE ~Granted(q)' /\ left'[q] = IF stage'[q] = "line" THEN Lines(q)' ELSE {}
    BY <2>3 DEF PartOK
  <2> QED
    BY <2>2, <2>3
<1> QED
  BY <1>1, <1>2 DEF PipesInv

\* In particular one that moves nobody in or out of a line.
LEMMA LinesKept ==
    ASSUME GraphType, PipesInv, pipe' = pipe, left' = left,
           nodes' = nodes, bound' = bound, launch' = launch,
           \A p \in Parts : /\ Granted(p)' <=> Granted(p)
                            /\ stage'[p] = "line" <=> stage[p] = "line"
    PROVE  PipesInv'
<1>1. \A p : Lines(p)' = Lines(p) /\ \A o : ModeOf(p, o)' = ModeOf(p, o)
  BY LinesSame
<1> QED
  BY <1>1, LinesFrame

\* Whoever is on no line and has no turn has no entry.
LEMMA NoEntry ==
    ASSUME PipesInv, NEW p \in Parts, stage[p] # "line", ~Granted(p)
    PROVE  left[p] = {} /\ \A o \in Objects : ~Waits(pipe[o], p) /\ ~Holds(pipe[o], p)
<1>1. left[p] = {}
  BY DEF PipesInv, PartOK
<1>2. ASSUME NEW o \in Objects PROVE ~Waits(pipe[o], p) /\ ~Holds(pipe[o], p)
  <2>1. LineOK(o)
    BY DEF PipesInv
  <2>2. ASSUME NEW e \in pipe[o].holders \cup InLine(pipe[o]) PROVE e.who # p
    BY <2>1 DEF LineOK
  <2> QED
    BY <2>2, WaitsIn DEF Holds
<1> QED
  BY <1>1, <1>2

\* Every line is one its participant uses.
LEMMA LinesUsed ==
    ASSUME GraphType, BuildInv, NEW p \in Parts, built # "building", p \in Indices => p \in Nodes
    PROVE  Lines(p) \subseteq Objects /\ \A o \in Lines(p) : ModeOf(p, o) # "none"
<1>0. Caller \notin Indices /\ Caller \notin Outsiders /\ Outsiders \cap Indices = {} /\ Nodes \subseteq Indices
  BY GraphAssumption, NodesFacts
<1>1. CASE p \in Nodes
  <2>1. Lines(p) = bound[p] /\ bound[p] \subseteq Uses(nodes[p])
    BY <1>0, <1>1 DEF Lines, BuildInv
  <2> QED
    BY <1>1, <2>1, ModeFacts DEF Uses
<1>2. CASE p = Caller
  <2>1. Lines(p) = Uses(launch.holds)
    BY <1>0, <1>2 DEF Lines
  <2> QED
    BY <1>2, <2>1, ModeFacts DEF Uses
<1>3. CASE p \in Outsiders
  <2>1. Lines(p) = Uses(OutAccess[p])
    BY <1>0, <1>3 DEF Lines
  <2> QED
    BY <1>3, <2>1, ModeFacts DEF Uses
<1> QED
  BY <1>1, <1>2, <1>3 DEF Parts

\* A participant starts on all its lines.
LEMMA EnterNew ==
    ASSUME GraphType, BuildInv, PipesInv, NEW p \in Parts, built # "building",
           p \in Indices => p \in Nodes,
           stage[p] # "line", ~Granted(p), pipe_enter_first(p, Lines(p)),
           nodes' = nodes, bound' = bound, launch' = launch
    PROVE  /\ PipesInv'
           /\ pipe' \in [Objects -> PipeType] /\ left' \in [Parts -> SUBSET Objects]
           /\ \E s \in {"line", "ready"} : stage' = [stage EXCEPT ![p] = s]
<1>1. Lines(p) \in SUBSET Objects /\ \A o \in Lines(p) : ModeOf(p, o) # "none"
  BY LinesUsed
<1>2. left[p] = {} /\ \A o \in Objects : ~Waits(pipe[o], p) /\ ~Holds(pipe[o], p)
  BY NoEntry
<1>3. /\ Lines(p) \subseteq Lines(p) /\ left[p] \subseteq Lines(p)
      /\ \A o \in Lines(p) \ Lines(p) : Holds(pipe[o], p)
      /\ \A o \in Objects : ~Waits(pipe[o], p)
      /\ \A o \in Lines(p) : ~Holds(pipe[o], p)
  BY <1>1, <1>2
<1> QED
  BY <1>1, <1>3, EnterStep

\* A participant whose turn has come goes on to its next line.
LEMMA EnterNext ==
    ASSUME GraphType, BuildInv, PipesInv, NEW p \in Parts, built # "building",
           p \in Indices => p \in Nodes,
           stage[p] = "line", \A o \in Objects : ~Waits(pipe[o], p),
           pipe_enter_first(p, left[p]),
           nodes' = nodes, bound' = bound, launch' = launch
    PROVE  /\ PipesInv'
           /\ pipe' \in [Objects -> PipeType] /\ left' \in [Parts -> SUBSET Objects]
           /\ \E s \in {"line", "ready"} : stage' = [stage EXCEPT ![p] = s]
<1>1. Lines(p) \in SUBSET Objects /\ \A o \in Lines(p) : ModeOf(p, o) # "none"
  BY LinesUsed
<1>2. PartOK(p)
  BY DEF PipesInv
<1>3. ASSUME NEW o \in left[p] PROVE ~Holds(pipe[o], p)
  <2>1. o \in Objects
    BY <1>1, <1>2 DEF PartOK
  <2>2. LineOK(o)
    BY <2>1 DEF PipesInv
  <2> QED
    BY <2>2 DEF LineOK, Holds
<1>4. ASSUME NEW o \in Lines(p) \ left[p] PROVE Holds(pipe[o], p)
  BY <1>1, <1>2 DEF PartOK
<1>5. left[p] \in SUBSET Objects /\ left[p] \subseteq Lines(p) /\ left[p] \subseteq left[p]
  BY <1>1, <1>2 DEF PartOK
<1> QED
  BY <1>1, <1>3, <1>4, <1>5, EnterStep

-----------------------------------------------------------------------------
(* Frames *)

\* A participant that moves moves to a stage of its own.
LEMMA StageStep ==
    ASSUME StageType, NEW p \in Parts, NEW s, stage' = [stage EXCEPT ![p] = s],
           p \in Indices => s \in NodeStages, p = Caller => s \in CallStages,
           p \in Outsiders => s \in OutStages
    PROVE  StageType' /\ stage'[p] = s /\ \A q \in Parts : q # p => stage'[q] = stage[q]
<1>1. s \in NodeStages \cup CallStages \cup OutStages
  BY DEF Parts
<1>2. stage'[p] = s /\ \A q \in Parts : q # p => stage'[q] = stage[q]
  BY DEF StageType
<1>3. Indices \subseteq Parts /\ Caller \in Parts /\ Outsiders \subseteq Parts
  BY DEF Parts
<1>4. stage' \in [Parts -> NodeStages \cup CallStages \cup OutStages]
  BY <1>1 DEF StageType
<1>5. \A i \in Indices : stage'[i] \in NodeStages
  BY <1>2, <1>3 DEF StageType
<1>6. stage'[Caller] \in CallStages
  BY <1>2, <1>3 DEF StageType
<1>7. \A x \in Outsiders : stage'[x] \in OutStages
  BY <1>2, <1>3 DEF StageType
<1> QED
  BY <1>2, <1>4, <1>5, <1>6, <1>7 DEF StageType

\* The graph and its links are left alone, and no run begins.
LEMMA BuildFrame ==
    ASSUME GraphType, BuildInv, nodes' = nodes, explicit' = explicit, edges' = edges,
           built' = built, bound' = bound, links_lent' = links_lent, done' = done,
           InRun' => InRun /\ launch' = launch,
           built # "building" \/ (stage' = stage /\ todo' = todo /\ ready_buf' = ready_buf),
           \A i \in Indices \ Nodes : stage'[i] = stage[i]
    PROVE  BuildInv' /\ BuildType'
<1>1. BuildType'
  BY DEF GraphType, BuildType, Nodes
<1>2. Nodes' = Nodes /\ Compiled' = Compiled /\ Visited' = Visited
  BY DEF Compiled, Visited, Nodes
<1>3. InRun' => Lent' = Lent
  BY DEF Lent, Strongest, Nodes
<1> QED
  BY <1>1, <1>2, <1>3 DEF BuildInv

\* No counter moves but those of nodes that cannot be waited for.
LEMMA CountFrame ==
    ASSUME GraphType, CountInv, nodes' = nodes, edges' = edges, deps' = deps, InRun' => InRun,
           \A i \in Nodes : /\ todo'[i] \subseteq Succ(i) /\ ready_buf'[i] \subseteq ready_buf[i]
                            /\ stage'[i] # "completing" => todo'[i] = {} /\ ready_buf'[i] = {},
           todo'[Caller] \subseteq todo[Caller], stage'[Caller] # "kick" => todo'[Caller] = {},
           \A i, j \in Nodes : <<i, j>> \in edges => (Before(i, j)' <=> Before(i, j)),
           \A j \in Nodes : stage'[j] # "armed" => stage[j] # "armed" \/ Pending(j) = {},
           \A j \in todo'[Caller] : stage'[j] = "armed",
           \A i \in Nodes : \A j \in ready_buf'[i] : stage'[j] = "armed"
    PROVE  CountInv'
<1>1. Nodes' = Nodes /\ \A i : Succ(i)' = Succ(i)
  BY DEF Nodes, Succ
<1>2. \A j \in Nodes : Pending(j)' = Pending(j)
  BY <1>1 DEF Pending
<1>3. \A i \in Nodes : /\ todo'[i] \subseteq Succ(i)'
                       /\ stage'[i] # "completing" => todo'[i] = {} /\ ready_buf'[i] = {}
  BY <1>1
<1>4. todo'[Caller] \subseteq Nodes'
  BY <1>1 DEF CountInv
<1>5. InRun' => \A j \in Nodes : /\ deps'[j] = Cardinality(Pending(j)')
                                 /\ stage'[j] # "armed" => Pending(j)' = {}
  BY <1>2 DEF CountInv
<1>6. \A j \in todo'[Caller] : stage'[j] = "armed" /\ Pending(j)' = {}
  <2>1. \A j \in todo'[Caller] : j \in Nodes /\ Pending(j) = {}
    BY DEF CountInv
  <2> QED
    BY <1>2, <2>1
<1>7. ASSUME NEW i \in Nodes, NEW j \in ready_buf'[i]
      PROVE  /\ j \in Nodes /\ stage'[j] = "armed" /\ Pending(j)' = {} /\ j \notin todo'[Caller]
             /\ \A k \in Nodes : j \in ready_buf'[k] => k = i
  <2>1. j \in ready_buf[i]
    OBVIOUS
  <2>2. /\ j \in Nodes /\ Pending(j) = {} /\ j \notin todo[Caller]
        /\ \A k \in Nodes : j \in ready_buf[k] => k = i
    BY <2>1 DEF CountInv
  <2> QED
    BY <1>2, <2>2
<1> QED
  BY <1>1, <1>3, <1>4, <1>5, <1>6, <1>7 DEF CountInv

\* No node joins or leaves the run.
LEMMA NodesFrame ==
    ASSUME NodesInv, nodes' = nodes, remaining' = remaining, done' = done, InRun' <=> InRun,
           \A i \in Nodes : /\ stage'[i] = "idle" <=> stage[i] = "idle"
                            /\ stage'[i] = "folding" <=> stage[i] = "folding",
           back' = back, addr' = addr, built' = built,
           tails' \subseteq kept'
    PROVE  NodesInv'
<1>1. Nodes' = Nodes
  BY DEF Nodes
<1>2. Going' = Going
  BY <1>1 DEF Going
<1> QED
  BY <1>1, <1>2 DEF NodesInv, AtHome

\* No body starts.
LEMMA RanFrame ==
    ASSUME RanInv, nodes' = nodes, done' = done, result' = result, ran' = ran, token => token',
           built' = built,
           InRun => \A i \in Nodes : stage'[i] \in NotStarted <=> stage[i] \in NotStarted
    PROVE  RanInv'
  BY DEF RanInv, Nodes, InRun, Cancelled

\* The caller stays where it is.
LEMMA CallerFrame ==
    ASSUME CallerInv, built' = built, InRun' => InRun, done' = done, launch' = launch,
           stage'[Caller] = stage[Caller]
    PROVE  CallerInv'
  BY DEF CallerInv, Detached

-----------------------------------------------------------------------------
(* The steps of a run *)

\* The graph, its links and the calling task's options are left alone.
GraphSame ==
    /\ nodes' = nodes /\ explicit' = explicit /\ edges' = edges /\ built' = built /\ addr' = addr
    /\ bound' = bound /\ links_lent' = links_lent /\ launch' = launch

\* The run's counters and its handle are left alone.
RunSame ==
    /\ back' = back /\ deps' = deps /\ remaining' = remaining /\ done' = done
    /\ token' = token /\ result' = result /\ tails' = tails /\ kept' = kept

\* A node that is not idle is one of a run.
LEMMA NodeInRun ==
    ASSUME GraphInv, NEW i \in Indices, stage[i] # "idle"
    PROVE  /\ i \in Nodes /\ InRun /\ built \in {"compiled", "destroyed"} /\ done > 0
           /\ stage[i] # "folding" => built = "compiled" /\ back = addr
<1>1. i \in Nodes
  BY DEF GraphInv, BuildInv
<1> QED
  BY <1>1 DEF GraphInv, RunInv, NodesInv, AtHome, Going

\* Who moves, moves after the graph was compiled.
LEMMA Moves ==
    ASSUME GraphInv, NEW p \in Parts, stage[p] # "idle"
    PROVE  built # "building" /\ (p \in Indices => p \in Nodes)
  BY DEF GraphInv, BuildInv

\* What the parts have in common.
LEMMA PartFacts ==
    /\ Indices \subseteq Parts /\ Caller \in Parts /\ Outsiders \subseteq Parts
    /\ Caller \notin Indices /\ Caller \notin Outsiders /\ Outsiders \cap Indices = {}
  BY GraphAssumption DEF Parts

\* A participant goes on to its next line or is dispatched.
LEMMA TurnStep ==
    ASSUME GraphInv, NEW p \in Parts, turn(p)
    PROVE  GraphInv'
<1>0. stage[p] = "line" /\ (\A o \in Objects : ~Waits(pipe[o], p)) /\ pipe_enter_first(p, left[p])
  BY DEF turn
<1>1. GraphSame /\ RunSame /\ todo' = todo /\ ready_buf' = ready_buf /\ ran' = ran
  BY DEF turn, GraphSame, RunSame, graphVars, runVars, bindVars, callVars
<1>2. GraphType /\ BuildInv /\ PipesInv /\ CountInv /\ NodesInv /\ RanInv /\ CallerInv
  BY DEF GraphInv, RunInv
<1>3. built # "building" /\ (p \in Indices => p \in Nodes)
  BY <1>0, Moves
<1>4. nodes' = nodes /\ bound' = bound /\ launch' = launch
  BY <1>1 DEF GraphSame
<1>5. PipesInv' /\ LineType' /\ \E s \in {"line", "ready"} : stage' = [stage EXCEPT ![p] = s]
  BY <1>0, <1>2, <1>3, <1>4, EnterNext DEF LineType
<1>6. PICK s \in {"line", "ready"} : stage' = [stage EXCEPT ![p] = s]
  BY <1>5
<1>7. StageType' /\ stage'[p] = s /\ \A q \in Parts : q # p => stage'[q] = stage[q]
  <2>1. s \in NodeStages /\ s \in CallStages /\ s \in OutStages
    BY DEF NodeStages, BeforeEnd, CallStages, OutStages
  <2> QED
    BY <1>2, <1>6, <2>1, StageStep DEF GraphType
<1>8. InRun' <=> InRun
  BY <1>1 DEF InRun, RunSame
<1>9. Nodes \subseteq Indices
  BY <1>2, NodesFacts
<1>10. BuildInv' /\ BuildType'
  <2>1. \A i \in Indices \ Nodes : stage'[i] = stage[i]
    BY <1>3, <1>7, PartFacts
  <2> QED
    BY <1>1, <1>2, <1>3, <1>8, <2>1, BuildFrame DEF GraphSame, RunSame
<1>11. RunType' /\ PartType'
  BY <1>1, <1>2 DEF GraphType, RunType, PartType, GraphSame, RunSame
<1>12. \A i \in Nodes : \/ stage'[i] = stage[i]
                        \/ stage[i] = "line" /\ stage'[i] \in {"line", "ready"}
  BY <1>0, <1>7, <1>9, PartFacts
<1>13. CountInv'
  <2>1. stage'[Caller] # "kick" => stage[Caller] # "kick"
    BY <1>0, <1>7, PartFacts
  <2>2. \A i, j \in Nodes : Before(i, j)' <=> Before(i, j)
    BY <1>1, <1>12 DEF Before, BeforeEnd
  <2>3. \A i \in Nodes : /\ stage'[i] = "armed" <=> stage[i] = "armed"
                         /\ stage'[i] = "completing" <=> stage[i] = "completing"
    BY <1>12
  <2>4. \A i \in Nodes : /\ todo[i] \subseteq Succ(i) /\ \A j \in ready_buf[i] : j \in Nodes /\ stage[j] = "armed"
                         /\ stage[i] # "completing" => todo[i] = {} /\ ready_buf[i] = {}
    BY <1>2 DEF CountInv
  <2>5. /\ \A j \in todo[Caller] : j \in Nodes /\ stage[j] = "armed"
        /\ stage[Caller] # "kick" => todo[Caller] = {}
    BY <1>2 DEF CountInv
  <2> QED
    BY <1>1, <1>2, <1>8, <2>1, <2>2, <2>3, <2>4, <2>5, CountFrame DEF GraphSame, RunSame
<1>14. NodesInv'
  <2>1. \A i \in Nodes : /\ stage'[i] = "idle" <=> stage[i] = "idle"
                         /\ stage'[i] = "folding" <=> stage[i] = "folding"
    BY <1>12
  <2>2. back' = back /\ addr' = addr /\ built' = built /\ tails' \subseteq kept'
    BY <1>1, <1>2 DEF GraphSame, RunSame, NodesInv
  <2> QED
    BY <1>1, <1>2, <1>8, <2>1, <2>2, NodesFrame DEF GraphSame, RunSame
<1>15. RanInv'
  <2>1. \A i \in Nodes : stage'[i] \in NotStarted <=> stage[i] \in NotStarted
    BY <1>12 DEF NotStarted
  <2> QED
    BY <1>1, <1>2, <2>1, RanFrame DEF GraphSame, RunSame
<1>16. CallerInv'
  <2>1. CASE p = Caller
    BY <1>0, <1>1, <1>2, <1>7, <1>8, <2>1 DEF CallerInv, Detached, GraphSame, RunSame
  <2>2. CASE p # Caller
    BY <1>1, <1>2, <1>7, <1>8, <2>2, PartFacts, CallerFrame DEF GraphSame, RunSame
  <2> QED
    BY <2>1, <2>2
<1> QED
  BY <1>5, <1>7, <1>10, <1>11, <1>13, <1>14, <1>15, <1>16 DEF GraphInv, GraphType, RunInv

\* A node whose prerequisites are over, and that nobody else will start, is started.
LEMMA StartStep ==
    ASSUME GraphInv, GraphSame, RunSame, ran' = ran,
           NEW n \in Nodes, stage[n] = "armed", Pending(n) = {}, pipe_enter_first(n, bound[n]),
           todo' \in [Parts -> SUBSET Indices], ready_buf' \in [Indices -> SUBSET Indices],
           \A i \in Nodes : todo'[i] = todo[i] /\ ready_buf'[i] \subseteq ready_buf[i] \ {n},
           todo'[Caller] \subseteq todo[Caller] \ {n}
    PROVE  GraphInv'
<1>1. GraphType /\ BuildInv /\ PipesInv /\ CountInv /\ NodesInv /\ RanInv /\ CallerInv
  BY DEF GraphInv, RunInv
<1>2. Nodes \subseteq Indices /\ n \in Parts /\ n # Caller /\ n \in Indices /\ Nodes \subseteq Parts
  BY <1>1, NodesFacts, PartFacts
<1>3. built # "building" /\ stage[n] # "line" /\ ~Granted(n)
  BY <1>2, Moves DEF Granted
<1>4. nodes' = nodes /\ bound' = bound /\ launch' = launch /\ Lines(n) = bound[n]
  BY <1>2 DEF GraphSame, Lines
<1>5. PipesInv' /\ LineType' /\ \E s \in {"line", "ready"} : stage' = [stage EXCEPT ![n] = s]
  BY <1>1, <1>2, <1>3, <1>4, EnterNew DEF LineType
<1>6. PICK s \in {"line", "ready"} : stage' = [stage EXCEPT ![n] = s]
  BY <1>5
<1>7. StageType' /\ stage'[n] = s /\ \A q \in Parts : q # n => stage'[q] = stage[q]
  <2>1. s \in NodeStages
    BY DEF NodeStages, BeforeEnd
  <2>2. n \notin Outsiders
    BY <1>2, PartFacts
  <2> QED
    BY <1>1, <1>2, <1>6, <2>1, <2>2, StageStep DEF GraphType
<1>8. InRun' <=> InRun
  BY DEF InRun, RunSame
<1>9. BuildInv' /\ BuildType'
  <2>1. \A i \in Indices \ Nodes : stage'[i] = stage[i]
    BY <1>7, PartFacts
  <2> QED
    BY <1>1, <1>3, <1>8, <2>1, BuildFrame DEF GraphSame, RunSame
<1>10. RunType' /\ PartType'
  BY <1>1 DEF GraphType, RunType, PartType, GraphSame, RunSame
<1>11. CountInv'
  <2>1. stage'[Caller] = stage[Caller]
    BY <1>2, <1>7, PartFacts
  <2>2. \A i, j \in Nodes : Before(i, j)' <=> Before(i, j)
    BY <1>2, <1>7 DEF Before, BeforeEnd
  <2>3. \A i \in Nodes : todo[i] \subseteq Succ(i) /\ (stage[i] # "completing" => todo[i] = {} /\ ready_buf[i] = {})
    BY <1>1 DEF CountInv
  <2>4. \A i \in Nodes : stage'[i] # "completing" => stage[i] # "completing"
    BY <1>2, <1>7
  <2>5. \A i \in Nodes : /\ todo'[i] \subseteq Succ(i) /\ ready_buf'[i] \subseteq ready_buf[i]
                         /\ stage'[i] # "completing" => todo'[i] = {} /\ ready_buf'[i] = {}
    BY <2>3, <2>4
  <2>6. stage'[Caller] # "kick" => todo'[Caller] = {}
    BY <1>1, <2>1 DEF CountInv
  <2>7. \A j \in Nodes : stage'[j] # "armed" => stage[j] # "armed" \/ Pending(j) = {}
    BY <1>2, <1>7
  <2>8. \A j \in todo'[Caller] : stage'[j] = "armed"
    <3>1. \A j \in todo[Caller] : j \in Nodes /\ stage[j] = "armed"
      BY <1>1 DEF CountInv
    <3> QED
      BY <1>2, <1>7, <3>1
  <2>9. \A i \in Nodes : \A j \in ready_buf'[i] : stage'[j] = "armed"
    <3>1. \A i \in Nodes : \A j \in ready_buf[i] : j \in Nodes /\ stage[j] = "armed"
      BY <1>1 DEF CountInv
    <3> QED
      BY <1>2, <1>7, <3>1
  <2> QED
    BY <1>1, <1>8, <2>2, <2>5, <2>6, <2>7, <2>8, <2>9, CountFrame DEF GraphSame, RunSame
<1>12. NodesInv'
  <2>1. \A i \in Nodes : /\ stage'[i] = "idle" <=> stage[i] = "idle"
                         /\ stage'[i] = "folding" <=> stage[i] = "folding"
    BY <1>2, <1>7
  <2>2. back' = back /\ addr' = addr /\ built' = built /\ tails' \subseteq kept'
    BY <1>1 DEF GraphSame, RunSame, NodesInv
  <2> QED
    BY <1>1, <1>8, <2>1, <2>2, NodesFrame DEF GraphSame, RunSame
<1>13. RanInv'
  <2>1. \A i \in Nodes : stage'[i] \in NotStarted <=> stage[i] \in NotStarted
    BY <1>2, <1>7 DEF NotStarted
  <2> QED
    BY <1>1, <2>1, RanFrame DEF GraphSame, RunSame
<1>14. CallerInv'
  BY <1>1, <1>2, <1>7, <1>8, PartFacts, CallerFrame DEF GraphSame, RunSame
<1> QED
  BY <1>5, <1>7, <1>9, <1>10, <1>11, <1>12, <1>13, <1>14 DEF GraphInv, GraphType, RunInv

\* The kick-off loop starts a root.
LEMMA KickoffStep ==
    ASSUME GraphInv, kickoff
    PROVE  GraphInv'
<1> DEFINE n == Least(todo[Caller])
<1>1. /\ todo[Caller] # {} /\ pipe_enter_first(n, bound[n])
      /\ todo' = [todo EXCEPT ![Caller] = @ \ {n}] /\ ready_buf' = ready_buf /\ ran' = ran
  BY DEF kickoff
<1>2. GraphSame /\ RunSame
  BY DEF kickoff, GraphSame, RunSame, graphVars, runVars, bindVars, callVars
<1>3. GraphType /\ CountInv
  BY DEF GraphInv
<1>4. todo[Caller] \subseteq Nodes /\ Nodes \subseteq Indices /\ Indices \subseteq Nat
  BY <1>3, NodesFacts DEF CountInv
<1>5. n \in todo[Caller]
  BY <1>1, <1>4, LeastIn
<1> HIDE DEF n
<1>6. n \in Nodes /\ stage[n] = "armed" /\ Pending(n) = {}
  BY <1>3, <1>5 DEF CountInv
<1>7. todo \in [Parts -> SUBSET Indices] /\ ready_buf \in [Indices -> SUBSET Indices]
  BY <1>3 DEF GraphType, PartType
<1>8. todo' \in [Parts -> SUBSET Indices] /\ todo'[Caller] = todo[Caller] \ {n}
      /\ \A i \in Nodes : todo'[i] = todo[i]
  BY <1>1, <1>4, <1>7, PartFacts
<1>9. \A i \in Nodes : ready_buf'[i] \subseteq ready_buf[i] \ {n}
  BY <1>1, <1>3, <1>5 DEF CountInv
<1> QED
  BY <1>1, <1>2, <1>6, <1>7, <1>8, <1>9, StartStep

\* node_complete starts a successor.
LEMMA DataReadyStep ==
    ASSUME GraphInv, NEW i \in Indices, on_data_ready(i)
    PROVE  GraphInv'
<1> DEFINE n == Least(ready_buf[i])
<1>1. /\ stage[i] = "completing" /\ ready_buf[i] # {} /\ pipe_enter_first(n, bound[n])
      /\ ready_buf' = [ready_buf EXCEPT ![i] = @ \ {n}] /\ todo' = todo /\ ran' = ran
  BY DEF on_data_ready
<1>2. GraphSame /\ RunSame
  BY DEF on_data_ready, GraphSame, RunSame, graphVars, runVars, bindVars, callVars
<1>3. GraphType /\ CountInv
  BY DEF GraphInv
<1>4. Nodes \subseteq Indices /\ Indices \subseteq Nat
  BY <1>3, NodesFacts
<1>5. todo \in [Parts -> SUBSET Indices] /\ ready_buf \in [Indices -> SUBSET Indices]
  BY <1>3 DEF GraphType, PartType
<1>6. n \in ready_buf[i]
  BY <1>1, <1>4, <1>5, LeastIn
<1> HIDE DEF n
<1>7. i \in Nodes
  BY <1>1, NodeInRun
<1>8. /\ n \in Nodes /\ stage[n] = "armed" /\ Pending(n) = {} /\ n \notin todo[Caller]
      /\ \A k \in Nodes : n \in ready_buf[k] => k = i
  BY <1>3, <1>6, <1>7 DEF CountInv
<1>9. ready_buf' \in [Indices -> SUBSET Indices] /\ ready_buf'[i] = ready_buf[i] \ {n}
      /\ \A k \in Indices : k # i => ready_buf'[k] = ready_buf[k]
  BY <1>1, <1>5
<1>10. \A k \in Nodes : ready_buf'[k] \subseteq ready_buf[k] \ {n}
  BY <1>4, <1>8, <1>9
<1> QED
  BY <1>1, <1>2, <1>5, <1>8, <1>9, <1>10, StartStep

\* A body starts, is skipped or ends: the node keeps its lines.
LEMMA BodyStep ==
    ASSUME GraphInv, NEW i \in Indices, run_graph_node(i) \/ complete(i)
    PROVE  GraphInv'
<1>1. GraphType /\ BuildInv /\ PipesInv /\ CountInv /\ NodesInv /\ RanInv /\ CallerInv
  BY DEF GraphInv, RunInv
<1>2. PICK s \in {"running", "settling"} :
        /\ stage' = [stage EXCEPT ![i] = s]
        /\ \/ stage[i] = "ready" /\ ran' = [ran EXCEPT ![i] = IF token THEN "skipped" ELSE "ran"]
           \/ stage[i] = "running" /\ ran' = ran
  BY DEF run_graph_node, complete
<1>3. GraphSame /\ RunSame /\ pipe' = pipe /\ left' = left /\ todo' = todo /\ ready_buf' = ready_buf
  BY DEF run_graph_node, complete, GraphSame, RunSame, graphVars, runVars, bindVars, callVars
<1>4. i \in Nodes /\ InRun /\ built = "compiled" /\ i \in Parts /\ i # Caller
  BY <1>2, NodeInRun, PartFacts
<1>5. Nodes \subseteq Indices /\ Nodes \subseteq Parts
  BY <1>1, NodesFacts, PartFacts
<1>6. StageType' /\ stage'[i] = s /\ \A q \in Parts : q # i => stage'[q] = stage[q]
  <2>1. s \in NodeStages /\ i \notin Outsiders
    BY PartFacts DEF NodeStages, BeforeEnd
  <2> QED
    BY <1>1, <1>2, <1>4, <2>1, StageStep DEF GraphType
<1>7. InRun' <=> InRun
  BY <1>3 DEF InRun, RunSame
<1>8. BuildInv' /\ BuildType'
  <2>1. \A k \in Indices \ Nodes : stage'[k] = stage[k]
    BY <1>4, <1>6, PartFacts
  <2> QED
    BY <1>1, <1>3, <1>4, <1>7, <2>1, BuildFrame DEF GraphSame, RunSame
<1>9. PipesInv' /\ LineType'
  <2>1. \A q \in Parts : /\ Granted(q)' <=> Granted(q)
                         /\ stage'[q] = "line" <=> stage[q] = "line"
    BY <1>2, <1>6 DEF Granted
  <2>2. LineType'
    BY <1>1, <1>3 DEF GraphType, LineType
  <2> QED
    BY <1>1, <1>3, <2>1, <2>2, LinesKept DEF GraphSame
<1>10. RunType' /\ PartType'
  <2>1. ran' \in [Indices -> {"no", "ran", "skipped"}]
    BY <1>1, <1>2 DEF GraphType, PartType
  <2> QED
    BY <1>1, <1>3, <2>1 DEF GraphType, RunType, PartType, GraphSame, RunSame
<1>11. CountInv'
  <2>1. stage'[Caller] = stage[Caller]
    BY <1>4, <1>6, PartFacts
  <2>2. \A j, k \in Nodes : Before(j, k)' <=> Before(j, k)
    BY <1>2, <1>3, <1>5, <1>6 DEF Before, BeforeEnd
  <2>3. \A k \in Nodes : /\ stage'[k] = "armed" <=> stage[k] = "armed"
                         /\ stage'[k] = "completing" <=> stage[k] = "completing"
    BY <1>2, <1>5, <1>6
  <2>4. \A k \in Nodes : /\ todo[k] \subseteq Succ(k) /\ \A j \in ready_buf[k] : j \in Nodes /\ stage[j] = "armed"
                         /\ stage[k] # "completing" => todo[k] = {} /\ ready_buf[k] = {}
    BY <1>1 DEF CountInv
  <2>5. /\ \A j \in todo[Caller] : j \in Nodes /\ stage[j] = "armed"
        /\ stage[Caller] # "kick" => todo[Caller] = {}
    BY <1>1 DEF CountInv
  <2> QED
    BY <1>1, <1>3, <1>7, <2>1, <2>2, <2>3, <2>4, <2>5, CountFrame DEF GraphSame, RunSame
<1>12. NodesInv'
  <2>1. \A k \in Nodes : /\ stage'[k] = "idle" <=> stage[k] = "idle"
                         /\ stage'[k] = "folding" <=> stage[k] = "folding"
    BY <1>2, <1>5, <1>6
  <2>2. back' = back /\ addr' = addr /\ built' = built /\ tails' \subseteq kept'
    BY <1>1, <1>3 DEF GraphSame, RunSame, NodesInv
  <2> QED
    BY <1>1, <1>3, <1>7, <2>1, <2>2, NodesFrame DEF GraphSame, RunSame
<1>13. RanInv'
  <2>1. CASE stage[i] = "running" /\ ran' = ran
    <3>1. \A k \in Nodes : stage'[k] \in NotStarted <=> stage[k] \in NotStarted
      BY <1>5, <1>6, <2>1 DEF NotStarted
    <3> QED
      BY <1>1, <1>3, <2>1, <3>1, RanFrame DEF GraphSame, RunSame
  <2>2. CASE stage[i] = "ready" /\ ran' = [ran EXCEPT ![i] = IF token THEN "skipped" ELSE "ran"]
    <3>1. /\ ran'[i] # "no" /\ (ran'[i] = "skipped" => token)
          /\ \A k \in Indices : k # i => ran'[k] = ran[k]
      BY <1>1, <2>2 DEF GraphType, PartType
    <3>2. \A k \in Nodes : ran'[k] = "no" <=> stage'[k] \in NotStarted
      BY <1>1, <1>4, <1>5, <1>6, <3>1 DEF RanInv, NotStarted
    <3>3. \A k \in Indices \ Nodes : ran'[k] = "no"
      BY <1>1, <1>4, <3>1 DEF RanInv
    <3>4. Cancelled' # {} => token
      BY <1>1, <1>4, <3>1 DEF RanInv, Cancelled
    <3>5. done' # 0
      BY <1>1, <1>3, <1>4 DEF NodesInv, RunSame, GraphType, RunType
    <3>6. Nodes' = Nodes /\ token' = token /\ result'[done'] = "pending"
      BY <1>3, <1>4 DEF GraphSame, RunSame, Nodes, InRun
    <3> QED
      BY <1>4, <1>7, <3>2, <3>3, <3>4, <3>5, <3>6 DEF RanInv
  <2> QED
    BY <1>2, <2>1, <2>2
<1>14. CallerInv'
  BY <1>1, <1>3, <1>4, <1>6, <1>7, PartFacts, CallerFrame DEF GraphSame, RunSame
<1> QED
  BY <1>6, <1>8, <1>9, <1>10, <1>11, <1>12, <1>13, <1>14 DEF GraphInv, GraphType, RunInv

\* A node's block completes: its lines go on, and its successors are still to be told.
LEMMA CompletedStep ==
    ASSUME GraphInv, NEW i \in Indices, graph_node_completed(i)
    PROVE  GraphInv'
<1>1. GraphType /\ BuildInv /\ PipesInv /\ CountInv /\ NodesInv /\ RanInv /\ CallerInv
  BY DEF GraphInv, RunInv
<1>2. /\ stage[i] = "settling" /\ advance_pipe_links(i)
      /\ stage' = [stage EXCEPT ![i] = "completing"]
      /\ todo' = [todo EXCEPT ![i] = Succ(i)] /\ ready_buf' = [ready_buf EXCEPT ![i] = {}]
      /\ left' = left /\ ran' = ran
  BY DEF graph_node_completed
<1>3. GraphSame /\ RunSame
  BY DEF graph_node_completed, GraphSame, RunSame, graphVars, runVars, bindVars, callVars
<1>4. i \in Nodes /\ InRun /\ built = "compiled" /\ i \in Parts /\ i # Caller /\ i \notin Outsiders
  BY <1>2, NodeInRun, PartFacts
<1>5. Nodes \subseteq Indices /\ Nodes \subseteq Parts
  BY <1>1, NodesFacts, PartFacts
<1>6. /\ StageType' /\ stage'[i] = "completing"
      /\ \A q \in Parts : q # i => stage'[q] = stage[q]
  <2>1. "completing" \in NodeStages
    BY DEF NodeStages
  <2> QED
    BY <1>1, <1>2, <1>4, <2>1, StageStep DEF GraphType
<1>7. InRun' <=> InRun
  BY <1>3 DEF InRun, RunSame
<1>8. BuildInv' /\ BuildType'
  <2>1. \A k \in Indices \ Nodes : stage'[k] = stage[k]
    BY <1>4, <1>6, PartFacts
  <2> QED
    BY <1>1, <1>3, <1>4, <1>7, <2>1, BuildFrame DEF GraphSame, RunSame
<1>9. PipesInv' /\ LineType'
  <2>1. Granted(i)
    BY <1>2 DEF Granted
  <2>2. nodes' = nodes /\ bound' = bound /\ launch' = launch
    BY <1>3 DEF GraphSame
  <2>3. "completing" \in {"idle", "gone", "completing"}
    OBVIOUS
  <2>4. PipesInv' /\ pipe' \in [Objects -> PipeType]
    BY <1>1, <1>2, <1>4, <2>1, <2>2, <2>3, LeaveStep
  <2> QED
    BY <1>1, <1>2, <2>4 DEF GraphType, LineType
<1>10. Succ(i) \subseteq Nodes
  BY DEF Succ
<1>11. RunType' /\ PartType'
  <2>1. todo' \in [Parts -> SUBSET Indices] /\ ready_buf' \in [Indices -> SUBSET Indices]
    BY <1>1, <1>2, <1>4, <1>5, <1>10 DEF GraphType, PartType
  <2> QED
    BY <1>1, <1>2, <1>3, <2>1 DEF GraphType, RunType, PartType, GraphSame, RunSame
<1>12. CountInv'
  <2>0. /\ todo \in [Parts -> SUBSET Indices] /\ ready_buf \in [Indices -> SUBSET Indices]
    BY <1>1 DEF GraphType, PartType
  <2>1. stage'[Caller] = stage[Caller] /\ todo'[Caller] = todo[Caller]
    BY <1>2, <1>4, <1>6, <2>0, PartFacts
  <2>2. /\ todo'[i] = Succ(i) /\ ready_buf'[i] = {}
        /\ \A k \in Nodes : k # i => todo'[k] = todo[k] /\ ready_buf'[k] = ready_buf[k]
    BY <1>2, <1>4, <1>5, <2>0
  <2>3. ASSUME NEW j \in Nodes, NEW k \in Nodes, <<j, k>> \in edges
        PROVE  Before(j, k)' <=> Before(j, k)
    <3>1. CASE j = i
      BY <1>2, <1>6, <2>2, <2>3, <3>1 DEF Before, BeforeEnd, Succ
    <3>2. CASE j # i
      BY <1>5, <1>6, <2>2, <3>2 DEF Before
    <3> QED
      BY <3>1, <3>2
  <2>4. \A k \in Nodes : /\ todo[k] \subseteq Succ(k) /\ \A j \in ready_buf[k] : j \in Nodes /\ stage[j] = "armed"
                         /\ stage[k] # "completing" => todo[k] = {} /\ ready_buf[k] = {}
    BY <1>1 DEF CountInv
  <2>5. /\ \A j \in todo[Caller] : j \in Nodes /\ stage[j] = "armed"
        /\ stage[Caller] # "kick" => todo[Caller] = {}
    BY <1>1 DEF CountInv
  <2>6. \A k \in Nodes : /\ todo'[k] \subseteq Succ(k) /\ ready_buf'[k] \subseteq ready_buf[k]
                         /\ stage'[k] # "completing" => todo'[k] = {} /\ ready_buf'[k] = {}
    BY <1>5, <1>6, <2>2, <2>4
  <2>7. \A k \in Nodes : stage'[k] = "armed" <=> stage[k] = "armed"
    BY <1>2, <1>5, <1>6
  <2>8. \A k \in Nodes : \A j \in ready_buf'[k] : stage'[j] = "armed"
    BY <2>4, <2>6, <2>7
  <2> QED
    BY <1>1, <1>3, <1>7, <2>1, <2>3, <2>5, <2>6, <2>7, <2>8, CountFrame DEF GraphSame, RunSame
<1>13. NodesInv'
  <2>1. \A k \in Nodes : /\ stage'[k] = "idle" <=> stage[k] = "idle"
                         /\ stage'[k] = "folding" <=> stage[k] = "folding"
    BY <1>2, <1>5, <1>6
  <2>2. back' = back /\ addr' = addr /\ built' = built /\ tails' \subseteq kept'
    BY <1>1, <1>3 DEF GraphSame, RunSame, NodesInv
  <2> QED
    BY <1>1, <1>3, <1>7, <2>1, <2>2, NodesFrame DEF GraphSame, RunSame
<1>14. RanInv'
  <2>1. \A k \in Nodes : stage'[k] \in NotStarted <=> stage[k] \in NotStarted
    BY <1>2, <1>5, <1>6 DEF NotStarted
  <2> QED
    BY <1>1, <1>2, <1>3, <2>1, RanFrame DEF GraphSame, RunSame
<1>15. CallerInv'
  BY <1>1, <1>3, <1>4, <1>6, <1>7, PartFacts, CallerFrame DEF GraphSame, RunSame
<1> QED
  BY <1>6, <1>8, <1>9, <1>11, <1>12, <1>13, <1>14, <1>15 DEF GraphInv, GraphType, RunInv

\* The sets of nodes are finite.
LEMMA NodesFinite ==
    ASSUME GraphType, NEW S \in SUBSET Nodes
    PROVE  IsFiniteSet(S) /\ Cardinality(S) \in Nat /\ (Cardinality(S) = 0 <=> S = {})
<1>1. IsFiniteSet(Indices) /\ S \subseteq Indices
  BY GraphAssumption, NodesFacts
<1>2. IsFiniteSet(S)
  BY <1>1, FS_Subset
<1> QED
  BY <1>2, FS_CardinalityType, FS_EmptySet

\* A successor is counted down; at zero it is this node's to start.
LEMMA CountDownStep ==
    ASSUME GraphInv, NEW i \in Indices, count_down(i)
    PROVE  GraphInv'
<1>0. PICK n : n = Least(todo[i])
  OBVIOUS
<1>1. GraphType /\ BuildInv /\ PipesInv /\ CountInv /\ NodesInv /\ RanInv /\ CallerInv
  BY DEF GraphInv, RunInv
<1>2. /\ stage[i] = "completing" /\ todo[i] # {}
      /\ deps' = [deps EXCEPT ![n] = @ - 1]
      /\ ready_buf' = [ready_buf EXCEPT ![i] = IF deps[n] = 1 THEN @ \cup {n} ELSE @]
      /\ todo' = [todo EXCEPT ![i] = @ \ {n}]
      /\ pipe' = pipe /\ stage' = stage /\ left' = left /\ ran' = ran
  BY <1>0 DEF count_down
<1>3. /\ GraphSame /\ back' = back /\ remaining' = remaining /\ done' = done
      /\ token' = token /\ result' = result /\ tails' = tails /\ kept' = kept
  BY DEF count_down, GraphSame, graphVars, bindVars, callVars
<1>4. i \in Nodes /\ InRun /\ built = "compiled" /\ i \in Parts /\ i # Caller
  BY <1>2, NodeInRun, PartFacts
<1>5. Nodes \subseteq Indices /\ Nodes \subseteq Parts /\ Indices \subseteq Nat
  BY <1>1, NodesFacts, PartFacts
<1>6. todo \in [Parts -> SUBSET Indices] /\ ready_buf \in [Indices -> SUBSET Indices] /\ deps \in [Indices -> Int]
  BY <1>1 DEF GraphType, PartType, RunType
<1>7. n \in todo[i]
  BY <1>0, <1>2, <1>4, <1>5, <1>6, LeastIn
<1>8. n \in Nodes /\ <<i, n>> \in edges
  BY <1>1, <1>4, <1>7 DEF CountInv, Succ
<1>9. /\ deps'[n] = deps[n] - 1 /\ todo'[i] = todo[i] \ {n}
      /\ ready_buf'[i] = IF deps[n] = 1 THEN ready_buf[i] \cup {n} ELSE ready_buf[i]
      /\ \A k \in Nodes : k # n => deps'[k] = deps[k]
      /\ \A k \in Parts : k # i => todo'[k] = todo[k]
      /\ \A k \in Nodes : k # i => ready_buf'[k] = ready_buf[k]
  BY <1>2, <1>4, <1>5, <1>6, <1>8
<1>10. todo' \in [Parts -> SUBSET Indices] /\ ready_buf' \in [Indices -> SUBSET Indices] /\ deps' \in [Indices -> Int]
  BY <1>2, <1>4, <1>5, <1>6, <1>8
<1>11. InRun' /\ Nodes' = Nodes /\ \A k : Succ(k)' = Succ(k)
  BY <1>3, <1>4 DEF InRun, Nodes, Succ, GraphSame
<1>12. GraphType' /\ BuildInv'
  <2>1. BuildInv' /\ BuildType'
    BY <1>1, <1>2, <1>3, <1>4, BuildFrame DEF GraphSame
  <2> QED
    BY <1>1, <1>2, <1>3, <1>10, <2>1 DEF GraphType, RunType, PartType, LineType, StageType, GraphSame
<1>13. PipesInv'
  BY <1>1, <1>2, <1>3, LinesKept DEF GraphSame, Granted
<1>14. Pending(n)' = Pending(n) \ {i} /\ \A j \in Nodes : j # n => Pending(j)' = Pending(j)
  <2>1. ASSUME NEW j \in Nodes, NEW k \in Nodes, j # n \/ k # i PROVE Before(k, j)' <=> Before(k, j)
    BY <1>2, <1>5, <1>9, <2>1 DEF Before
  <2>2. ~Before(i, n)'
    BY <1>2, <1>9 DEF Before, BeforeEnd
  <2>3. edges' = edges
    BY <1>3 DEF GraphSame
  <2>4. ASSUME NEW j \in Nodes, j # n PROVE Pending(j)' = Pending(j)
    BY <1>11, <2>1, <2>3, <2>4 DEF Pending
  <2>5. Pending(n)' = Pending(n) \ {i}
    BY <1>8, <1>11, <2>1, <2>2, <2>3 DEF Pending
  <2> QED
    BY <2>4, <2>5
<1>15. i \in Pending(n) /\ Pending(n) \subseteq Nodes
  BY <1>2, <1>4, <1>7, <1>8 DEF Pending, Before
<1>16. deps[n] = Cardinality(Pending(n)) /\ stage[n] = "armed"
  BY <1>1, <1>4, <1>8, <1>15 DEF CountInv
<1>17. /\ Cardinality(Pending(n)') = deps[n] - 1
       /\ deps[n] = 1 => Pending(n)' = {}
  <2>1. IsFiniteSet(Pending(n))
    BY <1>1, <1>15, NodesFinite
  <2>2. Cardinality(Pending(n) \ {i}) = Cardinality(Pending(n)) - 1
    BY <1>15, <2>1, FS_RemoveElement
  <2>3. Pending(n) \ {i} \in SUBSET Nodes
    BY <1>15
  <2>4. Cardinality(Pending(n) \ {i}) = 0 <=> Pending(n) \ {i} = {}
    BY <1>1, <2>3, NodesFinite
  <2> QED
    BY <1>6, <1>8, <1>14, <1>16, <2>2, <2>4
<1>18. CountInv'
  <2>1. \A k \in Nodes : /\ todo'[k] \subseteq Succ(k)'
                         /\ stage'[k] # "completing" => todo'[k] = {} /\ ready_buf'[k] = {}
    BY <1>1, <1>2, <1>5, <1>9, <1>11 DEF CountInv
  <2>2. todo'[Caller] = todo[Caller]
    BY <1>4, <1>9, PartFacts
  <2>3. todo'[Caller] \subseteq Nodes' /\ (stage'[Caller] # "kick" => todo'[Caller] = {})
    BY <1>1, <1>2, <1>11, <2>2 DEF CountInv
  <2>4. ASSUME NEW j \in Nodes PROVE deps'[j] = Cardinality(Pending(j)') /\ (stage'[j] # "armed" => Pending(j)' = {})
    <3>1. CASE j = n
      BY <1>2, <1>9, <1>16, <1>17, <3>1
    <3>2. CASE j # n
      BY <1>1, <1>2, <1>4, <1>9, <1>14, <3>2 DEF CountInv
    <3> QED
      BY <3>1, <3>2
  <2>5. n \notin todo[Caller] /\ \A k \in Nodes : n \notin ready_buf[k]
    BY <1>1, <1>15 DEF CountInv
  <2>6. ASSUME NEW j \in todo'[Caller] PROVE stage'[j] = "armed" /\ Pending(j)' = {}
    BY <1>1, <1>2, <1>14, <2>2, <2>5 DEF CountInv
  <2>7. ASSUME NEW k \in Nodes, NEW j \in ready_buf'[k]
        PROVE  /\ j \in Nodes /\ stage'[j] = "armed" /\ Pending(j)' = {} /\ j \notin todo'[Caller]
               /\ \A l \in Nodes : j \in ready_buf'[l] => l = k
    <3>1. CASE j = n
      <4>1. deps[n] = 1 /\ k = i
        BY <1>9, <2>5, <3>1
      <4> QED
        BY <1>2, <1>8, <1>9, <1>16, <1>17, <2>2, <2>5, <3>1, <4>1
    <3>2. CASE j # n
      <4>1. \A l \in Nodes : j \in ready_buf'[l] <=> j \in ready_buf[l]
        BY <1>9, <3>2
      <4>2. /\ j \in Nodes /\ stage[j] = "armed" /\ Pending(j) = {} /\ j \notin todo[Caller]
            /\ \A l \in Nodes : j \in ready_buf[l] => l = k
        BY <1>1, <4>1 DEF CountInv
      <4> QED
        BY <1>2, <1>14, <2>2, <3>2, <4>1, <4>2
    <3> QED
      BY <3>1, <3>2
  <2> QED
    BY <1>11, <2>1, <2>3, <2>4, <2>6, <2>7 DEF CountInv
<1>19. NodesInv'
  <2>1. InRun' <=> InRun
    BY <1>4, <1>11
  <2>2. back' = back /\ addr' = addr /\ built' = built /\ tails' \subseteq kept'
    BY <1>1, <1>3 DEF GraphSame, NodesInv
  <2> QED
    BY <1>1, <1>2, <1>3, <2>1, <2>2, NodesFrame DEF GraphSame
<1>20. RanInv'
  BY <1>1, <1>2, <1>3, RanFrame DEF GraphSame
<1>21. CallerInv'
  BY <1>1, <1>2, <1>3, <1>4, CallerFrame DEF GraphSame
<1> QED
  BY <1>12, <1>13, <1>18, <1>19, <1>20, <1>21 DEF GraphInv, RunInv

\* A node leaves the count, and the last one is alone with the run.
LEMMA NodeCompleteStep ==
    ASSUME GraphInv, NEW i \in Indices, node_complete(i)
    PROVE  GraphInv'
<1>1. GraphType /\ BuildInv /\ PipesInv /\ CountInv /\ NodesInv /\ RanInv /\ CallerInv
  BY DEF GraphInv, RunInv
<1>2. PICK s \in {"idle", "folding"} :
        /\ stage[i] = "completing" /\ todo[i] = {} /\ ready_buf[i] = {}
        /\ stage' = [stage EXCEPT ![i] = s] /\ (s = "folding" <=> remaining = 1)
        /\ remaining' = remaining - 1
        /\ pipe' = pipe /\ left' = left /\ todo' = todo /\ ready_buf' = ready_buf /\ ran' = ran
  BY DEF node_complete
<1>3. /\ GraphSame /\ back' = back /\ deps' = deps /\ done' = done
      /\ token' = token /\ result' = result /\ tails' = tails /\ kept' = kept
  BY DEF node_complete, GraphSame, graphVars, bindVars, callVars
<1>4. i \in Nodes /\ InRun /\ built = "compiled" /\ i \in Parts /\ i # Caller /\ i \notin Outsiders
  BY <1>2, NodeInRun, PartFacts
<1>5. Nodes \subseteq Indices /\ Nodes \subseteq Parts
  BY <1>1, NodesFacts, PartFacts
<1>6. StageType' /\ stage'[i] = s /\ \A q \in Parts : q # i => stage'[q] = stage[q]
  <2>1. s \in NodeStages
    BY DEF NodeStages
  <2> QED
    BY <1>1, <1>2, <1>4, <2>1, StageStep DEF GraphType
<1>7. InRun' /\ Nodes' = Nodes
  BY <1>3, <1>4 DEF InRun, GraphSame, Nodes
<1>8. BuildInv' /\ BuildType'
  <2>1. \A k \in Indices \ Nodes : stage'[k] = stage[k]
    BY <1>4, <1>6, PartFacts
  <2> QED
    BY <1>1, <1>3, <1>4, <2>1, BuildFrame DEF GraphSame
<1>9. PipesInv' /\ LineType'
  <2>1. \A q \in Parts : /\ Granted(q)' <=> Granted(q)
                         /\ stage'[q] = "line" <=> stage[q] = "line"
    BY <1>2, <1>6 DEF Granted
  <2>2. LineType'
    BY <1>1, <1>2 DEF GraphType, LineType
  <2> QED
    BY <1>1, <1>2, <1>3, <2>1, <2>2, LinesKept DEF GraphSame
<1>10. RunType' /\ PartType'
  BY <1>1, <1>2, <1>3 DEF GraphType, RunType, PartType, GraphSame
<1>11. CountInv'
  <2>1. stage'[Caller] = stage[Caller]
    BY <1>4, <1>6, PartFacts
  <2>2. \A j, k \in Nodes : Before(j, k)' <=> Before(j, k)
    BY <1>2, <1>5, <1>6 DEF Before, BeforeEnd
  <2>3. \A k \in Nodes : stage'[k] = "armed" <=> stage[k] = "armed"
    BY <1>2, <1>5, <1>6
  <2>4. \A k \in Nodes : /\ todo[k] \subseteq Succ(k) /\ \A j \in ready_buf[k] : j \in Nodes /\ stage[j] = "armed"
                         /\ stage[k] # "completing" => todo[k] = {} /\ ready_buf[k] = {}
    BY <1>1 DEF CountInv
  <2>5. /\ \A j \in todo[Caller] : j \in Nodes /\ stage[j] = "armed"
        /\ stage[Caller] # "kick" => todo[Caller] = {}
    BY <1>1 DEF CountInv
  <2>6. \A k \in Nodes : stage'[k] # "completing" => todo'[k] = {} /\ ready_buf'[k] = {}
    BY <1>2, <1>5, <1>6, <2>4
  <2> QED
    BY <1>1, <1>2, <1>3, <1>4, <2>1, <2>2, <2>3, <2>4, <2>5, <2>6, CountFrame DEF GraphSame
<1>12. Going' = Going \ {i} /\ i \in Going /\ Going \subseteq Nodes
  <2>1. i \in Going /\ Going \subseteq Nodes
    BY <1>2, <1>4 DEF Going
  <2>2. \A k \in Nodes : stage'[k] \notin {"idle", "folding"} <=> (stage[k] \notin {"idle", "folding"} /\ k # i)
    BY <1>5, <1>6
  <2> QED
    BY <1>7, <2>1, <2>2 DEF Going
<1>13. /\ remaining = Cardinality(Going) /\ remaining \in Nat
       /\ remaining' = Cardinality(Going')
       /\ remaining' = 0 <=> Going' = {}
  <2>1. remaining = Cardinality(Going) /\ IsFiniteSet(Going) /\ Cardinality(Going) \in Nat
    BY <1>1, <1>12, NodesFinite DEF NodesInv
  <2>2. Cardinality(Going \ {i}) = Cardinality(Going) - 1
    BY <1>12, <2>1, FS_RemoveElement
  <2>3. Going \ {i} \in SUBSET Nodes
    BY <1>12
  <2>4. Cardinality(Going \ {i}) = 0 <=> Going \ {i} = {}
    BY <1>1, <2>3, NodesFinite
  <2> QED
    BY <1>2, <1>12, <2>1, <2>2, <2>4
<1>14. NodesInv'
  <2>1. \A k \in Nodes : stage[k] # "folding"
    <3>1. remaining # 0
      BY <1>1, <1>12, <1>13, NodesFinite
    <3> QED
      BY <1>1, <3>1 DEF NodesInv
  <2>2. \A k, j \in Nodes : stage'[k] = "folding" => remaining' = 0 /\ (stage'[j] = "folding" => k = j)
    <3>1. \A k \in Nodes : stage'[k] = "folding" => k = i /\ s = "folding"
      BY <1>5, <1>6, <2>1
    <3>2. s = "folding" => remaining' = 0
      BY <1>2
    <3> QED
      BY <3>1, <3>2
  <2>3. \E k \in Nodes : stage'[k] # "idle"
    <3>1. CASE s = "folding"
      BY <1>4, <1>6, <3>1
    <3>2. CASE s = "idle"
      <4>1. remaining # 1
        BY <1>2, <3>2
      <4>2. remaining' # 0
        BY <1>2, <1>13, <4>1
      <4> QED
        BY <1>7, <1>13, <4>2 DEF Going
    <3> QED
      BY <3>1, <3>2
  <2>4. (InRun => built' = "compiled" /\ done' > 0) /\ tails' \subseteq kept'
    BY <1>1, <1>3, <1>4 DEF GraphSame, NodesInv
  <2>5. back' = addr' /\ built' = "compiled"
    BY <1>1, <1>2, <1>3, <1>12 DEF GraphSame, NodesInv, AtHome
  <2> QED
    BY <1>4, <1>7, <1>13, <2>2, <2>3, <2>4, <2>5 DEF NodesInv, AtHome
<1>15. RanInv'
  <2>1. \A k \in Nodes : stage'[k] \in NotStarted <=> stage[k] \in NotStarted
    BY <1>2, <1>5, <1>6 DEF NotStarted
  <2> QED
    BY <1>1, <1>2, <1>3, <2>1, RanFrame DEF GraphSame
<1>16. CallerInv'
  BY <1>1, <1>3, <1>4, <1>6, PartFacts, CallerFrame DEF GraphSame
<1> QED
  BY <1>6, <1>8, <1>9, <1>10, <1>11, <1>14, <1>15, <1>16 DEF GraphInv, GraphType, RunInv

\* The last node settles the run's handle: no other is left.
LEMMA SettleStep ==
    ASSUME GraphInv, NEW i \in Indices, settle_done(i)
    PROVE  GraphInv'
<1>1. GraphType /\ BuildInv /\ PipesInv /\ CountInv /\ NodesInv /\ RanInv /\ CallerInv
  BY DEF GraphInv, RunInv
<1>2. /\ stage[i] = "folding" /\ stage' = [stage EXCEPT ![i] = "idle"]
      /\ tails' = tails \cup {done} /\ kept' = kept \cup {done}
      /\ pipe' = pipe /\ left' = left /\ todo' = todo /\ ready_buf' = ready_buf /\ ran' = ran
  BY DEF settle_done
<1>3. /\ GraphSame /\ back' = back /\ deps' = deps /\ remaining' = remaining /\ done' = done
      /\ token' = token
  BY DEF settle_done, GraphSame, graphVars, bindVars, callVars
<1>4. i \in Nodes /\ InRun /\ built # "building" /\ i \in Parts /\ i # Caller /\ i \notin Outsiders /\ done > 0
  BY <1>2, NodeInRun, PartFacts
<1>5. Nodes \subseteq Indices /\ Nodes \subseteq Parts
  BY <1>1, NodesFacts, PartFacts
<1>6. StageType' /\ stage'[i] = "idle" /\ \A q \in Parts : q # i => stage'[q] = stage[q]
  <2>1. "idle" \in NodeStages
    BY DEF NodeStages
  <2> QED
    BY <1>1, <1>2, <1>4, <2>1, StageStep DEF GraphType
<1>7. /\ done \in 0..MaxRuns
      /\ result'[done'] = "completed" /\ built' # "destroyed" => ~token
      /\ ~InRun' /\ Nodes' = Nodes /\ RunType'
  <2>1. done \in 0..MaxRuns /\ result \in [0..MaxRuns -> {"pending", "completed", "cancelled"}]
    BY <1>1 DEF GraphType, RunType
  <2>2. PICK requested \in TokenRead :
            result' = [result EXCEPT ![done] = IF requested THEN "cancelled" ELSE "completed"]
    BY DEF settle_done
  <2>3. /\ result'[done'] = (IF requested THEN "cancelled" ELSE "completed")
        /\ result' \in [0..MaxRuns -> {"pending", "completed", "cancelled"}]
    BY <1>3, <2>1, <2>2
  <2>4. RunType'
    BY <1>1, <1>2, <1>3, <2>1, <2>3 DEF GraphType, RunType
  <2>5. built # "destroyed" => requested = token
    BY <2>2 DEF TokenRead
  <2> QED
    BY <1>3, <2>1, <2>3, <2>4, <2>5 DEF InRun, GraphSame, Nodes
<1>8. BuildInv' /\ BuildType'
  <2>1. \A k \in Indices \ Nodes : stage'[k] = stage[k]
    BY <1>4, <1>6, PartFacts
  <2> QED
    BY <1>1, <1>3, <1>4, <1>7, <2>1, BuildFrame DEF GraphSame
<1>9. PipesInv' /\ LineType'
  <2>1. \A q \in Parts : /\ Granted(q)' <=> Granted(q)
                         /\ stage'[q] = "line" <=> stage[q] = "line"
    BY <1>2, <1>6 DEF Granted
  <2>2. LineType'
    BY <1>1, <1>2 DEF GraphType, LineType
  <2> QED
    BY <1>1, <1>2, <1>3, <2>1, <2>2, LinesKept DEF GraphSame
<1>10. PartType'
  BY <1>1, <1>2, <1>3 DEF GraphType, PartType, GraphSame
<1>11. CountInv'
  <2>1. stage'[Caller] = stage[Caller]
    BY <1>4, <1>6, PartFacts
  <2>2. \A j, k \in Nodes : Before(j, k)' <=> Before(j, k)
    BY <1>2, <1>5, <1>6 DEF Before, BeforeEnd
  <2>3. \A k \in Nodes : /\ stage'[k] = "armed" <=> stage[k] = "armed"
                         /\ stage'[k] = "completing" <=> stage[k] = "completing"
    BY <1>2, <1>5, <1>6
  <2>4. \A k \in Nodes : /\ todo[k] \subseteq Succ(k) /\ \A j \in ready_buf[k] : j \in Nodes /\ stage[j] = "armed"
                         /\ stage[k] # "completing" => todo[k] = {} /\ ready_buf[k] = {}
    BY <1>1 DEF CountInv
  <2>5. /\ \A j \in todo[Caller] : j \in Nodes /\ stage[j] = "armed"
        /\ stage[Caller] # "kick" => todo[Caller] = {}
    BY <1>1 DEF CountInv
  <2> QED
    BY <1>1, <1>2, <1>3, <1>7, <2>1, <2>2, <2>3, <2>4, <2>5, CountFrame DEF GraphSame
<1>12. \A k \in Nodes : stage[k] = IF k = i THEN "folding" ELSE "idle"
  <2>1. remaining = 0 /\ \A k \in Nodes : stage[k] = "folding" => k = i
    BY <1>1, <1>2, <1>4 DEF NodesInv
  <2>2. Going \in SUBSET Nodes
    BY DEF Going
  <2>3. Going = {}
    BY <1>1, <2>1, <2>2, NodesFinite DEF NodesInv
  <2> QED
    BY <1>2, <2>1, <2>3 DEF Going
<1>13. \A k \in Nodes : stage'[k] = "idle"
  BY <1>5, <1>6, <1>12
<1>14. NodesInv'
  <2>1. Going' = Going
    BY <1>7, <1>12, <1>13 DEF Going
  <2>2. tails' \subseteq kept'
    BY <1>1, <1>2 DEF NodesInv
  <2> QED
    BY <1>1, <1>3, <1>7, <1>12, <1>13, <2>1, <2>2 DEF NodesInv, AtHome, GraphSame
<1>15. RanInv'
  <2>1. \A k \in Nodes : ran[k] # "no"
    BY <1>1, <1>4, <1>12 DEF RanInv, NotStarted
  <2>2. Cancelled' = Cancelled
    BY <1>2 DEF Cancelled
  <2>3. result'[done'] = "completed" /\ built' # "destroyed" => Cancelled' = {}
    BY <1>1, <1>4, <1>7, <2>2 DEF RanInv
  <2>4. \A k \in Indices \ Nodes : ran'[k] = "no"
    BY <1>1, <1>2 DEF RanInv
  <2>5. done' # 0
    BY <1>3, <1>4, <1>7
  <2> QED
    BY <1>2, <1>7, <2>1, <2>3, <2>4, <2>5 DEF RanInv
<1>16. CallerInv'
  BY <1>1, <1>3, <1>4, <1>6, <1>7, PartFacts, CallerFrame DEF GraphSame
<1> QED
  BY <1>6, <1>7, <1>8, <1>9, <1>10, <1>11, <1>14, <1>15, <1>16 DEF GraphInv, GraphType, RunInv

\* The settling thread drops its reference, or a cancel is requested.
LEMMA TailStep ==
    ASSUME GraphInv, request_cancel \/ \E h \in 1..MaxRuns : settled(h)
    PROVE  GraphInv'
<1>1. GraphType /\ BuildInv /\ PipesInv /\ CountInv /\ NodesInv /\ RanInv /\ CallerInv
  BY DEF GraphInv, RunInv
<1>2. /\ GraphSame /\ back' = back /\ deps' = deps /\ remaining' = remaining /\ done' = done
      /\ result' = result /\ pipe' = pipe /\ stage' = stage /\ left' = left /\ todo' = todo
      /\ ready_buf' = ready_buf /\ ran' = ran
  BY DEF request_cancel, settled, GraphSame, graphVars, bindVars, callVars, partVars
<1>3. token' \in BOOLEAN /\ (token => token') /\ tails' \subseteq kept'
  BY <1>1 DEF request_cancel, settled, GraphType, RunType, NodesInv
<1>4. InRun' <=> InRun
  BY <1>2 DEF InRun
<1>5. BuildInv' /\ BuildType'
  BY <1>1, <1>2, <1>4, BuildFrame DEF GraphSame
<1>6. GraphType'
  BY <1>1, <1>2, <1>3, <1>5 DEF GraphType, RunType, PartType, LineType, StageType, GraphSame
<1>7. PipesInv'
  BY <1>1, <1>2, LinesKept DEF GraphSame, Granted
<1>8. CountInv'
  <2>1. \A j, k \in Nodes : Before(j, k)' <=> Before(j, k)
    BY <1>2 DEF Before
  <2>2. \A k \in Nodes : /\ todo[k] \subseteq Succ(k) /\ \A j \in ready_buf[k] : stage[j] = "armed"
                         /\ stage[k] # "completing" => todo[k] = {} /\ ready_buf[k] = {}
    BY <1>1 DEF CountInv
  <2>3. /\ \A j \in todo[Caller] : stage[j] = "armed"
        /\ stage[Caller] # "kick" => todo[Caller] = {}
    BY <1>1 DEF CountInv
  <2> QED
    BY <1>1, <1>2, <1>4, <2>1, <2>2, <2>3, CountFrame DEF GraphSame
<1>9. NodesInv'
  BY <1>1, <1>2, <1>3, <1>4, NodesFrame DEF GraphSame
<1>10. RanInv'
  BY <1>1, <1>2, <1>3, RanFrame DEF GraphSame
<1>11. CallerInv'
  BY <1>1, <1>2, <1>4, CallerFrame DEF GraphSame
<1> QED
  BY <1>6, <1>5, <1>7, <1>8, <1>9, <1>10, <1>11 DEF GraphInv, RunInv

-----------------------------------------------------------------------------
(* The steps of the caller and of the unrelated accesses *)

\* One that is no node moves: the nodes and their counts stay.
LEMMA OutsideStep ==
    ASSUME GraphInv, RunSame, NEW p \in Parts \ Indices, NEW s,
           nodes' = nodes, explicit' = explicit, edges' = edges, built' = built, addr' = addr,
           bound' = bound, links_lent' = links_lent, InRun => launch' = launch,
           launch' \in [holds : AccessList, task : BOOLEAN, detach : BOOLEAN],
           built # "building", stage' = [stage EXCEPT ![p] = s],
           p = Caller => s \in CallStages /\ todo[Caller] = {},
           p \in Outsiders => s \in OutStages,
           todo' = todo, ready_buf' = ready_buf, ran' = ran,
           PipesInv', LineType', CallerInv'
    PROVE  GraphInv'
<1>1. GraphType /\ BuildInv /\ CountInv /\ NodesInv /\ RanInv
  BY DEF GraphInv, RunInv
<1>2. Nodes \subseteq Indices /\ Nodes \subseteq Parts /\ Indices \subseteq Parts /\ Caller \in Parts
  BY <1>1, NodesFacts, PartFacts
<1>3. StageType' /\ stage'[p] = s /\ \A q \in Parts : q # p => stage'[q] = stage[q]
  BY <1>1, StageStep DEF GraphType
<1>4. \A i \in Indices : stage'[i] = stage[i]
  BY <1>2, <1>3
<1>5. InRun' <=> InRun
  BY DEF InRun, RunSame
<1>6. BuildInv' /\ BuildType'
  BY <1>1, <1>4, <1>5, BuildFrame DEF RunSame
<1>7. RunType' /\ PartType'
  BY <1>1 DEF GraphType, RunType, PartType, RunSame
<1>8. CountInv'
  <2>1. \A j, k \in Nodes : Before(j, k)' <=> Before(j, k)
    BY <1>2, <1>4 DEF Before
  <2>2. \A k \in Nodes : /\ todo[k] \subseteq Succ(k) /\ \A j \in ready_buf[k] : j \in Nodes /\ stage[j] = "armed"
                         /\ stage[k] # "completing" => todo[k] = {} /\ ready_buf[k] = {}
    BY <1>1 DEF CountInv
  <2>3. /\ \A j \in todo[Caller] : j \in Nodes /\ stage[j] = "armed"
        /\ stage[Caller] # "kick" => todo[Caller] = {}
    BY <1>1 DEF CountInv
  <2>4. stage'[Caller] # "kick" => todo'[Caller] = {}
    <3>1. CASE p = Caller
      BY <3>1
    <3>2. CASE p # Caller
      BY <1>2, <1>3, <2>3, <3>2
    <3> QED
      BY <3>1, <3>2
  <2>5. \A k \in Nodes : stage'[k] = stage[k]
    BY <1>2, <1>4
  <2> QED
    BY <1>1, <1>5, <2>1, <2>2, <2>3, <2>4, <2>5, CountFrame DEF RunSame
<1>9. NodesInv'
  <2>1. back' = back /\ addr' = addr /\ built' = built /\ tails' \subseteq kept'
    BY <1>1 DEF RunSame, NodesInv
  <2> QED
    BY <1>1, <1>2, <1>4, <1>5, <2>1, NodesFrame DEF RunSame
<1>10. RanInv'
  BY <1>1, <1>2, <1>4, RanFrame DEF RunSame
<1> QED
  BY <1>3, <1>6, <1>7, <1>8, <1>9, <1>10 DEF GraphInv, GraphType, RunInv

\* An unrelated access is submitted.
LEMMA AsyncStep ==
    ASSUME GraphInv, NEW x \in Outsiders, async(x)
    PROVE  GraphInv'
<1>1. GraphType /\ BuildInv /\ PipesInv /\ CallerInv
  BY DEF GraphInv, RunInv
<1>2. /\ stage[x] = "idle" /\ built = "compiled" /\ pipe_enter_first(x, Uses(OutAccess[x]))
      /\ todo' = todo /\ ready_buf' = ready_buf /\ ran' = ran
  BY DEF async
<1>3. GraphSame /\ RunSame
  BY DEF async, GraphSame, RunSame, graphVars, runVars, bindVars, callVars
<1>4. x \in Parts \ Indices /\ x # Caller
  BY PartFacts
<1>5. Lines(x) = Uses(OutAccess[x])
  BY <1>4 DEF Lines
<1>6. nodes' = nodes /\ bound' = bound /\ launch' = launch
  BY <1>3 DEF GraphSame
<1>7. stage[x] # "line" /\ ~Granted(x)
  BY <1>2 DEF Granted
<1>8. PipesInv' /\ LineType' /\ \E s \in {"line", "ready"} : stage' = [stage EXCEPT ![x] = s]
  BY <1>1, <1>2, <1>4, <1>5, <1>6, <1>7, EnterNew DEF LineType
<1>9. PICK s \in {"line", "ready"} : stage' = [stage EXCEPT ![x] = s]
  BY <1>8
<1>10. s \in OutStages
  BY DEF OutStages
<1>11. CallerInv'
  <2>1. stage'[Caller] = stage[Caller]
    BY <1>1, <1>4, <1>9, PartFacts DEF GraphType, StageType
  <2>2. InRun' => InRun
    BY <1>3 DEF InRun, RunSame
  <2> QED
    BY <1>1, <1>3, <2>1, <2>2, CallerFrame DEF GraphSame, RunSame
<1>12. launch' \in [holds : AccessList, task : BOOLEAN, detach : BOOLEAN]
  BY <1>1, <1>6 DEF GraphType, PartType
<1> QED
  BY <1>2, <1>3, <1>4, <1>8, <1>9, <1>10, <1>11, <1>12, OutsideStep DEF GraphSame

\* An unrelated access releases what it has.
LEMMA AsyncEndStep ==
    ASSUME GraphInv, NEW x \in Outsiders, async_end(x)
    PROVE  GraphInv'
<1>1. GraphType /\ BuildInv /\ PipesInv /\ CallerInv
  BY DEF GraphInv, RunInv
<1>2. /\ stage[x] = "ready" /\ advance_pipe_links(x) /\ stage' = [stage EXCEPT ![x] = "gone"]
      /\ left' = left /\ todo' = todo /\ ready_buf' = ready_buf /\ ran' = ran
  BY DEF async_end
<1>3. GraphSame /\ RunSame
  BY DEF async_end, GraphSame, RunSame, graphVars, runVars, bindVars, callVars
<1>4. x \in Parts \ Indices /\ x # Caller /\ Granted(x)
  BY <1>2, PartFacts DEF Granted
<1>5. nodes' = nodes /\ bound' = bound /\ launch' = launch
  BY <1>3 DEF GraphSame
<1>6. PipesInv' /\ pipe' \in [Objects -> PipeType]
  BY <1>1, <1>2, <1>4, <1>5, LeaveStep
<1>7. LineType'
  BY <1>1, <1>2, <1>6 DEF GraphType, LineType
<1>8. CallerInv'
  <2>1. stage'[Caller] = stage[Caller]
    BY <1>1, <1>2, <1>4, PartFacts DEF GraphType, StageType
  <2>2. InRun' => InRun
    BY <1>3 DEF InRun, RunSame
  <2> QED
    BY <1>1, <1>3, <2>1, <2>2, CallerFrame DEF GraphSame, RunSame
<1>9. launch' \in [holds : AccessList, task : BOOLEAN, detach : BOOLEAN] /\ built # "building"
  BY <1>1, <1>2, <1>4, <1>5, Moves DEF GraphType, PartType
<1>10. "gone" \in OutStages
  BY DEF OutStages
<1> QED
  BY <1>2, <1>3, <1>4, <1>6, <1>7, <1>8, <1>9, <1>10, OutsideStep DEF GraphSame

\* The calling task ends; the run it leaves behind is one it detached.
LEMMA EndCallStep ==
    ASSUME GraphInv, end_call
    PROVE  GraphInv'
<1>1. GraphType /\ BuildInv /\ PipesInv /\ CallerInv
  BY DEF GraphInv, RunInv
<1>2. /\ stage[Caller] = "kick" /\ todo[Caller] = {} /\ (Detached \/ ~InRun)
      /\ advance_pipe_links(Caller) /\ stage' = [stage EXCEPT ![Caller] = "idle"]
      /\ left' = left /\ todo' = todo /\ ready_buf' = ready_buf /\ ran' = ran
  BY DEF end_call, InRun
<1>3. GraphSame /\ RunSame
  BY DEF end_call, GraphSame, RunSame, graphVars, runVars, bindVars
<1>4. Caller \in Parts \ Indices /\ Caller \notin Outsiders /\ Granted(Caller)
  BY <1>2, PartFacts DEF Granted
<1>5. nodes' = nodes /\ bound' = bound /\ launch' = launch
  BY <1>3 DEF GraphSame
<1>6. PipesInv' /\ pipe' \in [Objects -> PipeType]
  BY <1>1, <1>2, <1>4, <1>5, LeaveStep
<1>7. LineType'
  BY <1>1, <1>2, <1>6 DEF GraphType, LineType
<1>8. CallerInv'
  <2>1. stage'[Caller] = "idle"
    BY <1>1, <1>2, <1>4 DEF GraphType, StageType
  <2>2. (InRun' <=> InRun) /\ (Detached' <=> Detached)
    BY <1>3 DEF InRun, RunSame, Detached, GraphSame
  <2> QED
    BY <1>2, <2>1, <2>2 DEF CallerInv
<1>9. launch' \in [holds : AccessList, task : BOOLEAN, detach : BOOLEAN] /\ built # "building"
  BY <1>1, <1>2, <1>4, <1>5, Moves DEF GraphType, PartType
<1>10. "idle" \in CallStages
  BY DEF CallStages
<1> QED
  BY <1>2, <1>3, <1>4, <1>6, <1>7, <1>8, <1>9, <1>10, OutsideStep DEF GraphSame

\* A task with grants, or a thread with none, is about to run the graph.
LEMMA CallStepKept ==
    ASSUME GraphInv, call
    PROVE  GraphInv'
<1>1. GraphType /\ BuildInv /\ PipesInv /\ CountInv /\ CallerInv
  BY DEF GraphInv, RunInv
<1>2. /\ built = "compiled" /\ stage[Caller] = "idle" /\ done < MaxRuns /\ ~InRun
      /\ launch' \in Launches /\ stage' = [stage EXCEPT ![Caller] = "line"]
      /\ left' = [left EXCEPT ![Caller] = Uses(launch'.holds)]
      /\ pipe' = pipe /\ todo' = todo /\ ready_buf' = ready_buf /\ ran' = ran
  BY DEF call, InRun
<1>3. /\ nodes' = nodes /\ explicit' = explicit /\ edges' = edges /\ built' = built /\ addr' = addr
      /\ bound' = bound /\ links_lent' = links_lent /\ RunSame
  BY DEF call, RunSame, graphVars, runVars, bindVars
<1>4. Caller \in Parts \ Indices /\ Caller \notin Outsiders
  BY PartFacts
<1>5. launch' \in [holds : AccessList, task : BOOLEAN, detach : BOOLEAN]
  BY <1>2, GraphAssumption
<1>6. stage'[Caller] = "line" /\ \A p \in Parts : p # Caller => stage'[p] = stage[p]
  BY <1>1, <1>2, <1>4 DEF GraphType, StageType
<1>7. left'[Caller] = Uses(launch'.holds) /\ (\A p \in Parts : p # Caller => left'[p] = left[p]) /\ LineType'
  BY <1>1, <1>2, <1>4 DEF GraphType, LineType, Uses
<1>8. PipesInv'
  <2>1. ASSUME NEW p \in Parts, p # Caller
        PROVE  /\ Lines(p)' = Lines(p) /\ left'[p] = left[p]
               /\ \A o \in Objects : ModeOf(p, o)' = ModeOf(p, o)
               /\ Granted(p)' <=> Granted(p)
               /\ stage'[p] = "line" <=> stage[p] = "line"
    <3>1. Lines(p)' = Lines(p)
      BY <1>3, <2>1 DEF Lines
    <3>2. \A o \in Objects : ModeOf(p, o)' = ModeOf(p, o)
      BY <1>3, <2>1 DEF ModeOf, Nodes
    <3> QED
      BY <1>6, <1>7, <2>1, <3>1, <3>2 DEF Granted
  <2>2. /\ stage[Caller] # "line" /\ ~Granted(Caller) /\ ~Granted(Caller)'
        /\ left'[Caller] = IF stage'[Caller] = "line" THEN Lines(Caller)' ELSE {}
    BY <1>2, <1>4, <1>6, <1>7 DEF Granted, Lines, Uses
  <2> QED
    BY <1>1, <1>2, <2>1, <2>2, LinesFrame
<1>9. CallerInv'
  <2>1. ~InRun'
    BY <1>2, <1>3 DEF InRun, RunSame
  <2> QED
    BY <1>2, <1>3, <1>6, <2>1 DEF CallerInv, RunSame
<1>10. "line" \in CallStages /\ todo[Caller] = {}
  BY <1>1, <1>2 DEF CallStages, CountInv
<1> QED
  BY <1>2, <1>3, <1>4, <1>5, <1>7, <1>8, <1>9, <1>10, OutsideStep

\* Between runs every node is idle and nothing is left to do.
LEMMA BetweenRuns ==
    ASSUME GraphInv, ~InRun
    PROVE  /\ \A i \in Indices : stage[i] = "idle"
           /\ \A i \in Nodes : todo[i] = {} /\ ready_buf[i] = {}
           /\ remaining = 0
<1>1. \A i \in Indices : stage[i] = "idle"
  BY DEF GraphInv, RunInv, NodesInv, BuildInv
<1>2. \A i \in Nodes : todo[i] = {} /\ ready_buf[i] = {}
  BY <1>1, NodesFacts DEF GraphInv, CountInv
<1>3. Going = {}
  BY <1>1, NodesFacts DEF GraphInv, Going
<1> QED
  BY <1>1, <1>2, <1>3, FS_EmptySet DEF GraphInv, RunInv, NodesInv

\* The links of a run are the lines its nodes have to take themselves.
LEMMA BindStep ==
    ASSUME GraphInv, built = "compiled", bind_links_for_run
    PROVE  /\ bound' \in [Indices -> SUBSET Objects] /\ links_lent' \in BOOLEAN
           /\ \A i \in Nodes : bound'[i] = Uses(nodes[i]) \ Lent
           /\ ~links_lent' => Lent = {}
<1>1. GraphType /\ BuildInv
  BY DEF GraphInv
<1>2. CASE Lent = {} /\ ~links_lent
  <2>1. bound' = bound /\ links_lent' = links_lent
    BY <1>2 DEF bind_links_for_run, bindVars
  <2>2. \A i \in Nodes : bound[i] = Uses(nodes[i])
    BY <1>1, <1>2 DEF BuildInv
  <2> QED
    BY <1>1, <1>2, <2>1, <2>2 DEF GraphType, BuildType
<1>3. CASE ~(Lent = {} /\ ~links_lent)
  <2>1. /\ bound' = [i \in Indices |-> IF i \in Nodes THEN Uses(nodes[i]) \ Lent ELSE {}]
        /\ links_lent' = (Lent # {})
    BY <1>3 DEF bind_links_for_run
  <2>2. Nodes \subseteq Indices
    BY <1>1, NodesFacts
  <2>3. \A i \in Nodes : bound'[i] = Uses(nodes[i]) \ Lent
    BY <2>1, <2>2
  <2>4. bound' \in [Indices -> SUBSET Objects]
    BY <2>1 DEF Uses
  <2> QED
    BY <2>1, <2>3, <2>4
<1> QED
  BY <1>2, <1>3

\* A run begins: everything is re-armed.
LEMMA ExecuteStep ==
    ASSUME GraphInv, execute
    PROVE  GraphInv'
<1>1. GraphType /\ BuildInv /\ PipesInv /\ CountInv /\ NodesInv /\ RanInv /\ CallerInv
  BY DEF GraphInv, RunInv
<1>2. /\ stage[Caller] = "ready" /\ ~InRun /\ bind_links_for_run
      /\ back' = addr /\ deps' = [i \in Indices |-> IF i \in Nodes THEN Indegree(i) ELSE 0]
      /\ remaining' = Len(nodes) /\ done' = done + 1 /\ token' = FALSE
      /\ result' = [result EXCEPT ![done'] = IF nodes = <<>> THEN "completed" ELSE "pending"]
      /\ ran' = [i \in Indices |-> "no"]
      /\ stage' = [p \in Parts |-> IF p = Caller THEN "kick"
                                   ELSE IF p \in Nodes THEN "armed" ELSE stage[p]]
      /\ todo' = [todo EXCEPT ![Caller] = {i \in Nodes : Indegree(i) = 0}]
      /\ tails' = tails /\ kept' = kept /\ pipe' = pipe /\ left' = left /\ ready_buf' = ready_buf
  BY DEF execute, InRun
<1>3. /\ nodes' = nodes /\ explicit' = explicit /\ edges' = edges /\ built' = built /\ addr' = addr
      /\ launch' = launch
  BY DEF execute, graphVars
<1>4. built = "compiled" /\ done < MaxRuns
  BY <1>1, <1>2 DEF CallerInv
<1>5. /\ Nodes \subseteq Indices /\ Indices \subseteq Parts /\ Caller \in Parts /\ Caller \notin Indices
      /\ Caller \notin Outsiders /\ Outsiders \subseteq Parts /\ Outsiders \cap Indices = {}
      /\ Nodes = 1..Len(nodes) /\ Len(nodes) \in Nat
  BY <1>1, NodesFacts, PartFacts
<1>6. /\ \A i \in Indices : stage[i] = "idle"
      /\ \A i \in Nodes : todo[i] = {} /\ ready_buf[i] = {}
  BY <1>2, BetweenRuns
<1>7. /\ stage'[Caller] = "kick" /\ \A i \in Nodes : stage'[i] = "armed"
      /\ \A p \in Parts : p # Caller /\ p \notin Nodes => stage'[p] = stage[p]
  BY <1>2, <1>5
<1>8. /\ bound' \in [Indices -> SUBSET Objects] /\ links_lent' \in BOOLEAN
      /\ \A i \in Nodes : bound'[i] = Uses(nodes[i]) \ Lent
      /\ ~links_lent' => Lent = {}
  BY <1>2, <1>4, BindStep
<1>9. /\ Nodes' = Nodes /\ Compiled' = Compiled /\ Visited' = Visited /\ Lent' = Lent
      /\ \A i : Succ(i)' = Succ(i)
  BY <1>3 DEF Nodes, Compiled, Visited, Lent, Strongest, Succ
<1>10. \A i \in Nodes : Indegree(i) \in Nat /\ (Indegree(i) = 0 <=> {k \in Nodes : <<k, i>> \in edges} = {})
  BY <1>1, NodesFinite DEF Indegree
<1>11. RunType' /\ result'[done'] = (IF nodes = <<>> THEN "completed" ELSE "pending") /\ done' > 0
  <2>1. done \in Nat /\ MaxRuns \in Nat /\ done' \in 0..MaxRuns /\ done' > 0
    BY <1>1, <1>2, <1>4, GraphAssumption DEF GraphType, RunType
  <2>2. result' \in [0..MaxRuns -> {"pending", "completed", "cancelled"}]
        /\ result'[done'] = (IF nodes = <<>> THEN "completed" ELSE "pending")
    BY <1>1, <1>2, <2>1 DEF GraphType, RunType
  <2>3. deps' \in [Indices -> Int]
    BY <1>2, <1>10
  <2>4. remaining' \in Int /\ token' \in BOOLEAN
    <3>1. remaining' = Len(nodes) /\ token' = FALSE
      BY <1>2
    <3>2. remaining' \in Int
      BY <1>5, <3>1
    <3>3. token' \in BOOLEAN
      BY <3>1
    <3> QED
      BY <3>2, <3>3
  <2> QED
    BY <2>1, <2>2, <2>3, <2>4 DEF RunType
<1>12. InRun' <=> Nodes # {}
  <2>1. nodes = <<>> <=> Len(nodes) = 0
    BY <1>1, EmptySeq DEF GraphType, BuildType
  <2> QED
    BY <1>5, <1>11, <2>1 DEF InRun
<1>13. StageType'
  <2>1. "kick" \in CallStages /\ "armed" \in NodeStages
    BY DEF CallStages, NodeStages, BeforeEnd
  <2>2. \A i \in Indices : stage'[i] \in NodeStages
    BY <1>1, <1>5, <1>7, <2>1 DEF GraphType, StageType
  <2>3. \A x \in Outsiders : stage'[x] \in OutStages
    BY <1>1, <1>5, <1>7 DEF GraphType, StageType
  <2>4. \A p \in Parts : stage'[p] \in NodeStages \cup CallStages \cup OutStages
    BY <1>7, <2>1, <2>2, <2>3 DEF Parts
  <2>5. stage' = [p \in Parts |-> stage'[p]]
    BY <1>2
  <2> QED
    BY <1>7, <2>1, <2>2, <2>3, <2>4, <2>5 DEF StageType
<1>14. todo'[Caller] = {i \in Nodes : Indegree(i) = 0} /\ PartType' /\ \A i \in Nodes : todo'[i] = todo[i]
  <2>1. todo \in [Parts -> SUBSET Indices]
    BY <1>1 DEF GraphType, PartType
  <2>2. /\ todo' \in [Parts -> SUBSET Indices] /\ todo'[Caller] = {i \in Nodes : Indegree(i) = 0}
        /\ \A i \in Nodes : todo'[i] = todo[i]
    BY <1>2, <1>5, <2>1
  <2> QED
    BY <1>1, <1>2, <1>3, <2>2 DEF GraphType, PartType
<1>15. GraphType'
  <2>1. BuildType'
    BY <1>1, <1>3, <1>8, <1>9 DEF GraphType, BuildType
  <2>2. LineType'
    BY <1>1, <1>2 DEF GraphType, LineType
  <2> QED
    BY <1>11, <1>13, <1>14, <2>1, <2>2 DEF GraphType
<1>16. BuildInv'
  <2>1. \A i \in Indices \ Nodes : stage'[i] = "idle"
    BY <1>5, <1>6, <1>7
  <2>2. \A i \in Nodes : bound'[i] \subseteq Uses(nodes[i]) /\ (~links_lent' => bound'[i] = Uses(nodes[i]))
    BY <1>8
  <2>3. \A i : Uses(nodes[i])' = Uses(nodes[i])
    BY <1>3 DEF Uses
  <2> QED
    BY <1>1, <1>3, <1>4, <1>8, <1>9, <2>1, <2>2, <2>3 DEF BuildInv
<1>17. PipesInv'
  <2>1. ASSUME NEW p \in Parts \ Indices
        PROVE  /\ Lines(p)' = Lines(p) /\ left'[p] = left[p]
               /\ \A o \in Objects : ModeOf(p, o)' = ModeOf(p, o)
               /\ Granted(p)' <=> Granted(p)
               /\ stage'[p] = "line" <=> stage[p] = "line"
    <3>1. Lines(p)' = Lines(p) /\ \A o \in Objects : ModeOf(p, o)' = ModeOf(p, o)
      BY <1>3 DEF Lines, ModeOf, Nodes, Uses
    <3> QED
      BY <1>2, <1>5, <1>7, <3>1 DEF Granted
  <2>2. ASSUME NEW p \in Indices
        PROVE  /\ stage[p] # "line" /\ ~Granted(p) /\ ~Granted(p)'
               /\ left'[p] = IF stage'[p] = "line" THEN Lines(p)' ELSE {}
    <3>1. stage[p] = "idle" /\ stage'[p] \in {"idle", "armed"}
      BY <1>5, <1>6, <1>7
    <3>2. left[p] = {}
      BY <1>1, <1>5, <3>1 DEF PipesInv, PartOK
    <3> QED
      BY <1>2, <3>1, <3>2 DEF Granted
  <2> QED
    BY <1>1, <1>2, <2>1, <2>2, LinesFrame
<1>18. \A j \in Nodes : Pending(j)' = {i \in Nodes : <<i, j>> \in edges}
  <2>1. \A i, j \in Nodes : Before(i, j)'
    BY <1>7 DEF Before, BeforeEnd
  <2> QED
    BY <1>3, <1>9, <2>1 DEF Pending
<1>19. CountInv'
  <2>1. \A j \in Nodes : deps'[j] = Cardinality(Pending(j)')
    <3>1. \A j \in Nodes : deps'[j] = Indegree(j)
      BY <1>2, <1>5
    <3> QED
      BY <1>18, <3>1 DEF Indegree
  <2>2. \A j \in todo'[Caller] : j \in Nodes /\ stage'[j] = "armed" /\ Pending(j)' = {}
    BY <1>7, <1>10, <1>14, <1>18
  <2>3. \A i \in Nodes : todo'[i] = {} /\ ready_buf'[i] = {}
    BY <1>2, <1>6, <1>14
  <2> QED
    BY <1>7, <1>9, <2>1, <2>2, <2>3 DEF CountInv
<1>20. NodesInv'
  <2>1. Going' = 1..Len(nodes)
    BY <1>5, <1>7, <1>9 DEF Going
  <2>2. Cardinality(1..Len(nodes)) = Len(nodes)
    <3>1. Cardinality(1..Len(nodes)) = IF 1 > Len(nodes) THEN 0 ELSE Len(nodes) - 1 + 1
      BY <1>5, FS_Interval
    <3> QED
      BY <1>5, <3>1
  <2>3. remaining' = Cardinality(Going')
    BY <1>2, <2>1, <2>2
  <2>4. InRun' <=> \E i \in Nodes : stage'[i] # "idle"
    BY <1>7, <1>12
  <2>5. tails' \subseteq kept'
    BY <1>1, <1>2 DEF NodesInv
  <2> QED
    BY <1>2, <1>3, <1>4, <1>7, <1>9, <1>11, <2>3, <2>4, <2>5 DEF NodesInv, AtHome
<1>21. RanInv'
  <2>1. \A i \in Indices : ran'[i] = "no"
    BY <1>2
  <2>2. Cancelled' = {}
    BY <2>1 DEF Cancelled
  <2>3. InRun' => \A i \in Nodes : ran'[i] = "no" <=> stage'[i] \in NotStarted
    BY <1>5, <1>7, <2>1 DEF NotStarted
  <2> QED
    BY <1>9, <1>11, <1>12, <2>1, <2>2, <2>3 DEF RanInv
<1>22. CallerInv'
  BY <1>3, <1>4, <1>7 DEF CallerInv
<1> QED
  BY <1>15, <1>16, <1>17, <1>19, <1>20, <1>21, <1>22 DEF GraphInv, RunInv

\* The graph is moved or destroyed, with no node of a run in the count.
LEMMA MoveStep ==
    ASSUME GraphInv, move \/ destroy
    PROVE  GraphInv'
<1>1. GraphType /\ BuildInv /\ PipesInv /\ CountInv /\ NodesInv /\ RanInv /\ CallerInv
  BY DEF GraphInv, RunInv
<1>2. /\ built = "compiled" /\ stage[Caller] = "idle" /\ remaining = 0
      /\ built' \in {"compiled", "destroyed"}
  BY DEF move, destroy
<1>3. /\ nodes' = nodes /\ explicit' = explicit /\ edges' = edges
      /\ bound' = bound /\ links_lent' = links_lent /\ launch' = launch
      /\ pipe' = pipe /\ stage' = stage /\ left' = left /\ todo' = todo
      /\ ready_buf' = ready_buf /\ ran' = ran
  BY DEF move, destroy, bindVars, callVars, partVars
<1>4. RunSame
  BY DEF move, destroy, RunSame, runVars
<1>5. (InRun' <=> InRun) /\ Nodes' = Nodes /\ Compiled' = Compiled /\ Visited' = Visited
  BY <1>2, <1>3, <1>4 DEF InRun, RunSame, Nodes, Compiled, Visited
<1>6. GraphType'
  BY <1>1, <1>2, <1>3, <1>4, <1>5
     DEF GraphType, BuildType, RunType, PartType, LineType, StageType, RunSame
<1>7. BuildInv'
  <2>1. \A i : Uses(nodes[i])' = Uses(nodes[i])
    BY <1>3 DEF Uses
  <2>2. Lent' = Lent
    BY <1>3, <1>5 DEF Lent, Strongest
  <2> QED
    BY <1>1, <1>2, <1>3, <1>5, <2>1, <2>2 DEF BuildInv
<1>8. PipesInv'
  BY <1>1, <1>3, LinesKept DEF Granted
<1>9. CountInv'
  <2>1. \A j, k \in Nodes : Before(j, k)' <=> Before(j, k)
    BY <1>3 DEF Before
  <2>2. \A k \in Nodes : /\ todo[k] \subseteq Succ(k) /\ \A j \in ready_buf[k] : stage[j] = "armed"
                         /\ stage[k] # "completing" => todo[k] = {} /\ ready_buf[k] = {}
    BY <1>1 DEF CountInv
  <2>3. /\ \A j \in todo[Caller] : stage[j] = "armed"
        /\ stage[Caller] # "kick" => todo[Caller] = {}
    BY <1>1 DEF CountInv
  <2> QED
    BY <1>1, <1>3, <1>4, <1>5, <2>1, <2>2, <2>3, CountFrame DEF RunSame
<1>10. NodesInv'
  <2>1. tails' \subseteq kept'
    BY <1>1, <1>4 DEF NodesInv, RunSame
  <2>2. Going = {}
    <3>1. Going \in SUBSET Nodes
      BY DEF Going
    <3> QED
      BY <1>1, <1>2, <3>1, NodesFinite DEF NodesInv
  <2>3. Going' = Going
    BY <1>3, <1>5 DEF Going
  <2> QED
    BY <1>1, <1>2, <1>3, <1>4, <1>5, <2>1, <2>2, <2>3 DEF NodesInv, AtHome, RunSame
<1>11. RanInv'
  BY <1>1, <1>2, <1>3, <1>4, <1>5 DEF RanInv, RunSame, Cancelled
<1>12. CallerInv'
  BY <1>1, <1>2, <1>3, <1>5 DEF CallerInv, Detached
<1> QED
  BY <1>6, <1>7, <1>8, <1>9, <1>10, <1>11, <1>12 DEF GraphInv, RunInv

-----------------------------------------------------------------------------
(* Building *)

\* While the graph is built nothing else is there.
LEMMA Building ==
    ASSUME GraphInv, built = "building"
    PROVE  /\ ~InRun /\ done = 0 /\ remaining = 0
           /\ \A p \in Parts : /\ stage[p] = "idle" /\ todo[p] = {} /\ left[p] = {}
                               /\ stage[p] # "line" /\ ~Granted(p)
           /\ \A i \in Indices : ready_buf[i] = {} /\ ran[i] = "no"
<1>1. ~InRun
  BY DEF GraphInv, RunInv, NodesInv
<1>2. remaining = 0
  BY <1>1, BetweenRuns
<1>3. /\ done = 0 /\ \A p \in Parts : stage[p] = "idle" /\ todo[p] = {}
      /\ \A i \in Indices : ready_buf[i] = {}
  BY DEF GraphInv, BuildInv
<1>4. \A p \in Parts : stage[p] # "line" /\ ~Granted(p) /\ left[p] = {}
  BY <1>3 DEF GraphInv, PipesInv, PartOK, Granted
<1>5. \A i \in Indices : ran[i] = "no"
  BY <1>3 DEF GraphInv, RunInv, RanInv
<1> QED
  BY <1>1, <1>2, <1>3, <1>4, <1>5

\* A node or an edge is added, or the graph is compiled: nothing runs beside it.
LEMMA BuildStep ==
    ASSUME GraphInv, built = "building", RunSame, BuildType', BuildInv',
           pipe' = pipe, stage' = stage, left' = left, todo' = todo,
           ready_buf' = ready_buf, ran' = ran, launch' = launch
    PROVE  GraphInv'
<1>1. GraphType /\ PipesInv /\ NodesInv /\ RanInv
  BY DEF GraphInv, RunInv
<1>2. /\ ~InRun /\ done = 0 /\ remaining = 0
      /\ \A p \in Parts : /\ stage[p] = "idle" /\ todo[p] = {} /\ left[p] = {}
                          /\ stage[p] # "line" /\ ~Granted(p)
      /\ \A i \in Indices : ready_buf[i] = {} /\ ran[i] = "no"
  BY Building
<1>3. ~InRun'
  BY <1>2 DEF InRun, RunSame
<1>4. GraphType'
  BY <1>1 DEF GraphType, RunType, PartType, LineType, StageType, RunSame
<1>5. Nodes' \subseteq Indices /\ Nodes' \subseteq Parts /\ Caller \in Parts
  <2>1. Nodes' = 1..Len(nodes') /\ Len(nodes') \in Nat /\ Len(nodes') <= Cardinality(Indices)
    BY DEF BuildType, Nodes
  <2>2. Cardinality(Indices) \in Nat /\ Indices = 1..Cardinality(Indices)
    BY GraphAssumption, FS_CardinalityType
  <2>3. Nodes' \subseteq Indices
    BY <2>1, <2>2
  <2> QED
    BY <2>3, PartFacts
<1>6. PipesInv'
  <2>1. ASSUME NEW p \in Parts
        PROVE  /\ stage[p] # "line" /\ ~Granted(p) /\ ~Granted(p)'
               /\ left'[p] = IF stage'[p] = "line" THEN Lines(p)' ELSE {}
    BY <1>2 DEF Granted
  <2> QED
    BY <1>1, <2>1, LinesFrame
<1>7. CountInv'
  BY <1>2, <1>3, <1>5 DEF CountInv
<1>8. NodesInv'
  <2>1. Going' = {}
    BY <1>2, <1>5 DEF Going
  <2>2. remaining' = Cardinality(Going')
    BY <1>2, <2>1, FS_EmptySet DEF RunSame
  <2>3. tails' \subseteq kept'
    BY <1>1 DEF NodesInv, RunSame
  <2> QED
    BY <1>2, <1>3, <1>5, <2>1, <2>2, <2>3 DEF NodesInv, AtHome
<1>9. RanInv'
  <2>1. Cancelled' = {} /\ done' = 0
    BY <1>2 DEF Cancelled, RunSame
  <2> QED
    BY <1>2, <1>3, <2>1 DEF RanInv
<1>10. CallerInv'
  BY <1>2, <1>3, <1>5 DEF CallerInv
<1> QED
  BY <1>4, <1>6, <1>7, <1>8, <1>9, <1>10 DEF GraphInv, RunInv

\* add_node.
LEMMA AddNodeStep ==
    ASSUME GraphInv, add_node
    PROVE  GraphInv'
<1>1. GraphType /\ BuildInv
  BY DEF GraphInv
<1>2. PICK a \in Accesses[Len(nodes) + 1] :
        /\ built = "building" /\ Len(nodes) < Cardinality(Indices) /\ nodes' = Append(nodes, a)
  BY DEF add_node
<1>3. /\ built' = built /\ explicit' = explicit /\ edges' = edges /\ bound' = bound
      /\ links_lent' = links_lent /\ launch' = launch /\ pipe' = pipe /\ stage' = stage
      /\ left' = left /\ todo' = todo /\ ready_buf' = ready_buf /\ ran' = ran
  BY DEF add_node, bindVars, callVars, partVars
<1>4. RunSame
  BY DEF add_node, RunSame, runVars
<1>5. Len(nodes) \in Nat /\ Nodes = 1..Len(nodes) /\ nodes \in Seq(AccessList)
      /\ Cardinality(Indices) \in Nat /\ Indices = 1..Cardinality(Indices)
  BY <1>1, NodesFacts, GraphAssumption, FS_CardinalityType DEF GraphType, BuildType
<1>6. a \in AccessList
  BY <1>2, <1>5, GraphAssumption
<1>7. nodes' \in Seq(AccessList) /\ Len(nodes') = Len(nodes) + 1 /\ Nodes' = 1..(Len(nodes) + 1)
  BY <1>2, <1>5, <1>6 DEF Nodes
<1>8. Len(nodes') <= Cardinality(Indices) /\ Nodes \subseteq Nodes'
  BY <1>2, <1>5, <1>7
<1>9. BuildType'
  BY <1>1, <1>3, <1>7, <1>8 DEF GraphType, BuildType
<1>10. BuildInv'
  <2>1. ~InRun' /\ done' = 0 /\ \A p \in Parts : stage'[p] = "idle" /\ todo'[p] = {}
    BY <1>2, <1>3, <1>4, Building DEF InRun, RunSame
  <2>2. \A i \in Indices : ready_buf'[i] = {}
    BY <1>2, <1>3, Building
  <2> QED
    BY <1>2, <1>3, <2>1, <2>2, PartFacts DEF BuildInv
<1> QED
  BY <1>2, <1>3, <1>4, <1>9, <1>10, BuildStep

\* after and before.
LEMMA AddEdgeStep ==
    ASSUME GraphInv, add_edge
    PROVE  GraphInv'
<1>1. GraphType /\ BuildInv
  BY DEF GraphInv
<1>2. PICK e \in Nodes \X Nodes : built = "building" /\ explicit' = explicit \cup {e}
  BY DEF add_edge
<1>3. /\ built' = built /\ nodes' = nodes /\ edges' = edges /\ bound' = bound
      /\ links_lent' = links_lent /\ launch' = launch /\ pipe' = pipe /\ stage' = stage
      /\ left' = left /\ todo' = todo /\ ready_buf' = ready_buf /\ ran' = ran
  BY DEF add_edge, bindVars, callVars, partVars
<1>4. RunSame
  BY DEF add_edge, RunSame, runVars
<1>5. BuildType'
  BY <1>1, <1>2, <1>3 DEF GraphType, BuildType, Nodes
<1>6. BuildInv'
  <2>1. ~InRun' /\ done' = 0 /\ \A p \in Parts : stage'[p] = "idle" /\ todo'[p] = {}
    BY <1>2, <1>3, <1>4, Building DEF InRun, RunSame
  <2>2. \A i \in Indices : ready_buf'[i] = {}
    BY <1>2, <1>3, Building
  <2> QED
    BY <1>2, <1>3, <2>1, <2>2, PartFacts DEF BuildInv
<1> QED
  BY <1>2, <1>3, <1>4, <1>5, <1>6, BuildStep

\* compile: the edges are fixed, and every link is bound.
LEMMA CompileStep ==
    ASSUME GraphInv, compile
    PROVE  GraphInv'
<1>1. GraphType /\ BuildInv
  BY DEF GraphInv
<1>2. /\ built = "building" /\ edges' = Compiled
      /\ built' = (IF Visited = Nodes THEN "compiled" ELSE "fatal")
      /\ bound' = [i \in Indices |-> IF i \in Nodes THEN Uses(nodes[i]) ELSE {}]
      /\ links_lent' = FALSE
  BY DEF compile
<1>3. /\ nodes' = nodes /\ explicit' = explicit /\ launch' = launch /\ pipe' = pipe
      /\ stage' = stage /\ left' = left /\ todo' = todo /\ ready_buf' = ready_buf /\ ran' = ran
  BY DEF compile, callVars, partVars
<1>4. RunSame
  BY DEF compile, RunSame, runVars
<1>5. Nodes' = Nodes /\ Compiled' = Compiled /\ Visited' = Visited /\ Nodes \subseteq Indices
  BY <1>1, <1>3, NodesFacts DEF Nodes, Compiled, Visited
<1>6. Compiled \subseteq Nodes \X Nodes
  BY <1>1 DEF Compiled, GraphType, BuildType
<1>7. BuildType'
  <2>1. bound' \in [Indices -> SUBSET Objects]
    BY <1>2 DEF Uses
  <2>2. links_lent' \in BOOLEAN
    BY <1>2
  <2> QED
    BY <1>1, <1>2, <1>3, <1>5, <1>6, <2>1, <2>2 DEF GraphType, BuildType
<1>8. BuildInv'
  <2>1. ~InRun' /\ \A p \in Parts : stage'[p] = "idle"
    BY <1>2, <1>3, <1>4, Building DEF InRun, RunSame
  <2>2. \A i \in Nodes : bound'[i] = Uses(nodes[i])
    BY <1>2, <1>5
  <2>3. \A i : Uses(nodes[i])' = Uses(nodes[i])
    BY <1>3 DEF Uses
  <2>4. built' # "building" /\ (built' = "fatal" <=> Visited # Nodes)
    BY <1>2
  <2> QED
    BY <1>2, <1>5, <2>1, <2>2, <2>3, <2>4, PartFacts DEF BuildInv
<1> QED
  BY <1>2, <1>3, <1>4, <1>7, <1>8, BuildStep

\* The invariant holds of a graph without nodes.
LEMMA InitKept ==
    ASSUME Init
    PROVE  GraphInv
<1>1. /\ built = "building" /\ nodes = <<>> /\ explicit = {} /\ edges = {}
      /\ bound = [i \in Indices |-> {}] /\ links_lent = FALSE
      /\ deps = [i \in Indices |-> 0] /\ remaining = 0 /\ done = 0 /\ token = FALSE
      /\ result = [h \in 0..MaxRuns |-> "completed"] /\ tails = {} /\ kept = {}
      /\ pipe = [o \in Objects |-> IdlePipe] /\ stage = [p \in Parts |-> "idle"]
      /\ left = [p \in Parts |-> {}] /\ todo = [p \in Parts |-> {}]
      /\ ready_buf = [i \in Indices |-> {}] /\ ran = [i \in Indices |-> "no"]
      /\ launch = [holds |-> None, task |-> FALSE, detach |-> FALSE]
  BY DEF Init
<1>2. MaxRuns \in Nat /\ Cardinality(Indices) \in Nat
  BY GraphAssumption, FS_CardinalityType
<1>3. Nodes = {} /\ ~InRun
  BY <1>1, <1>2 DEF Nodes, InRun
<1>4. StageType
  <2>1. "idle" \in NodeStages /\ "idle" \in CallStages /\ "idle" \in OutStages
    BY DEF NodeStages, CallStages, OutStages
  <2> QED
    BY <1>1, <2>1, PartFacts DEF StageType
<1>5. BuildType
  <2>1. nodes \in Seq(AccessList) /\ Len(nodes) = 0
    BY <1>1
  <2>2. links_lent \in BOOLEAN
    BY <1>1
  <2>3. bound \in [Indices -> SUBSET Objects] /\ Len(nodes) <= Cardinality(Indices)
    BY <1>1, <1>2, <2>1
  <2>4. explicit \subseteq Nodes \X Nodes /\ edges \subseteq Nodes \X Nodes
    BY <1>1
  <2>5. built \in {"building", "compiled", "fatal", "destroyed"}
    BY <1>1
  <2> QED
    BY <2>1, <2>2, <2>3, <2>4, <2>5 DEF BuildType
<1>6. RunType
  <2>1. token \in BOOLEAN
    BY <1>1
  <2>2. /\ deps \in [Indices -> Int] /\ remaining \in Int /\ done \in 0..MaxRuns
        /\ result \in [0..MaxRuns -> {"pending", "completed", "cancelled"}]
    BY <1>1, <1>2
  <2> QED
    BY <2>1, <2>2 DEF RunType
<1>7. PartType
  <2>1. None \in AccessList
    BY DEF None, AccessList, Modes
  <2> QED
    BY <1>1, <2>1 DEF PartType
<1>8. IdlePipe.holders = {} /\ InLine(IdlePipe) = {} /\ IdlePipe \in PipeType
  BY DEF IdlePipe, InLine, PipeType
<1>9. LineType
  BY <1>1, <1>8 DEF LineType
<1>10. BuildInv
  BY <1>1, <1>3, PartFacts DEF BuildInv
<1>11. PipesInv
  <2>1. ASSUME NEW o \in Objects PROVE LineOK(o)
    BY <1>1, <1>8 DEF LineOK, Exclusive
  <2>2. ASSUME NEW p \in Parts PROVE PartOK(p)
    BY <1>1 DEF PartOK, Granted
  <2> QED
    BY <2>1, <2>2 DEF PipesInv
<1>12. CountInv
  BY <1>1, <1>3, PartFacts DEF CountInv
<1>13. NodesInv
  <2>1. Going = {}
    BY <1>3 DEF Going
  <2> QED
    BY <1>1, <1>3, <2>1, FS_EmptySet DEF NodesInv, AtHome
<1>14. RanInv
  <2>1. Cancelled = {}
    BY <1>1 DEF Cancelled
  <2> QED
    BY <1>1, <1>3, <2>1 DEF RanInv
<1>15. CallerInv
  BY <1>1, <1>3, PartFacts DEF CallerInv
<1> QED
  BY <1>4, <1>5, <1>6, <1>7, <1>9, <1>10, <1>11, <1>12, <1>13, <1>14, <1>15
     DEF GraphInv, GraphType, RunInv

\* Nothing changes.
LEMMA StutterStep ==
    ASSUME GraphInv, UNCHANGED vars
    PROVE  GraphInv'
<1>1. /\ GraphSame /\ RunSame /\ pipe' = pipe /\ stage' = stage /\ left' = left /\ todo' = todo
      /\ ready_buf' = ready_buf /\ ran' = ran
  BY DEF vars, graphVars, runVars, bindVars, callVars, partVars, GraphSame, RunSame
<1>2. GraphType'
  BY <1>1 DEF GraphInv, GraphType, StageType, BuildType, RunType, PartType, LineType, Nodes, GraphSame, RunSame
<1>3. BuildInv'
  BY <1>1 DEF GraphInv, BuildInv, Nodes, Compiled, Visited, Lent, Strongest, InRun, Uses, GraphSame, RunSame
<1>4. PipesInv'
  BY <1>1, LinesKept DEF GraphInv, GraphSame, Granted
<1>5. CountInv'
  <2>1. Nodes' = Nodes /\ (InRun' <=> InRun) /\ \A i : Succ(i)' = Succ(i)
    BY <1>1 DEF Nodes, Succ, InRun, GraphSame, RunSame
  <2>2. \A j : Pending(j)' = Pending(j)
    BY <1>1, <2>1 DEF Pending, Before, GraphSame
  <2> QED
    BY <1>1, <2>1, <2>2 DEF GraphInv, CountInv, RunSame
<1>6. RunInv'
  BY <1>1 DEF GraphInv, RunInv, NodesInv, RanInv, CallerInv, Nodes, InRun, Going, AtHome, Cancelled, Detached,
              GraphSame, RunSame
<1> QED
  BY <1>2, <1>3, <1>4, <1>5, <1>6 DEF GraphInv

-----------------------------------------------------------------------------
(* The theorems *)

\* GraphInv holds throughout: the links, the pipes, the counters and the handles of a
\* run agree with where each node, the calling task and each unrelated access is.
THEOREM GraphInductive == SafetySpec => []GraphInv
<1>1. Init => GraphInv
  BY InitKept
<1>2. GraphInv /\ [Next]_vars => GraphInv'
  <2> SUFFICES ASSUME GraphInv, [Next]_vars PROVE GraphInv'
    OBVIOUS
  <2>1. CASE add_node
    BY <2>1, AddNodeStep
  <2>2. CASE add_edge
    BY <2>2, AddEdgeStep
  <2>3. CASE compile
    BY <2>3, CompileStep
  <2>4. CASE call
    BY <2>4, CallStepKept
  <2>5. CASE CallStep
    BY <2>5, ExecuteStep, KickoffStep, EndCallStep, TurnStep, PartFacts DEF CallStep
  <2>6. ASSUME NEW i \in Indices, NodeStep(i) PROVE GraphInv'
    <3>1. i \in Parts
      BY PartFacts
    <3> QED
      BY <2>6, <3>1, TurnStep, BodyStep, CompletedStep, CountDownStep, DataReadyStep,
         NodeCompleteStep, SettleStep DEF NodeStep
  <2>7. CASE request_cancel \/ \E h \in 1..MaxRuns : settled(h)
    BY <2>7, TailStep
  <2>8. ASSUME NEW x \in Outsiders, async(x) \/ turn(x) \/ async_end(x) PROVE GraphInv'
    BY <2>8, AsyncStep, TurnStep, AsyncEndStep, PartFacts
  <2>9. CASE move \/ destroy
    BY <2>9, MoveStep
  <2>10. CASE UNCHANGED vars
    BY <2>10, StutterStep
  <2> QED
    BY <2>1, <2>2, <2>3, <2>4, <2>5, <2>6, <2>7, <2>8, <2>9, <2>10 DEF Next
<1> QED
  BY <1>1, <1>2, PTL DEF SafetySpec

\* GraphExclusion: nobody touches an object beside a writer of it.  Two nodes are kept
\* apart by the compiled edges, everybody else by the pipes; on an object that was lent
\* the calling task has the pipe while the run is going.
THEOREM GraphExcludes == SafetySpec => []GraphExclusion
<1>1. GraphInv => GraphExclusion
  <2> SUFFICES ASSUME GraphInv, NEW p \in Parts, NEW q \in Parts, NEW o \in Objects,
                      p # q, Touches(p, o), Touches(q, o)
               PROVE  ModeOf(p, o) = "read"
    BY DEF GraphExclusion
  <2>1. GraphType /\ BuildInv /\ PipesInv /\ CountInv /\ NodesInv /\ RanInv /\ CallerInv
    BY DEF GraphInv, RunInv
  <2>2. /\ Nodes \subseteq Indices /\ Caller \notin Indices /\ Caller \notin Outsiders
        /\ Outsiders \cap Indices = {} /\ Parts = Indices \cup {Caller} \cup Outsiders
        /\ Nodes \subseteq Nat
    BY <2>1, NodesFacts, PartFacts DEF Parts
  <2>3. /\ \A i \in Nodes : ModeOf(i, o) = nodes[i][o] /\ nodes[i] \in AccessList
        /\ ModeOf(Caller, o) = launch.holds[o]
        /\ \A x \in Outsiders : ModeOf(x, o) = OutAccess[x][o]
        /\ \A r \in Parts : ModeOf(r, o) \in {"none", "read", "write"}
        /\ \A i \in Indices \ Nodes : ModeOf(i, o) = "none"
    BY <2>1, ModeFacts DEF Modes
  <2>4. LineOK(o) /\ \A r \in Parts : PartOK(r)
    BY <2>1 DEF PipesInv
  <2>5. ASSUME NEW r \in Parts, NEW t \in Parts, r # t, Holds(pipe[o], r), Holds(pipe[o], t)
        PROVE  ModeOf(r, o) # "write"
    <3>1. PICK g \in pipe[o].holders : g.who = r
      BY <2>5 DEF Holds
    <3>2. PICK h \in pipe[o].holders : h.who = t
      BY <2>5 DEF Holds
    <3> QED
      BY <2>4, <2>5, <3>1, <3>2 DEF LineOK, Exclusive
  <2>6. ASSUME NEW r \in Parts \ Indices, Touches(r, o) PROVE Holds(pipe[o], r) /\ o \in Lines(r)
    <3>1. Granted(r) /\ ModeOf(r, o) # "none"
      BY <2>2, <2>6 DEF Touches, Granted
    <3>2. CASE r = Caller
      <4>1. o \in Lines(r)
        BY <2>2, <2>3, <3>1, <3>2 DEF Lines, Uses
      <4> QED
        BY <2>4, <3>1, <4>1 DEF PartOK
    <3>3. CASE r \in Outsiders
      <4>1. o \in Lines(r)
        BY <2>2, <2>3, <3>1, <3>3 DEF Lines, Uses
      <4> QED
        BY <2>4, <3>1, <4>1 DEF PartOK
    <3> QED
      BY <2>2, <3>2, <3>3
  <2>7. ASSUME NEW r \in Indices, Touches(r, o)
        PROVE  /\ r \in Nodes /\ stage[r] = "running" /\ InRun /\ built = "compiled"
               /\ ModeOf(r, o) = nodes[r][o] /\ nodes[r][o] # "none"
    <3>1. r \in Nodes
      BY <2>3, <2>7 DEF Touches
    <3>2. stage[r] = "running"
      BY <2>7, <3>1 DEF Touches
    <3> QED
      BY <2>3, <2>7, <3>1, <3>2, NodeInRun DEF Touches
  \* A node beside one that is none.
  <2>8. ASSUME NEW n \in Indices, NEW r \in Parts \ Indices, Touches(n, o), Touches(r, o)
        PROVE  ModeOf(n, o) # "write" /\ ModeOf(r, o) # "write"
    <3>1. /\ n \in Nodes /\ stage[n] = "running" /\ InRun /\ built = "compiled"
          /\ ModeOf(n, o) = nodes[n][o] /\ nodes[n][o] # "none"
      BY <2>7, <2>8
    <3>2. Holds(pipe[o], r) /\ r \in Outsiders
      <4>1. Holds(pipe[o], r)
        BY <2>6, <2>8
      <4>2. r # Caller
        BY <2>1, <2>2, <2>8, <3>1 DEF Touches, CallerInv
      <4> QED
        BY <2>2, <4>1, <4>2
    <3>3. CASE o \in bound[n]
      <4>1. Granted(n) /\ o \in Lines(n) /\ n \in Parts
        BY <2>2, <3>1, <3>3 DEF Granted, Lines
      <4>2. Holds(pipe[o], n)
        BY <2>4, <4>1 DEF PartOK
      <4>3. n # r
        BY <2>2
      <4> QED
        BY <2>5, <3>2, <4>1, <4>2, <4>3
    <3>4. CASE o \notin bound[n]
      <4>1. o \in Lent
        BY <2>1, <3>1, <3>4 DEF BuildInv, Uses
      <4>2. /\ launch.task /\ ~launch.detach /\ launch.holds[o] # "none"
            /\ Covers(launch.holds[o], Strongest(o))
        BY <4>1 DEF Lent
      <4>3. stage[Caller] = "kick"
        BY <2>1, <3>1, <4>2 DEF CallerInv, Detached
      <4>4. Granted(Caller) /\ o \in Lines(Caller) /\ Caller \in Parts
        BY <2>2, <4>2, <4>3 DEF Granted, Lines, Uses
      <4>5. Holds(pipe[o], Caller)
        BY <2>4, <4>4 DEF PartOK
      <4>6. ModeOf(Caller, o) # "write" /\ ModeOf(r, o) # "write"
        BY <2>2, <2>5, <3>2, <4>4, <4>5
      <4>7. Strongest(o) # "write"
        BY <2>3, <4>2, <4>6 DEF Covers
      <4>8. nodes[n][o] # "write"
        BY <3>1, <4>7 DEF Strongest
      <4> QED
        BY <3>1, <4>6, <4>8
    <3> QED
      BY <3>3, <3>4
  \* Two nodes.
  <2>9. ASSUME NEW m \in Indices, NEW n \in Indices, m < n, Touches(m, o), Touches(n, o)
        PROVE  ModeOf(m, o) # "write" /\ ModeOf(n, o) # "write"
    <3>1. /\ m \in Nodes /\ n \in Nodes /\ stage[m] = "running" /\ stage[n] = "running"
          /\ InRun /\ built = "compiled" /\ nodes[m][o] # "none" /\ nodes[n][o] # "none"
          /\ ModeOf(m, o) = nodes[m][o] /\ ModeOf(n, o) = nodes[n][o]
      BY <2>7, <2>9
    <3>2. Pending(n) = {}
      BY <2>1, <3>1 DEF CountInv
    <3>3. <<m, n>> \notin edges
      BY <3>1, <3>2 DEF Pending, Before, BeforeEnd
    <3>4. ~conflicts(nodes[m], nodes[n])
      BY <2>1, <2>9, <3>1, <3>3 DEF BuildInv, Compiled
    <3> QED
      BY <3>1, <3>4 DEF conflicts, Uses
  <2>10. ModeOf(p, o) # "write"
    <3>1. CASE p \in Indices /\ q \in Indices
      <4>1. p < q \/ q < p
        BY <2>2, <2>7, <3>1
      <4> QED
        BY <2>9, <3>1, <4>1
    <3>2. CASE p \in Indices /\ q \notin Indices
      BY <2>8, <3>2
    <3>3. CASE p \notin Indices /\ q \in Indices
      BY <2>8, <3>3
    <3>4. CASE p \notin Indices /\ q \notin Indices
      BY <2>5, <2>6, <3>4
    <3> QED
      BY <3>1, <3>2, <3>3, <3>4
  <2> QED
    BY <2>3, <2>10 DEF Touches
<1> QED
  BY <1>1, GraphInductive, PTL

\* RunQuiescent: a settled run has left nothing behind, its handle outlives the thread
\* that settled it, and no node is still to leave the count of a graph that was moved
\* or destroyed.
THEOREM GraphQuiescent == SafetySpec => []RunQuiescent
<1>1. GraphInv => RunQuiescent
  <2> SUFFICES ASSUME GraphInv PROVE RunQuiescent
    OBVIOUS
  <2>1. GraphType /\ NodesInv /\ RanInv
    BY DEF GraphInv, RunInv
  <2>2. Nodes \subseteq Indices
    BY <2>1, NodesFacts
  <2>3. ~InRun => remaining = 0 /\ \A i \in Nodes : stage[i] = "idle"
    BY <2>2, BetweenRuns
  <2>4. ~InRun /\ done > 0 => \A i \in Nodes : ran[i] # "no"
    BY <2>1 DEF RanInv
  <2>5. result[done] = "completed" /\ built # "destroyed" => Cancelled = {}
    BY <2>1 DEF RanInv
  <2>6. tails \subseteq kept
    BY <2>1 DEF NodesInv
  <2>7. \A i \in Nodes : stage[i] \notin {"idle", "folding"} => back = addr /\ built = "compiled"
    BY <2>1 DEF NodesInv, AtHome, Going
  <2> QED
    BY <2>3, <2>4, <2>5, <2>6, <2>7 DEF RunQuiescent, InRun
<1> QED
  BY <1>1, GraphInductive, PTL

-----------------------------------------------------------------------------
(* What compile accepts *)

\* The rounds of detect_cycles, and that they exist as a function.
Rounds(N, S, E) ==
    CHOOSE f : f = [k \in 0..N |-> IF k = 0 THEN {}
                                   ELSE {n \in S : \A m \in S : <<m, n>> \in E => m \in f[k - 1]}]

\* Round by round: each is determined by the one before.
LEMMA RoundsExist ==
    ASSUME NEW N \in Nat, NEW S, NEW E
    PROVE  /\ Rounds(N, S, E)[0] = {}
           /\ \A k \in 1..N : Rounds(N, S, E)[k] =
                {n \in S : \A m \in S : <<m, n>> \in E => m \in Rounds(N, S, E)[k - 1]}
<1> DEFINE After(R) == {n \in S : \A m \in S : <<m, n>> \in E => m \in R}
           Good(f, l) == f = [k \in 0..l |-> IF k = 0 THEN {} ELSE After(f[k - 1])]
           Bad == {l \in Nat : ~ \E f : Good(f, l)}
<1>1. Bad = {}
  <2> SUFFICES ASSUME Bad # {} PROVE FALSE
    OBVIOUS
  <2>1. \E l \in Bad : \A j \in Bad : ~(<<j, l>> \in OpToRel(<, Nat))
    BY NatLessThanWellFounded, WFMin
  <2>2. PICK l \in Bad : \A j \in Bad : ~(j < l)
    BY <2>1 DEF OpToRel
  <2>3. CASE l = 0
    <3> DEFINE f == [k \in 0..0 |-> {}]
    <3>1. Good(f, 0)
      OBVIOUS
    <3> QED
      BY <2>2, <2>3, <3>1
  <2>4. CASE l # 0
    <3>1. l - 1 \in Nat /\ l - 1 \notin Bad /\ l \in Nat
      <4>1. l \in Nat
        BY <2>2
      <4>2. l - 1 \in Nat /\ l - 1 < l
        BY <2>4, <4>1
      <4> HIDE DEF Bad
      <4> QED
        BY <2>2, <4>1, <4>2
    <3>2. PICK f : Good(f, l - 1)
      BY <3>1
    <3> DEFINE g == [k \in 0..l |-> IF k = l THEN After(f[l - 1]) ELSE f[k]]
    <3>3. \A k \in 0..(l - 1) : f[k] = IF k = 0 THEN {} ELSE After(f[k - 1])
      BY <3>2
    <3> HIDE DEF After
    <3>4. \A k \in 0..l : g[k] = IF k = 0 THEN {} ELSE After(g[k - 1])
      <4> TAKE k \in 0..l
      <4>1. CASE k = l
        <5>1. g[k] = After(f[l - 1]) /\ g[k - 1] = f[l - 1]
          BY <2>4, <3>1, <4>1
        <5> QED
          BY <2>4, <4>1, <5>1
      <4>2. CASE k # l
        <5>1. k \in 0..(l - 1) /\ g[k] = f[k] /\ (k # 0 => g[k - 1] = f[k - 1])
          BY <3>1, <4>2
        <5> QED
          BY <3>3, <5>1
      <4> QED
        BY <4>1, <4>2
    <3>5. Good(g, l)
      BY <3>4
    <3> HIDE DEF g
    <3> QED
      BY <2>2, <3>5
  <2> QED
    BY <2>3, <2>4
<1>2. \E f : Good(f, N)
  BY <1>1
<1>3. Good(Rounds(N, S, E), N)
  BY <1>2 DEF Rounds
<1> HIDE DEF After
<1>4. \A k \in 0..N : Rounds(N, S, E)[k] = IF k = 0 THEN {} ELSE After(Rounds(N, S, E)[k - 1])
  BY <1>3
<1>5. ASSUME NEW k \in 1..N PROVE Rounds(N, S, E)[k] = After(Rounds(N, S, E)[k - 1])
  <2>1. k \in 0..N /\ k # 0
    OBVIOUS
  <2> QED
    BY <1>4, <2>1
<1>6. Rounds(N, S, E)[0] = {}
  <2>1. 0 \in 0..N
    OBVIOUS
  <2> QED
    BY <1>4, <2>1
<1> QED
  BY <1>5, <1>6 DEF After

\* Visited is the last of them.
LEMMA VisitedIs ==
    Visited = Rounds(Len(nodes), Nodes, Compiled)[Len(nodes)]
  BY DEF Visited, Rounds

\* compile finds no cycle exactly when the nodes have an order that agrees with the edges.
LEMMA CompileOrder ==
    ASSUME GraphType
    PROVE  (Visited = Nodes)
             <=> \E rank \in [Nodes -> Nodes] : \A e \in Compiled : rank[e[1]] < rank[e[2]]
<1>1. PICK N : N = Len(nodes)
  OBVIOUS
<1>2. N \in Nat /\ Nodes = 1..N
  BY <1>1, NodesFacts
<1>3. PICK R : R = Rounds(N, Nodes, Compiled)
  OBVIOUS
<1>4. /\ R[0] = {}
      /\ \A k \in 1..N : R[k] = {n \in Nodes : \A m \in Nodes : <<m, n>> \in Compiled => m \in R[k - 1]}
  BY <1>2, <1>3, RoundsExist
<1>5. Visited = R[N]
  BY <1>1, <1>3, VisitedIs
<1>6. Compiled \subseteq Nodes \X Nodes
  BY DEF Compiled, GraphType, BuildType
<1>7. ASSUME Visited = Nodes
      PROVE  \E rank \in [Nodes -> Nodes] : \A e \in Compiled : rank[e[1]] < rank[e[2]]
  <2> DEFINE At(n) == {k \in 1..N : n \in R[k]}
             rank == [n \in Nodes |-> Least(At(n))]
  <2>1. ASSUME NEW n \in Nodes PROVE Least(At(n)) \in At(n) /\ \A k \in At(n) : Least(At(n)) <= k
    <3>1. n \in R[N] /\ N \in 1..N
      BY <1>2, <1>5, <1>7
    <3>2. At(n) # {} /\ At(n) \in SUBSET Nat
      BY <1>2, <3>1
    <3> HIDE DEF At
    <3> QED
      BY <3>2, LeastIn
  <2>2. rank \in [Nodes -> Nodes]
    <3>1. \A n \in Nodes : Least(At(n)) \in Nodes
      BY <1>2, <2>1
    <3> QED
      BY <3>1
  <2>3. ASSUME NEW e \in Compiled PROVE rank[e[1]] < rank[e[2]]
    <3>1. PICK m \in Nodes, n \in Nodes : e = <<m, n>>
      BY <1>6
    <3>2. PICK k \in 1..N : k = Least(At(n)) /\ n \in R[k]
      BY <2>1
    <3>3. m \in R[k - 1]
      BY <1>4, <2>3, <3>1, <3>2
    <3>4. k - 1 \in 1..N
      <4>1. k - 1 # 0
        BY <1>4, <3>3
      <4> QED
        BY <1>2, <4>1
    <3>5. k - 1 \in At(m)
      BY <3>3, <3>4
    <3>6. Least(At(m)) <= k - 1 /\ Least(At(m)) \in 1..N
      BY <2>1, <3>5
    <3>7. rank[m] = Least(At(m)) /\ rank[n] = k
      BY <3>2
    <3>8. rank[m] < rank[n]
      <4> HIDE DEF rank, At
      <4> QED
        BY <1>2, <3>6, <3>7
    <3>9. e[1] = m /\ e[2] = n
      BY <3>1
    <3> HIDE DEF rank
    <3> QED
      BY <3>8, <3>9
  <2> HIDE DEF rank
  <2> QED
    BY <2>2, <2>3
<1>8. ASSUME NEW rank \in [Nodes -> Nodes], \A e \in Compiled : rank[e[1]] < rank[e[2]]
      PROVE  Visited = Nodes
  <2> DEFINE Late == {k \in 0..N : \E n \in Nodes : rank[n] <= k /\ n \notin R[k]}
  <2>1. Late = {}
    <3> SUFFICES ASSUME Late # {} PROVE FALSE
      OBVIOUS
    <3>0. Late \in SUBSET Nat
      BY <1>2
    <3>1. Least(Late) \in Late /\ \A y \in Late : Least(Late) <= y
      <4> HIDE DEF Late
      <4> QED
        BY <3>0, LeastIn
    <3>2. PICK k \in Late : \A y \in Late : k <= y
      BY <3>1
    <3>3. PICK n \in Nodes : rank[n] <= k /\ n \notin R[k]
      BY <3>2
    <3>4. k \in 0..N /\ rank[n] \in 1..N
      BY <1>2, <3>2
    <3>5. k \in 1..N /\ k - 1 \in 0..N /\ ~(k <= k - 1)
      BY <1>2, <3>3, <3>4
    <3>6. k - 1 \notin Late
      <4> HIDE DEF Late
      <4> QED
        BY <3>2, <3>5
    <3>7. PICK m \in Nodes : <<m, n>> \in Compiled /\ m \notin R[k - 1]
      BY <1>4, <3>3, <3>5
    <3>8. rank[m] < rank[n]
      <4>1. <<m, n>>[1] = m /\ <<m, n>>[2] = n
        OBVIOUS
      <4>2. rank[<<m, n>>[1]] < rank[<<m, n>>[2]]
        BY <1>8, <3>7
      <4> QED
        BY <4>1, <4>2
    <3>9. rank[m] <= k - 1
      <4>1. rank[m] \in Int /\ rank[n] \in Int /\ k \in Int
        BY <1>2, <3>4
      <4> QED
        BY <3>3, <3>8, <4>1
    <3> QED
      BY <3>5, <3>6, <3>7, <3>9
  <2>2. ASSUME NEW n \in Nodes PROVE n \in R[N]
    <3>1. rank[n] <= N /\ N \in 0..N
      BY <1>2
    <3> QED
      BY <2>1, <3>1
  <2>3. R[N] \subseteq Nodes
    <3>1. CASE N = 0
      BY <1>4, <3>1
    <3>2. CASE N # 0
      <4>1. N \in 1..N
        BY <1>2, <3>2
      <4> QED
        BY <1>4, <4>1
    <3> QED
      BY <3>1, <3>2
  <2> QED
    BY <1>5, <2>2, <2>3
<1> QED
  BY <1>7, <1>8

\* Ordered: compile rejects exactly the graphs that have no order, and in a run of one
\* that has, a body starts only when every node it must follow is over.
THEOREM GraphOrdered == SafetySpec => []Ordered
<1>1. GraphInv => CompileSound
  <2> SUFFICES ASSUME GraphInv, built # "building"
               PROVE  (built = "fatal")
                        <=> ~ \E rank \in [Nodes -> Nodes] : \A e \in edges : rank[e[1]] < rank[e[2]]
    BY DEF CompileSound
  <2>1. GraphType /\ edges = Compiled /\ (built = "fatal" <=> Visited # Nodes)
    BY DEF GraphInv, BuildInv
  <2>2. (Visited = Nodes)
          <=> \E rank \in [Nodes -> Nodes] : \A e \in Compiled : rank[e[1]] < rank[e[2]]
    BY <2>1, CompileOrder
  <2> QED
    BY <2>1, <2>2
<1>2. GraphInv => OrderKept
  <2> SUFFICES ASSUME GraphInv, built = "compiled", NEW i \in Nodes, NEW j \in Nodes, ran[j] # "no",
                      <<i, j>> \in explicit
                        \/ (i < j /\ \E o \in Objects : {nodes[i][o], nodes[j][o]} \in
                                                           {{"write"}, {"read", "write"}})
               PROVE  ran[i] # "no" /\ stage[i] # "running"
    BY DEF OrderKept
  <2>1. GraphType /\ BuildInv /\ CountInv /\ NodesInv /\ RanInv /\ Nodes \subseteq Indices
    BY NodesFacts DEF GraphInv, RunInv
  <2>2. <<i, j>> \in edges
    <3>1. CASE <<i, j>> \in explicit
      BY <2>1, <3>1 DEF BuildInv, Compiled
    <3>2. CASE i < j /\ \E o \in Objects : {nodes[i][o], nodes[j][o]} \in
                                             {{"write"}, {"read", "write"}}
      <4>1. conflicts(nodes[i], nodes[j])
        BY <3>2 DEF conflicts, Uses
      <4> QED
        BY <2>1, <3>2, <4>1 DEF BuildInv, Compiled
    <3> QED
      BY <3>1, <3>2
  <2>3. CASE InRun
    <3>1. stage[j] \notin NotStarted
      BY <2>1, <2>3 DEF RanInv
    <3>2. Pending(j) = {}
      BY <2>1, <2>3, <3>1 DEF CountInv, NotStarted
    <3>3. stage[i] \notin BeforeEnd
      BY <2>2, <3>2 DEF Pending, Before
    <3> QED
      BY <2>1, <2>3, <3>3 DEF RanInv, BeforeEnd, NotStarted
  <2>4. CASE ~InRun
    <3>1. done > 0
      <4>1. done # 0
        BY <2>1 DEF RanInv
      <4>2. done \in 0..MaxRuns /\ MaxRuns \in Nat
        BY <2>1, GraphAssumption DEF GraphType, RunType
      <4> QED
        BY <4>1, <4>2
    <3>2. stage[i] = "idle"
      BY <2>1, <2>4, BetweenRuns
    <3> QED
      BY <2>1, <2>4, <3>1, <3>2 DEF RanInv
  <2> QED
    BY <2>3, <2>4
<1> QED
  BY <1>1, <1>2, GraphInductive, PTL DEF Ordered

=============================================================================
