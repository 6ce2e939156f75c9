--------------------------- MODULE VersionedProofs ---------------------------
(***************************************************************************)
(* Proofs about Versioned, for every set of publishes, of flips and of     *)
(* readers, every number of commands and every policy.                     *)
(***************************************************************************)
EXTENDS Versioned, TLAPS, FiniteSetTheorems, SequenceTheorems, WellFoundedInduction

-----------------------------------------------------------------------------
(* The invariants *)

PublishPlaces == {"phase1", "unstaged", "unchain", "queued"}
FlipPlaces    == {"node", "granted", "idle"}
Places        == {"out", "applying", "swapped", "resync", "resynced", "done"}
                     \cup PublishPlaces \cup FlipPlaces

\* The accesses to the front: the write of a swap, the read of a resync, a reader's.
SwapEntry(k)   == Entry(Entry("swap", k), "write")
ResyncEntry(k) == Entry(Entry("resync", k), "read")
ReadEntry(r)   == Entry(r, "read")
Accesses == {SwapEntry(k) : k \in Steps} \cup {ResyncEntry(k) : k \in Steps}
                \cup {ReadEntry(r) : r \in Readers}
PipeType == [queue : Seq(Accesses), holders : SUBSET Accesses]

Exclusive(H) == \A g, h \in H : h.mode = "write" => g = h

TypeInv ==
    /\ history => policy # "replay"
    /\ front \in Seq(Nat) /\ shadow \in Seq(Nat) /\ previous \in Seq(Nat)
    /\ serial \in Nat /\ versions \in Seq(Seq(Nat))
    /\ staged \in Seq(Nat) /\ num_staged \in Nat /\ batch \in Seq(Nat)
    /\ pipe \in PipeType
    /\ chain \in Steps \cup {NoPublish} /\ prev \in [Steps -> Steps \cup {NoPublish}]
    /\ pc \in [Steps -> Places]
    /\ \A k \in Publishes : pc[k] \notin FlipPlaces
    /\ \A k \in Flips : pc[k] \notin PublishPlaces
    /\ swapped \in [Steps -> BOOLEAN] /\ ready \in [Steps \cup {NoPublish} -> BOOLEAN]
    /\ DOMAIN seen = Readers

\* The front's pipe: a write is held alone, and a grant is kept until its holder leaves.
GrantInv ==
    /\ Exclusive(pipe.holders)
    /\ \A k \in Flips : pc[k] \in {"applying", "granted"} => SwapEntry(k) \in pipe.holders
    /\ \A k \in Steps : pc[k] = "resynced" => ResyncEntry(k) \in pipe.holders

\* A view is covered by a grant and shows the replicas as they are.
ViewInv ==
    /\ Len(versions) = serial + 1 /\ front = versions[serial + 1]
    /\ history /\ serial > 0 => previous = versions[serial]
    /\ \A r \in Readers : seen[r] # <<>> =>
         /\ ReadEntry(r) \in pipe.holders
         /\ seen[r] = [current |-> front, previous |-> previous, serial |-> serial]

GrantAndViewInv == TypeInv /\ GrantInv /\ ViewInv

\* The steps that have taken their place in the chain.
Entered == {k \in Steps : pc[k] \notin {"out", "node"}} \cup {NoPublish}

Resolved == {"resynced", "done", "idle"}

\* The places of the chain in the order they were taken: a step resolves, and a step
\* is past its gate, only when all before it are resolved.
InOrder(rank) ==
    /\ chain \in Entered
    /\ \A i \in Entered : rank[i] <= rank[chain]
    /\ \A i, j \in Entered : i # j => rank[i] # rank[j]
    /\ \A i, j \in Entered : rank[i] < rank[j] /\ ready[j] => ready[i]
    /\ \A k \in Publishes : pc[k] # "out" => prev[k] \in Entered /\ rank[k] = rank[prev[k]] + 1
    /\ \A k \in Steps : pc[k] \notin {"out", "node", "phase1"} =>
         \A i \in Entered : rank[i] < rank[k] => ready[i]

ChainInv ==
    /\ \E rank \in [Steps \cup {NoPublish} -> Nat] : InOrder(rank)
    /\ ready[NoPublish]
    /\ \A k \in Steps : ready[k] <=>
         pc[k] \in Resolved \/ (pc[k] = "swapped" /\ policy = "overwrite")

\* The steps that own the shadow and the batch.
Owning  == {"applying", "queued", "granted", "swapped", "resync"}
Going   == {"applying", "queued", "granted"}
Owns(k) == pc[k] \in Owning /\ ~ready[k]

\* What the shadow is at each point of a step.
ReplicaInv ==
    /\ policy # "overwrite" /\ (\A k \in Steps : ~Owns(k)) => shadow = front
    /\ \A k \in Steps :
         /\ policy # "overwrite" /\ pc[k] = "applying" => shadow = front
         /\ pc[k] \in {"queued", "granted"} =>
              shadow = IF policy = "overwrite" THEN batch ELSE front \o batch
         /\ policy = "replay" /\ pc[k] \in {"swapped", "resync"} => front = shadow \o batch

Sorted(s)   == \A i, j \in DOMAIN s : i < j => s[i] < s[j]
Below(s, t) == \A i \in DOMAIN s, j \in DOMAIN t : s[i] < t[j]
IsGoing     == \E k \in Steps : pc[k] \in Going

\* The commands that are visible, and those that are on their way.
Made     == IF policy = "overwrite"
            THEN UNION {Flatten(versions[n]) : n \in DOMAIN versions}
            ELSE Flatten(front)
Underway == IF IsGoing THEN Flatten(batch) ELSE {}

Accounted == Made \cup Underway \cup Flatten(staged) \cup dropped = 1..num_staged

\* The commands are in the order they were staged in, replica by replica.
CommandInv ==
    /\ Sorted(staged)
    /\ IsGoing => Sorted(batch) /\ Below(batch, staged)
    /\ policy # "overwrite" =>
         /\ Sorted(front) /\ Below(front, staged)
         /\ IsGoing => Below(front, batch)
    /\ Accounted

\* After the end of the Versioned only what its destructor waits for goes on.
LifeInv ==
    /\ \A k \in Steps : swapped[k] => pc[k] \in {"unchain", "resync", "resynced", "done"}
    /\ life \in {"dying", "dead"} => \A k \in Steps : pc[k] = "out" \/ swapped[k]
    /\ DestroyedQuiet

-----------------------------------------------------------------------------
(* The pipe *)

\* The leading reads of a queue are a prefix of it.
LEMMA LeadingReads ==
    ASSUME NEW S, NEW q \in Seq(S)
    PROVE  \E m \in 0..Len(q) :
             {k \in DOMAIN q : \A j \in 1..k : q[j].mode = "read"} = 1..m
<1> DEFINE reads == {k \in DOMAIN q : \A j \in 1..k : q[j].mode = "read"}
           others == {k \in DOMAIN q : q[k].mode # "read"}
<1>1. DOMAIN q = 1..Len(q) /\ Len(q) \in Nat
  OBVIOUS
<1>2. CASE others = {}
  <2>1. reads = 1..Len(q)
    BY <1>1, <1>2
  <2> QED
    BY <1>1, <2>1
<1>3. CASE others # {}
  <2>1. others \subseteq Nat
    BY <1>1
  <2>2. \E x \in others : \A y \in others : ~(<<y, x>> \in OpToRel(<, Nat))
    BY <1>3, <2>1, NatLessThanWellFounded, WFMin
  <2>3. PICK x \in others : \A y \in others : ~(y < x)
    BY <2>1, <2>2 DEF OpToRel
  <2>4. x \in 1..Len(q) /\ q[x].mode # "read" /\ \A j \in 1..(x - 1) : q[j].mode = "read"
    BY <1>1, <2>3
  <2>5. reads = 1..(x - 1)
    BY <1>1, <2>4
  <2> QED
    BY <1>1, <2>4, <2>5
<1> QED
  BY <1>2, <1>3

\* A pass takes nobody's grant away and admits a write only alone.
LEMMA PassFacts ==
    ASSUME NEW S, NEW q \in Seq(S), NEW H \in SUBSET S, Exclusive(H)
    PROVE  /\ Pass(q, H) \in [queue : Seq(S), holders : SUBSET S]
           /\ H \subseteq Pass(q, H).holders
           /\ Exclusive(Pass(q, H).holders)
<1> DEFINE reads == {k \in DOMAIN q : \A j \in 1..k : q[j].mode = "read"}
           n == IF \E h \in H : h.mode = "write" THEN 0
                ELSE IF reads # {} THEN Cardinality(reads)
                ELSE IF H = {} /\ q # <<>> THEN 1 ELSE 0
           next == {q[k] : k \in 1..n}
<1>1. Pass(q, H) = [queue |-> SubSeq(q, n + 1, Len(q)), holders |-> H \cup next]
  BY DEF Pass
<1>2. DOMAIN q = 1..Len(q) /\ Len(q) \in Nat
  OBVIOUS
<1>3. PICK m \in 0..Len(q) : reads = 1..m
  BY LeadingReads
<1>4. Cardinality(reads) = m
  <2>1. Cardinality(1..m) = IF 1 > m THEN 0 ELSE m - 1 + 1
    BY <1>2, FS_Interval
  <2>2. m \in Nat
    BY <1>2
  <2>3. Cardinality(1..m) = m
    BY <2>1, <2>2
  <2> QED
    BY <1>3, <2>3
<1>5. \A k \in 1..m : q[k].mode = "read"
  BY <1>2, <1>3
<1> HIDE DEF reads
<1>6. /\ n \in 0..Len(q)
      /\ \/ n = 0
         \/ n = m /\ ~ \E h \in H : h.mode = "write"
         \/ n = 1 /\ H = {}
  <2>1. CASE \E h \in H : h.mode = "write"
    <3>1. n = 0
      BY <2>1
    <3> QED
      BY <1>2, <3>1
  <2>2. CASE ~(\E h \in H : h.mode = "write") /\ reads # {}
    <3>1. n = m
      BY <1>4, <2>2
    <3> QED
      BY <1>2, <2>2, <3>1
  <2>3. CASE ~(\E h \in H : h.mode = "write") /\ reads = {} /\ H = {} /\ q # <<>>
    <3>1. n = 1
      BY <2>3
    <3>2. Len(q) > 0
      BY <2>3, EmptySeq
    <3> QED
      BY <1>2, <2>3, <3>1, <3>2
  <2>4. CASE ~(\E h \in H : h.mode = "write") /\ reads = {} /\ ~(H = {} /\ q # <<>>)
    <3>1. n = 0
      BY <2>4
    <3> QED
      BY <1>2, <3>1
  <2> QED
    BY <2>1, <2>2, <2>3, <2>4
<1> HIDE DEF n
<1>7. next \subseteq S
  BY <1>2, <1>6
<1>8. SubSeq(q, n + 1, Len(q)) \in Seq(S)
  BY <1>2, <1>6, SubSeqProperties
<1>9. Exclusive(H \cup next)
  <2>1. CASE n = 0
    <3>1. next = {}
      BY <2>1
    <3> QED
      BY <3>1
  <2>2. CASE n = m /\ ~ \E h \in H : h.mode = "write"
    BY <1>5, <2>2 DEF Exclusive
  <2>3. CASE n = 1 /\ H = {}
    <3>1. next = {q[1]}
      BY <2>3
    <3> QED
      BY <2>3, <3>1 DEF Exclusive
  <2> QED
    BY <1>6, <2>1, <2>2, <2>3
<1> QED
  BY <1>1, <1>7, <1>8, <1>9

\* What an access is called by tells what it is.
LEMMA AccessFacts ==
    /\ \A k \in Steps : /\ SwapEntry(k) \in Accesses /\ SwapEntry(k).mode = "write"
                        /\ SwapEntry(k).who = Entry("swap", k)
                        /\ ResyncEntry(k) \in Accesses /\ ResyncEntry(k).who = Entry("resync", k)
                        /\ Entry("swap", k) # Entry("resync", k)
    /\ \A r \in Readers : ReadEntry(r) \in Accesses /\ ReadEntry(r).who = r
    /\ \A j, k \in Steps : /\ Entry("swap", j) = Entry("swap", k) => j = k
                           /\ Entry("resync", j) = Entry("resync", k) => j = k
                           /\ Entry("swap", j) # Entry("resync", k)
    /\ \A r \in Readers, k \in Steps : r # Entry("swap", k) /\ r # Entry("resync", k)
    /\ \A e \in Accesses :
         /\ \A k \in Steps : e.who = Entry("swap", k) => e = SwapEntry(k)
         /\ \A k \in Steps : e.who = Entry("resync", k) => e = ResyncEntry(k)
         /\ \A r \in Readers : e.who = r => e = ReadEntry(r)
<1>1. \A r \in Readers, k \in Steps : r # Entry("swap", k) /\ r # Entry("resync", k)
  BY VersionedAssumption
<1>2. \A j, k \in Steps : /\ Entry("swap", j) = Entry("swap", k) => j = k
                          /\ Entry("resync", j) = Entry("resync", k) => j = k
                          /\ Entry("swap", j) # Entry("resync", k)
  BY DEF Entry
<1>3. \A k \in Steps : /\ SwapEntry(k) \in Accesses /\ SwapEntry(k).mode = "write"
                       /\ SwapEntry(k).who = Entry("swap", k)
                       /\ ResyncEntry(k) \in Accesses /\ ResyncEntry(k).who = Entry("resync", k)
  BY DEF SwapEntry, ResyncEntry, Accesses, Entry
<1>4. \A r \in Readers : ReadEntry(r) \in Accesses /\ ReadEntry(r).who = r
  BY DEF ReadEntry, Accesses, Entry
<1>5. ASSUME NEW e \in Accesses
      PROVE  /\ \A k \in Steps : e.who = Entry("swap", k) => e = SwapEntry(k)
             /\ \A k \in Steps : e.who = Entry("resync", k) => e = ResyncEntry(k)
             /\ \A r \in Readers : e.who = r => e = ReadEntry(r)
  <2>1. CASE \E j \in Steps : e = SwapEntry(j)
    BY <1>1, <1>2, <1>3, <2>1
  <2>2. CASE \E j \in Steps : e = ResyncEntry(j)
    BY <1>1, <1>2, <1>3, <2>2
  <2>3. CASE \E q \in Readers : e = ReadEntry(q)
    BY <1>1, <1>4, <2>3
  <2> QED
    BY <2>1, <2>2, <2>3 DEF Accesses
<1> QED
  BY <1>1, <1>2, <1>3, <1>4, <1>5

\* Entering takes no grant away.
LEMMA EnterFacts ==
    ASSUME NEW p \in PipeType, Exclusive(p.holders), NEW who, NEW mode,
           Entry(who, mode) \in Accesses
    PROVE  /\ Enter(p, who, mode) \in PipeType
           /\ p.holders \subseteq Enter(p, who, mode).holders
           /\ Exclusive(Enter(p, who, mode).holders)
<1>1. p.holders \in SUBSET Accesses /\ Append(p.queue, Entry(who, mode)) \in Seq(Accesses)
  BY DEF PipeType
<1> QED
  BY ZenonT(60), <1>1, PassFacts DEF Enter, PipeType

\* Leaving takes away the grants of the one that leaves.
LEMMA LeaveFacts ==
    ASSUME NEW p \in PipeType, Exclusive(p.holders), NEW who
    PROVE  /\ Leave(p, who) \in PipeType
           /\ {h \in p.holders : h.who # who} \subseteq Leave(p, who).holders
           /\ Exclusive(Leave(p, who).holders)
<1>1. {h \in p.holders : h.who # who} \in SUBSET Accesses /\ p.queue \in Seq(Accesses)
  BY DEF PipeType
<1>2. Exclusive({h \in p.holders : h.who # who})
  BY DEF Exclusive
<1> QED
  BY <1>1, <1>2, PassFacts DEF Leave, PipeType

-----------------------------------------------------------------------------
(* Grants and views *)

\* The replicas readers see, and the views, are left alone.
Same ==
    /\ policy' = policy /\ history' = history /\ front' = front /\ previous' = previous
    /\ serial' = serial /\ versions' = versions /\ seen' = seen

\* The steps that touch no grant, neither the replicas, nor a view.
LEMMA QuietStep ==
    ASSUME GrantAndViewInv, TypeInv',
           Same, pipe.holders \subseteq pipe'.holders, Exclusive(pipe'.holders),
           \A k \in Flips : pc'[k] \in {"applying", "granted"} =>
                              pc[k] \in {"applying", "granted"} \/ SwapEntry(k) \in pipe.holders,
           \A k \in Steps : pc'[k] = "resynced" => pc[k] = "resynced" \/ ResyncEntry(k) \in pipe.holders
    PROVE  GrantAndViewInv'
<1>1. GrantInv'
  BY DEF GrantAndViewInv, GrantInv, Same
<1>2. ViewInv'
  BY DEF GrantAndViewInv, ViewInv, Same
<1> QED
  BY <1>1, <1>2 DEF GrantAndViewInv

\* A change of the pipe that takes away at most w's grants, when w holds no view.
LEMMA PipeStep ==
    ASSUME GrantAndViewInv, TypeInv', NEW w,
           Same,
           Exclusive(pipe'.holders),
           \A h \in pipe.holders : h.who # w => h \in pipe'.holders,
           \A k \in Flips : pc'[k] \in {"applying", "granted"} =>
                              /\ pc[k] \in {"applying", "granted"} \/ SwapEntry(k) \in pipe'.holders
                              /\ w # Entry("swap", k),
           \A k \in Steps : pc'[k] = "resynced" => pc[k] = "resynced" /\ w # Entry("resync", k),
           \A r \in Readers : w # r
    PROVE  GrantAndViewInv'
<1>1. GrantInv'
  <2>1. \A k \in Flips : pc'[k] \in {"applying", "granted"} => SwapEntry(k) \in pipe'.holders
    BY AccessFacts DEF GrantAndViewInv, GrantInv, Steps
  <2>2. \A k \in Steps : pc'[k] = "resynced" => ResyncEntry(k) \in pipe'.holders
    BY AccessFacts DEF GrantAndViewInv, GrantInv
  <2> QED
    BY <2>1, <2>2 DEF GrantInv
<1>2. ViewInv'
  BY AccessFacts DEF GrantAndViewInv, ViewInv, Same
<1> QED
  BY <1>1, <1>2 DEF GrantAndViewInv

\* Who holds a grant holds it by its own access.
LEMMA Holding ==
    ASSUME TypeInv
    PROVE  /\ \A k \in Steps : Holds(pipe, Entry("swap", k)) => SwapEntry(k) \in pipe.holders
           /\ \A k \in Steps : Holds(pipe, Entry("resync", k)) => ResyncEntry(k) \in pipe.holders
           /\ \A r \in Readers : Holds(pipe, r) => ReadEntry(r) \in pipe.holders
<1>1. pipe.holders \subseteq Accesses
  BY DEF TypeInv, PipeType
<1> QED
  BY <1>1, AccessFacts DEF Holds

\* A command is staged.
LEMMA View_stage ==
    ASSUME GrantAndViewInv, stage
    PROVE  GrantAndViewInv'
<1>1. TypeInv'
  BY DEF GrantAndViewInv, TypeInv, stage, Goto, Places, PublishPlaces, FlipPlaces, Steps,
         replicas, journal, signals
<1>3. Same
  BY DEF Same, stage, replicas, journal, signals
<1> QED
  BY <1>1, <1>3, QuietStep DEF stage, Goto, GrantAndViewInv, GrantInv, TypeInv

\* The staged commands are discarded.
LEMMA View_discard ==
    ASSUME GrantAndViewInv, discard
    PROVE  GrantAndViewInv'
<1>1. TypeInv'
  BY DEF GrantAndViewInv, TypeInv, discard, Goto, Places, PublishPlaces, FlipPlaces, Steps,
         replicas, journal, signals
<1>3. Same
  BY DEF Same, discard, replicas, journal, signals
<1> QED
  BY <1>1, <1>3, QuietStep DEF discard, Goto, GrantAndViewInv, GrantInv, TypeInv

\* The destructor begins to wait.
LEMMA View_destroy ==
    ASSUME GrantAndViewInv, destroy
    PROVE  GrantAndViewInv'
<1>1. TypeInv'
  BY DEF GrantAndViewInv, TypeInv, destroy, Goto, Places, PublishPlaces, FlipPlaces, Steps,
         replicas, journal, signals
<1>3. Same
  BY DEF Same, destroy, replicas, journal, signals
<1> QED
  BY <1>1, <1>3, QuietStep DEF destroy, Goto, GrantAndViewInv, GrantInv, TypeInv

\* The destructor returns.
LEMMA View_destroyed ==
    ASSUME GrantAndViewInv, destroyed
    PROVE  GrantAndViewInv'
<1>1. TypeInv'
  BY DEF GrantAndViewInv, TypeInv, destroyed, Goto, Places, PublishPlaces, FlipPlaces, Steps,
         replicas, journal, signals
<1>3. Same
  BY DEF Same, destroyed, replicas, journal, signals
<1> QED
  BY <1>1, <1>3, QuietStep DEF destroyed, Goto, GrantAndViewInv, GrantInv, TypeInv

\* A publish takes its place in the chain.
LEMMA View_publish ==
    ASSUME GrantAndViewInv, NEW k \in Publishes, publish(k)
    PROVE  GrantAndViewInv'
<1>1. TypeInv'
  BY VersionedAssumption
     DEF GrantAndViewInv, TypeInv, publish, Goto, Places, PublishPlaces, FlipPlaces, Steps,
         replicas, journal, signals
<1>3. Same
  BY DEF Same, publish, replicas, journal, signals
<1> QED
  BY SMTT(60), <1>1, <1>3, QuietStep DEF publish, Goto, GrantAndViewInv, GrantInv, TypeInv

\* A publish of nothing: the returned task.
LEMMA View_trigger_swapped ==
    ASSUME GrantAndViewInv, NEW k \in Steps, trigger_swapped(k)
    PROVE  GrantAndViewInv'
<1>1. TypeInv'
  BY DEF GrantAndViewInv, TypeInv, trigger_swapped, Goto, Places, PublishPlaces, FlipPlaces, Steps,
         replicas, journal, signals
<1>3. Same
  BY DEF Same, trigger_swapped, replicas, journal, signals
<1> QED
  BY SMTT(60), <1>1, <1>3, QuietStep DEF trigger_swapped, Goto, GrantAndViewInv, GrantInv, TypeInv

\* A publish of nothing: the chain.
LEMMA View_trigger_ready ==
    ASSUME GrantAndViewInv, NEW k \in Steps, trigger_ready(k)
    PROVE  GrantAndViewInv'
<1>1. TypeInv'
  BY DEF GrantAndViewInv, TypeInv, trigger_ready, Goto, Places, PublishPlaces, FlipPlaces, Steps,
         replicas, journal, signals
<1>3. Same
  BY DEF Same, trigger_ready, replicas, journal, signals
<1> QED
  BY SMTT(60), <1>1, <1>3, QuietStep DEF trigger_ready, Goto, GrantAndViewInv, GrantInv, TypeInv

\* Phase 1 cuts the batch, or has nothing to publish.
LEMMA View_phase1 ==
    ASSUME GrantAndViewInv, NEW k \in Steps, phase1(k)
    PROVE  GrantAndViewInv'
<1> USE DEF phase1, Cut, Goto
<1>1. /\ TypeInv /\ Exclusive(pipe.holders) /\ pc[k] = "phase1" /\ pc \in [Steps -> Places]
      /\ k \notin Flips
  BY DEF GrantAndViewInv, GrantInv, TypeInv, PublishPlaces
<1>2. pc' = [pc EXCEPT ![k] = "unstaged"] \/ pc' = [pc EXCEPT ![k] = "applying"]
  OBVIOUS
<1>3. \A j \in Steps : j # k => pc'[j] = pc[j]
  BY <1>1, <1>2
<1>4. pc' \in [Steps -> Places] /\ pc'[k] \in {"unstaged", "applying"}
  BY <1>1, <1>2 DEF Places, PublishPlaces
<1>5. batch' \in Seq(Nat) /\ staged' \in Seq(Nat) /\ num_staged' = num_staged
  <2>1. batch \in Seq(Nat) /\ staged \in Seq(Nat) /\ <<>> \in Seq(Nat)
    BY <1>1 DEF TypeInv
  <2>2. \/ batch' = batch /\ staged' = staged /\ num_staged' = num_staged
        \/ batch' = staged /\ staged' = <<>> /\ num_staged' = num_staged
    BY DEF journal
  <2> QED
    BY <2>1, <2>2
<1>6. TypeInv'
  BY <1>1, <1>3, <1>4, <1>5 DEF TypeInv, FlipPlaces, PublishPlaces, Steps, replicas, signals
<1>7. Same /\ pipe' = pipe
  BY DEF Same, replicas
<1> QED
  BY <1>1, <1>3, <1>4, <1>6, <1>7, QuietStep DEF Steps

\* The resync brings the shadow forward under its read grant.
LEMMA View_resync ==
    ASSUME GrantAndViewInv, NEW k \in Steps, resync(k)
    PROVE  GrantAndViewInv'
<1>1. TypeInv'
  <2>1. TypeInv
    BY DEF GrantAndViewInv
  <2>2. Apply(shadow, batch) \in Seq(Nat) /\ <<>> \in Seq(Nat)
    BY <2>1 DEF TypeInv, Apply
  <2> QED
    BY <2>1, <2>2 DEF TypeInv, resync, Goto, Places, PublishPlaces, FlipPlaces, Steps
<1>3. Same
  BY DEF Same, resync, replicas, journal, signals
<1>4. ResyncEntry(k) \in pipe.holders
  BY Holding DEF resync, GrantAndViewInv
<1> QED
  BY <1>1, <1>3, <1>4, QuietStep DEF resync, Goto, GrantAndViewInv, GrantInv, TypeInv

\* publish_into cuts the batch under the node's grant, or is fatal.
LEMMA View_publish_into ==
    ASSUME GrantAndViewInv, NEW k \in Steps, publish_into(k)
    PROVE  GrantAndViewInv'
<1> USE DEF publish_into, Goto, Cut
<1>1. /\ TypeInv /\ Exclusive(pipe.holders) /\ pc[k] = "node" /\ pc \in [Steps -> Places]
      /\ k \notin Publishes
  BY DEF GrantAndViewInv, GrantInv, TypeInv, FlipPlaces
<1>2. Same /\ pipe' = pipe /\ prev' = prev /\ swapped' = swapped /\ shadow' = shadow
  BY DEF Same, replicas
<1>3. SwapEntry(k) \in pipe.holders
  BY <1>1, Holding
<1>4. pc' = pc \/ pc' = [pc EXCEPT ![k] = "idle"] \/ pc' = [pc EXCEPT ![k] = "applying"]
  OBVIOUS
<1>5. /\ pc' \in [Steps -> Places] /\ \A j \in Steps : j # k => pc'[j] = pc[j]
      /\ pc'[k] \in {"node", "idle", "applying"}
  BY <1>1, <1>4 DEF Places, FlipPlaces
<1>6. /\ batch' \in Seq(Nat) /\ staged' \in Seq(Nat) /\ num_staged' = num_staged
      /\ chain' \in Steps \cup {NoPublish} /\ ready' \in [Steps \cup {NoPublish} -> BOOLEAN]
  <2>1. batch \in Seq(Nat) /\ staged \in Seq(Nat) /\ <<>> \in Seq(Nat)
    BY <1>1 DEF TypeInv
  <2>2. \/ batch' = batch /\ staged' = staged /\ num_staged' = num_staged
        \/ batch' = staged /\ staged' = <<>> /\ num_staged' = num_staged
    BY DEF journal
  <2>3. chain' \in Steps \cup {NoPublish} /\ ready' \in [Steps \cup {NoPublish} -> BOOLEAN]
    BY <1>1 DEF TypeInv
  <2> QED
    BY <2>1, <2>2, <2>3
<1>7. TypeInv'
  BY <1>1, <1>2, <1>5, <1>6 DEF TypeInv, Same, FlipPlaces, PublishPlaces, Steps
<1> QED
  BY <1>1, <1>2, <1>3, <1>5, <1>7, QuietStep DEF Steps

\* The batch is applied; a dynamic publish queues for the write access.
LEMMA View_apply_to_shadow ==
    ASSUME GrantAndViewInv, NEW k \in Steps, apply_to_shadow(k)
    PROVE  GrantAndViewInv'
<1> USE DEF apply_to_shadow, Goto
<1>1. /\ TypeInv /\ pipe \in PipeType /\ Exclusive(pipe.holders) /\ Apply(shadow, batch) \in Seq(Nat)
      /\ pc \in [Steps -> Places]
  BY DEF GrantAndViewInv, GrantInv, TypeInv, Apply
<1>2. CASE k \in Flips
  <2>1. TypeInv'
    <3>1. pc' = [pc EXCEPT ![k] = "granted"] /\ k \notin Publishes /\ "granted" \in Places
          /\ "granted" \notin PublishPlaces /\ shadow' \in Seq(Nat)
      BY <1>1, <1>2, VersionedAssumption DEF Places, PublishPlaces, FlipPlaces
    <3>2. /\ pc' \in [Steps -> Places] /\ \A j \in Publishes : pc'[j] \notin FlipPlaces
          /\ \A j \in Flips : pc'[j] \notin PublishPlaces
      BY <1>1, <3>1 DEF TypeInv, Steps
    <3>3. UNCHANGED <<history, policy, front, previous, serial, versions, staged, num_staged, batch,
                      pipe, chain, prev, swapped, ready, seen>>
      BY <1>2 DEF journal, signals
    <3> QED
      BY <1>1, <3>1, <3>2, <3>3 DEF TypeInv
  <2>2. Same /\ pipe' = pipe
    BY <1>2 DEF Same, journal, signals
  <2>3. \A j \in Steps : pc'[j] # pc[j] => j = k /\ pc'[j] = "granted" /\ pc[j] = "applying"
    BY <1>1, <1>2
  <2> QED
    BY <1>1, <2>1, <2>2, <2>3, QuietStep DEF Steps
<1>3. CASE k \notin Flips
  <2>1. /\ pipe' = Enter(pipe, Entry("swap", k), "write") /\ pc' = [pc EXCEPT ![k] = "queued"]
        /\ shadow' = Apply(shadow, batch) /\ Same
    BY <1>3 DEF Same
  <2>2. Entry(Entry("swap", k), "write") \in Accesses
    BY AccessFacts DEF SwapEntry
  <2>3. pipe' \in PipeType /\ pipe.holders \subseteq pipe'.holders /\ Exclusive(pipe'.holders)
    BY <1>1, <2>1, <2>2, EnterFacts
  <2>4. TypeInv'
    BY <1>1, <1>3, <2>1, <2>3 DEF TypeInv, Places, PublishPlaces, FlipPlaces, Steps, journal, signals
  <2>5. \A j \in Steps : pc'[j] # pc[j] => j = k /\ pc'[j] = "queued"
    BY <1>1, <2>1
  <2> QED
    BY <2>1, <2>3, <2>4, <2>5, QuietStep DEF Steps
<1> QED
  BY <1>2, <1>3

\* The node's grant is released after a flip with nothing to publish.
LEMMA View_flip_idle ==
    ASSUME GrantAndViewInv, NEW k \in Steps, flip_idle(k)
    PROVE  GrantAndViewInv'
<1> USE DEF flip_idle, Goto
<1>1. /\ TypeInv /\ pipe \in PipeType /\ Exclusive(pipe.holders) /\ pc \in [Steps -> Places]
      /\ pc[k] = "idle"
  BY DEF GrantAndViewInv, GrantInv, TypeInv
<1>2. /\ pipe' \in PipeType /\ Exclusive(pipe'.holders)
      /\ \A h \in pipe.holders : h.who # Entry("swap", k) => h \in pipe'.holders
  BY <1>1, LeaveFacts
<1>3. /\ pc' \in [Steps -> Places] /\ \A j \in Steps : j # k => pc'[j] = pc[j]
      /\ pc'[k] = "done"
  BY <1>1 DEF Places
<1>4. TypeInv'
  BY <1>1, <1>2, <1>3 DEF TypeInv, FlipPlaces, PublishPlaces, Steps, replicas, journal
<1>5. Same
  BY DEF Same, replicas
<1> QED
  BY <1>1, <1>2, <1>3, <1>4, <1>5, PipeStep, AccessFacts DEF Steps

\* The resync gives its read grant back.
LEMMA View_resync_end ==
    ASSUME GrantAndViewInv, NEW k \in Steps, resync_end(k)
    PROVE  GrantAndViewInv'
<1> USE DEF resync_end, Goto
<1>1. /\ TypeInv /\ pipe \in PipeType /\ Exclusive(pipe.holders) /\ pc \in [Steps -> Places]
      /\ pc[k] = "resynced"
  BY DEF GrantAndViewInv, GrantInv, TypeInv
<1>2. /\ pipe' \in PipeType /\ Exclusive(pipe'.holders)
      /\ \A h \in pipe.holders : h.who # Entry("resync", k) => h \in pipe'.holders
  BY <1>1, LeaveFacts
<1>3. /\ pc' \in [Steps -> Places] /\ \A j \in Steps : j # k => pc'[j] = pc[j]
      /\ pc'[k] = "done"
  BY <1>1 DEF Places
<1>4. TypeInv'
  BY <1>1, <1>2, <1>3 DEF TypeInv, FlipPlaces, PublishPlaces, Steps, replicas, journal, signals
<1>5. Same
  BY DEF Same, replicas
<1> QED
  BY <1>1, <1>2, <1>3, <1>4, <1>5, PipeStep, AccessFacts DEF Steps

\* The write grant is released after the returned task is triggered.
LEMMA View_phase2_end ==
    ASSUME GrantAndViewInv, NEW k \in Steps, phase2_end(k)
    PROVE  GrantAndViewInv'
<1> USE DEF phase2_end, Goto
<1>1. /\ TypeInv /\ pipe \in PipeType /\ Exclusive(pipe.holders) /\ pc \in [Steps -> Places]
      /\ pc[k] = "swapped"
  BY DEF GrantAndViewInv, GrantInv, TypeInv
<1>2. /\ pipe' \in PipeType /\ Exclusive(pipe'.holders)
      /\ \A h \in pipe.holders : h.who # Entry("swap", k) => h \in pipe'.holders
  BY <1>1, LeaveFacts
<1>3. /\ pc' \in [Steps -> Places] /\ \A j \in Steps : j # k => pc'[j] = pc[j]
      /\ pc'[k] \in {"done", "resync"}
  BY <1>1 DEF Places
<1>4. TypeInv'
  BY <1>1, <1>2, <1>3 DEF TypeInv, FlipPlaces, PublishPlaces, Steps, replicas, journal
<1>5. Same
  BY DEF Same, replicas
<1> QED
  BY <1>1, <1>2, <1>3, <1>4, <1>5, PipeStep, AccessFacts DEF Steps

\* A graph run with a publish node queues for the write access.
LEMMA View_flip ==
    ASSUME GrantAndViewInv, NEW k \in Flips, flip(k)
    PROVE  GrantAndViewInv'
<1> USE DEF flip, Goto
<1>1. /\ TypeInv /\ pipe \in PipeType /\ Exclusive(pipe.holders) /\ pc \in [Steps -> Places]
      /\ k \in Steps /\ k \notin Publishes
  BY VersionedAssumption DEF GrantAndViewInv, GrantInv, TypeInv, Steps
<1>2. Entry(Entry("swap", k), "write") \in Accesses
  BY <1>1, AccessFacts DEF SwapEntry
<1>3. pipe' \in PipeType /\ pipe.holders \subseteq pipe'.holders /\ Exclusive(pipe'.holders)
  BY <1>1, <1>2, EnterFacts
<1>4. /\ pc' \in [Steps -> Places] /\ \A j \in Steps : j # k => pc'[j] = pc[j]
      /\ pc'[k] = "node"
  BY <1>1 DEF Places, FlipPlaces
<1>5. TypeInv'
  BY <1>1, <1>3, <1>4 DEF TypeInv, FlipPlaces, PublishPlaces, Steps, replicas, journal, signals
<1>6. Same
  BY DEF Same, replicas
<1> QED
  BY <1>3, <1>4, <1>5, <1>6, QuietStep DEF Steps

\* A reader queues.
LEMMA View_read ==
    ASSUME GrantAndViewInv, NEW r \in Readers, read(r)
    PROVE  GrantAndViewInv'
<1> USE DEF read
<1>1. TypeInv /\ pipe \in PipeType /\ Exclusive(pipe.holders)
  BY DEF GrantAndViewInv, GrantInv, TypeInv
<1>2. Entry(r, "read") \in Accesses
  BY AccessFacts DEF ReadEntry
<1>3. pipe' \in PipeType /\ pipe.holders \subseteq pipe'.holders /\ Exclusive(pipe'.holders)
  BY <1>1, <1>2, EnterFacts
<1>4. TypeInv'
  BY <1>1, <1>3 DEF TypeInv, replicas, journal, signals
<1>5. Same
  BY DEF Same, replicas
<1> QED
  BY <1>3, <1>4, <1>5, QuietStep DEF Steps

\* A view is bound to the replicas.
LEMMA View_bind_view ==
    ASSUME GrantAndViewInv, NEW r \in Readers, bind_view(r)
    PROVE  GrantAndViewInv'
<1> USE DEF bind_view
<1>1. TypeInv /\ ReadEntry(r) \in pipe.holders
  BY Holding DEF GrantAndViewInv
<1>2. TypeInv'
  BY <1>1 DEF TypeInv, replicas, journal, signals
<1>3. GrantInv'
  BY DEF GrantAndViewInv, GrantInv, signals
<1>4. ViewInv'
  BY <1>1 DEF GrantAndViewInv, ViewInv, TypeInv, replicas
<1> QED
  BY <1>2, <1>3, <1>4 DEF GrantAndViewInv

\* A view goes, and its grant with it.
LEMMA View_drop_view ==
    ASSUME GrantAndViewInv, NEW r \in Readers, drop_view(r)
    PROVE  GrantAndViewInv'
<1> USE DEF drop_view
<1>1. TypeInv /\ pipe \in PipeType /\ Exclusive(pipe.holders)
  BY DEF GrantAndViewInv, GrantInv, TypeInv
<1>2. /\ pipe' \in PipeType /\ Exclusive(pipe'.holders)
      /\ \A h \in pipe.holders : h.who # r => h \in pipe'.holders
  BY <1>1, LeaveFacts
<1>3. TypeInv'
  BY <1>1, <1>2 DEF TypeInv, replicas, journal, signals
<1>4. GrantInv'
  BY <1>2, AccessFacts DEF GrantAndViewInv, GrantInv, Steps
<1>5. ViewInv'
  BY <1>1, <1>2, AccessFacts DEF GrantAndViewInv, ViewInv, TypeInv, replicas
<1> QED
  BY <1>3, <1>4, <1>5 DEF GrantAndViewInv

\* The swap is made under the write grant, beside which no view is held.
LEMMA View_phase2 ==
    ASSUME GrantAndViewInv, NEW k \in Steps, phase2(k)
    PROVE  GrantAndViewInv'
<1> USE DEF phase2, swap_replicas, Goto
<1>1. /\ TypeInv /\ pipe \in PipeType /\ Exclusive(pipe.holders) /\ pc \in [Steps -> Places]
      /\ pc[k] \in {"queued", "granted"}
  BY DEF GrantAndViewInv, GrantInv, TypeInv
<1>2. SwapEntry(k) \in pipe.holders
  <2>1. CASE pc[k] = "queued"
    BY <1>1, <2>1, Holding
  <2>2. CASE pc[k] = "granted"
    BY <1>1, <2>2 DEF GrantAndViewInv, GrantInv, TypeInv, Steps, FlipPlaces
  <2> QED
    BY <1>1, <2>1, <2>2
<1>3. \A r \in Readers : seen[r] = <<>>
  <2> SUFFICES ASSUME NEW r \in Readers, seen[r] # <<>> PROVE FALSE
    OBVIOUS
  <2>1. ReadEntry(r) \in pipe.holders
    BY DEF GrantAndViewInv, ViewInv
  <2>2. ReadEntry(r) = SwapEntry(k)
    BY <1>1, <1>2, <2>1, AccessFacts DEF Exclusive
  <2> QED
    BY <2>2, AccessFacts
<1>4. /\ pipe' \in PipeType /\ pipe.holders \subseteq pipe'.holders /\ Exclusive(pipe'.holders)
      /\ batch' \in Seq(Nat) /\ ready' \in [Steps \cup {NoPublish} -> BOOLEAN]
  <2>1. CASE policy = "overwrite"
    <3>1. pipe' = pipe /\ batch' = <<>> /\ ready' = [ready EXCEPT ![k] = TRUE]
      BY <2>1 DEF start_resync
    <3>2. <<>> \in Seq(Nat) /\ ready' \in [Steps \cup {NoPublish} -> BOOLEAN]
      BY <1>1, <3>1 DEF TypeInv
    <3> QED
      BY <1>1, <3>1, <3>2
  <2>2. CASE policy # "overwrite"
    <3>1. Entry(Entry("resync", k), "read") \in Accesses
      BY AccessFacts DEF ResyncEntry
    <3>2. pipe' = Enter(pipe, Entry("resync", k), "read") /\ batch' = batch /\ ready' = ready
      BY <2>2 DEF start_resync
    <3> QED
      BY <1>1, <3>1, <3>2, EnterFacts DEF TypeInv
  <2> QED
    BY <2>1, <2>2
<1>5. /\ pc' \in [Steps -> Places] /\ \A j \in Steps : j # k => pc'[j] = pc[j]
      /\ pc'[k] = "swapped"
  BY <1>1 DEF Places
<1>6. /\ front' = shadow /\ serial' = serial + 1 /\ versions' = Append(versions, shadow)
      /\ shadow' \in Seq(Nat) /\ previous' \in Seq(Nat)
      /\ history => previous' = front
  BY <1>1 DEF TypeInv
<1>7. TypeInv'
  <2>1. versions' \in Seq(Seq(Nat)) /\ serial' \in Nat /\ front' \in Seq(Nat)
    BY <1>1, <1>6 DEF TypeInv
  <2> QED
    BY <1>1, <1>4, <1>5, <1>6, <2>1 DEF TypeInv, FlipPlaces, PublishPlaces, Steps
<1>8. GrantInv'
  BY <1>4, <1>5 DEF GrantAndViewInv, GrantInv, Steps
<1>9. ViewInv'
  <2>1. /\ Len(versions) = serial + 1 /\ front = versions[serial + 1]
        /\ versions \in Seq(Seq(Nat)) /\ serial \in Nat
    BY <1>1 DEF GrantAndViewInv, ViewInv, TypeInv
  <2>2. /\ Len(versions') = serial' + 1 /\ versions'[serial' + 1] = shadow
        /\ versions'[serial'] = front
    BY <1>6, <2>1
  <2> QED
    BY <1>3, <1>6, <2>2 DEF ViewInv
<1> QED
  BY <1>7, <1>8, <1>9 DEF GrantAndViewInv

\* Every step keeps GrantAndViewInv.
LEMMA GrantAndViewStep ==
    ASSUME GrantAndViewInv, [Next]_vars
    PROVE  GrantAndViewInv'
<1>1. CASE stage \/ discard \/ destroy \/ destroyed
  BY <1>1, View_stage, View_discard, View_destroy, View_destroyed
<1>2. CASE \E k \in Publishes : publish(k)
  BY <1>2, View_publish
<1>3. CASE \E k \in Flips : flip(k)
  BY <1>3, View_flip
<1>4. CASE \E k \in Steps : StepOf(k)
  BY <1>4, View_phase1, View_trigger_swapped, View_trigger_ready, View_apply_to_shadow, View_phase2,
     View_phase2_end, View_resync, View_resync_end, View_publish_into, View_flip_idle DEF StepOf
<1>5. CASE \E r \in Readers : read(r) \/ bind_view(r) \/ drop_view(r)
  BY <1>5, View_read, View_bind_view, View_drop_view
<1>6. CASE UNCHANGED vars
  BY <1>6 DEF vars, replicas, journal, signals, GrantAndViewInv, TypeInv, GrantInv, ViewInv
<1> QED
  BY <1>1, <1>2, <1>3, <1>4, <1>5, <1>6 DEF Next

-----------------------------------------------------------------------------
(* The chain of publishes *)

\* A step of the chain moves on, past its gate if it is there, and is resolved where
\* the code triggers its shadow_ready.
LEMMA ChainMove ==
    ASSUME TypeInv, ChainInv, NEW k \in Steps, NEW l \in Places \ {"out", "node", "phase1"},
           chain' = chain, prev' = prev, policy' = policy, pc' = [pc EXCEPT ![k] = l],
           pc[k] \notin {"out", "node"}, pc[k] = "phase1" => Gate(k),
           ready' = [ready EXCEPT ![k] = l \in Resolved \/ (l = "swapped" /\ policy = "overwrite")],
           ready[k] => ready'[k]
    PROVE  ChainInv'
<1>1. PICK rank \in [Steps \cup {NoPublish} -> Nat] : InOrder(rank)
  BY DEF ChainInv
<1>2. /\ pc \in [Steps -> Places] /\ ready \in [Steps \cup {NoPublish} -> BOOLEAN]
      /\ NoPublish \notin Steps
  BY VersionedAssumption DEF TypeInv
<1>3. /\ \A j \in Steps : pc'[j] = IF j = k THEN l ELSE pc[j]
      /\ \A j \in Steps \cup {NoPublish} : j # k => ready'[j] = ready[j]
      /\ ready'[k] <=> (l \in Resolved \/ (l = "swapped" /\ policy = "overwrite"))
  BY <1>2
<1>4. Entered' = Entered /\ k \in Entered /\ Entered \subseteq Steps \cup {NoPublish}
  BY <1>2, <1>3 DEF Entered
<1>5. \A i \in Entered : rank[i] < rank[k] => ready[i]
  <2>1. CASE pc[k] = "phase1"
    <3>1. k \in Publishes
      BY <2>1 DEF TypeInv, Steps, PublishPlaces
    <3>2. prev[k] \in Entered /\ rank[k] = rank[prev[k]] + 1 /\ ready[prev[k]]
      BY <1>1, <2>1, <3>1 DEF InOrder, Gate
    <3>3. ASSUME NEW i \in Entered, rank[i] < rank[k]
          PROVE  ready[i]
      <4>1. rank[i] \in Nat /\ rank[prev[k]] \in Nat
        BY <1>4, <3>2
      <4>2. i = prev[k] \/ rank[i] < rank[prev[k]]
        BY <1>1, <3>2, <3>3, <4>1 DEF InOrder
      <4> QED
        BY <1>1, <3>2, <4>2 DEF InOrder
    <3> QED
      BY <3>3
  <2>2. CASE pc[k] # "phase1"
    BY <1>1, <2>2 DEF InOrder
  <2> QED
    BY <2>1, <2>2
<1>6. \A i \in Entered : ready[i] => ready'[i]
  BY <1>3, <1>4
<1>7. InOrder(rank)'
  <2>1. \A i, j \in Entered : rank[i] < rank[j] /\ ready'[j] => ready'[i]
    BY <1>1, <1>3, <1>4, <1>5, <1>6 DEF InOrder
  <2>2. \A j \in Publishes : pc'[j] # "out" => prev[j] \in Entered /\ rank[j] = rank[prev[j]] + 1
    BY <1>1, <1>3 DEF InOrder, Steps
  <2>3. \A j \in Steps : pc'[j] \notin {"out", "node", "phase1"} =>
          \A i \in Entered : rank[i] < rank[j] => ready'[i]
    BY <1>1, <1>3, <1>5, <1>6 DEF InOrder
  <2> QED
    BY <1>1, <1>4, <2>1, <2>2, <2>3 DEF InOrder
<1>8. ready'[NoPublish] /\ \A j \in Steps : ready'[j] <=>
        pc'[j] \in Resolved \/ (pc'[j] = "swapped" /\ policy' = "overwrite")
  BY <1>2, <1>3 DEF ChainInv
<1> QED
  BY <1>1, <1>7, <1>8 DEF ChainInv

\* A step takes the place after the last one; past its gate at once if all others
\* are resolved.
LEMMA ChainEnter ==
    ASSUME TypeInv, ChainInv, NEW k \in Steps, NEW l \in Places \ {"out", "node", "swapped"},
           chain' = k, policy' = policy, pc' = [pc EXCEPT ![k] = l],
           pc[k] \in {"out", "node"},
           prev' = IF k \in Publishes THEN [prev EXCEPT ![k] = chain] ELSE prev,
           l # "phase1" => ready[chain],
           ready' = [ready EXCEPT ![k] = l \in Resolved], l \in Resolved => l = "idle"
    PROVE  ChainInv'
<1>1. PICK rank \in [Steps \cup {NoPublish} -> Nat] : InOrder(rank)
  BY DEF ChainInv
<1>2. /\ pc \in [Steps -> Places] /\ ready \in [Steps \cup {NoPublish} -> BOOLEAN]
      /\ prev \in [Steps -> Steps \cup {NoPublish}] /\ NoPublish \notin Steps
  BY VersionedAssumption DEF TypeInv
<1>3. /\ \A j \in Steps : pc'[j] = IF j = k THEN l ELSE pc[j]
      /\ \A j \in Steps \cup {NoPublish} : j # k => ready'[j] = ready[j]
      /\ ready'[k] <=> l \in Resolved
      /\ \A j \in Steps : j # k => prev'[j] = prev[j]
      /\ k \in Publishes => prev'[k] = chain
  BY <1>2
<1>4. /\ Entered' = Entered \cup {k} /\ k \notin Entered
      /\ Entered \subseteq Steps \cup {NoPublish} /\ chain \in Entered
  BY <1>1, <1>2, <1>3 DEF Entered, InOrder
<1>5. rank[chain] \in Nat /\ \A i \in Entered : rank[i] \in Nat
  BY <1>4
<1>0. PICK rank2 : rank2 = [rank EXCEPT ![k] = rank[chain] + 1]
  OBVIOUS
<1>6. /\ rank2 \in [Steps \cup {NoPublish} -> Nat] /\ rank2[k] = rank[chain] + 1
      /\ \A i \in Entered : i # k /\ rank2[i] = rank[i] /\ rank2[i] < rank2[k]
  BY <1>0, <1>1, <1>4, <1>5 DEF InOrder
<1>7. ready[chain] => \A i \in Entered : ready[i]
  BY <1>1, <1>4, <1>5 DEF InOrder
<1>8. InOrder(rank2)'
  <2>1. \A i \in Entered' : rank2[i] <= rank2[chain'] /\ rank2[i] \in Nat
    BY <1>4, <1>5, <1>6
  <2>2. \A i, j \in Entered' : i # j => rank2[i] # rank2[j]
    BY <1>1, <1>4, <1>5, <1>6, <2>1 DEF InOrder
  <2>3. \A i, j \in Entered' : rank2[i] < rank2[j] /\ ready'[j] => ready'[i]
    <3> SUFFICES ASSUME NEW i \in Entered', NEW j \in Entered', rank2[i] < rank2[j], ready'[j]
                 PROVE  ready'[i]
      OBVIOUS
    <3>1. CASE j = k
      <4>1. l # "phase1" /\ i # k
        BY <1>3, <2>1, <3>1 DEF Resolved
      <4>2. i \in Entered /\ ready[i]
        BY <1>4, <1>7, <4>1
      <4> QED
        BY <1>3, <1>4, <4>1, <4>2
    <3>2. CASE j # k
      <4>1. j \in Entered /\ i # k
        BY <1>4, <1>5, <1>6, <2>1, <3>2
      <4>2. i \in Entered /\ rank[i] < rank[j]
        BY <1>4, <1>6, <4>1
      <4>3. ready[j]
        BY <1>3, <1>4, <3>2, <4>1
      <4>4. ready[i]
        BY <1>1, <4>1, <4>2, <4>3 DEF InOrder
      <4> QED
        BY <1>3, <1>4, <4>1, <4>2, <4>4
    <3> QED
      BY <3>1, <3>2
  <2>4. ASSUME NEW j \in Publishes, pc'[j] # "out"
        PROVE  prev'[j] \in Entered' /\ rank2[j] = rank2[prev'[j]] + 1
    <3>1. CASE j = k
      BY <1>3, <1>4, <1>6, <3>1
    <3>2. CASE j # k
      <4>1. pc[j] # "out" /\ prev'[j] = prev[j] /\ j \in Entered
        BY <1>3, <2>4, <3>2, <1>2 DEF Steps, Entered, TypeInv, FlipPlaces
      <4>2. prev[j] \in Entered /\ rank[j] = rank[prev[j]] + 1
        BY <1>1, <4>1 DEF InOrder
      <4> QED
        BY <1>4, <1>6, <4>1, <4>2
    <3> QED
      BY <3>1, <3>2
  <2>5. ASSUME NEW j \in Steps, pc'[j] \notin {"out", "node", "phase1"}, NEW i \in Entered',
               rank2[i] < rank2[j]
        PROVE  ready'[i]
    <3>1. CASE j = k
      <4>1. i # k
        BY <2>1, <2>5, <3>1, <1>4
      <4>2. i \in Entered /\ ready[i]
        BY <1>3, <1>4, <1>7, <2>5, <3>1, <4>1
      <4> QED
        BY <1>3, <1>4, <4>1, <4>2
    <3>2. CASE j # k
      <4>1. j \in Entered /\ pc[j] \notin {"out", "node", "phase1"}
        BY <1>3, <2>5, <3>2 DEF Entered
      <4>2. i # k
        BY <1>4, <1>5, <1>6, <2>1, <2>5, <4>1
      <4>3. i \in Entered /\ rank[i] < rank[j]
        BY <1>4, <1>6, <2>5, <4>1, <4>2
      <4>4. ready[i]
        BY <1>1, <4>1, <4>3 DEF InOrder
      <4> QED
        BY <1>3, <1>4, <4>2, <4>3, <4>4
    <3> QED
      BY <3>1, <3>2
  <2> QED
    BY <1>4, <2>1, <2>2, <2>3, <2>4, <2>5 DEF InOrder
<1>9. ready'[NoPublish] /\ \A j \in Steps : ready'[j] <=>
        pc'[j] \in Resolved \/ (pc'[j] = "swapped" /\ policy' = "overwrite")
  BY <1>2, <1>3 DEF ChainInv
<1> QED
  BY <1>6, <1>8, <1>9 DEF ChainInv

\* The chain is left alone, or a flip that is not in it moves towards its grant.
LEMMA ChainKept ==
    ASSUME TypeInv, ChainInv,
           chain' = chain, prev' = prev, policy' = policy, ready' = ready,
           pc' = pc \/ \E k \in Flips : pc[k] = "out" /\ pc' = [pc EXCEPT ![k] = "node"]
    PROVE  ChainInv'
<1>1. PICK rank \in [Steps \cup {NoPublish} -> Nat] : InOrder(rank)
  BY DEF ChainInv
<1>2. pc \in [Steps -> Places] /\ Flips \subseteq Steps /\ Publishes \cap Flips = {}
  BY VersionedAssumption DEF TypeInv, Steps
<1>3. \A j \in Steps : pc'[j] = pc[j] \/ (pc[j] = "out" /\ pc'[j] = "node" /\ j \notin Publishes)
  BY <1>2
<1>4. Entered' = Entered
  BY <1>3 DEF Entered
<1>5. InOrder(rank)'
  <2>1. \A j \in Publishes : pc'[j] = pc[j]
    BY <1>3 DEF Steps
  <2> QED
    BY <1>1, <1>3, <1>4, <2>1 DEF InOrder
<1>6. \A j \in Steps : ready'[j] <=>
        pc'[j] \in Resolved \/ (pc'[j] = "swapped" /\ policy' = "overwrite")
  BY <1>3 DEF ChainInv, Resolved
<1> QED
  BY <1>1, <1>5, <1>6 DEF ChainInv

\* A step resolves the chain when it moves to where the code triggers shadow_ready.
ReadyAt(l) == l \in Resolved \/ (l = "swapped" /\ policy = "overwrite")

\* A step that moves on without a change of ready.
LEMMA ChainAlong ==
    ASSUME TypeInv, ChainInv, NEW k \in Steps, NEW l \in Places \ {"out", "node", "phase1"},
           chain' = chain, prev' = prev, policy' = policy, pc' = [pc EXCEPT ![k] = l],
           pc[k] \notin {"out", "node"}, pc[k] = "phase1" => Gate(k),
           ready' = ready, ready[k] <=> ReadyAt(l)
    PROVE  ChainInv'
<1>1. ready \in [Steps \cup {NoPublish} -> BOOLEAN]
  BY DEF TypeInv
<1>2. ready' = [ready EXCEPT ![k] = ReadyAt(l)]
  BY <1>1 DEF ReadyAt
<1> QED
  BY <1>2, ChainMove DEF ReadyAt

\* A step that moves on and is resolved.
LEMMA ChainResolve ==
    ASSUME TypeInv, ChainInv, NEW k \in Steps, NEW l \in Places \ {"out", "node", "phase1"},
           chain' = chain, prev' = prev, policy' = policy, pc' = [pc EXCEPT ![k] = l],
           pc[k] \notin {"out", "node", "phase1"},
           ready' = [ready EXCEPT ![k] = TRUE], ReadyAt(l)
    PROVE  ChainInv'
<1>1. ready \in [Steps \cup {NoPublish} -> BOOLEAN]
  BY DEF TypeInv
<1>2. ready' = [ready EXCEPT ![k] = ReadyAt(l)] /\ ready'[k]
  BY <1>1
<1> QED
  BY <1>2, ChainMove DEF ReadyAt

\* Every step keeps the chain in order.
LEMMA ChainStep ==
    ASSUME TypeInv, ChainInv, [Next]_vars
    PROVE  ChainInv'
<1>1. pc \in [Steps -> Places] /\ ready \in [Steps \cup {NoPublish} -> BOOLEAN]
  BY DEF TypeInv
<1>r. \A k \in Steps : ready[k] <=> ReadyAt(pc[k])
  BY DEF ChainInv, ReadyAt
<1>2. CASE stage \/ discard \/ destroy \/ destroyed
  BY <1>2, ChainKept DEF stage, discard, destroy, destroyed, signals
<1>3. ASSUME NEW k \in Publishes, publish(k)
      PROVE  ChainInv'
  <2>1. k \in Steps /\ "phase1" \in Places \ {"out", "node", "swapped"} /\ "phase1" \notin Resolved
    BY DEF Steps, Places, PublishPlaces, Resolved
  <2>2. ~ready[k]
    BY <1>3, <1>r, <2>1 DEF publish, ReadyAt, Resolved
  <2>3. ready' = [ready EXCEPT ![k] = "phase1" \in Resolved]
    BY <1>1, <1>3, <2>1, <2>2 DEF publish
  <2> QED
    BY <1>3, <2>1, <2>3, ChainEnter DEF publish, Goto
<1>4. ASSUME NEW k \in Flips, flip(k)
      PROVE  ChainInv'
  BY <1>4, ChainKept DEF flip, signals, Goto
<1>5. ASSUME NEW k \in Steps, StepOf(k)
      PROVE  ChainInv'
  <2> USE DEF Goto, Places, PublishPlaces, FlipPlaces, Resolved
  <2>1. CASE phase1(k)
    <3>1. PICK l \in {"unstaged", "applying"} : pc' = [pc EXCEPT ![k] = l]
      BY <2>1 DEF phase1
    <3>2. ~ready[k] /\ ~ReadyAt(l)
      BY <1>r, <2>1, <3>1 DEF phase1, ReadyAt
    <3> QED
      BY <2>1, <3>1, <3>2, ChainAlong DEF phase1, signals
  <2>2. CASE trigger_swapped(k)
    <3>1. ~ready[k] /\ ~ReadyAt("unchain")
      BY <1>r, <2>2 DEF trigger_swapped, ReadyAt
    <3> QED
      BY <2>2, <3>1, ChainAlong DEF trigger_swapped
  <2>3. CASE trigger_ready(k)
    <3>1. ReadyAt("done")
      BY DEF ReadyAt
    <3> QED
      BY <2>3, <3>1, ChainResolve DEF trigger_ready
  <2>4. CASE apply_to_shadow(k)
    <3>1. PICK l \in {"granted", "queued"} : pc' = [pc EXCEPT ![k] = l]
      BY <2>4 DEF apply_to_shadow
    <3>2. ~ready[k] /\ ~ReadyAt(l)
      BY <1>r, <2>4, <3>1 DEF apply_to_shadow, ReadyAt
    <3> QED
      BY <2>4, <3>1, <3>2, ChainAlong DEF apply_to_shadow, signals
  <2>5. CASE phase2(k)
    <3>1. pc[k] \in {"queued", "granted"} /\ ~ready[k]
      BY <1>r, <2>5 DEF phase2, ReadyAt
    <3>2. CASE policy = "overwrite"
      <4>1. ReadyAt("swapped") /\ ready' = [ready EXCEPT ![k] = TRUE]
        BY <2>5, <3>2 DEF ReadyAt, phase2, start_resync
      <4> QED
        BY <2>5, <3>1, <4>1, ChainResolve DEF phase2
    <3>3. CASE policy # "overwrite"
      <4>1. ~ReadyAt("swapped") /\ ready' = ready
        BY <2>5, <3>3 DEF ReadyAt, phase2, start_resync
      <4> QED
        BY <2>5, <3>1, <4>1, ChainAlong DEF phase2
    <3> QED
      BY <3>2, <3>3
  <2>6. CASE phase2_end(k)
    <3>1. PICK l \in {"done", "resync"} :
            pc' = [pc EXCEPT ![k] = l] /\ (l = "done" <=> policy = "overwrite")
      BY <2>6 DEF phase2_end
    <3>2. ready[k] <=> ReadyAt(l)
      BY <1>r, <2>6, <3>1 DEF phase2_end, ReadyAt
    <3> QED
      BY <2>6, <3>1, <3>2, ChainAlong DEF phase2_end
  <2>7. CASE resync(k)
    <3>1. ReadyAt("resynced")
      BY DEF ReadyAt
    <3> QED
      BY <2>7, <3>1, ChainResolve DEF resync
  <2>8. CASE resync_end(k)
    <3>1. ready[k] <=> ReadyAt("done")
      BY <1>r, <2>8 DEF resync_end, ReadyAt
    <3> QED
      BY <2>8, <3>1, ChainAlong DEF resync_end, signals
  <2>9. CASE publish_into(k)
    <3>1. k \notin Publishes
      BY <2>9 DEF publish_into, TypeInv
    <3>2. CASE ~ready[chain]
      BY <2>9, <3>2, ChainKept DEF publish_into
    <3>3. CASE ready[chain]
      <4>1. ~ready[k]
        BY <1>r, <2>9 DEF publish_into, ReadyAt
      <4>2. PICK l \in {"idle", "applying"} :
              pc' = [pc EXCEPT ![k] = l] /\ ready' = [ready EXCEPT ![k] = l = "idle"]
        <5>1. CASE staged = <<>>
          BY <2>9, <3>3, <5>1 DEF publish_into
        <5>2. CASE staged # <<>>
          BY <1>1, <2>9, <3>3, <4>1, <5>2 DEF publish_into
        <5> QED
          BY <5>1, <5>2
      <4>3. (l = "idle") = (l \in Resolved)
        BY <4>2
      <4>4. chain' = k /\ policy' = policy /\ prev' = prev
        BY <2>9, <3>3 DEF publish_into
      <4>5. pc[k] = "node"
        BY <2>9 DEF publish_into
      <4>6. ready' = [ready EXCEPT ![k] = l \in Resolved]
        BY <4>2, <4>3
      <4> QED
        BY <3>1, <3>3, <4>2, <4>4, <4>5, <4>6, ChainEnter
    <3> QED
      BY <3>2, <3>3
  <2>10. CASE flip_idle(k)
    <3>1. ready[k] <=> ReadyAt("done")
      BY <1>r, <2>10 DEF flip_idle, ReadyAt
    <3> QED
      BY <2>10, <3>1, ChainAlong DEF flip_idle
  <2> QED
    BY <1>5, <2>1, <2>2, <2>3, <2>4, <2>5, <2>6, <2>7, <2>8, <2>9, <2>10 DEF StepOf
<1>6. CASE \E r \in Readers : read(r) \/ bind_view(r) \/ drop_view(r)
  BY <1>6, ChainKept DEF read, bind_view, drop_view, signals
<1>7. CASE UNCHANGED vars
  BY <1>7, ChainKept DEF vars, signals
<1> QED
  BY <1>2, <1>3, <1>4, <1>5, <1>6, <1>7 DEF Next

\* At most one step is past its gate and not resolved.
LEMMA OneOwner ==
    ASSUME TypeInv, ChainInv, NEW j \in Steps, NEW k \in Steps,
           pc[j] \notin {"out", "node", "phase1"}, ~ready[j],
           (pc[k] \notin {"out", "node", "phase1"} /\ ~ready[k]) \/ (pc[k] = "phase1" /\ Gate(k))
    PROVE  j = k
<1>1. PICK rank \in [Steps \cup {NoPublish} -> Nat] : InOrder(rank)
  BY DEF ChainInv
<1>2. j \in Entered /\ k \in Entered /\ rank[j] \in Nat /\ rank[k] \in Nat
  BY DEF Entered
<1>3. CASE pc[k] # "phase1"
  BY <1>1, <1>2, <1>3 DEF InOrder
<1>4. CASE pc[k] = "phase1" /\ Gate(k)
  <2>1. k \in Publishes
    BY <1>4 DEF TypeInv, Steps, PublishPlaces
  <2>2. prev[k] \in Entered /\ rank[k] = rank[prev[k]] + 1 /\ ready[prev[k]]
    BY <1>1, <1>4, <2>1 DEF InOrder, Gate
  <2>3. rank[prev[k]] \in Nat /\ prev[k] # j
    BY <2>2 DEF Entered
  <2>4. CASE rank[j] < rank[prev[k]]
    BY <1>1, <1>2, <2>2, <2>4 DEF InOrder
  <2>5. CASE rank[prev[k]] < rank[j]
    <3>1. rank[k] <= rank[j]
      BY <1>2, <2>2, <2>3, <2>5
    <3>2. CASE j # k
      <4>1. rank[k] < rank[j]
        BY <1>1, <1>2, <3>1, <3>2 DEF InOrder
      <4>2. ready[k]
        BY <1>1, <1>2, <4>1 DEF InOrder
      <4> QED
        BY <1>4, <4>2 DEF ChainInv, Resolved
    <3> QED
      BY <3>2
  <2> QED
    BY <1>1, <1>2, <2>2, <2>3, <2>4, <2>5 DEF InOrder
<1> QED
  BY <1>3, <1>4

-----------------------------------------------------------------------------
(* The replicas *)

\* The replicas and the batch are left alone by a step that takes up nothing.
LEMMA ReplicaKept ==
    ASSUME ReplicaInv,
           policy' = policy, front' = front, shadow' = shadow, batch' = batch,
           \A k \in Steps : \/ pc'[k] = pc[k] \/ pc'[k] \notin Owning
                            \/ pc[k] = "swapped" /\ pc'[k] = "resync",
           policy # "overwrite" => \A k \in Steps : Owns(k) => Owns(k)'
    PROVE  ReplicaInv'
<1>1. policy # "overwrite" /\ (\A k \in Steps : ~Owns(k)') => shadow' = front'
  BY DEF ReplicaInv
<1>2. \A k \in Steps :
        /\ policy # "overwrite" /\ pc'[k] = "applying" => shadow = front
        /\ pc'[k] \in {"queued", "granted"} =>
             shadow = IF policy = "overwrite" THEN batch ELSE front \o batch
        /\ policy = "replay" /\ pc'[k] \in {"swapped", "resync"} => front = shadow \o batch
  BY DEF ReplicaInv, Owning
<1> QED
  BY <1>1, <1>2 DEF ReplicaInv

\* A step that starts while nobody owns the shadow.
LEMMA ReplicaStart ==
    ASSUME TypeInv, ChainInv, ReplicaInv, NEW k \in Steps,
           \A j \in Steps : ~Owns(j),
           policy' = policy, front' = front, shadow' = shadow,
           NEW l \in {"unstaged", "applying", "idle"}, pc' = [pc EXCEPT ![k] = l],
           \A j \in Steps : j # k => ready'[j] = ready[j]
    PROVE  ReplicaInv'
<1>1. \A j \in Steps : pc'[j] = IF j = k THEN l ELSE pc[j]
  BY DEF TypeInv
<1>2. policy # "overwrite" => shadow = front
  BY DEF ReplicaInv
<1>3. \A j \in Steps : pc[j] \in {"applying", "queued", "granted", "resync"} => Owns(j)
  BY DEF ChainInv, Owns, Owning, Resolved
<1>4. \A j \in Steps : policy = "replay" /\ pc[j] = "swapped" => Owns(j)
  BY DEF ChainInv, Owns, Owning, Resolved
<1>5. \A j \in Steps : /\ pc'[j] \notin {"queued", "granted", "resync"}
                       /\ policy = "replay" => pc'[j] # "swapped"
  BY <1>1, <1>3, <1>4
<1> QED
  BY <1>2, <1>5 DEF ReplicaInv

\* When the chain is resolved everybody in it is.
LEMMA AllReady ==
    ASSUME TypeInv, ChainInv, ready[chain], NEW j \in Entered
    PROVE  ready[j]
<1>1. PICK rank \in [Steps \cup {NoPublish} -> Nat] : InOrder(rank)
  BY DEF ChainInv
<1>2. chain \in Entered
  BY <1>1 DEF InOrder
<1>3. rank[j] \in Nat /\ rank[chain] \in Nat /\ rank[j] <= rank[chain]
  BY <1>1, <1>2 DEF InOrder, Entered
<1>4. j # chain => rank[j] < rank[chain]
  BY <1>1, <1>2, <1>3 DEF InOrder
<1> QED
  BY <1>1, <1>2, <1>4 DEF InOrder

\* When the chain is resolved nobody owns the shadow.
LEMMA NoOwner ==
    ASSUME TypeInv, ChainInv, ready[chain], NEW j \in Steps
    PROVE  ~Owns(j)
BY AllReady DEF Owns, Owning, Entered

\* Every step keeps the replicas in step with each other.
LEMMA ReplicaStep ==
    ASSUME TypeInv, ChainInv, ReplicaInv, [Next]_vars
    PROVE  ReplicaInv'
<1>1. /\ pc \in [Steps -> Places] /\ ready \in [Steps \cup {NoPublish} -> BOOLEAN]
      /\ front \in Seq(Nat) /\ shadow \in Seq(Nat) /\ batch \in Seq(Nat)
      /\ history => policy # "replay"
  BY DEF TypeInv
<1>r. \A k \in Steps : ready[k] <=> ReadyAt(pc[k])
  BY DEF ChainInv, ReadyAt
<1>2. CASE stage \/ discard \/ destroy \/ destroyed
  BY <1>2, ReplicaKept DEF stage, discard, destroy, destroyed, signals, replicas, journal, Owns
<1>3. ASSUME NEW k \in Publishes, publish(k)
      PROVE  ReplicaInv'
  <2>1. /\ policy' = policy /\ front' = front /\ shadow' = shadow /\ batch' = batch /\ ready' = ready
        /\ k \in Steps /\ pc[k] = "out" /\ pc' = [pc EXCEPT ![k] = "phase1"]
    BY <1>3 DEF publish, Goto, replicas, journal, Steps
  <2>2. \A j \in Steps : pc'[j] = pc[j] \/ (pc'[j] \notin Owning /\ pc[j] \notin Owning)
    BY <1>1, <2>1 DEF Owning
  <2> QED
    BY <2>1, <2>2, ReplicaKept DEF Owns
<1>4. ASSUME NEW k \in Flips, flip(k)
      PROVE  ReplicaInv'
  <2>1. /\ policy' = policy /\ front' = front /\ shadow' = shadow /\ batch' = batch /\ ready' = ready
        /\ k \in Steps /\ pc[k] = "out" /\ pc' = [pc EXCEPT ![k] = "node"]
    BY <1>4 DEF flip, Goto, replicas, journal, signals, Steps
  <2>2. \A j \in Steps : pc'[j] = pc[j] \/ (pc'[j] \notin Owning /\ pc[j] \notin Owning)
    BY <1>1, <2>1 DEF Owning
  <2> QED
    BY <2>1, <2>2, ReplicaKept DEF Owns
<1>5. ASSUME NEW k \in Steps, StepOf(k)
      PROVE  ReplicaInv'
  <2> USE DEF Goto
  <2>0. ASSUME NEW j \in Steps, Owns(j), Owns(k) \/ (pc[k] = "phase1" /\ Gate(k))
        PROVE  j = k
    BY <2>0, OneOwner DEF Owns, Owning
  <2>1. CASE phase1(k)
    <3>1. \A j \in Steps : ~Owns(j)
      BY <2>0, <2>1 DEF phase1, Owns, Owning
    <3>2. PICK l \in {"unstaged", "applying"} : pc' = [pc EXCEPT ![k] = l]
      BY <2>1 DEF phase1
    <3> QED
      BY <2>1, <3>1, <3>2, ReplicaStart DEF phase1, replicas, signals
  <2>2. CASE trigger_swapped(k) \/ trigger_ready(k) \/ resync_end(k) \/ flip_idle(k)
    <3>1. /\ policy' = policy /\ front' = front /\ shadow' = shadow /\ batch' = batch
          /\ pc[k] \in {"unstaged", "unchain", "resynced", "idle"}
      BY <2>2 DEF trigger_swapped, trigger_ready, resync_end, flip_idle, replicas, journal
    <3>2. PICK l \in {"unchain", "done"} : pc' = [pc EXCEPT ![k] = l]
      BY <2>2 DEF trigger_swapped, trigger_ready, resync_end, flip_idle
    <3>3. \A j \in Steps : \/ pc'[j] = pc[j] /\ j # k
                           \/ pc'[j] \notin Owning /\ pc[j] \notin Owning
      BY <1>1, <3>1, <3>2 DEF Owning
    <3>4. \A j \in Steps : j # k => ready'[j] = ready[j]
      BY <1>1, <2>2 DEF trigger_swapped, trigger_ready, resync_end, flip_idle, signals
    <3> QED
      BY <3>1, <3>3, <3>4, ReplicaKept DEF Owns
  <2>4. CASE apply_to_shadow(k)
    <3>1. pc[k] = "applying" /\ Owns(k)
      BY <1>r, <2>4 DEF apply_to_shadow, Owns, Owning, ReadyAt, Resolved
    <3>2. \A j \in Steps : Owns(j) => j = k
      BY <2>0, <3>1
    <3>3. /\ policy' = policy /\ front' = front /\ batch' = batch /\ ready' = ready
          /\ shadow' = IF policy = "overwrite" THEN batch ELSE shadow \o batch
      BY <2>4 DEF apply_to_shadow, journal, signals, Apply
    <3>4. PICK l \in {"granted", "queued"} : pc' = [pc EXCEPT ![k] = l]
      BY <2>4 DEF apply_to_shadow
    <3>5. \A j \in Steps : pc'[j] = IF j = k THEN l ELSE pc[j]
      BY <1>1, <3>4
    <3>6. Owns(k)'
      BY <3>1, <3>3, <3>5 DEF Owns, Owning
    <3>7. policy # "overwrite" => shadow = front
      BY <3>1 DEF ReplicaInv
    <3>8. \A j \in Steps : j # k => /\ pc'[j] \notin {"applying", "queued", "granted", "resync"}
                                    /\ policy = "replay" => pc'[j] # "swapped"
      BY <1>r, <3>2, <3>5 DEF Owns, Owning, ReadyAt, Resolved
    <3> QED
      BY <3>3, <3>5, <3>6, <3>7, <3>8 DEF ReplicaInv
  <2>5. CASE phase2(k)
    <3>1. pc[k] \in {"queued", "granted"} /\ Owns(k)
      BY <1>r, <2>5 DEF phase2, Owns, Owning, ReadyAt, Resolved
    <3>2. \A j \in Steps : Owns(j) => j = k
      BY <2>0, <3>1
    <3>3. /\ policy' = policy /\ front' = shadow /\ pc' = [pc EXCEPT ![k] = "swapped"]
          /\ ~history => shadow' = front
          /\ policy # "overwrite" => ready' = ready /\ batch' = batch
      BY <2>5 DEF phase2, swap_replicas, start_resync
    <3>4. \A j \in Steps : pc'[j] = IF j = k THEN "swapped" ELSE pc[j]
      BY <1>1, <3>3
    <3>5. policy # "overwrite" => Owns(k)'
      BY <3>1, <3>3, <3>4 DEF Owns, Owning
    <3>6. policy = "replay" => front' = shadow' \o batch'
      <4>1. ASSUME policy = "replay"
            PROVE  shadow = front \o batch /\ shadow' = front /\ batch' = batch
        BY <1>1, <3>1, <3>3, <4>1 DEF ReplicaInv
      <4> QED
        BY <3>3, <4>1
    <3>7. \A j \in Steps : j # k => /\ pc'[j] \notin {"applying", "queued", "granted", "resync"}
                                    /\ policy = "replay" => pc'[j] # "swapped"
      BY <1>r, <3>2, <3>4 DEF Owns, Owning, ReadyAt, Resolved
    <3> QED
      BY <3>3, <3>4, <3>5, <3>6, <3>7 DEF ReplicaInv
  <2>6. CASE phase2_end(k)
    <3>1. /\ policy' = policy /\ front' = front /\ shadow' = shadow /\ batch' = batch /\ ready' = ready
          /\ pc[k] = "swapped"
          /\ pc' = [pc EXCEPT ![k] = IF policy = "overwrite" THEN "done" ELSE "resync"]
      BY <2>6 DEF phase2_end, replicas, journal
    <3>2. \A j \in Steps : pc'[j] = IF j = k THEN (IF policy = "overwrite" THEN "done" ELSE "resync")
                                    ELSE pc[j]
      BY <1>1, <3>1
    <3>3. policy # "overwrite" => \A j \in Steps : Owns(j) => Owns(j)'
      BY <3>1, <3>2 DEF Owns, Owning
    <3>4. \A j \in Steps : \/ pc'[j] = pc[j] \/ pc'[j] \notin Owning
                           \/ pc[j] = "swapped" /\ pc'[j] = "resync"
      BY <3>1, <3>2 DEF Owning
    <3> QED
      BY <3>1, <3>3, <3>4, ReplicaKept
  <2>7. CASE resync(k)
    <3>1. pc[k] = "resync" /\ Owns(k)
      BY <1>r, <2>7 DEF resync, Owns, Owning, ReadyAt, Resolved
    <3>2. \A j \in Steps : Owns(j) => j = k
      BY <2>0, <3>1
    <3>3. /\ policy' = policy /\ front' = front /\ pc' = [pc EXCEPT ![k] = "resynced"]
          /\ shadow' = front
      BY <2>7, <3>1 DEF resync, ReplicaInv, Apply
    <3>4. \A j \in Steps : pc'[j] = IF j = k THEN "resynced" ELSE pc[j]
      BY <1>1, <3>3
    <3>5. \A j \in Steps : /\ pc'[j] \notin {"applying", "queued", "granted", "resync"}
                           /\ policy = "replay" => pc'[j] # "swapped"
      BY <1>r, <3>2, <3>4 DEF Owns, Owning, ReadyAt, Resolved
    <3> QED
      BY <3>3, <3>5 DEF ReplicaInv
  <2>9. CASE publish_into(k)
    <3>0. policy' = policy /\ front' = front /\ shadow' = shadow
      BY <2>9 DEF publish_into, replicas
    <3>1. CASE ~ready[chain]
      BY <2>9, <3>0, <3>1, ReplicaKept DEF publish_into, journal, Owns
    <3>2. CASE ready[chain]
      <4>1. \A j \in Steps : ~Owns(j)
        BY <3>2, NoOwner
      <4>2. PICK l \in {"idle", "applying"} : pc' = [pc EXCEPT ![k] = l]
        BY <2>9, <3>2 DEF publish_into
      <4>3. \A j \in Steps : j # k => ready'[j] = ready[j]
        BY <1>1, <2>9, <3>2 DEF publish_into
      <4> QED
        BY <3>0, <4>1, <4>2, <4>3, ReplicaStart
    <3> QED
      BY <3>1, <3>2
  <2> QED
    BY <1>5, <2>1, <2>2, <2>4, <2>5, <2>6, <2>7, <2>9 DEF StepOf
<1>6. CASE \E r \in Readers : read(r) \/ bind_view(r) \/ drop_view(r)
  BY <1>6, ReplicaKept DEF read, bind_view, drop_view, signals, replicas, journal, Owns
<1>7. CASE UNCHANGED vars
  BY <1>7, ReplicaKept DEF vars, signals, replicas, journal, Owns
<1> QED
  BY <1>2, <1>3, <1>4, <1>5, <1>6, <1>7 DEF Next

-----------------------------------------------------------------------------
(* The commands *)

\* What a sequence with one more element holds.
LEMMA FlattenAppend ==
    ASSUME NEW s \in Seq(Nat), NEW x \in Nat
    PROVE  Flatten(Append(s, x)) = Flatten(s) \cup {x}
<1>1. /\ DOMAIN s = 1..Len(s) /\ DOMAIN Append(s, x) = 1..(Len(s) + 1) /\ Len(s) \in Nat
      /\ Append(s, x)[Len(s) + 1] = x /\ \A i \in 1..Len(s) : Append(s, x)[i] = s[i]
  OBVIOUS
<1>2. 1..(Len(s) + 1) = (1..Len(s)) \cup {Len(s) + 1}
  BY <1>1
<1> QED
  BY <1>1, <1>2 DEF Flatten

\* What two sequences in a row hold.
LEMMA ConcatFacts ==
    ASSUME NEW s \in Seq(Nat), NEW t \in Seq(Nat)
    PROVE  /\ s \o t \in Seq(Nat) /\ DOMAIN (s \o t) = 1..(Len(s) + Len(t))
           /\ \A i \in DOMAIN s : i \in DOMAIN (s \o t) /\ (s \o t)[i] = s[i]
           /\ \A i \in DOMAIN t : Len(s) + i \in DOMAIN (s \o t) /\ (s \o t)[Len(s) + i] = t[i]
           /\ \A i \in DOMAIN (s \o t) : i \in DOMAIN s \/ (i > Len(s) /\ i - Len(s) \in DOMAIN t
                                                              /\ (s \o t)[i] = t[i - Len(s)])
<1>1. /\ DOMAIN s = 1..Len(s) /\ DOMAIN t = 1..Len(t) /\ Len(s) \in Nat /\ Len(t) \in Nat
      /\ Len(s \o t) = Len(s) + Len(t) /\ s \o t \in Seq(Nat)
      /\ \A i \in 1..(Len(s) + Len(t)) : (s \o t)[i] = IF i <= Len(s) THEN s[i] ELSE t[i - Len(s)]
  BY ConcatProperties
<1>2. DOMAIN (s \o t) = 1..(Len(s) + Len(t))
  BY <1>1
<1> QED
  BY <1>1, <1>2

\* What two sequences in a row hold, and when they are in order.
LEMMA ConcatCommands ==
    ASSUME NEW s \in Seq(Nat), NEW t \in Seq(Nat)
    PROVE  /\ Flatten(s \o t) = Flatten(s) \cup Flatten(t)
           /\ Sorted(s) /\ Sorted(t) /\ Below(s, t) => Sorted(s \o t)
           /\ \A u \in Seq(Nat) : Below(s, u) /\ Below(t, u) => Below(s \o t, u)
<1> DEFINE st == s \o t
<1>1. /\ \A i \in DOMAIN s : i \in DOMAIN st /\ st[i] = s[i]
      /\ \A i \in DOMAIN t : Len(s) + i \in DOMAIN st /\ st[Len(s) + i] = t[i]
      /\ \A i \in DOMAIN st : i \in DOMAIN s \/ (i > Len(s) /\ i - Len(s) \in DOMAIN t
                                                   /\ st[i] = t[i - Len(s)])
  BY ConcatFacts
<1>2. /\ DOMAIN s = 1..Len(s) /\ DOMAIN t \subseteq Nat /\ Len(s) \in Nat /\ Len(t) \in Nat
      /\ DOMAIN st = 1..(Len(s) + Len(t))
  BY ConcatFacts
<1> HIDE DEF st
<1>3. Flatten(st) = Flatten(s) \cup Flatten(t)
  BY <1>1 DEF Flatten
<1>4. ASSUME Sorted(s), Sorted(t), Below(s, t), NEW i \in DOMAIN st, NEW j \in DOMAIN st, i < j
      PROVE  st[i] < st[j]
  <2>1. CASE j \in DOMAIN s
    <3>1. i \in DOMAIN s
      BY <1>2, <1>4, <2>1
    <3> QED
      BY <1>1, <1>4, <2>1, <3>1 DEF Sorted
  <2>2. CASE j \notin DOMAIN s /\ i \in DOMAIN s
    BY <1>1, <1>4, <2>2 DEF Below
  <2>3. CASE j \notin DOMAIN s /\ i \notin DOMAIN s
    <3>1. i - Len(s) < j - Len(s)
      BY <1>2, <1>4
    <3> QED
      BY <1>1, <1>4, <2>3, <3>1 DEF Sorted
  <2> QED
    BY <2>1, <2>2, <2>3
<1>5. \A u \in Seq(Nat) : Below(s, u) /\ Below(t, u) => Below(st, u)
  BY <1>1 DEF Below
<1> QED
  BY <1>3, <1>4, <1>5 DEF Sorted, st

\* The commands are left alone.
LEMMA CommandKept ==
    ASSUME CommandInv, policy' = policy, front' = front, versions' = versions, staged' = staged,
           num_staged' = num_staged, dropped' = dropped, IsGoing' <=> IsGoing,
           IsGoing => batch' = batch
    PROVE  CommandInv'
<1>1. Made' = Made
  BY DEF Made
<1>2. Underway' = Underway
  BY DEF Underway
<1>3. Accounted'
  BY <1>1, <1>2 DEF Accounted, CommandInv
<1> QED
  BY <1>3 DEF CommandInv

\* The batch is cut while no other one is on its way.
LEMMA CommandCut ==
    ASSUME CommandInv, ~IsGoing, policy' = policy, front' = front, versions' = versions,
           num_staged' = num_staged, dropped' = dropped,
           batch' = staged, staged' = <<>>, IsGoing' \/ staged = <<>>
    PROVE  CommandInv'
<1>1. Made' = Made
  BY DEF Made
<1>2. Underway = {} /\ Flatten(<<>>) = {}
  BY DEF Underway, Flatten
<1>3. Underway' = Flatten(staged) /\ Flatten(staged') = {}
  BY <1>2 DEF Underway
<1>4. Accounted'
  BY <1>1, <1>2, <1>3 DEF Accounted, CommandInv
<1>5. /\ Sorted(<<>>) /\ \A s : Below(s, <<>>)
  BY DEF Sorted, Below
<1>6. Sorted(staged) /\ (policy # "overwrite" => Sorted(front) /\ Below(front, staged))
  BY DEF CommandInv
<1>7. Sorted(batch') /\ Sorted(staged') /\ Below(batch', staged') /\ Below(front', staged')
  BY <1>5, <1>6
<1>8. policy' # "overwrite" => Sorted(front') /\ Below(front', batch')
  BY <1>6
<1> QED
  BY <1>4, <1>7, <1>8 DEF CommandInv

\* One step moves: whether a batch is on its way.
LEMMA GoingMove ==
    ASSUME TypeInv, NEW k \in Steps, NEW l, pc' = [pc EXCEPT ![k] = l]
    PROVE  /\ (pc[k] \in Going <=> l \in Going) => (IsGoing' <=> IsGoing)
           /\ l \in Going => IsGoing'
<1>1. \A j \in Steps : pc'[j] = IF j = k THEN l ELSE pc[j]
  BY DEF TypeInv
<1> QED
  BY <1>1 DEF IsGoing

\* A command is staged, with the next number.
LEMMA Command_stage ==
    ASSUME TypeInv, CommandInv, stage
    PROVE  CommandInv'
<1>1. /\ staged \in Seq(Nat) /\ num_staged \in Nat /\ front \in Seq(Nat) /\ batch \in Seq(Nat)
      /\ num_staged' = num_staged + 1 /\ staged' = Append(staged, num_staged + 1)
      /\ policy' = policy /\ front' = front /\ versions' = versions /\ dropped' = dropped
      /\ batch' = batch /\ pc' = pc
  BY DEF TypeInv, stage, replicas
<1>2. Made' = Made /\ Underway' = Underway /\ (IsGoing' <=> IsGoing)
  BY <1>1 DEF Made, Underway, IsGoing
<1>3. Flatten(staged') = Flatten(staged) \cup {num_staged + 1}
  BY <1>1, FlattenAppend
<1>4. Accounted'
  <2>1. 1..(num_staged + 1) = (1..num_staged) \cup {num_staged + 1}
    BY <1>1
  <2> QED
    BY <1>1, <1>2, <1>3, <2>1 DEF Accounted, CommandInv
<1>5. Flatten(staged) \subseteq 1..num_staged /\ (IsGoing => Flatten(batch) \subseteq 1..num_staged)
      /\ (policy # "overwrite" => Flatten(front) \subseteq 1..num_staged)
  BY DEF CommandInv, Accounted, Underway, Made
<1>6. /\ DOMAIN staged' = 1..(Len(staged) + 1) /\ DOMAIN staged = 1..Len(staged) /\ Len(staged) \in Nat
      /\ staged'[Len(staged) + 1] = num_staged + 1
      /\ \A i \in DOMAIN staged : staged'[i] = staged[i] /\ staged[i] < num_staged + 1
  <2>1. \A i \in DOMAIN staged : staged[i] \in 1..num_staged
    BY <1>5 DEF Flatten
  <2> QED
    BY <1>1, <2>1
<1>7. Sorted(staged')
  <2>1. Sorted(staged)
    BY DEF CommandInv
  <2>2. ASSUME NEW i \in DOMAIN staged', NEW j \in DOMAIN staged', i < j
        PROVE  staged'[i] < staged'[j]
    <3>1. i \in DOMAIN staged /\ (j \in DOMAIN staged \/ j = Len(staged) + 1)
      BY <1>6, <2>2
    <3> QED
      BY <1>6, <2>1, <2>2, <3>1 DEF Sorted
  <2> QED
    BY <2>2 DEF Sorted
<1>8. ASSUME NEW s \in Seq(Nat), Below(s, staged), Flatten(s) \subseteq 1..num_staged
      PROVE  Below(s, staged')
  <2>1. \A i \in DOMAIN s : s[i] < num_staged + 1
    <3>1. \A i \in DOMAIN s : s[i] \in 1..num_staged
      BY <1>8 DEF Flatten
    <3> QED
      BY <1>1, <3>1
  <2>2. \A j \in DOMAIN staged' : j \in DOMAIN staged \/ j = Len(staged) + 1
    BY <1>6
  <2> QED
    BY <1>6, <1>8, <2>1, <2>2 DEF Below
<1>9. IsGoing' => Sorted(batch') /\ Below(batch', staged')
  BY <1>1, <1>2, <1>5, <1>8 DEF CommandInv
<1>10. policy' # "overwrite" => /\ Sorted(front') /\ Below(front', staged')
                                /\ IsGoing' => Below(front', batch')
  BY <1>1, <1>2, <1>5, <1>8 DEF CommandInv
<1> QED
  BY <1>4, <1>7, <1>9, <1>10 DEF CommandInv

\* The staged commands become dropped ones.
LEMMA Command_discard ==
    ASSUME TypeInv, CommandInv, discard
    PROVE  CommandInv'
<1>1. /\ num_staged' = num_staged /\ staged' = <<>> /\ dropped' = dropped \cup Flatten(staged)
      /\ policy' = policy /\ front' = front /\ versions' = versions
      /\ batch' = batch /\ pc' = pc
  BY DEF discard, replicas, Flatten
<1>2. Made' = Made /\ Underway' = Underway /\ (IsGoing' <=> IsGoing)
  BY <1>1 DEF Made, Underway, IsGoing
<1>3. Flatten(staged') = {}
  BY <1>1 DEF Flatten
<1>4. Accounted'
  BY <1>1, <1>2, <1>3 DEF Accounted, CommandInv
<1>5. Sorted(<<>>) /\ \A s : Below(s, <<>>)
  BY DEF Sorted, Below
<1>6. Sorted(staged') /\ Below(batch', staged') /\ Below(front', staged')
  BY <1>1, <1>5
<1> QED
  BY <1>1, <1>2, <1>4, <1>6 DEF CommandInv

\* The swap makes the batch visible.
LEMMA Command_phase2 ==
    ASSUME TypeInv, ReplicaInv, CommandInv, NEW k \in Steps, phase2(k),
           \A j \in Steps : pc[j] \in Going => j = k
    PROVE  CommandInv'
<1>1. /\ front \in Seq(Nat) /\ batch \in Seq(Nat) /\ staged \in Seq(Nat) /\ pc \in [Steps -> Places]
      /\ versions \in Seq(Seq(Nat)) /\ shadow \in Seq(Nat)
  BY DEF TypeInv
<1>2. /\ pc[k] \in {"queued", "granted"} /\ pc' = [pc EXCEPT ![k] = "swapped"]
      /\ front' = shadow /\ versions' = Append(versions, shadow)
      /\ policy' = policy /\ staged' = staged /\ num_staged' = num_staged /\ dropped' = dropped
  BY DEF phase2, swap_replicas, Goto
<1>3. IsGoing /\ ~IsGoing'
  BY <1>1, <1>2 DEF IsGoing, Going
<1>4. shadow = IF policy = "overwrite" THEN batch ELSE front \o batch
  BY <1>2 DEF ReplicaInv
<1>5. Made' = Made \cup Flatten(batch)
  <2>1. CASE policy = "overwrite"
    <3>1. /\ DOMAIN versions' = 1..(Len(versions) + 1) /\ DOMAIN versions = 1..Len(versions)
          /\ Len(versions) \in Nat /\ versions'[Len(versions) + 1] = batch
          /\ \A n \in DOMAIN versions : versions'[n] = versions[n]
      BY <1>1, <1>2, <1>4, <2>1
    <3>2. DOMAIN versions' = DOMAIN versions \cup {Len(versions) + 1}
      BY <3>1
    <3>3. \A x : (\E n \in DOMAIN versions' : x \in Flatten(versions'[n])) <=>
                  (\E n \in DOMAIN versions : x \in Flatten(versions[n])) \/ x \in Flatten(batch)
      BY <3>1, <3>2
    <3>4. \A x : x \in Made <=> \E n \in DOMAIN versions : x \in Flatten(versions[n])
      BY <2>1 DEF Made
    <3>5. \A x : x \in Made' <=> \E n \in DOMAIN versions' : x \in Flatten(versions'[n])
      BY <1>2, <2>1 DEF Made
    <3> QED
      BY <3>3, <3>4, <3>5
  <2>2. CASE policy # "overwrite"
    BY <1>1, <1>2, <1>4, <2>2, ConcatCommands DEF Made
  <2> QED
    BY <2>1, <2>2
<1>6. Accounted'
  <2>1. Underway = Flatten(batch) /\ Underway' = {}
    BY <1>3 DEF Underway
  <2> QED
    BY <1>2, <1>5, <2>1 DEF Accounted, CommandInv
<1>7. policy # "overwrite" => Sorted(front') /\ Below(front', staged)
  BY <1>1, <1>2, <1>3, <1>4, ConcatCommands DEF CommandInv
<1> QED
  BY <1>2, <1>3, <1>6, <1>7 DEF CommandInv

\* Every step keeps the account of the commands.
LEMMA CommandStep ==
    ASSUME TypeInv, ChainInv, ReplicaInv, CommandInv, [Next]_vars
    PROVE  CommandInv'
<1>1. pc \in [Steps -> Places]
  BY DEF TypeInv
<1>r. \A k \in Steps : ready[k] <=> ReadyAt(pc[k])
  BY DEF ChainInv, ReadyAt
<1>g. \A k \in Steps : pc[k] \in Going => Owns(k)
  BY <1>r DEF Going, Owns, Owning, ReadyAt, Resolved
<1>2. CASE stage \/ discard
  BY <1>2, Command_stage, Command_discard
<1>3. CASE destroy \/ destroyed \/ \E r \in Readers : read(r) \/ bind_view(r) \/ drop_view(r)
  <2>1. /\ policy' = policy /\ front' = front /\ versions' = versions /\ staged' = staged
        /\ num_staged' = num_staged /\ dropped' = dropped /\ batch' = batch /\ pc' = pc
    BY <1>3 DEF destroy, destroyed, read, bind_view, drop_view, replicas, journal
  <2>2. IsGoing' <=> IsGoing
    BY <2>1 DEF IsGoing
  <2> QED
    BY <2>1, <2>2, CommandKept
<1>4. ASSUME NEW k \in Publishes, publish(k)
      PROVE  CommandInv'
  <2>1. /\ policy' = policy /\ front' = front /\ versions' = versions /\ staged' = staged
        /\ num_staged' = num_staged /\ dropped' = dropped /\ batch' = batch
        /\ k \in Steps /\ pc[k] = "out" /\ pc' = [pc EXCEPT ![k] = "phase1"]
    BY <1>4 DEF publish, replicas, journal, Goto, Steps
  <2>2. IsGoing' <=> IsGoing
    BY <1>1, <2>1 DEF IsGoing, Going
  <2> QED
    BY <2>1, <2>2, CommandKept
<1>5. ASSUME NEW k \in Flips, flip(k)
      PROVE  CommandInv'
  <2>1. /\ policy' = policy /\ front' = front /\ versions' = versions /\ staged' = staged
        /\ num_staged' = num_staged /\ dropped' = dropped /\ batch' = batch
        /\ k \in Steps /\ pc[k] = "out" /\ pc' = [pc EXCEPT ![k] = "node"]
    BY <1>5 DEF flip, replicas, journal, Goto, Steps
  <2>2. IsGoing' <=> IsGoing
    BY <1>1, <2>1 DEF IsGoing, Going
  <2> QED
    BY <2>1, <2>2, CommandKept
<1>6. ASSUME NEW k \in Steps, StepOf(k)
      PROVE  CommandInv'
  <2> USE DEF Goto
  <2>0. ASSUME NEW j \in Steps, Owns(j), Owns(k) \/ (pc[k] = "phase1" /\ Gate(k))
        PROVE  j = k
    BY <2>0, OneOwner DEF Owns, Owning
  <2>1. CASE phase1(k)
    <3>1. ~IsGoing /\ pc[k] = "phase1"
      BY <2>0, <2>1, <1>g DEF phase1, Owns, Owning, IsGoing, Going
    <3>2. policy' = policy /\ front' = front /\ versions' = versions
      BY <2>1 DEF phase1, replicas
    <3>3. CASE pc' = [pc EXCEPT ![k] = "unstaged"] /\ UNCHANGED journal
      <4>1. IsGoing' <=> IsGoing
        BY <1>1, <3>1, <3>3 DEF IsGoing, Going
      <4> QED
        BY <3>1, <3>2, <3>3, <4>1, CommandKept DEF journal
    <3>4. CASE staged = <<>> /\ Cut /\ pc' = [pc EXCEPT ![k] = "unstaged"]
      BY <3>1, <3>2, <3>4, CommandCut DEF Cut
    <3>5. CASE staged # <<>> /\ Cut /\ pc' = [pc EXCEPT ![k] = "applying"]
      BY <3>1, <3>2, <3>5, GoingMove, CommandCut DEF Cut, Going
    <3> QED
      BY <2>1, <3>3, <3>4, <3>5 DEF phase1
  <2>2. CASE trigger_swapped(k) \/ trigger_ready(k) \/ resync_end(k) \/ flip_idle(k) \/ phase2_end(k)
    <3>1. /\ policy' = policy /\ front' = front /\ versions' = versions /\ staged' = staged
          /\ num_staged' = num_staged /\ dropped' = dropped /\ batch' = batch
          /\ pc[k] \notin Going
      BY <2>2 DEF trigger_swapped, trigger_ready, resync_end, flip_idle, phase2_end, replicas, journal,
                  Going
    <3>2. PICK l \in {"unchain", "done", "resync"} : pc' = [pc EXCEPT ![k] = l]
      BY <2>2 DEF trigger_swapped, trigger_ready, resync_end, flip_idle, phase2_end
    <3> QED
      BY <3>1, <3>2, GoingMove, CommandKept DEF Going
  <2>3. CASE apply_to_shadow(k)
    <3>1. /\ policy' = policy /\ front' = front /\ versions' = versions /\ staged' = staged
          /\ num_staged' = num_staged /\ dropped' = dropped /\ batch' = batch
          /\ pc[k] \in Going
      BY <2>3 DEF apply_to_shadow, journal, Going
    <3>2. PICK l \in {"granted", "queued"} : pc' = [pc EXCEPT ![k] = l]
      BY <2>3 DEF apply_to_shadow
    <3> QED
      BY <3>1, <3>2, GoingMove, CommandKept DEF Going
  <2>4. CASE phase2(k)
    <3>1. pc[k] \in Going
      BY <2>4 DEF phase2, Going
    <3>2. \A j \in Steps : pc[j] \in Going => j = k
      BY <1>g, <2>0, <3>1
    <3> QED
      BY <2>4, <3>2, Command_phase2
  <2>5. CASE resync(k)
    <3>1. /\ policy' = policy /\ front' = front /\ versions' = versions /\ staged' = staged
          /\ num_staged' = num_staged /\ dropped' = dropped
          /\ pc[k] = "resync" /\ pc' = [pc EXCEPT ![k] = "resynced"]
      BY <2>5 DEF resync
    <3>2. Owns(k)
      BY <1>r, <3>1 DEF Owns, Owning, ReadyAt, Resolved
    <3>3. ~IsGoing
      BY <1>g, <2>0, <3>1, <3>2 DEF IsGoing, Going
    <3> QED
      <4>1. IsGoing' <=> IsGoing
        BY <1>1, <3>1 DEF IsGoing, Going
      <4> QED
        BY <3>1, <3>3, <4>1, CommandKept
  <2>6. CASE publish_into(k)
    <3>0. policy' = policy /\ front' = front /\ versions' = versions /\ pc[k] = "node"
      BY <2>6 DEF publish_into, replicas
    <3>1. CASE ~ready[chain]
      <4>1. pc' = pc /\ UNCHANGED journal
        BY <2>6, <3>1 DEF publish_into
      <4>2. IsGoing' <=> IsGoing
        BY <4>1 DEF IsGoing
      <4> QED
        BY <3>0, <4>1, <4>2, CommandKept DEF journal
    <3>2. CASE ready[chain]
      <4>1. ~IsGoing
        BY <1>g, <3>2, NoOwner DEF IsGoing
      <4>2. CASE staged = <<>>
        BY <2>6, <3>0, <3>2, <4>1, <4>2, CommandCut DEF publish_into, Cut
      <4>3. CASE staged # <<>>
        <5>1. pc' = [pc EXCEPT ![k] = "applying"]
          BY <2>6, <3>2, <4>3 DEF publish_into
        <5>2. IsGoing'
          BY <5>1, GoingMove DEF Going
        <5> QED
          BY <2>6, <3>0, <3>2, <4>1, <5>2, CommandCut DEF publish_into, Cut
      <4> QED
        BY <4>2, <4>3
    <3> QED
      BY <3>1, <3>2
  <2> QED
    BY <1>6, <2>1, <2>2, <2>3, <2>4, <2>5, <2>6 DEF StepOf
<1>7. CASE UNCHANGED vars
  <2>1. /\ policy' = policy /\ front' = front /\ versions' = versions /\ staged' = staged
        /\ num_staged' = num_staged /\ dropped' = dropped /\ batch' = batch /\ pc' = pc
    BY <1>7 DEF vars, replicas, journal
  <2>2. IsGoing' <=> IsGoing
    BY <2>1 DEF IsGoing
  <2> QED
    BY <2>1, <2>2, CommandKept
<1> QED
  BY <1>2, <1>3, <1>4, <1>5, <1>6, <1>7 DEF Next

-----------------------------------------------------------------------------
(* The end of the Versioned *)

\* A step moves while the Versioned is not dead, and triggers its returned task or not.
LEMMA LifeMove ==
    ASSUME TypeInv, LifeInv, NEW k \in Steps, NEW l, pc' = [pc EXCEPT ![k] = l],
           pc[k] \notin {"out", "done"}, life' = life \/ (life = "live" /\ life' = "fatal"),
           swapped' = swapped \/ swapped' = [swapped EXCEPT ![k] = TRUE],
           swapped'[k] => l \in {"unchain", "resync", "resynced", "done"}
    PROVE  LifeInv'
<1>1. \A j \in Steps : j # k => pc'[j] = pc[j] /\ swapped'[j] = swapped[j]
  BY DEF TypeInv
<1>2. pc'[k] = l /\ (swapped[k] => swapped'[k]) /\ pc[k] # "out"
  BY DEF TypeInv
<1>3. life # "dead"
  BY DEF LifeInv, DestroyedQuiet
<1>4. \A j \in Steps : swapped'[j] => pc'[j] \in {"unchain", "resync", "resynced", "done"}
  BY <1>1, <1>2 DEF LifeInv
<1>5. life' \in {"dying", "dead"} => \A j \in Steps : pc'[j] = "out" \/ swapped'[j]
  BY <1>1, <1>2 DEF LifeInv
<1> QED
  BY <1>3, <1>4, <1>5 DEF LifeInv, DestroyedQuiet

\* Every step keeps LifeInv; the destructor returns when nothing is going on.
LEMMA LifeStep ==
    ASSUME TypeInv, GrantInv, ChainInv, LifeInv, [Next]_vars
    PROVE  LifeInv'
<1>1. pc \in [Steps -> Places] /\ swapped \in [Steps -> BOOLEAN]
  BY DEF TypeInv
<1>2. CASE stage \/ discard
  BY <1>2 DEF stage, discard, signals, LifeInv, DestroyedQuiet
<1>3. CASE destroy
  BY <1>3 DEF destroy, signals, LifeInv, DestroyedQuiet
<1>4. CASE destroyed
  <2>1. /\ life = "dying" /\ ready[chain] /\ pipe = IdlePipe /\ life' = "dead"
        /\ pipe' = pipe /\ pc' = pc /\ swapped' = swapped
    BY <1>4 DEF destroyed, signals
  <2>2. pipe.holders = {}
    BY <2>1 DEF IdlePipe
  <2>3. ASSUME NEW k \in Steps
        PROVE  pc[k] \in {"out", "done"}
    <3>1. pc[k] \in {"out", "unchain", "resync", "resynced", "done"}
      BY <2>1 DEF LifeInv
    <3>2. pc[k] # "resynced"
      BY <2>2 DEF GrantInv
    <3>3. pc[k] \notin {"unchain", "resync"}
      <4>1. SUFFICES ASSUME pc[k] \in {"unchain", "resync"} PROVE FALSE
        OBVIOUS
      <4>2. ready[k]
        BY <2>1, <4>1, AllReady DEF Entered
      <4> QED
        BY <4>1, <4>2 DEF ChainInv, Resolved
    <3> QED
      BY <3>1, <3>2, <3>3
  <2>4. life = "dying" => \A k \in Steps : pc[k] = "out" \/ swapped[k]
    BY DEF LifeInv
  <2> QED
    BY <2>1, <2>3, <2>4 DEF LifeInv, DestroyedQuiet
<1>5. ASSUME NEW k \in Publishes, publish(k)
      PROVE  LifeInv'
  <2>1. /\ k \in Steps /\ life = "live" /\ life' = "live" /\ pc' = [pc EXCEPT ![k] = "phase1"]
        /\ pc[k] = "out" /\ swapped' = swapped
    BY <1>5 DEF publish, Goto, Steps
  <2>2. \A j \in Steps : swapped'[j] => pc'[j] \in {"unchain", "resync", "resynced", "done"}
    BY <1>1, <2>1 DEF LifeInv
  <2> QED
    BY <2>1, <2>2 DEF LifeInv, DestroyedQuiet
<1>6. ASSUME NEW k \in Flips, flip(k)
      PROVE  LifeInv'
  <2>1. /\ k \in Steps /\ life = "live" /\ life' = "live" /\ pc' = [pc EXCEPT ![k] = "node"]
        /\ pc[k] = "out" /\ swapped' = swapped
    BY <1>6 DEF flip, Goto, Steps, signals
  <2>2. \A j \in Steps : swapped'[j] => pc'[j] \in {"unchain", "resync", "resynced", "done"}
    BY <1>1, <2>1 DEF LifeInv
  <2> QED
    BY <2>1, <2>2 DEF LifeInv, DestroyedQuiet
<1>7. ASSUME NEW k \in Steps, StepOf(k)
      PROVE  LifeInv'
  <2> USE DEF Goto
  <2>0. swapped[k] => pc[k] \in {"unchain", "resync", "resynced", "done"}
    BY DEF LifeInv
  <2>1. CASE phase1(k)
    <3>1. ~swapped'[k] /\ swapped' = swapped /\ life' = life /\ pc[k] = "phase1"
      BY <2>0, <2>1 DEF phase1, signals
    <3>2. PICK l : pc' = [pc EXCEPT ![k] = l]
      BY <2>1 DEF phase1
    <3> QED
      BY <3>1, <3>2, LifeMove
  <2>2. CASE trigger_swapped(k)
    BY <2>2, LifeMove DEF trigger_swapped
  <2>3. CASE trigger_ready(k)
    BY <2>3, LifeMove DEF trigger_ready
  <2>4. CASE apply_to_shadow(k)
    <3>1. ~swapped'[k] /\ swapped' = swapped /\ life' = life /\ pc[k] = "applying"
      BY <2>0, <2>4 DEF apply_to_shadow, signals
    <3>2. PICK l : pc' = [pc EXCEPT ![k] = l]
      BY <2>4 DEF apply_to_shadow
    <3> QED
      BY <3>1, <3>2, LifeMove
  <2>5. CASE phase2(k)
    <3>1. ~swapped'[k] /\ swapped' = swapped /\ life' = life /\ pc[k] \in {"queued", "granted"}
      BY <2>0, <2>5 DEF phase2
    <3> QED
      BY <2>5, <3>1, LifeMove DEF phase2
  <2>6. CASE phase2_end(k)
    <3>1. PICK l \in {"done", "resync"} : pc' = [pc EXCEPT ![k] = l]
      BY <2>6 DEF phase2_end
    <3> QED
      BY <2>6, <3>1, LifeMove DEF phase2_end
  <2>7. CASE resync(k)
    BY <2>7, LifeMove DEF resync
  <2>8. CASE resync_end(k)
    BY <2>8, LifeMove DEF resync_end, signals
  <2>9. CASE publish_into(k)
    <3>1. pc[k] = "node" /\ ~swapped[k] /\ swapped' = swapped
      BY <2>0, <2>9 DEF publish_into
    <3>2. life \notin {"dying", "dead"} /\ life' \notin {"dying", "dead"}
      BY <2>9, <3>1 DEF LifeInv, publish_into
    <3>3. \A j \in Steps : j # k => pc'[j] = pc[j]
      BY <1>1, <2>9 DEF publish_into
    <3>4. \A j \in Steps : swapped'[j] => pc'[j] \in {"unchain", "resync", "resynced", "done"}
      BY <3>1, <3>3 DEF LifeInv
    <3> QED
      BY <3>2, <3>4 DEF LifeInv, DestroyedQuiet
  <2>10. CASE flip_idle(k)
    BY <2>10, LifeMove DEF flip_idle
  <2> QED
    BY <1>7, <2>1, <2>2, <2>3, <2>4, <2>5, <2>6, <2>7, <2>8, <2>9, <2>10 DEF StepOf
<1>8. CASE \E r \in Readers : read(r) \/ bind_view(r) \/ drop_view(r)
  <2>1. pc' = pc /\ swapped' = swapped /\ life' = life
    BY <1>8 DEF read, bind_view, drop_view, signals
  <2>2. life # "dead"
    BY <1>8 DEF read, bind_view, drop_view, LifeInv, DestroyedQuiet, IdlePipe, Holds
  <2> QED
    BY <2>1, <2>2 DEF LifeInv, DestroyedQuiet
<1>9. CASE UNCHANGED vars
  BY <1>9 DEF vars, signals, LifeInv, DestroyedQuiet
<1> QED
  BY <1>2, <1>3, <1>4, <1>5, <1>6, <1>7, <1>8, <1>9 DEF Next

-----------------------------------------------------------------------------
(* The theorems *)

\* The inductive invariant of a Versioned.
VersionedInv == GrantAndViewInv /\ ChainInv /\ ReplicaInv /\ CommandInv /\ LifeInv

\* A fresh Versioned, of any policy, satisfies it.
LEMMA InitVersionedInv ==
    ASSUME Init
    PROVE  VersionedInv
<1> USE DEF Init
<1>1. /\ front = <<>> /\ shadow = <<>> /\ previous = <<>> /\ versions = <<<<>>>>
      /\ staged = <<>> /\ batch = <<>> /\ <<>> \in Seq(Nat) /\ num_staged = 0 /\ dropped = {}
      /\ pipe.holders = {} /\ pipe.queue = <<>>
  BY DEF IdlePipe
<1>2. \A k \in Steps : pc[k] = "out" /\ ~swapped[k] /\ ~ready[k] /\ k # NoPublish
  BY VersionedAssumption
<1>3. TypeInv
  <2>1. history => policy # "replay"
    BY VersionedAssumption
  <2>2. pipe \in PipeType
    BY DEF IdlePipe, PipeType
  <2>3. versions \in Seq(Seq(Nat))
    BY <1>1
  <2>4. /\ front \in Seq(Nat) /\ shadow \in Seq(Nat) /\ previous \in Seq(Nat)
        /\ staged \in Seq(Nat) /\ batch \in Seq(Nat)
    BY <1>1
  <2>5. /\ pc \in [Steps -> Places]
        /\ \A k \in Publishes : pc[k] \notin FlipPlaces
        /\ \A k \in Flips : pc[k] \notin PublishPlaces
    BY <1>2 DEF Places, FlipPlaces, PublishPlaces, Steps
  <2> QED
    BY <2>1, <2>2, <2>3, <2>4, <2>5 DEF TypeInv
<1>4. GrantInv
  BY <1>1, <1>2 DEF GrantInv, Exclusive, Steps
<1>5. ViewInv
  <2>1. Len(versions) = 1 /\ versions[1] = <<>>
    BY <1>1
  <2> QED
    BY <1>1, <2>1 DEF ViewInv
<1>6. ChainInv
  <2>1. PICK rank : rank = [i \in Steps \cup {NoPublish} |-> 0]
    OBVIOUS
  <2>2. Entered = {NoPublish} /\ ready[NoPublish]
    BY <1>2 DEF Entered
  <2>3. InOrder(rank) /\ rank \in [Steps \cup {NoPublish} -> Nat]
    BY <1>2, <2>1, <2>2 DEF InOrder, Steps
  <2> QED
    BY <1>2, <2>2, <2>3 DEF ChainInv, Resolved
<1>7. ReplicaInv
  BY <1>1, <1>2 DEF ReplicaInv
<1>8. CommandInv
  <2>1. ~IsGoing
    BY <1>2 DEF IsGoing, Going
  <2>2. Flatten(<<>>) = {} /\ 1..0 = {} /\ Sorted(<<>>) /\ Below(<<>>, <<>>)
    BY DEF Flatten, Sorted, Below
  <2>3. Made = {}
    <3>1. DOMAIN versions = {1} /\ versions[1] = <<>>
      BY <1>1
    <3> QED
      BY <1>1, <2>2, <3>1 DEF Made
  <2>4. Accounted
    BY <1>1, <2>1, <2>2, <2>3 DEF Accounted, Underway
  <2> QED
    BY <1>1, <2>1, <2>2, <2>4 DEF CommandInv
<1>9. LifeInv
  BY <1>2 DEF LifeInv, DestroyedQuiet
<1> QED
  BY <1>3, <1>4, <1>5, <1>6, <1>7, <1>8, <1>9 DEF VersionedInv, GrantAndViewInv

\* VersionedInv is an inductive invariant: it holds of a fresh Versioned and every step
\* of every thread keeps it.
THEOREM VersionedInductive == SafetySpec => []VersionedInv
<1>1. Init => VersionedInv
  BY InitVersionedInv
<1>2. VersionedInv /\ [Next]_vars => VersionedInv'
  BY GrantAndViewStep, ChainStep, ReplicaStep, CommandStep, LifeStep DEF VersionedInv, GrantAndViewInv
<1> QED
  BY <1>1, <1>2, PTL DEF SafetySpec

\* What a reader has bound does not change while it holds its view, and is a published
\* version with, under history, the one before it: no swap is made beside a view.
THEOREM ViewsStable == SafetySpec => []ViewStable
<1>1. VersionedInv => ViewStable
  BY DEF VersionedInv, GrantAndViewInv, ViewInv, ViewStable
<1> QED
  BY <1>1, VersionedInductive, PTL

\* Every batch is applied to a replica equal to the front, and the shadow and the batch
\* have one owner at a time: the chain of publishes serialises them.
THEOREM ReplicasInStep == SafetySpec => []ReplicasConverge
<1>1. ASSUME VersionedInv
      PROVE  ReplicasConverge
  <2>1. TypeInv /\ ChainInv /\ ReplicaInv
    BY <1>1 DEF VersionedInv, GrantAndViewInv
  <2>2. \A k \in Steps : pc[k] \in {"applying", "queued", "granted", "resync"} => Owns(k)
    BY <2>1 DEF ChainInv, Owns, Owning, Resolved
  <2>3. ASSUME NEW k \in Steps, pc[k] = "phase1", Gate(k), policy # "overwrite"
        PROVE  shadow = front
    <3>1. \A j \in Steps : ~Owns(j)
      BY <2>1, <2>3, OneOwner DEF Owns, Owning
    <3> QED
      BY <2>1, <2>3, <3>1 DEF ReplicaInv
  <2>4. ASSUME NEW k \in Steps, pc[k] = "applying", policy # "overwrite"
        PROVE  shadow = front
    BY <2>1, <2>4 DEF ReplicaInv
  <2>5. ASSUME NEW j \in Steps, NEW k \in Steps, Owns(j), Owns(k)
        PROVE  j = k
    BY <2>1, <2>5, OneOwner DEF Owns, Owning
  <2> QED
    BY <2>2, <2>3, <2>4, <2>5 DEF ReplicasConverge
<1> QED
  BY <1>1, VersionedInductive, PTL

\* No staged command is lost, applied twice or applied out of order, and nothing goes on
\* after the destructor has returned.
THEOREM CommandsPublishedOnce == SafetySpec => []WritesKept
<1>1. ASSUME VersionedInv
      PROVE  WritesKept
  <2>1. CommandInv /\ DestroyedQuiet
    BY <1>1 DEF VersionedInv, LifeInv
  <2>2. policy # "overwrite" => \A i, j \in DOMAIN front : i < j => front[i] < front[j]
    BY <2>1 DEF CommandInv, Sorted
  <2>3. Made \cup Underway \cup Flatten(staged) \cup dropped = 1..num_staged
    BY <2>1 DEF CommandInv, Accounted
  <2>4. NoLostWrites
    BY <2>2, <2>3 DEF NoLostWrites, Made, Underway, IsGoing, Going
  <2> QED
    BY <2>1, <2>4 DEF WritesKept
<1> QED
  BY <1>1, VersionedInductive, PTL
=============================================================================
