----------------------------- MODULE PipeProofs -----------------------------
(***************************************************************************)
(* Proofs about Pipe, for every set of pipes, of accesses and of modes.    *)
(***************************************************************************)
EXTENDS Pipe, TLAPS, FiniteSetTheorems, SequenceTheorems, WellFoundedInduction

-----------------------------------------------------------------------------
(* Canonical order *)

\* A non-empty set of links has a least one: the cascade, the probe and the
\* release loop always have a next pipe to go to.
LEMMA LeastInSet ==
    ASSUME NEW t, NEW S, S \subseteq Nat, S # {}
    PROVE  /\ Least(t, S) \in S
           /\ \A q \in S \ {Least(t, S)} : Least(t, S) < q
<1>1. \E x \in S : \A y \in S : ~(<<y, x>> \in OpToRel(<, Nat))
  BY NatLessThanWellFounded, WFMin
<1>2. PICK x \in S : \A y \in S : ~(<<y, x>> \in OpToRel(<, Nat))
  BY <1>1
<1>3. \A y \in S : ~(y < x)
  BY <1>2 DEF OpToRel
<1>4. \A q \in S \ {x} : x < q
  BY <1>3
<1>5. \E z \in S : \A q \in S \ {z} : Before(t, z, q)
  BY <1>4 DEF Before
<1> QED
  BY <1>5 DEF Least, Before

\* The facts about the constants that the steps below use.
LEMMA LinkFacts ==
    ASSUME NEW t \in Tasks
    PROVE  /\ Wants(t) \subseteq Pipes /\ Wants(t) \subseteq Nat /\ Wants(t) # {}
           /\ IsFiniteSet(Wants(t))
           /\ First(t) \in Wants(t)
           /\ \A q \in Wants(t) \ {First(t)} : First(t) < q
           /\ \A p \in Wants(t) : Mode[t][p] \in Modes
<1>1. Wants(t) \subseteq Pipes /\ Wants(t) # {} /\ IsFiniteSet(Wants(t)) /\ Pipes \subseteq Nat
  BY PipeAssumption
<1>2. \A p \in Wants(t) : Mode[t][p] \in Modes
  BY PipeAssumption
<1>3. First(t) \in Wants(t) /\ \A q \in Wants(t) \ {First(t)} : First(t) < q
  BY <1>1, LeastInSet DEF First
<1> QED
  BY <1>1, <1>2, <1>3

\* The link the cascade enters after p is the next one in address order.
LEMMA NextLink ==
    ASSUME NEW t \in Tasks, NEW p \in Wants(t), After(t, p) # {}
    PROVE  LET q == Least(t, After(t, p)) IN
           /\ q \in Wants(t) /\ p < q /\ q # p
           /\ \A r \in Wants(t) : p < r /\ r # q => q < r
<1>1. After(t, p) \subseteq Nat
  BY LinkFacts DEF After
<1>2. After(t, p) = {q \in Wants(t) : q # p /\ p < q}
  BY DEF After, Before
<1>3. /\ Least(t, After(t, p)) \in After(t, p)
      /\ \A q \in After(t, p) \ {Least(t, After(t, p))} : Least(t, After(t, p)) < q
  BY <1>1, LeastInSet
<1> QED
  BY <1>2, <1>3, LinkFacts

-----------------------------------------------------------------------------
(* The inductive invariant *)

\* TypeOK, with the counters that only the rest of the invariant keeps from
\* running below zero taken as integers.
TypeInv ==
    /\ queue \in [Pipes -> Seq(Tasks)]
    /\ active_readers \in [Pipes -> Int]
    /\ writer_active \in [Pipes -> BOOLEAN]
    /\ writer_owner \in [Pipes -> Tasks \cup {NoTask}]
    /\ write_epoch \in [Pipes -> Nat]
    /\ mutex \in [Pipes -> Tasks \cup {NoTask}]
    /\ life \in [Pipes -> {"live", "waiting", "woken", "dead"}]
    /\ phase \in [Tasks -> Phases]
    /\ frame \in [Tasks -> [Pipes -> FrameStates]]
    /\ num_locks \in [Tasks -> Int]
    /\ advanced \in [Tasks -> SUBSET Pipes]
    /\ \A t \in Tasks : advanced[t] \subseteq Wants(t)
    /\ completed \in [Tasks -> BOOLEAN]
    /\ refcount \in [Tasks -> Int]
    /\ handle \in [Tasks -> BOOLEAN]
    /\ seen \in [Tasks -> [Pipes -> Nat]]
    /\ stack \in [Carriers -> Seq(Tasks \X Pipes)]

\* An entry takes at most one reference.
LEMMA EntryRefType == \A t \in Tasks : EntryRef(t) \in {0, 1}
  BY DEF EntryRef

\* admit_locked keeps the types of struct Pipe's fields.
LEMMA AdmitType ==
    ASSUME TypeInv, NEW t \in Tasks, NEW S \in SUBSET Pipes, admit_locked(t, S)
    PROVE  /\ active_readers' \in [Pipes -> Int]
           /\ writer_active' \in [Pipes -> BOOLEAN]
           /\ writer_owner' \in [Pipes -> Tasks \cup {NoTask}]
           /\ write_epoch' \in [Pipes -> Nat]
  BY DEF TypeInv, admit_locked

\* What pops, pushes and appends do to the types of queues and stacks.
LEMMA PopType ==
    ASSUME NEW I, NEW X, NEW f \in [I -> Seq(X)], NEW c \in I, f[c] # <<>>
    PROVE  [f EXCEPT ![c] = Tail(@)] \in [I -> Seq(X)]
<1>1. Tail(f[c]) \in Seq(X)
  BY HeadTailProperties
<1> QED
  BY <1>1

\* Appending to a queue and pushing on a stack keep the type.
LEMMA PushType ==
    ASSUME NEW I, NEW X, NEW f \in [I -> Seq(X)], NEW c \in I, NEW x \in X
    PROVE  /\ [f EXCEPT ![c] = Append(@, x)] \in [I -> Seq(X)]
           /\ [f EXCEPT ![c] = <<x>> \o @] \in [I -> Seq(X)]
<1>1. Append(f[c], x) \in Seq(X) /\ <<x>> \in Seq(X)
  BY AppendProperties
<1>2. <<x>> \o f[c] \in Seq(X)
  BY <1>1, ConcatProperties
<1> QED
  BY <1>1, <1>2

\* Moving one link to another state keeps the type of `frame`.
LEMMA FrameType ==
    ASSUME NEW fr \in [Tasks -> [Pipes -> FrameStates]], NEW t \in Tasks, NEW p \in Pipes,
           NEW v \in FrameStates
    PROVE  [fr EXCEPT ![t][p] = v] \in [Tasks -> [Pipes -> FrameStates]]
  OBVIOUS

\* pipe_enter_link keeps every type, whether it admits or queues.
LEMMA EnterType ==
    ASSUME TypeInv, NEW t \in Tasks, NEW p \in Pipes, NEW c \in Carriers,
           NEW fr \in [Tasks -> [Pipes -> FrameStates]], pipe_enter_link(t, p, c, fr)
    PROVE  /\ active_readers' \in [Pipes -> Int]
           /\ writer_active' \in [Pipes -> BOOLEAN]
           /\ writer_owner' \in [Pipes -> Tasks \cup {NoTask}]
           /\ write_epoch' \in [Pipes -> Nat]
           /\ frame' \in [Tasks -> [Pipes -> FrameStates]]
           /\ queue' \in [Pipes -> Seq(Tasks)]
           /\ stack' \in [Carriers -> Seq(Tasks \X Pipes)]
<1> USE DEF FrameStates
<1>1. CASE AdmitNow(t, p)
  <2>1. /\ admit_locked(t, {p}) /\ frame' = [fr EXCEPT ![t][p] = "granted"]
        /\ stack' = [stack EXCEPT ![c] = <<<<t, p>>>> \o @] /\ queue' = queue
    BY <1>1 DEF pipe_enter_link
  <2>2. frame' \in [Tasks -> [Pipes -> FrameStates]]
    BY <2>1, FrameType
  <2>3. stack' \in [Carriers -> Seq(Tasks \X Pipes)]
    <3>1. stack \in [Carriers -> Seq(Tasks \X Pipes)] /\ <<t, p>> \in Tasks \X Pipes
      BY DEF TypeInv
    <3> QED
      BY <2>1, <3>1, PushType
  <2> QED
    BY <2>1, <2>2, <2>3, AdmitType DEF TypeInv
<1>2. CASE ~AdmitNow(t, p)
  <2>1. /\ queue' = [queue EXCEPT ![p] = Append(@, t)]
        /\ frame' = [fr EXCEPT ![t][p] = "queued"] /\ UNCHANGED <<pipeVars, stack>>
    BY <1>2 DEF pipe_enter_link
  <2>2. frame' \in [Tasks -> [Pipes -> FrameStates]]
    BY <2>1, FrameType
  <2>3. queue' \in [Pipes -> Seq(Tasks)]
    BY <2>1, PushType DEF TypeInv
  <2> QED
    BY <2>1, <2>2, <2>3 DEF TypeInv, pipeVars
<1> QED
  BY <1>1, <1>2

\* Every action preserves the types.
LEMMA TypeStep == TypeInv /\ [Next]_vars => TypeInv'
<1> SUFFICES ASSUME TypeInv, [Next]_vars PROVE TypeInv'
  OBVIOUS
<1> USE DEF Phases, FrameStates
<1>1. ASSUME NEW t \in Tasks, launch(t) PROVE TypeInv'
  <2>1. First(t) \in Pipes /\ <<"submit", t>> \in Carriers
    BY LinkFacts DEF Carriers
  <2>2. Cardinality(Wants(t)) \in Int
    BY LinkFacts, FS_CardinalityType
  <2>3. frame \in [Tasks -> [Pipes -> FrameStates]] /\ pipe_enter_link(t, First(t), <<"submit", t>>, frame)
    BY <1>1 DEF launch, TypeInv
  <2>4. /\ active_readers' \in [Pipes -> Int]
        /\ writer_active' \in [Pipes -> BOOLEAN]
        /\ writer_owner' \in [Pipes -> Tasks \cup {NoTask}]
        /\ write_epoch' \in [Pipes -> Nat]
        /\ frame' \in [Tasks -> [Pipes -> FrameStates]]
        /\ queue' \in [Pipes -> Seq(Tasks)]
        /\ stack' \in [Carriers -> Seq(Tasks \X Pipes)]
    BY <2>1, <2>3, EnterType
  <2>5. refcount' \in [Tasks -> Int]
    BY <1>1 DEF launch, EntryRef, TypeInv
  <2> QED
    BY <1>1, <2>2, <2>4, <2>5 DEF TypeInv, launch
<1>2. ASSUME NEW t \in Tasks, fire(t) PROVE TypeInv'
  <2>1. Cardinality(Wants(t)) \in Int
    BY LinkFacts, FS_CardinalityType
  <2>2. phase' \in [Tasks -> Phases]
    BY <1>2 DEF TypeInv, fire
  <2> QED
    BY <1>2, <2>1, <2>2 DEF TypeInv, fire, pipeVars
<1>3. ASSUME NEW t \in Tasks, lock_pipe(t) PROVE TypeInv'
  BY <1>3 DEF TypeInv, lock_pipe, pipeVars
<1>4. ASSUME NEW t \in Tasks, pipe_try_inline(t) PROVE TypeInv'
  <2>1. mutex' \in [Pipes -> Tasks \cup {NoTask}]
    BY <1>4 DEF TypeInv, pipe_try_inline
  <2>2. CASE /\ admit_locked(t, Wants(t))
             /\ frame' = [frame EXCEPT ![t] =
                          [p \in Pipes |-> IF p \in Wants(t) THEN "fired" ELSE @[p]]]
             /\ phase' = [phase EXCEPT ![t] = "ready"]
    <3>1. frame' \in [Tasks -> [Pipes -> FrameStates]]
      BY <2>2 DEF TypeInv
    <3> QED
      BY <1>4, <2>1, <2>2, <3>1, AdmitType, LinkFacts DEF TypeInv, pipe_try_inline
  <2>3. CASE phase' = [phase EXCEPT ![t] = "entering"] /\ UNCHANGED <<pipeVars, frame>>
    BY <1>4, <2>1, <2>3 DEF TypeInv, pipe_try_inline, pipeVars
  <2> QED
    BY <1>4, <2>2, <2>3 DEF pipe_try_inline
<1>5. ASSUME NEW t \in Tasks, pipe_enter_first(t) PROVE TypeInv'
  <2>1. First(t) \in Pipes /\ <<"submit", t>> \in Carriers
    BY LinkFacts DEF Carriers
  <2> QED
    BY <1>5, <2>1, EnterType DEF TypeInv, pipe_enter_first
<1>6. ASSUME NEW t \in Tasks, pipe_acquire(t) PROVE TypeInv'
  <2>1. First(t) \in Pipes
    BY LinkFacts
  <2>2. CASE AdmitNow(t, First(t))
    <3>1. /\ admit_locked(t, {First(t)}) /\ queue' = queue
          /\ frame' = [frame EXCEPT ![t][First(t)] = "fired"]
          /\ phase' = [phase EXCEPT ![t] = "running"]
          /\ seen' = [seen EXCEPT ![t] = write_epoch']
          /\ UNCHANGED <<mutex, life, num_locks, advanced, completed, refcount, handle, stack>>
      BY <1>6, <2>2 DEF pipe_acquire
    <3>2. frame' \in [Tasks -> [Pipes -> FrameStates]]
      BY <2>1, <3>1, FrameType DEF TypeInv
    <3>3. seen' \in [Tasks -> [Pipes -> Nat]]
      BY <2>1, <3>1, AdmitType DEF TypeInv
    <3> QED
      BY <2>1, <3>1, <3>2, <3>3, AdmitType DEF TypeInv
  <2>3. CASE ~AdmitNow(t, First(t))
    <3>1. /\ queue' = [queue EXCEPT ![First(t)] = Append(@, t)]
          /\ frame' = [frame EXCEPT ![t][First(t)] = "queued"]
          /\ phase' = [phase EXCEPT ![t] = "waiting"]
          /\ UNCHANGED <<pipeVars, seen>>
          /\ UNCHANGED <<mutex, life, num_locks, advanced, completed, refcount, handle, stack>>
      BY <1>6, <2>3 DEF pipe_acquire
    <3>2. frame' \in [Tasks -> [Pipes -> FrameStates]]
      BY <2>1, <3>1, FrameType DEF TypeInv
    <3>3. queue' \in [Pipes -> Seq(Tasks)]
      BY <2>1, <3>1, PushType DEF TypeInv
    <3> QED
      BY <3>1, <3>2, <3>3 DEF TypeInv, pipeVars
  <2> QED
    BY <2>2, <2>3
<1>7. ASSUME NEW c \in Carriers, NEW t \in Tasks, NEW p \in Wants(t), cascade(c, t, p)
      PROVE TypeInv'
  <2> DEFINE q == Least(t, After(t, p))
             fr == [frame EXCEPT ![t][p] = "cascaded"]
  <2>1. q \in Pipes /\ p \in Pipes
    BY <1>7, NextLink, LinkFacts DEF cascade
  <2>2. fr \in [Tasks -> [Pipes -> FrameStates]]
    BY <2>1, FrameType DEF TypeInv
  <2>3. pipe_enter_link(t, q, c, fr)
    BY <1>7 DEF cascade
  <2> HIDE DEF q, fr
  <2>4. /\ active_readers' \in [Pipes -> Int]
        /\ writer_active' \in [Pipes -> BOOLEAN]
        /\ writer_owner' \in [Pipes -> Tasks \cup {NoTask}]
        /\ write_epoch' \in [Pipes -> Nat]
        /\ frame' \in [Tasks -> [Pipes -> FrameStates]]
        /\ queue' \in [Pipes -> Seq(Tasks)]
        /\ stack' \in [Carriers -> Seq(Tasks \X Pipes)]
    BY <2>1, <2>2, <2>3, EnterType
  <2>5. refcount' \in [Tasks -> Int]
    BY <1>7 DEF cascade, EntryRef, TypeInv
  <2> QED
    BY <1>7, <2>4, <2>5 DEF TypeInv, cascade
<1>8. ASSUME NEW c \in Carriers, NEW t \in Tasks, NEW p \in Wants(t), turn(c, t, p)
      PROVE TypeInv'
  <2>1. p \in Pipes
    BY LinkFacts
  <2>2. stack' \in [Carriers -> Seq(Tasks \X Pipes)]
    <3>1. stack \in [Carriers -> Seq(Tasks \X Pipes)] /\ stack[c] # <<>>
      BY <1>8 DEF TypeInv, turn, Firing
    <3>2. [stack EXCEPT ![c] = Tail(@)] \in [Carriers -> Seq(Tasks \X Pipes)]
      BY <3>1, PopType
    <3> QED
      BY <1>8, <3>1, <3>2 DEF turn, pop
  <2>3. frame' \in [Tasks -> [Pipes -> FrameStates]]
    <3>1. /\ [frame EXCEPT ![t][p] = "turned"] \in [Tasks -> [Pipes -> FrameStates]]
          /\ [frame EXCEPT ![t][p] = "fired"] \in [Tasks -> [Pipes -> FrameStates]]
      BY <2>1, FrameType DEF TypeInv
    <3> QED
      BY <1>8, <3>1 DEF turn
  <2>4. phase' \in [Tasks -> Phases] /\ refcount' \in [Tasks -> Int] /\ num_locks' \in [Tasks -> Int]
    <3>1. num_locks' = [num_locks EXCEPT ![t] = @ - 1]
          /\ \/ UNCHANGED <<phase, refcount>>
             \/ /\ phase' = [phase EXCEPT ![t] = "ready"]
                /\ refcount' = [refcount EXCEPT ![t] = @ + EntryRef(t)]
      BY <1>8 DEF turn
    <3>2. QED
      <4>1. num_locks' \in [Tasks -> Int]
        BY <3>1 DEF TypeInv
      <4>2. [phase EXCEPT ![t] = "ready"] \in [Tasks -> Phases]
        BY DEF TypeInv
      <4>3. [refcount EXCEPT ![t] = @ + EntryRef(t)] \in [Tasks -> Int]
        <5>1. EntryRef(t) \in Int /\ refcount \in [Tasks -> Int]
          BY EntryRefType DEF TypeInv
        <5> QED
          BY <5>1
      <4> QED
        BY <3>1, <4>1, <4>2, <4>3 DEF TypeInv
  <2> QED
    BY <1>8, <2>1, <2>2, <2>3, <2>4 DEF TypeInv, turn, pipeVars
<1>9. ASSUME NEW c \in Carriers, NEW t \in Tasks, NEW p \in Wants(t), drop_entry_ref(c, t, p)
      PROVE TypeInv'
  <2>1. p \in Pipes
    BY LinkFacts
  <2>2. stack' \in [Carriers -> Seq(Tasks \X Pipes)]
    BY <1>9, PopType DEF TypeInv, drop_entry_ref, Firing, pop
  <2>3. frame' \in [Tasks -> [Pipes -> FrameStates]]
    BY <1>9, <2>1, FrameType DEF TypeInv, drop_entry_ref
  <2> QED
    BY <1>9, <2>2, <2>3 DEF TypeInv, drop_entry_ref, pipeVars
<1>10. ASSUME NEW c \in Carriers, NEW t \in Tasks, NEW p \in Wants(t), fire_hold(c, t, p)
       PROVE TypeInv'
  <2>1. p \in Pipes
    BY LinkFacts
  <2>2. stack' \in [Carriers -> Seq(Tasks \X Pipes)]
    BY <1>10, PopType DEF TypeInv, fire_hold, Firing, pop
  <2>3. frame' \in [Tasks -> [Pipes -> FrameStates]]
    BY <1>10, <2>1, FrameType DEF TypeInv, fire_hold
  <2> QED
    BY <1>10, <2>2, <2>3 DEF TypeInv, fire_hold, pipeVars
<1>11. ASSUME NEW t \in Tasks, run(t) PROVE TypeInv'
  BY <1>11 DEF TypeInv, run, pipeVars
<1>12. ASSUME NEW t \in Tasks, leave_body(t) PROVE TypeInv'
  BY <1>12 DEF TypeInv, leave_body, SettlesFirst, pipeVars
<1>13. ASSUME NEW t \in Tasks, advance(t) PROVE TypeInv'
  <2> DEFINE p == Least(t, Wants(t) \ advanced[t])
  <2>1. p \in Wants(t) \ advanced[t]
    <3>1. Wants(t) \ advanced[t] # {}
      BY <1>13 DEF advance, TypeInv
    <3> QED
      BY <3>1, LeastInSet, LinkFacts
  <2>2. /\ release_grant(t, p)
        /\ mutex' = [mutex EXCEPT ![p] = t]
        /\ advanced' = [advanced EXCEPT ![t] = @ \cup {p}]
        /\ UNCHANGED <<queue, life, phase, frame, num_locks, completed, refcount,
                       handle, seen, stack>>
    BY <1>13 DEF advance
  <2>3. p \in Pipes
    BY <2>1, LinkFacts
  <2> HIDE DEF p
  <2>4. /\ active_readers' \in [Pipes -> Int] /\ writer_active' \in [Pipes -> BOOLEAN]
        /\ writer_owner' \in [Pipes -> Tasks \cup {NoTask}] /\ write_epoch' \in [Pipes -> Nat]
    <3>1. CASE Mode[t][p] = "read_only"
      BY <2>2, <2>3, <3>1 DEF TypeInv, release_grant
    <3>2. CASE Mode[t][p] # "read_only"
      <4>1. /\ writer_active' = [writer_active EXCEPT ![p] = FALSE]
            /\ writer_owner' = [writer_owner EXCEPT ![p] = NoTask]
            /\ write_epoch' = [write_epoch EXCEPT ![p] = @ + 1]
            /\ active_readers' = active_readers
        BY <2>2, <3>2 DEF release_grant
      <4>2. writer_active' \in [Pipes -> BOOLEAN] /\ writer_owner' \in [Pipes -> Tasks \cup {NoTask}]
        BY <2>3, <4>1 DEF TypeInv
      <4>3. write_epoch' \in [Pipes -> Nat]
        BY <2>3, <4>1 DEF TypeInv
      <4> QED
        BY <4>1, <4>2, <4>3 DEF TypeInv
    <3> QED
      BY <3>1, <3>2
  <2> QED
    BY <2>1, <2>2, <2>3, <2>4 DEF TypeInv
<1>14. ASSUME NEW p \in Pipes, collect_admissions(p) PROVE TypeInv'
  <2> DEFINE t == Head(queue[p])
             c == <<"release", mutex[p]>>
  <2>1. t \in Tasks
    BY <1>14, HeadTailProperties DEF TypeInv, collect_admissions, HeadAdmissible
  <2>2. c \in Carriers
    BY <1>14 DEF TypeInv, collect_admissions, Releasing, Carriers
  <2>3. /\ admit_locked(t, {p}) /\ frame' = [frame EXCEPT ![t][p] = "granted"]
        /\ queue' = [queue EXCEPT ![p] = Tail(@)]
        /\ stack' = [stack EXCEPT ![c] = Append(@, <<t, p>>)]
        /\ UNCHANGED <<mutex, life, phase, num_locks, advanced, completed, refcount,
                   handle, seen>>
    BY <1>14 DEF collect_admissions
  <2>4. queue' \in [Pipes -> Seq(Tasks)]
    BY <1>14, <2>3, PopType DEF TypeInv, collect_admissions, HeadAdmissible
  <2> HIDE DEF t, c
  <2>5. stack' \in [Carriers -> Seq(Tasks \X Pipes)]
    <3>1. stack \in [Carriers -> Seq(Tasks \X Pipes)] /\ <<t, p>> \in Tasks \X Pipes
      BY <2>1 DEF TypeInv
    <3> QED
      BY <2>2, <2>3, <3>1, PushType
  <2>6. frame' \in [Tasks -> [Pipes -> FrameStates]]
    BY <2>1, <2>3, FrameType DEF TypeInv
  <2> QED
    BY ZenonT(60), <2>1, <2>3, <2>4, <2>5, <2>6, AdmitType DEF TypeInv
<1>15. ASSUME NEW p \in Pipes, end_pass(p) PROVE TypeInv'
  BY <1>15 DEF TypeInv, end_pass, pipeVars
<1>16. ASSUME NEW t \in Tasks, finish(t) PROVE TypeInv'
  BY <1>16 DEF TypeInv, finish, EntryRef, pipeVars
<1>17. ASSUME NEW t \in Tasks, drop_handle(t) PROVE TypeInv'
  BY <1>17 DEF TypeInv, drop_handle, EntryRef, pipeVars
<1>18. ASSUME NEW p \in Pipes, check_idle(p) PROVE TypeInv'
  BY <1>18 DEF TypeInv, check_idle, pipeVars
<1>19. CASE UNCHANGED vars
  BY <1>19 DEF TypeInv, vars, pipeVars
<1> QED
  BY <1>1, <1>2, <1>3, <1>4, <1>5, <1>6, <1>7, <1>8, <1>9, <1>10, <1>11, <1>12, <1>13,
     <1>14, <1>15, <1>16, <1>17, <1>18, <1>19
  DEF Next, TaskStep, FireStep, PipeStep, UserStep, Ended, run_cancelled, finish_body,
      destroy, wake

-----------------------------------------------------------------------------
(* Grant accounting: the arithmetic of admission and release *)

\* GrantAccounting for one pipe, with its counters ar, wa, wo, we and the sets of
\* readers RS and writers WS it should agree with.
Acct(ar, wa, wo, we, RS, WS) ==
    /\ ar = Cardinality(RS)
    /\ WS = (IF wa THEN {wo} ELSE {})
    /\ wa => RS = {}
    /\ we % 2 = (IF wa THEN 1 ELSE 0)

\* Admitting one more reader while no writer is active.
LEMMA AcctAdmitRead ==
    ASSUME NEW ar \in Int, NEW wa \in BOOLEAN, NEW wo, NEW we \in Nat, NEW RS, NEW WS, NEW t,
           IsFiniteSet(RS), t \notin RS, ~wa, Acct(ar, wa, wo, we, RS, WS)
    PROVE  Acct(ar + 1, wa, wo, we, RS \cup {t}, WS)
<1>1. Cardinality(RS \cup {t}) = Cardinality(RS) + 1
  BY FS_AddElement
<1> QED
  BY <1>1 DEF Acct

\* Admitting a writer to an idle pipe opens an odd epoch.
LEMMA AcctAdmitWrite ==
    ASSUME NEW ar \in Int, NEW wo, NEW we \in Nat, NEW RS, NEW WS, NEW t,
           IsFiniteSet(RS), ar = 0, Acct(ar, FALSE, wo, we, RS, WS)
    PROVE  Acct(ar, TRUE, t, we + 1, RS, WS \cup {t})
<1>1. RS = {}
  BY FS_EmptySet DEF Acct
<1>2. WS \cup {t} = {t}
  BY DEF Acct
<1>3. (we + 1) % 2 = 1
  BY DEF Acct
<1> QED
  BY <1>1, <1>2, <1>3 DEF Acct

\* A reader's release.
LEMMA AcctReleaseRead ==
    ASSUME NEW ar \in Int, NEW wa \in BOOLEAN, NEW wo, NEW we \in Nat, NEW RS, NEW WS, NEW t,
           IsFiniteSet(RS), t \in RS, Acct(ar, wa, wo, we, RS, WS)
    PROVE  Acct(ar - 1, wa, wo, we, RS \ {t}, WS)
<1>1. Cardinality(RS \ {t}) = Cardinality(RS) - 1
  BY FS_RemoveElement
<1> QED
  BY <1>1 DEF Acct

\* The writer's release closes its epoch: the parity is even again.
LEMMA AcctReleaseWrite ==
    ASSUME NEW ar \in Int, NEW wa \in BOOLEAN, NEW wo, NEW nb, NEW we \in Nat, NEW RS, NEW WS, NEW t,
           t \in WS, Acct(ar, wa, wo, we, RS, WS)
    PROVE  Acct(ar, FALSE, nb, we + 1, RS, WS \ {t})
<1>1. wa /\ WS = {t}
  BY DEF Acct
<1>2. (we + 1) % 2 = 0
  BY <1>1 DEF Acct
<1>3. WS \ {t} = {}
  BY <1>1
<1> QED
  BY <1>1, <1>2, <1>3 DEF Acct

AcctAt(p) == Acct(active_readers[p], writer_active[p], writer_owner[p], write_epoch[p],
                  Readers(p), Writers(p))

\* GrantAccounting, pipe by pipe.
LEMMA AccountingIsAcct == GrantAccounting <=> \A p \in Pipes : AcctAt(p)
  BY DEF GrantAccounting, AcctAt, Acct

\* GrantAccounting after a step, pipe by pipe.
LEMMA AccountingAfter == (\A p \in Pipes : AcctAt(p)') => GrantAccounting'
  BY DEF GrantAccounting, AcctAt, Acct

\* A step that changes neither p's counters nor its holders.
LEMMA AccountSame ==
    ASSUME NEW p \in Pipes, AcctAt(p),
           active_readers'[p] = active_readers[p], writer_active'[p] = writer_active[p],
           writer_owner'[p] = writer_owner[p], write_epoch'[p] = write_epoch[p],
           \A u \in Tasks : Holds(u, p)' <=> Holds(u, p)
    PROVE  AcctAt(p)'
<1>1. Readers(p)' = Readers(p) /\ Writers(p)' = Writers(p)
  BY DEF Readers, Writers, Reads, Writes, Wants
<1> QED
  BY <1>1 DEF AcctAt

\* A step that admits t to p.
LEMMA AccountAdmit ==
    ASSUME TypeInv, NEW t \in Tasks, NEW p \in Wants(t), NEW S \in SUBSET Pipes, p \in S,
           AcctAt(p), admit_locked(t, S), admissible(p, Mode[t][p]),
           ~Holds(t, p), Holds(t, p)',
           \A u \in Tasks \ {t} : Holds(u, p)' <=> Holds(u, p)
    PROVE  AcctAt(p)'
<1>1. p \in Pipes /\ Mode[t][p] \in {"read_only", "read_write"}
  BY LinkFacts DEF Modes
<1>2. active_readers[p] \in Int /\ writer_active[p] \in BOOLEAN /\ write_epoch[p] \in Nat
  BY <1>1 DEF TypeInv
<1>3. IsFiniteSet(Readers(p))
  BY TasksFinite, FS_Subset DEF Readers
<1>4. CASE Mode[t][p] = "read_only"
  <2>1. /\ active_readers'[p] = active_readers[p] + 1 /\ writer_active'[p] = writer_active[p]
        /\ writer_owner'[p] = writer_owner[p] /\ write_epoch'[p] = write_epoch[p]
    BY <1>1, <1>2, <1>4 DEF admit_locked, Reads, Writes
  <2>2. Readers(p)' = Readers(p) \cup {t} /\ t \notin Readers(p) /\ Writers(p)' = Writers(p)
    BY <1>4 DEF Readers, Writers, Reads, Writes, Wants
  <2>3. ~writer_active[p]
    BY <1>4 DEF admissible
  <2> QED
    BY <1>2, <1>3, <2>1, <2>2, <2>3, AcctAdmitRead DEF AcctAt
<1>5. CASE Mode[t][p] = "read_write"
  <2>1. /\ active_readers'[p] = active_readers[p] /\ writer_active'[p] = TRUE
        /\ writer_owner'[p] = t /\ write_epoch'[p] = write_epoch[p] + 1
    BY <1>1, <1>2, <1>5 DEF admit_locked, Reads, Writes
  <2>2. Writers(p)' = Writers(p) \cup {t} /\ Readers(p)' = Readers(p)
    BY <1>5 DEF Readers, Writers, Reads, Writes, Wants
  <2>3. writer_active[p] = FALSE /\ active_readers[p] = 0
    BY <1>2, <1>5 DEF admissible
  <2>4. Acct(active_readers[p], FALSE, writer_owner[p], write_epoch[p], Readers(p), Writers(p))
    BY <2>3 DEF AcctAt
  <2>5. Acct(active_readers[p], TRUE, t, write_epoch[p] + 1, Readers(p), Writers(p) \cup {t})
    BY <1>2, <1>3, <2>3, <2>4, AcctAdmitWrite
  <2> QED
    BY <2>1, <2>2, <2>5 DEF AcctAt
<1> QED
  BY <1>1, <1>4, <1>5

\* A step that takes t's grant on p back.
LEMMA AccountRelease ==
    ASSUME TypeInv, NEW t \in Tasks, NEW p \in Wants(t), AcctAt(p), release_grant(t, p),
           Holds(t, p), ~Holds(t, p)',
           \A u \in Tasks \ {t} : Holds(u, p)' <=> Holds(u, p)
    PROVE  AcctAt(p)'
<1>1. p \in Pipes /\ Mode[t][p] \in {"read_only", "read_write"}
  BY LinkFacts DEF Modes
<1>2. active_readers[p] \in Int /\ writer_active[p] \in BOOLEAN /\ write_epoch[p] \in Nat
  BY <1>1 DEF TypeInv
<1>3. IsFiniteSet(Readers(p))
  BY TasksFinite, FS_Subset DEF Readers
<1>4. CASE Mode[t][p] = "read_only"
  <2>1. /\ active_readers'[p] = active_readers[p] - 1 /\ writer_active'[p] = writer_active[p]
        /\ writer_owner'[p] = writer_owner[p] /\ write_epoch'[p] = write_epoch[p]
    BY <1>1, <1>4 DEF release_grant, TypeInv
  <2>2. Readers(p)' = Readers(p) \ {t} /\ t \in Readers(p) /\ Writers(p)' = Writers(p)
    BY <1>4 DEF Readers, Writers, Reads, Writes, Wants
  <2> QED
    BY <1>2, <1>3, <2>1, <2>2, AcctReleaseRead DEF AcctAt
<1>5. CASE Mode[t][p] = "read_write"
  <2>1. /\ active_readers'[p] = active_readers[p] /\ writer_active'[p] = FALSE
        /\ writer_owner'[p] = NoTask /\ write_epoch'[p] = write_epoch[p] + 1
    BY <1>1, <1>5 DEF release_grant, TypeInv
  <2>2. Writers(p)' = Writers(p) \ {t} /\ t \in Writers(p) /\ Readers(p)' = Readers(p)
    BY <1>5 DEF Readers, Writers, Reads, Writes, Wants
  <2>3. Acct(active_readers[p], FALSE, NoTask, write_epoch[p] + 1, Readers(p), Writers(p) \ {t})
    BY <1>2, <2>2, AcctReleaseWrite DEF AcctAt
  <2> QED
    BY <2>1, <2>2, <2>3 DEF AcctAt
<1> QED
  BY <1>1, <1>4, <1>5

-----------------------------------------------------------------------------
(* Links, countdown and queues *)

\* The links of one access: entered in canonical order, all turned by the time
\* the block is dispatched, none released before the body is over.
LinkOK(t) ==
    /\ \A p \in Pipes \ Wants(t) : frame[t][p] = "out"
    /\ phase[t] \in {"new", "probing", "entering"} => \A p \in Pipes : frame[t][p] = "out"
    /\ phase[t] \in {"ready", "running", "advancing", "done"} =>
        \A p \in Wants(t) : frame[t][p] \in {"turned", "fired"}
    /\ phase[t] \notin {"advancing", "done"} => advanced[t] = {}
    /\ \A p, q \in Wants(t) :
        p < q /\ frame[t][p] \in {"out", "queued", "granted"} => frame[t][q] = "out"
    /\ Kind[t] = "hold" =>
        /\ phase[t] \notin {"probing", "entering"}
        /\ \A p \in Pipes : frame[t][p] \in {"out", "queued", "granted", "fired"}

Unturned(t) == {p \in Wants(t) : frame[t][p] \notin {"turned", "fired"}}

\* num_locks counts the links whose turn has not come.
CountOK(t) ==
    Kind[t] # "hold" =>
        /\ phase[t] \in {"probing", "entering"} => num_locks[t] = Cardinality(Wants(t))
        /\ phase[t] = "waiting" => num_locks[t] = Cardinality(Unturned(t))

\* The queue of p holds links that wait for p, each once.
QueueOK(p) ==
    /\ \A i \in 1..Len(queue[p]) : frame[queue[p][i]][p] = "queued"
    /\ \A i, j \in 1..Len(queue[p]) : queue[p][i] = queue[p][j] => i = j

LinksInv == /\ \A t \in Tasks : LinkOK(t) /\ CountOK(t)
            /\ \A p \in Pipes : QueueOK(p)

IndInv == TypeInv /\ LinksInv /\ GrantAccounting

\* A hold has exactly one link.
LEMMA HoldLink ==
    ASSUME NEW t \in Tasks, Kind[t] = "hold"
    PROVE  Wants(t) = {First(t)}
<1>1. Cardinality(Wants(t)) = 1 /\ IsFiniteSet(Wants(t))
  BY PipeAssumption
<1>2. PICK x : Wants(t) = {x}
  BY <1>1, FS_Singleton
<1> QED
  BY <1>2, LinkFacts

\* A step that leaves an access's own variables alone keeps its links' order.
LEMMA LinkSame ==
    ASSUME NEW u \in Tasks, LinkOK(u), CountOK(u), frame'[u] = frame[u],
           phase'[u] = phase[u], advanced'[u] = advanced[u], num_locks'[u] = num_locks[u]
    PROVE  LinkOK(u)' /\ CountOK(u)'
<1>1. LinkOK(u)'
  BY DEF LinkOK, Wants
<1>2. Unturned(u)' = Unturned(u)
  BY DEF Unturned, Wants
<1> QED
  BY <1>1, <1>2 DEF CountOK, Wants

\* A step that leaves p's queue and its queued links alone keeps QueueOK.
LEMMA QueueSame ==
    ASSUME NEW p \in Pipes, TypeInv, QueueOK(p), queue'[p] = queue[p],
           \A u \in Tasks : frame[u][p] = "queued" => frame'[u][p] = "queued"
    PROVE  QueueOK(p)'
<1>1. \A i \in 1..Len(queue[p]) : queue[p][i] \in Tasks
  BY ElementOfSeq DEF TypeInv
<1> QED
  BY <1>1 DEF QueueOK

\* t joins the queue of p.
LEMMA QueueJoin ==
    ASSUME NEW p \in Pipes, NEW t \in Tasks, TypeInv, QueueOK(p), frame[t][p] # "queued",
           queue'[p] = Append(queue[p], t), frame'[t][p] = "queued",
           \A u \in Tasks : frame[u][p] = "queued" => frame'[u][p] = "queued"
    PROVE  QueueOK(p)'
<1>1. queue[p] \in Seq(Tasks)
  BY DEF TypeInv
<1>2. \A i \in 1..Len(queue[p]) : queue[p][i] \in Tasks /\ queue[p][i] # t
  BY <1>1, ElementOfSeq DEF QueueOK
<1>3. /\ Len(queue'[p]) = Len(queue[p]) + 1 /\ Len(queue[p]) \in Nat
      /\ \A i \in 1..Len(queue[p]) : queue'[p][i] = queue[p][i]
      /\ queue'[p][Len(queue[p]) + 1] = t
  BY <1>1, AppendProperties, LenProperties
<1>4. \A i \in 1..Len(queue'[p]) : i \in 1..Len(queue[p]) \/ i = Len(queue[p]) + 1
  BY <1>3
<1> QED
  BY <1>2, <1>3, <1>4 DEF QueueOK

\* The head leaves the queue of p.
LEMMA QueueLeave ==
    ASSUME NEW p \in Pipes, TypeInv, QueueOK(p), queue[p] # <<>>,
           queue'[p] = Tail(queue[p]),
           \A u \in Tasks \ {Head(queue[p])} : frame[u][p] = "queued" => frame'[u][p] = "queued"
    PROVE  QueueOK(p)' /\ Head(queue[p]) \in Tasks /\ frame[Head(queue[p])][p] = "queued"
<1>1. queue[p] \in Seq(Tasks)
  BY DEF TypeInv
<1>2. \A i \in 1..Len(queue[p]) : queue[p][i] \in Tasks
  BY <1>1, ElementOfSeq
<1>3. /\ Len(queue[p]) \in Nat /\ Len(queue[p]) >= 1 /\ Head(queue[p]) = queue[p][1]
      /\ Len(queue'[p]) = Len(queue[p]) - 1
      /\ \A i \in 1..Len(queue'[p]) : queue'[p][i] = queue[p][i + 1]
  BY <1>1, HeadTailProperties, LenProperties, EmptySeq
<1>4. \A i \in 1..Len(queue'[p]) : i + 1 \in 1..Len(queue[p]) /\ i + 1 # 1
  BY <1>3
<1> QED
  BY <1>2, <1>3, <1>4 DEF QueueOK

-----------------------------------------------------------------------------
(* Each action preserves the invariant *)

\* pipe_enter_link keeps the accounting and the queues, and changes one link.
LEMMA EnterStep ==
    ASSUME TypeInv, GrantAccounting, \A r \in Pipes : QueueOK(r),
           NEW t \in Tasks, NEW p \in Wants(t), NEW c \in Carriers,
           NEW fr \in [Tasks -> [Pipes -> FrameStates]],
           frame[t][p] = "out", advanced[t] = {},
           \A u \in Tasks, r \in Pipes :
               /\ fr[u][r] \in Granted <=> frame[u][r] \in Granted
               /\ fr[u][r] = "queued" <=> frame[u][r] = "queued",
           advanced' = advanced,
           pipe_enter_link(t, p, c, fr)
    PROVE  /\ GrantAccounting'
           /\ \A r \in Pipes : QueueOK(r)'
           /\ \E v \in {"granted", "queued"} : frame' = [fr EXCEPT ![t][p] = v]
<1>0. p \in Pipes /\ \A r \in Pipes : AcctAt(r)
  BY LinkFacts, AccountingIsAcct
<1>1. CASE AdmitNow(t, p)
  <2>1. /\ admit_locked(t, {p}) /\ frame' = [fr EXCEPT ![t][p] = "granted"]
        /\ queue' = queue /\ admissible(p, Mode[t][p])
    BY <1>1 DEF pipe_enter_link, AdmitNow
  <2>2. /\ \A u \in Tasks, r \in Pipes : u # t \/ r # p => frame'[u][r] = fr[u][r]
        /\ frame'[t][p] = "granted"
    BY <2>1, <1>0
  <2>3. \A u \in Tasks, r \in Pipes : u # t \/ r # p => (Holds(u, r)' <=> Holds(u, r))
    BY <2>2 DEF Holds
  <2>4. ~Holds(t, p) /\ Holds(t, p)'
    BY <2>2 DEF Holds, Granted
  <2>5. AcctAt(p)'
    BY <1>0, <2>1, <2>3, <2>4, AccountAdmit
  <2>6. \A r \in Pipes \ {p} : AcctAt(r)'
    <3> SUFFICES ASSUME NEW r \in Pipes \ {p} PROVE AcctAt(r)'
      OBVIOUS
    <3>1. /\ active_readers'[r] = active_readers[r] /\ writer_active'[r] = writer_active[r]
          /\ writer_owner'[r] = writer_owner[r] /\ write_epoch'[r] = write_epoch[r]
      BY <2>1 DEF admit_locked, TypeInv
    <3> QED
      BY <1>0, <2>3, <3>1, AccountSame
  <2>7. \A r \in Pipes : QueueOK(r)'
    BY <2>1, <2>2, QueueSame
  <2> QED
    BY <2>1, <2>5, <2>6, <2>7, AccountingAfter
<1>2. CASE ~AdmitNow(t, p)
  <2>1. /\ queue' = [queue EXCEPT ![p] = Append(@, t)]
        /\ frame' = [fr EXCEPT ![t][p] = "queued"] /\ UNCHANGED pipeVars
    BY <1>2 DEF pipe_enter_link
  <2>2. /\ \A u \in Tasks, r \in Pipes : u # t \/ r # p => frame'[u][r] = fr[u][r]
        /\ frame'[t][p] = "queued"
    BY <2>1, <1>0
  <2>3. \A u \in Tasks, r \in Pipes : Holds(u, r)' <=> Holds(u, r)
    BY <2>2 DEF Holds, Granted
  <2>4. \A r \in Pipes : AcctAt(r)'
    BY <1>0, <2>1, <2>3, AccountSame DEF pipeVars
  <2>5. QueueOK(p)'
    BY <1>0, <2>1, <2>2, QueueJoin DEF TypeInv
  <2>6. \A r \in Pipes \ {p} : QueueOK(r)'
    <3> SUFFICES ASSUME NEW r \in Pipes \ {p} PROVE QueueOK(r)'
      OBVIOUS
    <3>1. queue'[r] = queue[r]
      BY <2>1 DEF TypeInv
    <3> QED
      BY <2>2, <3>1, QueueSame
  <2> QED
    BY <2>1, <2>4, <2>5, <2>6, AccountingAfter
<1> QED
  BY <1>1, <1>2

\* The invariant over a step of access t that leaves the pipes, the queues and the
\* grants alone: only t's own links remain to be shown.
LEMMA LocalStep ==
    ASSUME IndInv, TypeInv', NEW t \in Tasks, UNCHANGED <<pipeVars, queue>>,
           \A u \in Tasks, r \in Pipes : Holds(u, r)' <=> Holds(u, r),
           \A u \in Tasks, r \in Pipes : frame[u][r] = "queued" => frame'[u][r] = "queued",
           \A u \in Tasks \ {t} : /\ frame'[u] = frame[u] /\ phase'[u] = phase[u]
                                  /\ advanced'[u] = advanced[u]
                                  /\ num_locks'[u] = num_locks[u],
           LinkOK(t)', CountOK(t)'
    PROVE  IndInv'
<1>1. \A r \in Pipes : QueueOK(r)'
  BY QueueSame DEF IndInv, LinksInv
<1>2. \A r \in Pipes : AcctAt(r)'
  BY AccountingIsAcct, AccountSame DEF IndInv, pipeVars
<1>3. \A u \in Tasks : LinkOK(u)' /\ CountOK(u)'
  BY LinkSame DEF IndInv, LinksInv
<1> QED
  BY <1>1, <1>2, <1>3, AccountingAfter DEF IndInv, LinksInv

\* The inductive invariant holds initially.
LEMMA InitInv == Init => IndInv
<1> SUFFICES ASSUME Init PROVE IndInv
  OBVIOUS
<1>1. TypeInv
  BY DEF Init, TypeInv, Phases, FrameStates
<1>2. \A t \in Tasks : LinkOK(t) /\ CountOK(t)
  BY LinkFacts DEF Init, LinkOK, CountOK
<1>3. \A p \in Pipes : QueueOK(p)
  BY DEF Init, QueueOK
<1>4. \A p \in Pipes : Readers(p) = {} /\ Writers(p) = {}
  BY DEF Init, Readers, Writers, Holds, Granted
<1>5. GrantAccounting
  <2>1. Cardinality({}) = 0 /\ 0 % 2 = 0
    BY FS_EmptySet
  <2> SUFFICES ASSUME NEW p \in Pipes
               PROVE  /\ active_readers[p] = Cardinality(Readers(p))
                      /\ Writers(p) = (IF writer_active[p] THEN {writer_owner[p]} ELSE {})
                      /\ writer_active[p] => Readers(p) = {}
                      /\ write_epoch[p] % 2 = (IF writer_active[p] THEN 1 ELSE 0)
    BY DEF GrantAccounting
  <2>2. active_readers[p] = 0 /\ writer_active[p] = FALSE /\ write_epoch[p] = 0
    BY DEF Init
  <2> QED
    BY <1>4, <2>1, <2>2
<1> QED
  BY <1>1, <1>2, <1>3, <1>5 DEF IndInv, LinksInv

\* An access enters its first link, from launch or from pipe_enter_first.
LEMMA FirstLinkStep ==
    ASSUME IndInv, TypeInv', NEW t \in Tasks, Kind[t] # "hold",
           phase[t] \in {"new", "entering"}, phase' = [phase EXCEPT ![t] = "waiting"],
           num_locks'[t] = Cardinality(Wants(t)),
           \A u \in Tasks \ {t} : num_locks'[u] = num_locks[u],
           advanced' = advanced,
           pipe_enter_link(t, First(t), <<"submit", t>>, frame)
    PROVE  IndInv'
<1>1. First(t) \in Wants(t) /\ First(t) \in Pipes /\ <<"submit", t>> \in Carriers
  BY LinkFacts DEF Carriers
<1>2. /\ \A p \in Pipes : frame[t][p] = "out"
      /\ advanced[t] = {}
  BY DEF IndInv, LinksInv, LinkOK
<1>3. /\ GrantAccounting' /\ \A r \in Pipes : QueueOK(r)'
      /\ \E v \in {"granted", "queued"} : frame' = [frame EXCEPT ![t][First(t)] = v]
  <2>1. frame \in [Tasks -> [Pipes -> FrameStates]]
    BY DEF IndInv, TypeInv
  <2> QED
    BY <1>1, <1>2, <2>1, EnterStep DEF IndInv, LinksInv
<1>4. PICK v \in {"granted", "queued"} : frame' = [frame EXCEPT ![t][First(t)] = v]
  BY <1>3
<1>5. /\ \A u \in Tasks \ {t} : frame'[u] = frame[u]
      /\ frame'[t][First(t)] = v
      /\ \A p \in Pipes \ {First(t)} : frame'[t][p] = "out"
      /\ phase'[t] = "waiting" /\ \A u \in Tasks \ {t} : phase'[u] = phase[u]
  BY <1>1, <1>2, <1>4 DEF IndInv, TypeInv
<1>6. LinkOK(t)'
  <2>1. \A p, q \in Wants(t) : p < q => q # First(t)
    BY LinkFacts
  <2> QED
    BY <1>1, <1>2, <1>5, <2>1, LinkFacts DEF LinkOK, Wants
<1>7. CountOK(t)'
  <2>1. Unturned(t)' = Wants(t)
    BY <1>5, LinkFacts DEF Unturned, Wants
  <2> QED
    BY <1>5, <2>1 DEF CountOK
<1>8. \A u \in Tasks \ {t} : LinkOK(u)' /\ CountOK(u)'
  BY <1>5, LinkSame DEF IndInv, LinksInv
<1> QED
  BY <1>3, <1>6, <1>7, <1>8 DEF IndInv, LinksInv

\* fire_task_turn enters the next link.
LEMMA CascadeStep ==
    ASSUME IndInv, TypeInv', NEW c \in Carriers, NEW t \in Tasks, NEW p \in Wants(t),
           cascade(c, t, p)
    PROVE  IndInv'
<1> DEFINE q == Least(t, After(t, p))
           fr == [frame EXCEPT ![t][p] = "cascaded"]
<1>1. /\ q \in Wants(t) /\ q \in Pipes /\ p \in Pipes /\ p < q /\ q # p
      /\ \A r \in Wants(t) : p < r /\ r # q => q < r
  BY NextLink, LinkFacts DEF cascade
<1>2. /\ frame[t][p] = "granted" /\ Kind[t] # "hold" /\ pipe_enter_link(t, q, c, fr)
      /\ UNCHANGED <<phase, num_locks, advanced>>
  BY DEF cascade
<1>3. /\ phase[t] = "waiting" /\ advanced[t] = {}
      /\ \A r \in Wants(t) : p < r => frame[t][r] = "out"
  <2>1. LinkOK(t) /\ phase[t] \in Phases
    BY DEF IndInv, LinksInv, TypeInv
  <2> QED
    BY <1>1, <1>2, <2>1 DEF LinkOK, Phases
<1>4. fr \in [Tasks -> [Pipes -> FrameStates]]
  BY <1>1, FrameType DEF IndInv, TypeInv, FrameStates
<1>5. /\ \A u \in Tasks, r \in Pipes : u # t \/ r # p => fr[u][r] = frame[u][r]
      /\ fr[t][p] = "cascaded" /\ \A u \in Tasks \ {t} : fr[u] = frame[u]
  BY <1>1 DEF IndInv, TypeInv
<1> HIDE DEF q, fr
<1>6. \A u \in Tasks, r \in Pipes :
        /\ fr[u][r] \in Granted <=> frame[u][r] \in Granted
        /\ fr[u][r] = "queued" <=> frame[u][r] = "queued"
  BY <1>2, <1>5 DEF Granted
<1>7. frame[t][q] = "out"
  BY <1>1, <1>3
<1>8. /\ GrantAccounting' /\ \A r \in Pipes : QueueOK(r)'
      /\ \E v \in {"granted", "queued"} : frame' = [fr EXCEPT ![t][q] = v]
  <2>1. TypeInv /\ GrantAccounting /\ \A r \in Pipes : QueueOK(r)
    BY DEF IndInv, LinksInv
  <2> QED
    BY <1>1, <1>2, <1>3, <1>4, <1>6, <1>7, <2>1, EnterStep
<1>9. PICK v \in {"granted", "queued"} : frame' = [fr EXCEPT ![t][q] = v]
  BY <1>8
<1>10. /\ \A u \in Tasks \ {t} : frame'[u] = frame[u]
       /\ frame'[t][q] = v /\ frame'[t][p] = "cascaded"
       /\ \A r \in Pipes \ {p, q} : frame'[t][r] = frame[t][r]
  BY <1>1, <1>4, <1>5, <1>9
<1>11. LinkOK(t)'
  <2>1. LinkOK(t)
    BY DEF IndInv, LinksInv
  <2>2. \A x, y \in Wants(t) :
          x < y /\ frame'[t][x] \in {"out", "queued", "granted"} => frame'[t][y] = "out"
    <3> SUFFICES ASSUME NEW x \in Wants(t), NEW y \in Wants(t), x < y,
                        frame'[t][x] \in {"out", "queued", "granted"}
                 PROVE  frame'[t][y] = "out"
      OBVIOUS
    <3>1. x \in Pipes /\ y \in Pipes /\ x \in Nat /\ y \in Nat /\ p \in Nat /\ q \in Nat
      BY <1>1, LinkFacts
    <3>2. CASE x = q
      BY <1>1, <1>3, <1>10, <3>1, <3>2
    <3>3. CASE x # q
      <4>1. x # p /\ frame[t][x] = frame'[t][x]
        BY <1>10, <3>1, <3>3
      <4>2. frame[t][y] = "out"
        BY <2>1, <4>1 DEF LinkOK
      <4>3. y # p
        BY <1>2, <4>2
      <4>4. y # q
        <5>1. ~(x < p)
          BY <1>2, <2>1, <4>1 DEF LinkOK
        <5>2. p < x
          BY <3>1, <4>1, <5>1
        <5>3. q < x
          BY <1>1, <3>3, <5>2
        <5> QED
          BY <3>1, <5>3
      <4> QED
        BY <1>10, <3>1, <4>2, <4>3, <4>4
    <3> QED
      BY <3>2, <3>3
  <2> QED
    BY <1>1, <1>2, <1>3, <1>10, <2>1, <2>2 DEF LinkOK, Wants
<1>12. CountOK(t)'
  <2>1. Unturned(t)' = Unturned(t)
    BY <1>1, <1>2, <1>7, <1>10, LinkFacts DEF Unturned, Wants
  <2> QED
    BY <1>2, <2>1 DEF CountOK, IndInv, LinksInv, Wants
<1>13. \A u \in Tasks \ {t} : LinkOK(u)' /\ CountOK(u)'
  BY <1>2, <1>10, LinkSame DEF IndInv, LinksInv
<1> QED
  BY <1>8, <1>11, <1>12, <1>13 DEF IndInv, LinksInv

\* One lock less; the last one dispatches, when every link has had its turn.
LEMMA TurnStep ==
    ASSUME IndInv, TypeInv', NEW c \in Carriers, NEW t \in Tasks, NEW p \in Wants(t),
           turn(c, t, p)
    PROVE  IndInv'
<1>1. /\ Kind[t] # "hold" /\ frame[t][p] \in {"cascaded", "granted"}
      /\ frame[t][p] = "granted" => After(t, p) = {}
      /\ num_locks' = [num_locks EXCEPT ![t] = @ - 1]
      /\ \/ num_locks[t] # 1 /\ phase' = phase
         \/ num_locks[t] = 1 /\ phase' = [phase EXCEPT ![t] = "ready"]
      /\ UNCHANGED <<pipeVars, queue, advanced>>
  BY DEF turn
<1>2. PICK v \in {"turned", "fired"} : frame' = [frame EXCEPT ![t][p] = v]
  BY DEF turn
<1>3. p \in Pipes
  BY LinkFacts
<1>4. /\ \A u \in Tasks \ {t} : frame'[u] = frame[u] /\ phase'[u] = phase[u]
                              /\ num_locks'[u] = num_locks[u]
      /\ frame'[t][p] = v /\ \A r \in Pipes \ {p} : frame'[t][r] = frame[t][r]
      /\ num_locks'[t] = num_locks[t] - 1
  BY SMTT(60), <1>1, <1>2, <1>3 DEF IndInv, TypeInv
<1>5. LinkOK(t) /\ CountOK(t) /\ phase[t] = "waiting" /\ advanced[t] = {}
  <2>1. LinkOK(t) /\ CountOK(t) /\ phase[t] \in Phases
    BY DEF IndInv, LinksInv, TypeInv
  <2> QED
    BY <1>1, <1>3, <2>1 DEF LinkOK, Phases
<1>6. /\ p \in Unturned(t) /\ IsFiniteSet(Unturned(t))
      /\ Unturned(t)' = Unturned(t) \ {p}
      /\ num_locks[t] = Cardinality(Unturned(t))
  <2>1. p \in Unturned(t)
    BY <1>1 DEF Unturned
  <2>2. Unturned(t)' = Unturned(t) \ {p}
    BY <1>3, <1>4, LinkFacts DEF Unturned, Wants
  <2>3. IsFiniteSet(Unturned(t))
    BY LinkFacts, FS_Subset DEF Unturned
  <2> QED
    BY <1>1, <1>5, <2>1, <2>2, <2>3 DEF CountOK
<1>7. num_locks'[t] = Cardinality(Unturned(t)')
  BY <1>4, <1>6, FS_RemoveElement
<1>8. num_locks[t] = 1 => \A r \in Wants(t) : frame'[t][r] \in {"turned", "fired"}
  <2> SUFFICES ASSUME num_locks[t] = 1
               PROVE  \A r \in Wants(t) : frame'[t][r] \in {"turned", "fired"}
    OBVIOUS
  <2>1. Cardinality(Unturned(t)') = 0 /\ IsFiniteSet(Unturned(t)')
    BY <1>4, <1>6, <1>7, FS_Subset
  <2>2. Unturned(t)' = {}
    BY <2>1, FS_EmptySet
  <2> QED
    BY <2>2 DEF Unturned, Wants
<1>9. LinkOK(t)'
  <2>1. \A x, y \in Wants(t) :
          x < y /\ frame'[t][x] \in {"out", "queued", "granted"} => frame'[t][y] = "out"
    <3> SUFFICES ASSUME NEW x \in Wants(t), NEW y \in Wants(t), x < y,
                        frame'[t][x] \in {"out", "queued", "granted"}
                 PROVE  frame'[t][y] = "out"
      OBVIOUS
    <3>1. x \in Pipes /\ y \in Pipes
      BY LinkFacts
    <3>2. x # p /\ frame[t][x] = frame'[t][x]
      BY <1>4, <3>1
    <3>3. frame[t][y] = "out"
      BY <1>5, <3>2 DEF LinkOK
    <3> QED
      BY <1>1, <1>4, <3>1, <3>3
  <2>2. phase'[t] \in {"waiting", "ready"}
        /\ (phase'[t] = "ready" => num_locks[t] = 1)
    BY <1>1, <1>5 DEF IndInv, TypeInv
  <2>3. advanced'[t] = {}
    BY <1>1, <1>5
  <2>4. \A r \in Pipes \ Wants(t) : frame'[t][r] = "out"
    BY <1>4, <1>5 DEF LinkOK
  <2> QED
    BY <1>1, <1>8, <2>1, <2>2, <2>3, <2>4 DEF LinkOK, Wants
<1>10. CountOK(t)'
  <2>1. phase'[t] \in {"waiting", "ready"}
    BY <1>1, <1>5 DEF IndInv, TypeInv
  <2> QED
    BY <1>7, <2>1 DEF CountOK
<1>11. \A u \in Tasks, r \in Pipes : Holds(u, r)' <=> Holds(u, r)
  BY <1>1, <1>3, <1>4 DEF Holds, Granted
<1>12. \A u \in Tasks, r \in Pipes : frame[u][r] = "queued" => frame'[u][r] = "queued"
  BY <1>1, <1>4
<1> QED
  BY <1>1, <1>4, <1>9, <1>10, <1>11, <1>12, LocalStep

\* Steps that change t's links only between states that are all granted and turned.
LEMMA TurnedStep ==
    ASSUME IndInv, TypeInv', NEW t \in Tasks, NEW p \in Wants(t),
           UNCHANGED <<pipeVars, queue, advanced, num_locks, phase>>,
           frame[t][p] = "turned", frame' = [frame EXCEPT ![t][p] = "fired"]
    PROVE  IndInv'
<1>1. p \in Pipes /\ LinkOK(t) /\ CountOK(t)
  BY LinkFacts DEF IndInv, LinksInv
<1>2. /\ \A u \in Tasks \ {t} : frame'[u] = frame[u]
      /\ frame'[t][p] = "fired" /\ \A r \in Pipes \ {p} : frame'[t][r] = frame[t][r]
  BY <1>1 DEF IndInv, TypeInv
<1>3. phase[t] \notin {"new", "probing", "entering"} /\ Kind[t] # "hold"
  BY <1>1 DEF LinkOK
<1>4. \A x, y \in Wants(t) :
        x < y /\ frame'[t][x] \in {"out", "queued", "granted"} => frame'[t][y] = "out"
  <2> SUFFICES ASSUME NEW x \in Wants(t), NEW y \in Wants(t), x < y,
                      frame'[t][x] \in {"out", "queued", "granted"}
               PROVE  frame'[t][y] = "out"
    OBVIOUS
  <2>1. x \in Pipes /\ y \in Pipes
    BY LinkFacts
  <2>2. x # p /\ frame[t][x] = frame'[t][x]
    BY <1>2, <2>1
  <2>3. frame[t][y] = "out"
    BY <1>1, <2>2 DEF LinkOK
  <2> QED
    BY <1>2, <2>1, <2>3
<1>5. LinkOK(t)'
  BY <1>1, <1>2, <1>3, <1>4, LinkFacts DEF LinkOK, Wants
<1>6. CountOK(t)'
  <2>1. Unturned(t)' = Unturned(t)
    BY <1>1, <1>2, LinkFacts DEF Unturned, Wants
  <2> QED
    BY <1>1, <2>1 DEF CountOK, Wants
<1>7. \A u \in Tasks, r \in Pipes : Holds(u, r)' <=> Holds(u, r)
  BY <1>1, <1>2 DEF Holds, Granted
<1>8. \A u \in Tasks, r \in Pipes : frame[u][r] = "queued" => frame'[u][r] = "queued"
  BY <1>2
<1> QED
  BY <1>2, <1>5, <1>6, <1>7, <1>8, LocalStep

\* A queued hold gets its grant: on_acquired is submitted.
LEMMA FireHoldStep ==
    ASSUME IndInv, TypeInv', NEW c \in Carriers, NEW t \in Tasks, NEW p \in Wants(t),
           fire_hold(c, t, p)
    PROVE  IndInv'
<1>1. /\ Kind[t] = "hold" /\ frame[t][p] = "granted"
      /\ frame' = [frame EXCEPT ![t][p] = "fired"]
      /\ phase' = [phase EXCEPT ![t] = "ready"]
      /\ UNCHANGED <<pipeVars, queue, advanced, num_locks>>
  BY DEF fire_hold
<1>2. p \in Pipes /\ Wants(t) = {p} /\ LinkOK(t)
  BY <1>1, LinkFacts, HoldLink DEF IndInv, LinksInv
<1>3. phase[t] = "waiting" /\ advanced[t] = {}
  <2>1. phase[t] \in Phases
    BY DEF IndInv, TypeInv
  <2> QED
    BY <1>1, <1>2, <2>1 DEF LinkOK, Phases
<1>4. /\ \A u \in Tasks \ {t} : frame'[u] = frame[u] /\ phase'[u] = phase[u]
      /\ frame'[t][p] = "fired" /\ \A r \in Pipes \ {p} : frame'[t][r] = frame[t][r]
      /\ phase'[t] = "ready"
  BY <1>1, <1>2 DEF IndInv, TypeInv
<1>5. LinkOK(t)'
  <2>1. \A x, y \in Wants(t) : ~(x < y)
    BY <1>2, LinkFacts
  <2> QED
    BY <1>1, <1>2, <1>3, <1>4, <2>1 DEF LinkOK, Wants
<1>6. CountOK(t)'
  BY <1>1 DEF CountOK
<1>7. \A u \in Tasks, r \in Pipes : Holds(u, r)' <=> Holds(u, r)
  BY <1>1, <1>2, <1>4 DEF Holds, Granted
<1>8. \A u \in Tasks, r \in Pipes : frame[u][r] = "queued" => frame'[u][r] = "queued"
  BY <1>1, <1>4
<1> QED
  BY <1>1, <1>4, <1>5, <1>6, <1>7, <1>8, LocalStep

\* Steps of t that move it on without touching links, grants or queues.
LEMMA PhaseStep ==
    ASSUME IndInv, TypeInv', NEW t \in Tasks, NEW a, NEW b,
           \/ a = "ready" /\ b \in {"running", "advancing"}
           \/ a = "running" /\ b = "advancing"
           \/ a = "advancing" /\ b = "done",
           phase[t] = a, phase' = [phase EXCEPT ![t] = b],
           UNCHANGED <<pipeVars, queue, advanced, num_locks, frame>>
    PROVE  IndInv'
<1>1. phase'[t] = b /\ \A u \in Tasks \ {t} : phase'[u] = phase[u]
  BY DEF IndInv, TypeInv
<1>2. LinkOK(t)'
  BY <1>1 DEF IndInv, LinksInv, LinkOK, Wants
<1>3. CountOK(t)'
  BY <1>1 DEF CountOK
<1> QED
  BY <1>1, <1>2, <1>3, LocalStep DEF Holds

\* One round of the release loop.
LEMMA AdvanceStep ==
    ASSUME IndInv, TypeInv', NEW t \in Tasks, advance(t)
    PROVE  IndInv'
<1>1. PICK p \in Wants(t) \ advanced[t] : p = Least(t, Wants(t) \ advanced[t])
  <2>1. advanced[t] \subseteq Wants(t)
    BY DEF IndInv, TypeInv
  <2>2. Wants(t) \ advanced[t] # {}
    BY <2>1 DEF advance
  <2> QED
    BY <2>2, LeastInSet, LinkFacts
<1>2. /\ phase[t] = "advancing" /\ release_grant(t, p)
      /\ advanced' = [advanced EXCEPT ![t] = @ \cup {p}]
      /\ UNCHANGED <<queue, phase, frame, num_locks>>
  BY <1>1 DEF advance
<1>3. p \in Pipes /\ \A r \in Pipes : AcctAt(r)
  BY <1>1, LinkFacts, AccountingIsAcct DEF IndInv
<1>4. \A u \in Tasks, r \in Pipes : u # t \/ r # p => (Holds(u, r)' <=> Holds(u, r))
  BY <1>2, <1>3 DEF Holds, IndInv, TypeInv
<1>5. Holds(t, p) /\ ~Holds(t, p)'
  <2>1. frame[t][p] \in {"turned", "fired"}
    BY <1>1, <1>2 DEF IndInv, LinksInv, LinkOK
  <2>2. p \in advanced'[t]
    BY <1>2 DEF IndInv, TypeInv
  <2> QED
    BY <1>1, <2>1, <2>2 DEF Holds, Granted
<1>6. AcctAt(p)'
  BY <1>1, <1>2, <1>3, <1>4, <1>5, AccountRelease DEF IndInv
<1>7. \A r \in Pipes \ {p} : AcctAt(r)'
  <2> SUFFICES ASSUME NEW r \in Pipes \ {p} PROVE AcctAt(r)'
    OBVIOUS
  <2>1. /\ active_readers'[r] = active_readers[r] /\ writer_active'[r] = writer_active[r]
        /\ writer_owner'[r] = writer_owner[r] /\ write_epoch'[r] = write_epoch[r]
    BY <1>2, <1>3 DEF release_grant, IndInv, TypeInv
  <2> QED
    BY <1>3, <1>4, <2>1, AccountSame
<1>8. LinkOK(t)' /\ CountOK(t)'
  BY <1>2 DEF IndInv, LinksInv, LinkOK, CountOK, Wants
<1>9. \A u \in Tasks \ {t} : LinkOK(u)' /\ CountOK(u)'
  <2>1. \A u \in Tasks \ {t} : advanced'[u] = advanced[u]
    BY <1>2 DEF IndInv, TypeInv
  <2> QED
    BY <1>2, <2>1, LinkSame DEF IndInv, LinksInv
<1>10. \A r \in Pipes : QueueOK(r)'
  BY <1>2, QueueSame DEF IndInv, LinksInv
<1> QED
  BY <1>6, <1>7, <1>8, <1>9, <1>10, AccountingAfter DEF IndInv, LinksInv

\* One iteration of the admission pass.
LEMMA CollectStep ==
    ASSUME IndInv, TypeInv', NEW p \in Pipes, collect_admissions(p)
    PROVE  IndInv'
<1>0. PICK t \in Tasks : t = Head(queue[p])
  BY HeadTailProperties DEF collect_admissions, HeadAdmissible, IndInv, TypeInv
<1>1. /\ queue[p] # <<>> /\ admissible(p, Mode[t][p]) /\ admit_locked(t, {p})
      /\ frame' = [frame EXCEPT ![t][p] = "granted"]
      /\ queue' = [queue EXCEPT ![p] = Tail(@)]
      /\ UNCHANGED <<phase, num_locks, advanced>>
  BY <1>0 DEF collect_admissions, HeadAdmissible
<1>2. t \in Tasks
  OBVIOUS
<1>3. queue'[p] = Tail(queue[p]) /\ \A r \in Pipes \ {p} : queue'[r] = queue[r]
  BY <1>1 DEF IndInv, TypeInv
<1>4. /\ \A u \in Tasks \ {t} : frame'[u] = frame[u]
      /\ frame'[t][p] = "granted" /\ \A r \in Pipes \ {p} : frame'[t][r] = frame[t][r]
  BY <1>1, <1>2 DEF IndInv, TypeInv
<1>5. QueueOK(p)' /\ frame[t][p] = "queued"
  BY <1>0, <1>1, <1>3, <1>4, QueueLeave DEF IndInv, LinksInv
<1>6. \A r \in Pipes \ {p} : QueueOK(r)'
  BY <1>2, <1>3, <1>4, QueueSame DEF IndInv, LinksInv
<1>7. LinkOK(t) /\ CountOK(t) /\ p \in Wants(t) /\ phase[t] = "waiting" /\ advanced[t] = {}
  <2>1. LinkOK(t) /\ CountOK(t) /\ phase[t] \in Phases
    BY <1>2 DEF IndInv, LinksInv, TypeInv
  <2>2. p \in Wants(t)
    BY <1>5, <2>1 DEF LinkOK
  <2> QED
    BY <1>5, <2>1, <2>2 DEF LinkOK, Phases
<1>8. LinkOK(t)'
  <2>1. \A x, y \in Wants(t) :
          x < y /\ frame'[t][x] \in {"out", "queued", "granted"} => frame'[t][y] = "out"
    <3> SUFFICES ASSUME NEW x \in Wants(t), NEW y \in Wants(t), x < y,
                        frame'[t][x] \in {"out", "queued", "granted"}
                 PROVE  frame'[t][y] = "out"
      OBVIOUS
    <3>1. x \in Pipes /\ y \in Pipes
      BY <1>2, LinkFacts
    <3>2. frame[t][x] \in {"out", "queued", "granted"}
      BY <1>4, <1>5, <3>1
    <3>3. frame[t][y] = "out"
      BY <1>7, <3>2 DEF LinkOK
    <3> QED
      BY <1>4, <1>5, <3>1, <3>3
  <2> QED
    BY <1>1, <1>2, <1>4, <1>7, <2>1 DEF LinkOK, Wants
<1>9. CountOK(t)'
  <2>1. Unturned(t)' = Unturned(t)
    BY <1>2, <1>4, <1>5, LinkFacts DEF Unturned, Wants
  <2> QED
    BY <1>1, <1>7, <2>1 DEF CountOK, Wants
<1>10. \A u \in Tasks \ {t} : LinkOK(u)' /\ CountOK(u)'
  BY <1>1, <1>4, LinkSame DEF IndInv, LinksInv
<1>11. \A r \in Pipes : AcctAt(r)
  BY AccountingIsAcct DEF IndInv
<1>12. \A u \in Tasks, r \in Pipes : u # t \/ r # p => (Holds(u, r)' <=> Holds(u, r))
  BY <1>1, <1>2, <1>4 DEF Holds
<1>13. ~Holds(t, p) /\ Holds(t, p)'
  BY <1>1, <1>4, <1>5, <1>7 DEF Holds, Granted
<1>14. AcctAt(p)'
  BY <1>1, <1>2, <1>7, <1>11, <1>12, <1>13, AccountAdmit DEF IndInv
<1>15. \A r \in Pipes \ {p} : AcctAt(r)'
  <2> SUFFICES ASSUME NEW r \in Pipes \ {p} PROVE AcctAt(r)'
    OBVIOUS
  <2>1. /\ active_readers'[r] = active_readers[r] /\ writer_active'[r] = writer_active[r]
        /\ writer_owner'[r] = writer_owner[r] /\ write_epoch'[r] = write_epoch[r]
    BY <1>1 DEF admit_locked, IndInv, TypeInv
  <2> QED
    BY <1>11, <1>12, <2>1, AccountSame
<1> QED
  BY <1>5, <1>6, <1>8, <1>9, <1>10, <1>14, <1>15, AccountingAfter DEF IndInv, LinksInv

\* fire only opens the access: it has no link in a pipe yet.
LEMMA FireStart ==
    ASSUME IndInv, TypeInv', NEW t \in Tasks, fire(t)
    PROVE  IndInv'
<1>1. /\ Kind[t] = "access" /\ phase[t] = "new"
      /\ num_locks' = [num_locks EXCEPT ![t] = Cardinality(Wants(t))]
      /\ UNCHANGED <<pipeVars, queue, frame, advanced>>
  BY DEF fire, Submittable
<1>2. PICK arm \in {"probing", "entering"} : phase' = [phase EXCEPT ![t] = arm]
  BY DEF fire
<1>3. /\ phase'[t] = arm /\ num_locks'[t] = Cardinality(Wants(t))
      /\ \A u \in Tasks \ {t} : phase'[u] = phase[u] /\ num_locks'[u] = num_locks[u]
  BY <1>1, <1>2 DEF IndInv, TypeInv
<1>4. LinkOK(t)
  BY DEF IndInv, LinksInv
<1>5. LinkOK(t)'
  BY <1>1, <1>3, <1>4 DEF LinkOK, Wants
<1>6. CountOK(t)'
  BY <1>3 DEF CountOK, Wants
<1> QED
  BY <1>1, <1>3, <1>5, <1>6, LocalStep DEF Holds

\* A step that none of the conjuncts looks at: a mutex, a life or an owner changes.
LEMMA OwnerStep ==
    ASSUME IndInv, TypeInv',
           UNCHANGED <<pipeVars, queue, phase, frame, num_locks, advanced>>
    PROVE  IndInv'
<1>1. \A r \in Pipes : QueueOK(r)' /\ AcctAt(r)'
  BY QueueSame, AccountingIsAcct, AccountSame DEF IndInv, LinksInv, pipeVars, Holds
<1>2. \A u \in Tasks : LinkOK(u)' /\ CountOK(u)'
  BY LinkSame DEF IndInv, LinksInv
<1> QED
  BY <1>1, <1>2, AccountingAfter DEF IndInv, LinksInv

\* The inline probe admits the access to all its pipes or to none.
LEMMA InlineStep ==
    ASSUME IndInv, TypeInv', NEW t \in Tasks, pipe_try_inline(t)
    PROVE  IndInv'
<1>1. phase[t] = "probing" /\ UNCHANGED <<queue, num_locks, advanced>>
  BY DEF pipe_try_inline
<1>2. /\ LinkOK(t) /\ CountOK(t) /\ Kind[t] # "hold" /\ advanced[t] = {}
      /\ \A p \in Pipes : frame[t][p] = "out"
  BY <1>1 DEF IndInv, LinksInv, LinkOK
<1>3. CASE /\ \A p \in Wants(t) : AdmitNow(t, p)
           /\ admit_locked(t, Wants(t))
           /\ frame' = [frame EXCEPT ![t] =
                          [p \in Pipes |-> IF p \in Wants(t) THEN "fired" ELSE @[p]]]
           /\ phase' = [phase EXCEPT ![t] = "ready"]
  <2>1. /\ \A u \in Tasks \ {t} : frame'[u] = frame[u] /\ phase'[u] = phase[u]
        /\ phase'[t] = "ready"
        /\ \A p \in Wants(t) : frame'[t][p] = "fired"
        /\ \A p \in Pipes \ Wants(t) : frame'[t][p] = "out"
    BY <1>2, <1>3, LinkFacts DEF IndInv, TypeInv
  <2>2. LinkOK(t)'
    BY <1>1, <1>2, <2>1, LinkFacts DEF LinkOK, Wants
  <2>3. CountOK(t)'
    BY <2>1 DEF CountOK
  <2>4. \A u \in Tasks \ {t} : LinkOK(u)' /\ CountOK(u)'
    BY <1>1, <2>1, LinkSame DEF IndInv, LinksInv
  <2>5. \A r \in Pipes : QueueOK(r)'
    BY <1>1, <1>2, <2>1, QueueSame DEF IndInv, LinksInv
  <2>6. /\ \A u \in Tasks \ {t} : \A r \in Pipes : Holds(u, r)' <=> Holds(u, r)
        /\ \A r \in Pipes \ Wants(t) : Holds(t, r)' <=> Holds(t, r)
        /\ \A r \in Wants(t) : ~Holds(t, r) /\ Holds(t, r)'
    BY <1>1, <1>2, <2>1, LinkFacts DEF Holds, Granted
  <2>7. \A r \in Pipes : AcctAt(r)
    BY AccountingIsAcct DEF IndInv
  <2>8. \A r \in Wants(t) : AcctAt(r)'
    BY <1>3, <2>6, <2>7, LinkFacts, AccountAdmit DEF IndInv, AdmitNow
  <2>9. \A r \in Pipes \ Wants(t) : AcctAt(r)'
    <3> SUFFICES ASSUME NEW r \in Pipes \ Wants(t) PROVE AcctAt(r)'
      OBVIOUS
    <3>1. /\ active_readers'[r] = active_readers[r] /\ writer_active'[r] = writer_active[r]
          /\ writer_owner'[r] = writer_owner[r] /\ write_epoch'[r] = write_epoch[r]
      BY <1>3 DEF admit_locked, IndInv, TypeInv
    <3> QED
      BY <2>6, <2>7, <3>1, AccountSame
  <2> QED
    BY <2>2, <2>3, <2>4, <2>5, <2>8, <2>9, AccountingAfter DEF IndInv, LinksInv
<1>4. CASE phase' = [phase EXCEPT ![t] = "entering"] /\ UNCHANGED <<pipeVars, frame>>
  <2>1. phase'[t] = "entering" /\ \A u \in Tasks \ {t} : phase'[u] = phase[u]
    BY <1>4 DEF IndInv, TypeInv
  <2>2. LinkOK(t)' /\ CountOK(t)'
    BY <1>1, <1>2, <1>4, <2>1 DEF LinkOK, CountOK, Wants
  <2> QED
    BY <1>1, <1>4, <2>1, <2>2, LocalStep DEF Holds
<1> QED
  BY <1>3, <1>4 DEF pipe_try_inline

\* A guard is granted in the call or joins the queue.
LEMMA AcquireStep ==
    ASSUME IndInv, TypeInv', NEW t \in Tasks, pipe_acquire(t)
    PROVE  IndInv'
<1>1. PICK p \in Pipes : p = First(t) /\ Wants(t) = {p}
  BY LinkFacts, HoldLink DEF pipe_acquire
<1>2. /\ Kind[t] = "hold" /\ phase[t] = "new" /\ UNCHANGED <<num_locks, advanced>>
  BY DEF pipe_acquire, Submittable
<1>3. /\ LinkOK(t) /\ advanced[t] = {} /\ \A r \in Pipes : frame[t][r] = "out"
      /\ \A r \in Pipes : AcctAt(r) /\ QueueOK(r)
  BY <1>2, AccountingIsAcct DEF IndInv, LinksInv, LinkOK
<1>4. \A x, y \in Wants(t) : ~(x < y)
  BY <1>1, PipeAssumption
<1>5. CountOK(t)'
  BY <1>2 DEF CountOK
<1>6. CASE AdmitNow(t, p)
  <2>1. /\ admit_locked(t, {p}) /\ admissible(p, Mode[t][p]) /\ queue' = queue
        /\ frame' = [frame EXCEPT ![t][p] = "fired"]
        /\ phase' = [phase EXCEPT ![t] = "running"]
    BY <1>1, <1>6 DEF pipe_acquire, AdmitNow
  <2>2. /\ \A u \in Tasks \ {t} : frame'[u] = frame[u] /\ phase'[u] = phase[u]
        /\ frame'[t][p] = "fired" /\ phase'[t] = "running"
        /\ \A r \in Pipes \ {p} : frame'[t][r] = "out"
    BY <1>3, <2>1 DEF IndInv, TypeInv
  <2>3. LinkOK(t)'
    BY <1>1, <1>2, <1>3, <1>4, <2>2 DEF LinkOK, Wants
  <2>4. /\ \A u \in Tasks, r \in Pipes : u # t \/ r # p => (Holds(u, r)' <=> Holds(u, r))
        /\ ~Holds(t, p) /\ Holds(t, p)'
    BY <1>2, <1>3, <2>2 DEF Holds, Granted
  <2>5. AcctAt(p)'
    BY <1>1, <1>3, <2>1, <2>4, AccountAdmit DEF IndInv
  <2>6. \A r \in Pipes \ {p} : AcctAt(r)'
    <3> SUFFICES ASSUME NEW r \in Pipes \ {p} PROVE AcctAt(r)'
      OBVIOUS
    <3>1. /\ active_readers'[r] = active_readers[r] /\ writer_active'[r] = writer_active[r]
          /\ writer_owner'[r] = writer_owner[r] /\ write_epoch'[r] = write_epoch[r]
      BY <2>1 DEF admit_locked, IndInv, TypeInv
    <3> QED
      BY <1>3, <2>4, <3>1, AccountSame
  <2>7. \A r \in Pipes : QueueOK(r)'
    BY <1>3, <2>1, <2>2, QueueSame DEF IndInv
  <2>8. \A u \in Tasks \ {t} : LinkOK(u)' /\ CountOK(u)'
    BY <1>2, <2>2, LinkSame DEF IndInv, LinksInv
  <2> QED
    BY <1>5, <2>3, <2>5, <2>6, <2>7, <2>8, AccountingAfter DEF IndInv, LinksInv
<1>7. CASE ~AdmitNow(t, p)
  <2>1. /\ queue' = [queue EXCEPT ![p] = Append(@, t)] /\ UNCHANGED pipeVars
        /\ frame' = [frame EXCEPT ![t][p] = "queued"]
        /\ phase' = [phase EXCEPT ![t] = "waiting"]
    BY <1>1, <1>7 DEF pipe_acquire
  <2>2. /\ \A u \in Tasks \ {t} : frame'[u] = frame[u] /\ phase'[u] = phase[u]
        /\ frame'[t][p] = "queued" /\ phase'[t] = "waiting"
        /\ \A r \in Pipes \ {p} : frame'[t][r] = "out"
    BY <1>3, <2>1 DEF IndInv, TypeInv
  <2>3. LinkOK(t)'
    BY <1>1, <1>2, <1>3, <1>4, <2>2 DEF LinkOK, Wants
  <2>4. \A u \in Tasks, r \in Pipes : Holds(u, r)' <=> Holds(u, r)
    BY <1>2, <1>3, <2>2 DEF Holds, Granted
  <2>5. \A r \in Pipes : AcctAt(r)'
    BY <1>3, <2>1, <2>4, AccountSame DEF pipeVars
  <2>6. QueueOK(p)'
    BY <1>3, <2>1, <2>2, QueueJoin DEF IndInv, TypeInv
  <2>7. \A r \in Pipes \ {p} : QueueOK(r)'
    <3> SUFFICES ASSUME NEW r \in Pipes \ {p} PROVE QueueOK(r)'
      OBVIOUS
    <3>1. queue'[r] = queue[r]
      BY <2>1 DEF IndInv, TypeInv
    <3> QED
      BY <1>3, <2>2, <3>1, QueueSame DEF IndInv
  <2>8. \A u \in Tasks \ {t} : LinkOK(u)' /\ CountOK(u)'
    BY <1>2, <2>2, LinkSame DEF IndInv, LinksInv
  <2> QED
    BY <1>5, <2>3, <2>5, <2>6, <2>7, <2>8, AccountingAfter DEF IndInv, LinksInv
<1> QED
  BY <1>6, <1>7

\* Every step keeps the inductive invariant.
LEMMA IndStep == IndInv /\ [Next]_vars => IndInv'
<1> SUFFICES ASSUME IndInv, [Next]_vars PROVE IndInv'
  OBVIOUS
<1>0. TypeInv'
  BY TypeStep DEF IndInv
<1>1. ASSUME NEW t \in Tasks, launch(t) PROVE IndInv'
  <2>1. /\ Kind[t] # "hold" /\ phase[t] = "new" /\ phase' = [phase EXCEPT ![t] = "waiting"]
        /\ num_locks' = [num_locks EXCEPT ![t] = Cardinality(Wants(t))] /\ advanced' = advanced
        /\ pipe_enter_link(t, First(t), <<"submit", t>>, frame)
    BY <1>1 DEF launch, Submittable
  <2>2. num_locks'[t] = Cardinality(Wants(t)) /\ \A u \in Tasks \ {t} : num_locks'[u] = num_locks[u]
    BY <2>1 DEF IndInv, TypeInv
  <2> QED
    BY <1>0, <2>1, <2>2, FirstLinkStep
<1>2. ASSUME NEW t \in Tasks, fire(t) PROVE IndInv'
  BY <1>0, <1>2, FireStart
<1>3. ASSUME NEW t \in Tasks, lock_pipe(t) PROVE IndInv'
  BY <1>0, <1>3, OwnerStep DEF lock_pipe
<1>4. ASSUME NEW t \in Tasks, pipe_try_inline(t) PROVE IndInv'
  BY <1>0, <1>4, InlineStep
<1>5. ASSUME NEW t \in Tasks, pipe_enter_first(t) PROVE IndInv'
  <2>1. /\ phase[t] = "entering" /\ phase' = [phase EXCEPT ![t] = "waiting"]
        /\ UNCHANGED <<num_locks, advanced>>
        /\ pipe_enter_link(t, First(t), <<"submit", t>>, frame)
    BY <1>5 DEF pipe_enter_first
  <2>2. Kind[t] # "hold" /\ num_locks[t] = Cardinality(Wants(t))
    BY <2>1 DEF IndInv, LinksInv, LinkOK, CountOK
  <2> QED
    BY <1>0, <2>1, <2>2, FirstLinkStep
<1>6. ASSUME NEW t \in Tasks, pipe_acquire(t) PROVE IndInv'
  BY <1>0, <1>6, AcquireStep
<1>7. ASSUME NEW c \in Carriers, NEW t \in Tasks, NEW p \in Wants(t), cascade(c, t, p)
      PROVE IndInv'
  BY <1>0, <1>7, CascadeStep
<1>8. ASSUME NEW c \in Carriers, NEW t \in Tasks, NEW p \in Wants(t), turn(c, t, p)
      PROVE IndInv'
  BY <1>0, <1>8, TurnStep
<1>9. ASSUME NEW c \in Carriers, NEW t \in Tasks, NEW p \in Wants(t), drop_entry_ref(c, t, p)
      PROVE IndInv'
  BY <1>0, <1>9, TurnedStep DEF drop_entry_ref
<1>10. ASSUME NEW c \in Carriers, NEW t \in Tasks, NEW p \in Wants(t), fire_hold(c, t, p)
       PROVE IndInv'
  BY <1>0, <1>10, FireHoldStep
<1>11. ASSUME NEW t \in Tasks, run(t) PROVE IndInv'
  <2>1. /\ phase[t] = "ready" /\ phase' = [phase EXCEPT ![t] = "running"]
        /\ UNCHANGED <<pipeVars, queue, advanced, num_locks, frame>>
    BY <1>11 DEF run
  <2> QED
    BY <1>0, <2>1, PhaseStep
<1>12. ASSUME NEW t \in Tasks, phase[t] \in {"ready", "running"}, leave_body(t) PROVE IndInv'
  <2>1. /\ phase' = [phase EXCEPT ![t] = "advancing"]
        /\ UNCHANGED <<pipeVars, queue, advanced, num_locks, frame>>
    BY <1>12 DEF leave_body
  <2>2. CASE phase[t] = "ready"
    BY <1>0, <2>1, <2>2, PhaseStep
  <2>3. CASE phase[t] = "running"
    BY <1>0, <2>1, <2>3, PhaseStep
  <2> QED
    BY <1>12, <2>2, <2>3
<1>13. ASSUME NEW t \in Tasks, advance(t) PROVE IndInv'
  BY <1>0, <1>13, AdvanceStep
<1>14. ASSUME NEW p \in Pipes, collect_admissions(p) PROVE IndInv'
  BY <1>0, <1>14, CollectStep
<1>15. ASSUME NEW p \in Pipes, end_pass(p) PROVE IndInv'
  BY <1>0, <1>15, OwnerStep DEF end_pass
<1>16. ASSUME NEW t \in Tasks, finish(t) PROVE IndInv'
  <2>1. /\ phase[t] = "advancing" /\ phase' = [phase EXCEPT ![t] = "done"]
        /\ UNCHANGED <<pipeVars, queue, advanced, num_locks, frame>>
    BY <1>16 DEF finish
  <2> QED
    BY <1>0, <2>1, PhaseStep
<1>17. ASSUME NEW t \in Tasks, drop_handle(t) PROVE IndInv'
  BY <1>0, <1>17, OwnerStep DEF drop_handle
<1>18. ASSUME NEW p \in Pipes, check_idle(p) PROVE IndInv'
  BY <1>0, <1>18, OwnerStep DEF check_idle
<1>19. CASE UNCHANGED vars
  BY <1>0, <1>19, OwnerStep DEF vars
<1> QED
  BY <1>1, <1>2, <1>3, <1>4, <1>5, <1>6, <1>7, <1>8, <1>9, <1>10, <1>11, <1>12, <1>13,
     <1>14, <1>15, <1>16, <1>17, <1>18, <1>19
  DEF Next, TaskStep, FireStep, PipeStep, UserStep, Ended, run_cancelled, finish_body,
      destroy, wake

-----------------------------------------------------------------------------
(* Epochs *)

\* What the epochs promise: a snapshot is never ahead of its pipe, is current
\* while the body runs, and is behind once its write grant is given back.
EpochOK(t) ==
    /\ \A p \in Wants(t) : seen[t][p] <= write_epoch[p]
    /\ phase[t] = "running" => \A p \in Wants(t) : seen[t][p] = write_epoch[p]
    /\ \A p \in Writes(t) \cap advanced[t] : seen[t][p] < write_epoch[p]

EpochInv == \A t \in Tasks : EpochOK(t)

\* The epoch of p moves, by one, only when some access is admitted to p for
\* writing or gives such a grant back.
EpochMoves(p) ==
    \/ write_epoch'[p] = write_epoch[p]
    \/ /\ write_epoch'[p] = write_epoch[p] + 1
       /\ \/ ~writer_active[p] /\ active_readers[p] = 0
          \/ \E u \in Tasks : p \in Writes(u) /\ Holds(u, p) /\ phase[u] = "advancing"

\* Admission moves the epochs only of the pipes it finds free.
LEMMA AdmitEpoch ==
    ASSUME TypeInv, NEW t \in Tasks, NEW S \in SUBSET Wants(t), admit_locked(t, S),
           \A p \in S : admissible(p, Mode[t][p])
    PROVE  \A p \in Pipes : EpochMoves(p)
<1> SUFFICES ASSUME NEW p \in Pipes PROVE EpochMoves(p)
  OBVIOUS
<1>1. CASE p \in S \cap Writes(t)
  BY <1>1 DEF admit_locked, admissible, Writes, EpochMoves
<1>2. CASE p \notin S \cap Writes(t)
  BY <1>2 DEF admit_locked, EpochMoves
<1> QED
  BY <1>1, <1>2

\* Every step moves the epochs only as EpochMoves allows.
LEMMA EpochStep ==
    ASSUME IndInv, [Next]_vars
    PROVE  \A p \in Pipes : EpochMoves(p)
<1> USE DEF EpochMoves
<1>0. TypeInv
  BY DEF IndInv
<1>1. ASSUME NEW t \in Tasks, NEW p \in Wants(t), NEW c \in Carriers, NEW fr,
             pipe_enter_link(t, p, c, fr)
      PROVE  \A q \in Pipes : EpochMoves(q)
  <2>1. CASE AdmitNow(t, p)
    BY <1>0, <1>1, <2>1, AdmitEpoch DEF pipe_enter_link, AdmitNow
  <2>2. CASE ~AdmitNow(t, p)
    BY <1>1, <2>2 DEF pipe_enter_link, pipeVars
  <2> QED
    BY <2>1, <2>2
<1>2. ASSUME NEW t \in Tasks, launch(t) \/ pipe_enter_first(t)
      PROVE  \A q \in Pipes : EpochMoves(q)
  <2>1. pipe_enter_link(t, First(t), <<"submit", t>>, frame)
    BY <1>2 DEF launch, pipe_enter_first
  <2> QED
    BY <1>1, <2>1, LinkFacts DEF Carriers
<1>3. ASSUME NEW c \in Carriers, NEW t \in Tasks, NEW p \in Wants(t), cascade(c, t, p)
      PROVE  \A q \in Pipes : EpochMoves(q)
  <2>1. PICK q \in Wants(t) : q = Least(t, After(t, p))
    BY <1>3, NextLink DEF cascade
  <2>2. pipe_enter_link(t, q, c, [frame EXCEPT ![t][p] = "cascaded"])
    BY <1>3, <2>1 DEF cascade
  <2> QED
    BY <1>1, <2>2
<1>4. ASSUME NEW t \in Tasks, pipe_acquire(t) PROVE \A q \in Pipes : EpochMoves(q)
  <2>1. CASE AdmitNow(t, First(t))
    BY <1>0, <1>4, <2>1, AdmitEpoch, LinkFacts DEF pipe_acquire, AdmitNow
  <2>2. CASE ~AdmitNow(t, First(t))
    BY <1>4, <2>2 DEF pipe_acquire, pipeVars
  <2> QED
    BY <2>1, <2>2
<1>5. ASSUME NEW t \in Tasks, pipe_try_inline(t) PROVE \A q \in Pipes : EpochMoves(q)
  <2>1. CASE (\A p \in Wants(t) : AdmitNow(t, p)) /\ admit_locked(t, Wants(t))
    BY <1>0, <2>1, AdmitEpoch DEF AdmitNow
  <2>2. CASE UNCHANGED pipeVars
    BY <2>2 DEF pipeVars
  <2> QED
    BY <1>5, <2>1, <2>2 DEF pipe_try_inline
<1>6. ASSUME NEW p \in Pipes, collect_admissions(p) PROVE \A q \in Pipes : EpochMoves(q)
  <2>1. PICK t \in Tasks : t = Head(queue[p])
    BY <1>0, <1>6, HeadTailProperties DEF collect_admissions, HeadAdmissible, TypeInv
  <2>2. admit_locked(t, {p}) /\ admissible(p, Mode[t][p])
    BY <1>6, <2>1 DEF collect_admissions, HeadAdmissible
  <2>3. p \in Wants(t)
    <3>1. frame[t][p] = "queued"
      BY <1>6, <2>1, QueueLeave DEF collect_admissions, HeadAdmissible, IndInv, LinksInv, QueueOK
    <3> QED
      BY <3>1 DEF IndInv, LinksInv, LinkOK
  <2> QED
    BY <1>0, <2>2, <2>3, AdmitEpoch
<1>7. ASSUME NEW t \in Tasks, advance(t) PROVE \A q \in Pipes : EpochMoves(q)
  <2>1. PICK p \in Wants(t) \ advanced[t] : p = Least(t, Wants(t) \ advanced[t])
    <3>1. Wants(t) \ advanced[t] # {}
      BY <1>0, <1>7 DEF advance, TypeInv
    <3> QED
      BY <3>1, LeastInSet, LinkFacts
  <2>2. phase[t] = "advancing" /\ release_grant(t, p)
    BY <1>7, <2>1 DEF advance
  <2>3. p \in Pipes /\ Mode[t][p] \in Modes
    BY LinkFacts
  <2>4. CASE Mode[t][p] = "read_only"
    BY <2>2, <2>4 DEF release_grant
  <2>5. CASE Mode[t][p] = "read_write"
    <3>1. p \in Writes(t) /\ Holds(t, p)
      <4>1. frame[t][p] \in {"turned", "fired"}
        BY <2>2 DEF IndInv, LinksInv, LinkOK
      <4> QED
        BY <2>1, <2>5, <4>1 DEF Holds, Granted, Writes
    <3>2. write_epoch' = [write_epoch EXCEPT ![p] = @ + 1]
      BY <2>2, <2>5 DEF release_grant
    <3> QED
      BY <1>0, <2>2, <3>1, <3>2 DEF TypeInv
  <2> QED
    BY <2>3, <2>4, <2>5 DEF Modes
<1>8. CASE UNCHANGED write_epoch
  BY <1>8
<1>9. ASSUME NEW t \in Tasks,
             fire(t) \/ lock_pipe(t) \/ run(t) \/ leave_body(t) \/ finish(t) \/ drop_handle(t)
      PROVE  UNCHANGED write_epoch
  BY <1>9 DEF fire, lock_pipe, run, leave_body, finish, drop_handle, pipeVars
<1>10. ASSUME NEW c \in Carriers, NEW t \in Tasks, NEW p \in Wants(t),
              turn(c, t, p) \/ drop_entry_ref(c, t, p) \/ fire_hold(c, t, p)
       PROVE  UNCHANGED write_epoch
  BY <1>10 DEF turn, drop_entry_ref, fire_hold, pipeVars
<1>11. ASSUME NEW p \in Pipes, end_pass(p) \/ check_idle(p) PROVE UNCHANGED write_epoch
  BY <1>11 DEF end_pass, check_idle, pipeVars
<1>12. UNCHANGED vars => UNCHANGED write_epoch
  BY DEF vars, pipeVars
<1> HIDE DEF EpochMoves
<1> QED
  BY <1>2, <1>3, <1>4, <1>5, <1>6, <1>7, <1>8, <1>9, <1>10, <1>11, <1>12
  DEF Next, TaskStep, FireStep, PipeStep, UserStep, Ended, run_cancelled, finish_body,
      destroy, wake

\* A snapshot is retaken only from the present epochs, at the start of a body; a
\* write grant that goes back moves the epoch.
SeenMoves(u) ==
    \/ seen'[u] = write_epoch' /\ advanced'[u] = {}
    \/ /\ seen'[u] = seen[u] /\ (phase'[u] = "running" => phase[u] = "running")
       /\ \A p \in Writes(u) \cap advanced'[u] :
            p \in advanced[u] \/ write_epoch'[p] = write_epoch[p] + 1

\* Every step moves the snapshots only as SeenMoves allows.
LEMMA SeenStep ==
    ASSUME IndInv, [Next]_vars
    PROVE  \A u \in Tasks : SeenMoves(u)
<1> SUFFICES ASSUME NEW u \in Tasks PROVE SeenMoves(u)
  OBVIOUS
<1>0. TypeInv /\ LinkOK(u)
  BY DEF IndInv, LinksInv
<1>1. CASE UNCHANGED <<seen, advanced, phase>>
  BY <1>1 DEF SeenMoves
<1>2. ASSUME UNCHANGED <<seen, advanced>>, NEW t \in Tasks, NEW ph, ph # "running",
             phase' = [phase EXCEPT ![t] = ph]
      PROVE  SeenMoves(u)
  BY <1>0, <1>2 DEF SeenMoves, TypeInv
<1>3. ASSUME NEW t \in Tasks, launch(t) \/ fire(t) \/ pipe_enter_first(t) \/ finish(t)
                              \/ leave_body(t) \/ pipe_try_inline(t)
      PROVE  SeenMoves(u)
  <2>1. UNCHANGED <<seen, advanced>>
    BY <1>3 DEF launch, fire, pipe_enter_first, finish, leave_body, pipe_try_inline
  <2>2. \E ph \in {"waiting", "probing", "entering", "done", "advancing", "ready"} :
          phase' = [phase EXCEPT ![t] = ph]
    BY <1>3 DEF launch, fire, pipe_enter_first, finish, leave_body, pipe_try_inline
  <2> QED
    BY <1>2, <2>1, <2>2
<1>4. ASSUME NEW t \in Tasks, pipe_acquire(t) PROVE SeenMoves(u)
  <2>1. CASE AdmitNow(t, First(t))
    <3>1. /\ seen' = [seen EXCEPT ![t] = write_epoch'] /\ advanced' = advanced
          /\ phase' = [phase EXCEPT ![t] = "running"] /\ phase[t] = "new"
      BY <1>4, <2>1 DEF pipe_acquire, Submittable
    <3>2. CASE u = t
      BY <1>0, <3>1, <3>2 DEF SeenMoves, TypeInv, LinkOK
    <3>3. CASE u # t
      BY <1>0, <3>1, <3>3 DEF SeenMoves, TypeInv
    <3> QED
      BY <3>2, <3>3
  <2>2. CASE ~AdmitNow(t, First(t))
    BY <1>2, <1>4, <2>2 DEF pipe_acquire
  <2> QED
    BY <2>1, <2>2
<1>5. ASSUME NEW t \in Tasks, run(t) PROVE SeenMoves(u)
  <2>1. /\ seen' = [seen EXCEPT ![t] = write_epoch] /\ advanced' = advanced
        /\ phase' = [phase EXCEPT ![t] = "running"] /\ phase[t] = "ready"
        /\ write_epoch' = write_epoch
    BY <1>5 DEF run, pipeVars
  <2>2. CASE u = t
    BY <1>0, <2>1, <2>2 DEF SeenMoves, TypeInv, LinkOK
  <2>3. CASE u # t
    BY <1>0, <2>1, <2>3 DEF SeenMoves, TypeInv
  <2> QED
    BY <2>2, <2>3
<1>6. ASSUME NEW c \in Carriers, NEW t \in Tasks, NEW p \in Wants(t),
             cascade(c, t, p) \/ drop_entry_ref(c, t, p)
      PROVE  SeenMoves(u)
  BY <1>1, <1>6 DEF cascade, drop_entry_ref
<1>7. ASSUME NEW c \in Carriers, NEW t \in Tasks, NEW p \in Wants(t),
             turn(c, t, p) \/ fire_hold(c, t, p)
      PROVE  SeenMoves(u)
  <2>1. UNCHANGED <<seen, advanced>>
    BY <1>7 DEF turn, fire_hold
  <2>2. phase' = phase \/ phase' = [phase EXCEPT ![t] = "ready"]
    BY <1>7 DEF turn, fire_hold
  <2> QED
    BY <1>1, <1>2, <2>1, <2>2
<1>8. ASSUME NEW t \in Tasks, advance(t) PROVE SeenMoves(u)
  <2>1. PICK p \in Wants(t) \ advanced[t] : p = Least(t, Wants(t) \ advanced[t])
    <3>1. Wants(t) \ advanced[t] # {}
      BY <1>0, <1>8 DEF advance, TypeInv
    <3> QED
      BY <3>1, LeastInSet, LinkFacts
  <2>2. /\ release_grant(t, p) /\ advanced' = [advanced EXCEPT ![t] = @ \cup {p}]
        /\ UNCHANGED <<seen, phase>>
    BY <1>8, <2>1 DEF advance
  <2>3. p \in Pipes
    BY LinkFacts
  <2>4. p \in Writes(t) => write_epoch'[p] = write_epoch[p] + 1
    BY <1>0, <2>2, <2>3 DEF release_grant, Writes, TypeInv
  <2> QED
    BY <1>0, <2>2, <2>4 DEF SeenMoves, TypeInv
<1>9. ASSUME NEW p \in Pipes, collect_admissions(p) \/ end_pass(p) \/ check_idle(p)
      PROVE  SeenMoves(u)
  BY <1>1, <1>9 DEF collect_admissions, end_pass, check_idle
<1>10. ASSUME NEW t \in Tasks, lock_pipe(t) \/ drop_handle(t) PROVE SeenMoves(u)
  BY <1>1, <1>10 DEF lock_pipe, drop_handle
<1>11. CASE UNCHANGED vars
  BY <1>1, <1>11 DEF vars
<1> QED
  BY <1>3, <1>4, <1>5, <1>6, <1>7, <1>8, <1>9, <1>10, <1>11
  DEF Next, TaskStep, FireStep, PipeStep, UserStep, Ended, run_cancelled, finish_body,
      destroy, wake

\* A grant keeps other writers out, so it pins the epoch of its pipe.
LEMMA HeldEpoch ==
    ASSUME IndInv, NEW t \in Tasks, phase[t] = "running", NEW p \in Wants(t), EpochMoves(p)
    PROVE  write_epoch'[p] = write_epoch[p]
<1>1. p \in Pipes /\ Holds(t, p) /\ p \in Reads(t) \cup Writes(t)
  <2>1. frame[t][p] \in {"turned", "fired"} /\ advanced[t] = {}
    BY DEF IndInv, LinksInv, LinkOK
  <2> QED
    BY <2>1, LinkFacts DEF Holds, Granted, Reads, Writes, Modes
<1>2. AcctAt(p) /\ IsFiniteSet(Readers(p)) /\ writer_active[p] \in BOOLEAN
  <2>1. IsFiniteSet(Readers(p))
    BY TasksFinite, FS_Subset DEF Readers
  <2> QED
    BY <1>1, <2>1, AccountingIsAcct DEF IndInv, TypeInv
<1>3. t \in Readers(p) \/ t \in Writers(p)
  BY <1>1 DEF Readers, Writers
<1>4. ~(~writer_active[p] /\ active_readers[p] = 0)
  <2> SUFFICES ASSUME ~writer_active[p], active_readers[p] = 0 PROVE FALSE
    OBVIOUS
  <2>1. Writers(p) = {} /\ Cardinality(Readers(p)) = 0
    BY <1>2 DEF AcctAt, Acct
  <2> QED
    BY <1>2, <1>3, <2>1, FS_EmptySet
<1>5. ~\E u \in Tasks : p \in Writes(u) /\ Holds(u, p) /\ phase[u] = "advancing"
  <2> SUFFICES ASSUME NEW u \in Tasks, p \in Writes(u), Holds(u, p), phase[u] = "advancing"
               PROVE  FALSE
    OBVIOUS
  <2>1. u \in Writers(p) /\ u # t
    BY DEF Writers
  <2>2. writer_active[p] /\ Writers(p) = {writer_owner[p]} /\ Readers(p) = {}
    BY <1>2, <2>1 DEF AcctAt, Acct
  <2> QED
    BY <1>3, <2>1, <2>2
<1> QED
  BY <1>4, <1>5 DEF EpochMoves

\* Every step keeps the epochs' promise.
LEMMA EpochInvStep == IndInv /\ EpochInv /\ [Next]_vars => EpochInv'
<1> SUFFICES ASSUME IndInv, EpochInv, [Next]_vars, NEW t \in Tasks PROVE EpochOK(t)'
  BY DEF EpochInv
<1>1. SeenMoves(t) /\ \A p \in Pipes : EpochMoves(p)
  BY SeenStep, EpochStep
<1>2. TypeInv' /\ TypeInv /\ EpochOK(t)
  BY TypeStep DEF IndInv, EpochInv
<1>3. \A p \in Wants(t) : /\ p \in Pipes /\ seen[t][p] \in Nat
                          /\ write_epoch[p] \in Nat /\ write_epoch'[p] \in Nat
                          /\ write_epoch[p] <= write_epoch'[p]
  <2> SUFFICES ASSUME NEW p \in Wants(t)
               PROVE  /\ p \in Pipes /\ seen[t][p] \in Nat
                      /\ write_epoch[p] \in Nat /\ write_epoch'[p] \in Nat
                      /\ write_epoch[p] <= write_epoch'[p]
    OBVIOUS
  <2>1. p \in Pipes
    BY LinkFacts
  <2>2. seen[t][p] \in Nat /\ write_epoch[p] \in Nat /\ write_epoch'[p] \in Nat
    BY <1>2, <2>1 DEF TypeInv
  <2>3. write_epoch'[p] = write_epoch[p] \/ write_epoch'[p] = write_epoch[p] + 1
    BY <1>1, <2>1 DEF EpochMoves
  <2> QED
    BY <2>1, <2>2, <2>3
<1>4. CASE seen'[t] = write_epoch' /\ advanced'[t] = {}
  BY <1>3, <1>4 DEF EpochOK, Wants
<1>5. CASE /\ seen'[t] = seen[t] /\ (phase'[t] = "running" => phase[t] = "running")
           /\ \A p \in Writes(t) \cap advanced'[t] :
                p \in advanced[t] \/ write_epoch'[p] = write_epoch[p] + 1
  <2>1. \A p \in Wants(t) : seen'[t][p] <= write_epoch'[p]
    BY <1>2, <1>3, <1>5 DEF EpochOK
  <2>2. ASSUME phase'[t] = "running" PROVE \A p \in Wants(t) : seen'[t][p] = write_epoch'[p]
    BY <1>1, <1>2, <1>3, <1>5, <2>2, HeldEpoch DEF EpochOK
  <2>3. ASSUME NEW p \in Writes(t) \cap advanced'[t] PROVE seen'[t][p] < write_epoch'[p]
    <3>1. p \in Wants(t)
      BY DEF Writes
    <3>2. CASE p \in advanced[t]
      BY <1>2, <1>3, <1>5, <3>1, <3>2 DEF EpochOK
    <3>3. CASE write_epoch'[p] = write_epoch[p] + 1
      BY <1>2, <1>3, <1>5, <3>1, <3>3 DEF EpochOK
    <3> QED
      BY <1>5, <3>2, <3>3
  <2> QED
    BY <2>1, <2>2, <2>3 DEF EpochOK, Wants, Writes
<1> QED
  BY <1>1, <1>4, <1>5 DEF SeenMoves

-----------------------------------------------------------------------------
(* FIFO and work conservation *)

\* A pipe's mutex is held for a probe or for a release of one of the pipe's accesses.
MutexOK(p) ==
    mutex[p] # NoTask => p \in Wants(mutex[p]) /\ phase[mutex[p]] \in {"probing", "advancing"}

\* A link that waits for p is in p's queue.
QueuedIn(p) ==
    \A t \in Tasks : frame[t][p] = "queued" => \E i \in 1..Len(queue[p]) : queue[p][i] = t

\* Outside an admission pass the head of the queue is blocked.
HeadOK(p) == Releasing(p) \/ ~HeadAdmissible(p)

FlowInv == \A p \in Pipes : MutexOK(p) /\ QueuedIn(p) /\ HeadOK(p)

\* Nobody joins the queue of p.
LEMMA QueuedSame ==
    ASSUME NEW p \in Pipes, QueuedIn(p), queue'[p] = queue[p],
           \A u \in Tasks : frame'[u][p] = "queued" => frame[u][p] = "queued"
    PROVE  QueuedIn(p)'
  BY DEF QueuedIn

\* t joins the queue of p, behind those already there.
LEMMA QueuedJoin ==
    ASSUME NEW p \in Pipes, NEW t \in Tasks, queue[p] \in Seq(Tasks), QueuedIn(p),
           queue'[p] = Append(queue[p], t),
           \A u \in Tasks \ {t} : frame'[u][p] = "queued" => frame[u][p] = "queued"
    PROVE  QueuedIn(p)'
<1>1. /\ Len(queue'[p]) = Len(queue[p]) + 1 /\ Len(queue[p]) \in Nat
      /\ \A i \in 1..Len(queue[p]) : queue'[p][i] = queue[p][i]
      /\ queue'[p][Len(queue[p]) + 1] = t
  BY AppendProperties, LenProperties
<1>2. \A i \in 1..Len(queue[p]) : i \in 1..Len(queue'[p])
  BY <1>1
<1>3. Len(queue[p]) + 1 \in 1..Len(queue'[p])
  BY <1>1
<1> QED
  BY <1>1, <1>2, <1>3 DEF QueuedIn

\* The head leaves the queue of p.
LEMMA QueuedLeave ==
    ASSUME NEW p \in Pipes, queue[p] \in Seq(Tasks), QueuedIn(p), queue[p] # <<>>,
           queue'[p] = Tail(queue[p]), frame'[Head(queue[p])][p] # "queued",
           \A u \in Tasks : frame'[u][p] = "queued" => frame[u][p] = "queued"
    PROVE  QueuedIn(p)'
<1>1. /\ Len(queue[p]) \in Nat /\ Len(queue[p]) >= 1 /\ Head(queue[p]) = queue[p][1]
      /\ Len(queue'[p]) = Len(queue[p]) - 1
      /\ \A i \in 1..Len(queue'[p]) : queue'[p][i] = queue[p][i + 1]
  BY HeadTailProperties, LenProperties, EmptySeq
<1>2. ASSUME NEW u \in Tasks, frame'[u][p] = "queued"
      PROVE  \E i \in 1..Len(queue'[p]) : queue'[p][i] = u
  <2>1. PICK i \in 1..Len(queue[p]) : queue[p][i] = u
    BY <1>2 DEF QueuedIn
  <2>2. i # 1
    BY <1>1, <1>2, <2>1
  <2>3. i - 1 \in 1..Len(queue'[p]) /\ (i - 1) + 1 = i
    BY <1>1, <2>2
  <2> QED
    BY <1>1, <2>1, <2>3
<1> QED
  BY <1>2 DEF QueuedIn

\* What p's admission depends on is left alone, and a pass over p goes on.
LEMMA HeadSame ==
    ASSUME NEW p \in Pipes, HeadOK(p), queue'[p] = queue[p],
           active_readers'[p] = active_readers[p], writer_active'[p] = writer_active[p],
           Releasing(p) => Releasing(p)'
    PROVE  HeadOK(p)'
  BY DEF HeadOK, HeadAdmissible, admissible

\* pipe_enter_link: an entry is admitted past an empty queue, or joins a queue whose
\* head, itself if need be, is blocked.
LEMMA EnterFlow ==
    ASSUME TypeInv, FlowInv, NEW t \in Tasks, NEW p \in Wants(t), NEW c \in Carriers,
           NEW fr \in [Tasks -> [Pipes -> FrameStates]],
           \A u \in Tasks, r \in Pipes : fr[u][r] = "queued" => frame[u][r] = "queued",
           mutex' = mutex, \A r \in Pipes : Releasing(r) => Releasing(r)',
           pipe_enter_link(t, p, c, fr)
    PROVE  \A r \in Pipes : QueuedIn(r)' /\ HeadOK(r)'
<1>0. p \in Pipes /\ queue \in [Pipes -> Seq(Tasks)] /\ mutex[p] = NoTask
  BY LinkFacts DEF TypeInv, pipe_enter_link
<1>1. ~HeadAdmissible(p)
  BY <1>0 DEF FlowInv, HeadOK, Releasing
<1>2. CASE AdmitNow(t, p)
  <2>1. /\ admit_locked(t, {p}) /\ frame' = [fr EXCEPT ![t][p] = "granted"]
        /\ queue' = queue /\ queue[p] = <<>>
    BY <1>2 DEF pipe_enter_link, AdmitNow
  <2>2. \A u \in Tasks, r \in Pipes : frame'[u][r] = "queued" => frame[u][r] = "queued"
    BY <1>0, <2>1
  <2>3. \A r \in Pipes \ {p} :
          active_readers'[r] = active_readers[r] /\ writer_active'[r] = writer_active[r]
    BY <2>1 DEF admit_locked, TypeInv
  <2>4. HeadOK(p)'
    BY <2>1 DEF HeadOK, HeadAdmissible
  <2> QED
    BY <2>1, <2>2, <2>3, <2>4, QueuedSame, HeadSame DEF FlowInv
<1>3. CASE ~AdmitNow(t, p)
  <2>1. /\ queue' = [queue EXCEPT ![p] = Append(@, t)]
        /\ frame' = [fr EXCEPT ![t][p] = "queued"]
        /\ active_readers' = active_readers /\ writer_active' = writer_active
    BY <1>3 DEF pipe_enter_link, pipeVars
  <2>2. queue'[p] = Append(queue[p], t) /\ \A r \in Pipes \ {p} : queue'[r] = queue[r]
    BY <1>0, <2>1
  <2>3. \A u \in Tasks, r \in Pipes : u # t \/ r # p =>
          (frame'[u][r] = "queued" => frame[u][r] = "queued")
    BY <1>0, <2>1
  <2>4. QueuedIn(p)'
    BY <1>0, <2>2, <2>3, QueuedJoin DEF FlowInv
  <2>5. HeadOK(p)'
    <3>1. CASE queue[p] = <<>>
      <4>1. Head(queue'[p]) = t
        BY <2>2, <3>1
      <4>2. ~admissible(p, Mode[t][p])
        BY <1>3, <3>1 DEF AdmitNow
      <4> QED
        BY <2>1, <4>1, <4>2 DEF HeadOK, HeadAdmissible, admissible
    <3>2. CASE queue[p] # <<>>
      <4>1. Head(queue'[p]) = Head(queue[p])
        BY <1>0, <2>2, <3>2, AppendProperties, EmptySeq
      <4> QED
        BY <1>1, <2>1, <3>2, <4>1 DEF HeadOK, HeadAdmissible, admissible
    <3> QED
      BY <3>1, <3>2
  <2>6. \A r \in Pipes \ {p} : QueuedIn(r)' /\ HeadOK(r)'
    BY <2>1, <2>2, <2>3, QueuedSame, HeadSame DEF FlowInv
  <2> QED
    BY <2>4, <2>5, <2>6
<1> QED
  BY <1>2, <1>3

\* A step of t that holds no mutex, or keeps its phase, leaves MutexOK and the passes
\* that are under way alone.
LEMMA MutexKept ==
    ASSUME TypeInv, FlowInv, NEW t \in Tasks, mutex' = mutex,
           \A u \in Tasks \ {t} : phase'[u] = phase[u],
           \/ phase'[t] = phase[t]
           \/ phase[t] \notin {"probing", "advancing"}
           \/ \A q \in Pipes : mutex[q] # t
    PROVE  \A r \in Pipes : MutexOK(r)' /\ (Releasing(r) <=> Releasing(r)')
<1> SUFFICES ASSUME NEW r \in Pipes, mutex[r] # NoTask
             PROVE  MutexOK(r)' /\ (Releasing(r) <=> Releasing(r)')
  BY DEF MutexOK, Releasing
<1>1. /\ mutex[r] \in Tasks /\ r \in Wants(mutex[r])
      /\ phase[mutex[r]] \in {"probing", "advancing"}
  BY DEF TypeInv, FlowInv, MutexOK
<1>2. phase'[mutex[r]] = phase[mutex[r]]
  BY <1>1
<1> QED
  BY <1>1, <1>2 DEF MutexOK, Releasing, Wants

\* A step of t beside the pipes: no pipe's queue or counters change.
LEMMA FlowBeside ==
    ASSUME TypeInv, FlowInv, NEW t \in Tasks, mutex' = mutex, queue' = queue,
           active_readers' = active_readers, writer_active' = writer_active,
           \A u \in Tasks, r \in Pipes : frame'[u][r] = "queued" => frame[u][r] = "queued",
           \A u \in Tasks \ {t} : phase'[u] = phase[u],
           \/ phase'[t] = phase[t]
           \/ phase[t] \notin {"probing", "advancing"}
           \/ \A q \in Pipes : mutex[q] # t
    PROVE  FlowInv'
<1>1. \A r \in Pipes : MutexOK(r)' /\ (Releasing(r) <=> Releasing(r)')
  BY MutexKept
<1>2. \A r \in Pipes : QueuedIn(r)' /\ HeadOK(r)'
  BY <1>1, QueuedSame, HeadSame DEF FlowInv
<1> QED
  BY <1>1, <1>2 DEF FlowInv

\* A step of t that enters one of its links.
LEMMA FlowEnter ==
    ASSUME TypeInv, FlowInv, NEW t \in Tasks, NEW p \in Wants(t), NEW c \in Carriers,
           NEW fr \in [Tasks -> [Pipes -> FrameStates]],
           \A u \in Tasks, r \in Pipes : fr[u][r] = "queued" => frame[u][r] = "queued",
           mutex' = mutex, pipe_enter_link(t, p, c, fr),
           \A u \in Tasks \ {t} : phase'[u] = phase[u],
           phase'[t] = phase[t] \/ phase[t] \notin {"probing", "advancing"}
    PROVE  FlowInv'
<1>1. \A r \in Pipes : MutexOK(r)' /\ (Releasing(r) <=> Releasing(r)')
  BY MutexKept
<1>2. \A r \in Pipes : QueuedIn(r)' /\ HeadOK(r)'
  BY <1>1, EnterFlow
<1> QED
  BY <1>1, <1>2 DEF FlowInv

\* pipe_try_inline admits past empty queues only, and gives all its mutexes back.
LEMMA FlowInline ==
    ASSUME TypeInv, FlowInv, NEW t \in Tasks, pipe_try_inline(t)
    PROVE  FlowInv'
<1>1. /\ phase[t] = "probing" /\ \A p \in Wants(t) : mutex[p] = t
      /\ mutex' = [p \in Pipes |-> IF p \in Wants(t) THEN NoTask ELSE mutex[p]]
      /\ queue' = queue
  BY DEF pipe_try_inline, Unlocked
<1>2. Wants(t) \subseteq Pipes /\ t # NoTask
  BY LinkFacts, PipeAssumption
<1>3. \A u \in Tasks \ {t} : phase'[u] = phase[u]
  BY DEF pipe_try_inline, TypeInv
<1>4. \A u \in Tasks, r \in Pipes : frame'[u][r] = "queued" => frame[u][r] = "queued"
  <2>1. \/ frame' = frame
        \/ frame' = [frame EXCEPT ![t] = [p \in Pipes |-> IF p \in Wants(t) THEN "fired" ELSE @[p]]]
    BY DEF pipe_try_inline
  <2>2. ASSUME frame' = [frame EXCEPT ![t] =
                            [p \in Pipes |-> IF p \in Wants(t) THEN "fired" ELSE @[p]]]
        PROVE  /\ \A u \in Tasks \ {t} : frame'[u] = frame[u]
               /\ \A r \in Pipes : frame'[t][r] = "fired" \/ frame'[t][r] = frame[t][r]
    BY <2>2 DEF TypeInv
  <2> QED
    BY <2>1, <2>2
<1>5. \A r \in Pipes \ Wants(t) :
        active_readers'[r] = active_readers[r] /\ writer_active'[r] = writer_active[r]
  <2>1. CASE admit_locked(t, Wants(t))
    BY <2>1 DEF admit_locked, TypeInv
  <2>2. CASE UNCHANGED pipeVars
    BY <2>2 DEF pipeVars
  <2> QED
    BY <2>1, <2>2 DEF pipe_try_inline
<1>6. ASSUME NEW p \in Wants(t)
      PROVE  ~HeadAdmissible(p)'
  <2>1. p \in Pipes /\ ~Releasing(p)
    BY <1>1, <1>2 DEF Releasing
  <2>2. ~HeadAdmissible(p)
    BY <2>1 DEF FlowInv, HeadOK
  <2>3. CASE \A q \in Wants(t) : AdmitNow(t, q)
    BY <1>1, <2>3 DEF AdmitNow, HeadAdmissible
  <2>4. CASE \E q \in Wants(t) : ~AdmitNow(t, q)
    <3>1. active_readers' = active_readers /\ writer_active' = writer_active
      BY <2>4 DEF pipe_try_inline, pipeVars
    <3> QED
      BY <1>1, <2>2, <3>1 DEF HeadAdmissible, admissible
  <2> QED
    BY <2>3, <2>4
<1>7. ASSUME NEW r \in Pipes \ Wants(t)
      PROVE  MutexOK(r)' /\ HeadOK(r)'
  <2>1. mutex'[r] = mutex[r] /\ MutexOK(r) /\ HeadOK(r)
    BY <1>1 DEF FlowInv
  <2>2. mutex[r] # t
    BY <1>2, <2>1 DEF MutexOK
  <2>3. mutex[r] # NoTask => mutex[r] \in Tasks /\ phase'[mutex[r]] = phase[mutex[r]]
    BY <1>3, <2>2 DEF TypeInv
  <2>4. Releasing(r) <=> Releasing(r)'
    BY <2>1, <2>3 DEF Releasing
  <2>5. MutexOK(r)'
    BY <2>1, <2>3 DEF MutexOK, Wants
  <2> QED
    BY <1>1, <1>5, <2>1, <2>4, <2>5, HeadSame
<1>8. \A p \in Wants(t) : MutexOK(p)' /\ HeadOK(p)'
  BY <1>1, <1>2, <1>6 DEF MutexOK, HeadOK
<1>9. \A r \in Pipes : QueuedIn(r)'
  BY <1>1, <1>4, QueuedSame DEF FlowInv
<1> QED
  BY <1>7, <1>8, <1>9 DEF FlowInv

\* pipe_acquire: as pipe_enter_link, without a turn to fire.
LEMMA FlowAcquire ==
    ASSUME TypeInv, FlowInv, NEW t \in Tasks, pipe_acquire(t)
    PROVE  FlowInv'
<1> DEFINE p == First(t)
<1>1. /\ p \in Pipes /\ queue \in [Pipes -> Seq(Tasks)] /\ mutex[p] = NoTask /\ mutex' = mutex
      /\ phase[t] = "new"
  BY LinkFacts DEF TypeInv, pipe_acquire, Submittable
<1> HIDE DEF p
<1>2. \A u \in Tasks \ {t} : phase'[u] = phase[u]
  BY DEF pipe_acquire, TypeInv
<1>3. \A r \in Pipes : MutexOK(r)' /\ (Releasing(r) <=> Releasing(r)')
  BY <1>1, <1>2, MutexKept
<1>4. ~HeadAdmissible(p)
  BY <1>1 DEF FlowInv, HeadOK, Releasing
<1>5. CASE AdmitNow(t, p)
  <2>1. /\ admit_locked(t, {p}) /\ frame' = [frame EXCEPT ![t][p] = "fired"]
        /\ queue' = queue /\ queue[p] = <<>>
    BY <1>5 DEF pipe_acquire, AdmitNow, p
  <2>2. \A u \in Tasks, r \in Pipes : frame'[u][r] = "queued" => frame[u][r] = "queued"
    BY <1>1, <2>1 DEF TypeInv
  <2>3. \A r \in Pipes \ {p} :
          active_readers'[r] = active_readers[r] /\ writer_active'[r] = writer_active[r]
    BY <2>1 DEF admit_locked, TypeInv
  <2>4. HeadOK(p)'
    BY <2>1 DEF HeadOK, HeadAdmissible
  <2>5. \A r \in Pipes : QueuedIn(r)' /\ HeadOK(r)'
    BY <1>3, <2>1, <2>2, <2>3, <2>4, QueuedSame, HeadSame DEF FlowInv
  <2> QED
    BY <1>3, <2>5 DEF FlowInv
<1>6. CASE ~AdmitNow(t, p)
  <2>1. /\ queue' = [queue EXCEPT ![p] = Append(@, t)]
        /\ frame' = [frame EXCEPT ![t][p] = "queued"]
        /\ active_readers' = active_readers /\ writer_active' = writer_active
    BY <1>6 DEF pipe_acquire, pipeVars, p
  <2>2. queue'[p] = Append(queue[p], t) /\ \A r \in Pipes \ {p} : queue'[r] = queue[r]
    BY <1>1, <2>1
  <2>3. \A u \in Tasks, r \in Pipes : u # t \/ r # p =>
          (frame'[u][r] = "queued" => frame[u][r] = "queued")
    BY <1>1, <2>1 DEF TypeInv
  <2>4. QueuedIn(p)'
    BY <1>1, <2>2, <2>3, QueuedJoin DEF FlowInv
  <2>5. HeadOK(p)'
    <3>1. CASE queue[p] = <<>>
      <4>1. Head(queue'[p]) = t
        BY <2>2, <3>1
      <4>2. ~admissible(p, Mode[t][p])
        BY <1>6, <3>1 DEF AdmitNow
      <4> QED
        BY <2>1, <4>1, <4>2 DEF HeadOK, HeadAdmissible, admissible
    <3>2. CASE queue[p] # <<>>
      <4>1. Head(queue'[p]) = Head(queue[p])
        BY <1>1, <2>2, <3>2, AppendProperties, EmptySeq
      <4> QED
        BY <1>4, <2>1, <3>2, <4>1 DEF HeadOK, HeadAdmissible, admissible
    <3> QED
      BY <3>1, <3>2
  <2>6. \A r \in Pipes \ {p} : QueuedIn(r)' /\ HeadOK(r)'
    BY <1>3, <2>1, <2>2, <2>3, QueuedSame, HeadSame DEF FlowInv
  <2> QED
    BY <1>3, <2>4, <2>5, <2>6 DEF FlowInv
<1> QED
  BY <1>5, <1>6

\* Every step keeps FlowInv.
LEMMA FlowStep == IndInv /\ FlowInv /\ [Next]_vars => FlowInv'
<1> SUFFICES ASSUME TypeInv, FlowInv, LinksInv, [Next]_vars PROVE FlowInv'
  BY DEF IndInv
<1>1. ASSUME NEW t \in Tasks, launch(t) PROVE FlowInv'
  <2>1. /\ First(t) \in Wants(t) /\ <<"submit", t>> \in Carriers /\ mutex' = mutex
        /\ pipe_enter_link(t, First(t), <<"submit", t>>, frame) /\ phase[t] = "new"
        /\ frame \in [Tasks -> [Pipes -> FrameStates]]
        /\ \A u \in Tasks \ {t} : phase'[u] = phase[u]
    BY <1>1, LinkFacts DEF launch, Submittable, Carriers, TypeInv
  <2> QED
    BY <2>1, FlowEnter
<1>2. ASSUME NEW t \in Tasks, fire(t) PROVE FlowInv'
  <2>1. \A u \in Tasks \ {t} : phase'[u] = phase[u]
    BY <1>2 DEF fire, TypeInv
  <2> QED
    BY <1>2, <2>1, FlowBeside DEF fire, Submittable, pipeVars
<1>3. ASSUME NEW t \in Tasks, lock_pipe(t) PROVE FlowInv'
  <2> DEFINE p == Least(t, Unlocked(t))
  <2>1. p \in Wants(t) /\ p \in Pipes
    <3>1. Unlocked(t) \subseteq Nat /\ Unlocked(t) # {} /\ Unlocked(t) \subseteq Wants(t)
      BY <1>3, LinkFacts DEF lock_pipe, Unlocked
    <3> QED
      BY <3>1, LeastInSet, LinkFacts
  <2>2. /\ mutex[p] = NoTask /\ mutex' = [mutex EXCEPT ![p] = t] /\ phase[t] = "probing"
        /\ queue' = queue /\ active_readers' = active_readers /\ writer_active' = writer_active
        /\ frame' = frame /\ phase' = phase
    BY <1>3 DEF lock_pipe, pipeVars
  <2> HIDE DEF p
  <2>3. mutex'[p] = t /\ \A r \in Pipes \ {p} : mutex'[r] = mutex[r]
    BY <2>1, <2>2 DEF TypeInv
  <2>4. \A r \in Pipes : MutexOK(r)'
    BY <2>1, <2>2, <2>3 DEF FlowInv, MutexOK, Wants
  <2>5. \A r \in Pipes : Releasing(r) => Releasing(r)'
    BY <2>2, <2>3 DEF Releasing
  <2>6. \A r \in Pipes : QueuedIn(r)' /\ HeadOK(r)'
    BY <2>2, <2>5, QueuedSame, HeadSame DEF FlowInv
  <2> QED
    BY <2>4, <2>6 DEF FlowInv
<1>4. ASSUME NEW t \in Tasks, pipe_try_inline(t) PROVE FlowInv'
  BY <1>4, FlowInline
<1>5. ASSUME NEW t \in Tasks, pipe_enter_first(t) PROVE FlowInv'
  <2>1. /\ First(t) \in Wants(t) /\ <<"submit", t>> \in Carriers /\ mutex' = mutex
        /\ pipe_enter_link(t, First(t), <<"submit", t>>, frame) /\ phase[t] = "entering"
        /\ frame \in [Tasks -> [Pipes -> FrameStates]]
        /\ \A u \in Tasks \ {t} : phase'[u] = phase[u]
    BY <1>5, LinkFacts DEF pipe_enter_first, Carriers, TypeInv
  <2> QED
    BY <2>1, FlowEnter
<1>6. ASSUME NEW t \in Tasks, pipe_acquire(t) PROVE FlowInv'
  BY <1>6, FlowAcquire
<1>7. ASSUME NEW c \in Carriers, NEW t \in Tasks, NEW p \in Wants(t), cascade(c, t, p)
      PROVE FlowInv'
  <2> DEFINE q == Least(t, After(t, p))
             fr == [frame EXCEPT ![t][p] = "cascaded"]
  <2>1. q \in Wants(t) /\ p \in Pipes
    BY <1>7, NextLink, LinkFacts DEF cascade
  <2>2. fr \in [Tasks -> [Pipes -> FrameStates]]
    BY <2>1, FrameType DEF TypeInv, FrameStates
  <2>3. pipe_enter_link(t, q, c, fr) /\ mutex' = mutex /\ phase' = phase
    BY <1>7 DEF cascade
  <2>4. \A u \in Tasks, r \in Pipes : fr[u][r] = "queued" => frame[u][r] = "queued"
    BY <2>1 DEF TypeInv
  <2> HIDE DEF q, fr
  <2> QED
    BY <2>1, <2>2, <2>3, <2>4, FlowEnter
<1>8. ASSUME NEW c \in Carriers, NEW t \in Tasks, NEW p \in Wants(t),
             turn(c, t, p) \/ drop_entry_ref(c, t, p) \/ fire_hold(c, t, p)
      PROVE FlowInv'
  <2>1. /\ mutex' = mutex /\ queue' = queue
        /\ active_readers' = active_readers /\ writer_active' = writer_active
    BY <1>8 DEF turn, drop_entry_ref, fire_hold, pipeVars
  <2>2. \A u \in Tasks, r \in Pipes : frame'[u][r] = "queued" => frame[u][r] = "queued"
    <3>1. PICK v \in {"turned", "fired"} : frame' = [frame EXCEPT ![t][p] = v]
      BY <1>8 DEF turn, drop_entry_ref, fire_hold
    <3> QED
      BY <3>1, LinkFacts DEF TypeInv
  <2>3. phase' = phase \/ phase' = [phase EXCEPT ![t] = "ready"]
    BY <1>8 DEF turn, drop_entry_ref, fire_hold
  <2>4. phase'[t] = phase[t] \/ phase[t] \notin {"probing", "advancing"}
    <3>1. CASE turn(c, t, p) \/ fire_hold(c, t, p)
      <4>1. frame[t][p] \in {"granted", "cascaded"} /\ p \in Pipes
        BY <3>1, LinkFacts DEF turn, fire_hold
      <4> QED
        BY <4>1 DEF LinksInv, LinkOK
    <3>2. CASE drop_entry_ref(c, t, p)
      BY <3>2 DEF drop_entry_ref
    <3> QED
      BY <1>8, <3>1, <3>2
  <2>5. \A u \in Tasks \ {t} : phase'[u] = phase[u]
    BY <2>3 DEF TypeInv
  <2> QED
    BY <2>1, <2>2, <2>4, <2>5, FlowBeside
<1>9. ASSUME NEW t \in Tasks, run(t) \/ run_cancelled(t) \/ finish_body(t) \/ finish(t) \/ drop_handle(t)
      PROVE FlowInv'
  <2>1. /\ mutex' = mutex /\ queue' = queue /\ frame' = frame
        /\ active_readers' = active_readers /\ writer_active' = writer_active
    BY <1>9 DEF run, run_cancelled, finish_body, leave_body, finish, drop_handle, pipeVars
  <2>2. \A u \in Tasks \ {t} : phase'[u] = phase[u]
    BY <1>9 DEF run, run_cancelled, finish_body, leave_body, finish, drop_handle, TypeInv
  <2>3. \/ phase'[t] = phase[t]
        \/ phase[t] \notin {"probing", "advancing"}
        \/ \A q \in Pipes : mutex[q] # t
    BY <1>9 DEF run, run_cancelled, finish_body, finish, drop_handle, Between
  <2> QED
    BY <2>1, <2>2, <2>3, FlowBeside
<1>10. ASSUME NEW t \in Tasks, advance(t) PROVE FlowInv'
  <2>0. PICK p : p = Least(t, Wants(t) \ advanced[t])
    OBVIOUS
  <2>1. p \in Wants(t) /\ p \in Pipes /\ t # NoTask
    <3>1. Wants(t) \ advanced[t] \subseteq Nat /\ Wants(t) \ advanced[t] # {}
      BY <1>10, LinkFacts DEF advance, TypeInv
    <3> QED
      BY <2>0, <3>1, LeastInSet, LinkFacts, PipeAssumption
  <2>2. /\ mutex[p] = NoTask /\ mutex' = [mutex EXCEPT ![p] = t] /\ phase[t] = "advancing"
        /\ queue' = queue /\ frame' = frame /\ phase' = phase /\ release_grant(t, p)
    BY <1>10, <2>0 DEF advance
  <2>3. mutex'[p] = t /\ \A r \in Pipes \ {p} : mutex'[r] = mutex[r]
    BY <2>1, <2>2 DEF TypeInv
  <2>4. \A r \in Pipes : MutexOK(r)'
    BY <2>1, <2>2, <2>3 DEF FlowInv, MutexOK, Wants
  <2>5. \A r \in Pipes \ {p} :
          active_readers'[r] = active_readers[r] /\ writer_active'[r] = writer_active[r]
    BY <2>1, <2>2 DEF release_grant, TypeInv
  <2>6. HeadOK(p)'
    <3>1. mutex'[p] # NoTask /\ phase'[mutex'[p]] = "advancing"
      BY <2>1, <2>2, <2>3
    <3> QED
      BY <3>1 DEF HeadOK, Releasing
  <2>7. \A r \in Pipes \ {p} : Releasing(r) => Releasing(r)'
    BY <2>2, <2>3 DEF Releasing
  <2>8. \A r \in Pipes : QueuedIn(r)'
    BY <2>2, QueuedSame DEF FlowInv
  <2>9. \A r \in Pipes \ {p} : HeadOK(r)'
    BY <2>2, <2>5, <2>7, HeadSame DEF FlowInv
  <2> QED
    BY <2>4, <2>6, <2>8, <2>9 DEF FlowInv
<1>11. ASSUME NEW p \in Pipes, collect_admissions(p) PROVE FlowInv'
  <2> DEFINE h == Head(queue[p])
  <2>1. /\ Releasing(p) /\ queue[p] # <<>> /\ queue \in [Pipes -> Seq(Tasks)]
        /\ admit_locked(h, {p}) /\ frame' = [frame EXCEPT ![h][p] = "granted"]
        /\ queue' = [queue EXCEPT ![p] = Tail(@)] /\ mutex' = mutex /\ phase' = phase
    BY <1>11 DEF collect_admissions, HeadAdmissible, TypeInv
  <2>2. h \in Tasks
    BY <2>1, HeadTailProperties
  <2> HIDE DEF h
  <2>3. queue'[p] = Tail(queue[p]) /\ \A r \in Pipes \ {p} : queue'[r] = queue[r]
    BY <2>1
  <2>4. /\ \A u \in Tasks, r \in Pipes : frame'[u][r] = "queued" => frame[u][r] = "queued"
        /\ frame'[h][p] # "queued"
    BY <2>1, <2>2 DEF TypeInv
  <2>5. \A r \in Pipes : MutexOK(r)' /\ (Releasing(r) <=> Releasing(r)')
    BY <2>1 DEF FlowInv, MutexOK, Releasing, Wants
  <2>6. QueuedIn(p)' /\ HeadOK(p)'
    <3>1. queue[p] \in Seq(Tasks) /\ frame'[Head(queue[p])][p] # "queued"
      BY <2>1, <2>4 DEF h
    <3> QED
      BY <2>1, <2>3, <2>4, <2>5, <3>1, QueuedLeave DEF FlowInv, HeadOK
  <2>7. \A r \in Pipes \ {p} :
          active_readers'[r] = active_readers[r] /\ writer_active'[r] = writer_active[r]
    BY <2>1 DEF admit_locked, TypeInv
  <2>8. \A r \in Pipes \ {p} : QueuedIn(r)' /\ HeadOK(r)'
    BY <2>3, <2>4, <2>5, <2>7, QueuedSame, HeadSame DEF FlowInv
  <2> QED
    BY <2>5, <2>6, <2>8 DEF FlowInv
<1>12. ASSUME NEW p \in Pipes, end_pass(p) PROVE FlowInv'
  <2>1. /\ ~HeadAdmissible(p) /\ mutex' = [mutex EXCEPT ![p] = NoTask] /\ phase' = phase
        /\ queue' = queue /\ frame' = frame
        /\ active_readers' = active_readers /\ writer_active' = writer_active
    BY <1>12 DEF end_pass, pipeVars
  <2>2. mutex'[p] = NoTask /\ \A r \in Pipes \ {p} : mutex'[r] = mutex[r]
    BY <2>1 DEF TypeInv
  <2>3. \A r \in Pipes : MutexOK(r)'
    BY <2>1, <2>2 DEF FlowInv, MutexOK, Wants
  <2>4. \A r \in Pipes \ {p} : Releasing(r) => Releasing(r)'
    BY <2>1, <2>2 DEF Releasing
  <2>5. HeadOK(p)'
    BY <2>1 DEF HeadOK, HeadAdmissible, admissible
  <2>6. \A r \in Pipes : QueuedIn(r)' /\ HeadOK(r)'
    BY <2>1, <2>4, <2>5, QueuedSame, HeadSame DEF FlowInv
  <2> QED
    BY <2>3, <2>6 DEF FlowInv
<1>13. ASSUME UNCHANGED <<queue, pipeVars, mutex, phase, frame>> PROVE FlowInv'
  BY <1>13 DEF FlowInv, MutexOK, QueuedIn, HeadOK, Releasing, HeadAdmissible, admissible, Wants, pipeVars
<1>14. ASSUME NEW p \in Pipes, destroy(p) \/ wake(p) PROVE FlowInv'
  BY <1>13, <1>14 DEF destroy, wake, check_idle
<1>15. CASE UNCHANGED vars
  BY <1>13, <1>15 DEF vars
<1> QED
  BY <1>1, <1>2, <1>3, <1>4, <1>5, <1>6, <1>7, <1>8, <1>9, <1>10, <1>11, <1>12, <1>14, <1>15
  DEF Next, TaskStep, FireStep, PipeStep, UserStep, Ended

\* A link is granted past an empty queue, or from the head of its queue.
LEMMA NewGrant ==
    ASSUME IndInv, [Next]_vars, NEW u \in Tasks, NEW p \in Pipes,
           frame[u][p] \notin Granted, frame'[u][p] \in Granted
    PROVE  queue[p] = <<>> \/ (queue[p] # <<>> /\ u = Head(queue[p]))
<1>0. TypeInv /\ frame \in [Tasks -> [Pipes -> FrameStates]]
  BY DEF IndInv, TypeInv
<1> USE DEF Granted
<1>1. ASSUME NEW t \in Tasks, NEW q \in Wants(t), NEW c,
             NEW fr \in [Tasks -> [Pipes -> FrameStates]],
             \A v \in Tasks, r \in Pipes : fr[v][r] \in Granted <=> frame[v][r] \in Granted,
             pipe_enter_link(t, q, c, fr)
      PROVE  queue[p] = <<>>
  <2>1. q \in Pipes /\ \E v \in {"granted", "queued"} : frame' = [fr EXCEPT ![t][q] = v]
    BY <1>1, LinkFacts DEF pipe_enter_link
  <2>2. u = t /\ p = q
    BY <1>1, <2>1
  <2>3. AdmitNow(t, q)
    BY <1>1, <2>1, <2>2 DEF pipe_enter_link
  <2> QED
    BY <2>2, <2>3 DEF AdmitNow
<1>2. ASSUME NEW t \in Tasks, launch(t) \/ pipe_enter_first(t) PROVE queue[p] = <<>>
  BY <1>0, <1>1, <1>2, LinkFacts DEF launch, pipe_enter_first
<1>3. ASSUME NEW c \in Carriers, NEW t \in Tasks, NEW q \in Wants(t), cascade(c, t, q)
      PROVE queue[p] = <<>>
  <2> DEFINE r == Least(t, After(t, q))
             fr == [frame EXCEPT ![t][q] = "cascaded"]
  <2>1. r \in Wants(t) /\ q \in Pipes
    BY <1>3, NextLink, LinkFacts DEF cascade
  <2>2. fr \in [Tasks -> [Pipes -> FrameStates]]
    BY <1>0, <2>1, FrameType DEF FrameStates
  <2>3. \A v \in Tasks, x \in Pipes : fr[v][x] \in Granted <=> frame[v][x] \in Granted
    BY <1>0, <1>3, <2>1 DEF cascade
  <2>4. pipe_enter_link(t, r, c, fr)
    BY <1>3 DEF cascade
  <2> HIDE DEF r, fr
  <2> QED
    BY <1>1, <2>1, <2>2, <2>3, <2>4
<1>4. ASSUME NEW t \in Tasks, pipe_try_inline(t) PROVE queue[p] = <<>>
  <2>1. /\ \A q \in Wants(t) : AdmitNow(t, q)
        /\ frame' = [frame EXCEPT ![t] = [q \in Pipes |-> IF q \in Wants(t) THEN "fired" ELSE @[q]]]
    BY <1>4 DEF pipe_try_inline
  <2>2. u = t
    BY <1>0, <2>1
  <2>3. frame'[t][p] = IF p \in Wants(t) THEN "fired" ELSE frame[t][p]
    BY <1>0, <2>1
  <2> QED
    BY <2>1, <2>2, <2>3 DEF AdmitNow
<1>5. ASSUME NEW t \in Tasks, pipe_acquire(t) PROVE queue[p] = <<>>
  <2>1. First(t) \in Pipes
    BY LinkFacts
  <2>2. PICK v \in {"fired", "queued"} : frame' = [frame EXCEPT ![t][First(t)] = v]
    BY <1>5 DEF pipe_acquire
  <2>3. u = t /\ p = First(t) /\ v = "fired"
    BY <1>0, <2>1, <2>2
  <2>4. AdmitNow(t, First(t))
    <3>1. SUFFICES ASSUME ~AdmitNow(t, First(t)) PROVE FALSE
      OBVIOUS
    <3>2. frame' = [frame EXCEPT ![t][First(t)] = "queued"]
      BY <1>5, <3>1 DEF pipe_acquire
    <3> QED
      BY <1>0, <2>1, <2>3, <3>2
  <2> QED
    BY <2>3, <2>4 DEF AdmitNow
<1>6. ASSUME NEW c \in Carriers, NEW t \in Tasks, NEW q \in Wants(t),
             turn(c, t, q) \/ drop_entry_ref(c, t, q) \/ fire_hold(c, t, q)
      PROVE FALSE
  <2>1. frame[t][q] \in Granted /\ q \in Pipes
    BY <1>6, LinkFacts DEF turn, drop_entry_ref, fire_hold
  <2>2. PICK v \in {"turned", "fired"} : frame' = [frame EXCEPT ![t][q] = v]
    BY <1>6 DEF turn, drop_entry_ref, fire_hold
  <2> QED
    BY <1>0, <2>1, <2>2
<1>7. ASSUME NEW q \in Pipes, collect_admissions(q)
      PROVE  queue[p] # <<>> /\ u = Head(queue[p])
  <2>1. queue[q] # <<>> /\ frame' = [frame EXCEPT ![Head(queue[q])][q] = "granted"]
    BY <1>7 DEF collect_admissions, HeadAdmissible
  <2> QED
    BY <1>0, <2>1
<1>8. ASSUME frame' = frame PROVE FALSE
  BY <1>8
<1>9. ASSUME NEW t \in Tasks, fire(t) \/ lock_pipe(t) \/ run(t) \/ run_cancelled(t) \/ finish_body(t)
                                \/ advance(t) \/ finish(t) \/ drop_handle(t)
      PROVE FALSE
  BY <1>8, <1>9 DEF fire, lock_pipe, run, run_cancelled, finish_body, leave_body, advance, finish,
                    drop_handle
<1>10. ASSUME NEW q \in Pipes, end_pass(q) \/ destroy(q) \/ wake(q) PROVE FALSE
  BY <1>8, <1>10 DEF end_pass, destroy, wake, check_idle
<1>11. CASE UNCHANGED vars
  BY <1>8, <1>11 DEF vars
<1> QED
  BY <1>2, <1>3, <1>4, <1>5, <1>6, <1>7, <1>9, <1>10, <1>11
  DEF Next, TaskStep, FireStep, PipeStep, UserStep, Ended

\* No step takes a released link back.
LEMMA AdvancedGrows ==
    ASSUME IndInv, [Next]_vars, NEW t \in Tasks
    PROVE  advanced[t] \subseteq advanced'[t]
<1>0. advanced \in [Tasks -> SUBSET Pipes]
  BY DEF IndInv, TypeInv
<1>1. ASSUME advanced' = advanced PROVE advanced[t] \subseteq advanced'[t]
  BY <1>1
<1>2. ASSUME NEW u \in Tasks, advance(u) PROVE advanced[t] \subseteq advanced'[t]
  <2>1. PICK p : advanced' = [advanced EXCEPT ![u] = @ \cup {p}]
    BY <1>2 DEF advance
  <2> QED
    BY <1>0, <2>1
<1>3. ASSUME NEW u \in Tasks,
             \/ launch(u) \/ fire(u) \/ lock_pipe(u) \/ pipe_try_inline(u) \/ pipe_enter_first(u)
             \/ pipe_acquire(u) \/ run(u) \/ run_cancelled(u) \/ finish_body(u) \/ finish(u)
             \/ drop_handle(u)
      PROVE advanced' = advanced
  BY <1>3 DEF launch, fire, lock_pipe, pipe_try_inline, pipe_enter_first, pipe_acquire, run,
              run_cancelled, finish_body, leave_body, finish, drop_handle
<1>4. ASSUME NEW c \in Carriers, FireStep(c) PROVE advanced' = advanced
  BY <1>4 DEF FireStep, cascade, turn, drop_entry_ref, fire_hold
<1>5. ASSUME NEW p \in Pipes, PipeStep(p) \/ destroy(p) PROVE advanced' = advanced
  BY <1>5 DEF PipeStep, collect_admissions, end_pass, wake, destroy, check_idle
<1>6. CASE UNCHANGED vars
  BY <1>6 DEF vars
<1> QED
  BY <1>1, <1>2, <1>3, <1>4, <1>5, <1>6 DEF Next, TaskStep, UserStep, Ended

\* What FifoAdmission says of one step.
FifoStep ==
    \A p \in Pipes : \A t, u \in Tasks :
          (t # u /\ frame[t][p] = "queued" /\ frame'[t][p] = "queued"
            /\ ~Holds(u, p) /\ Holds(u, p)')
          => \E i, j \in 1..Len(queue[p]) : queue[p][i] = u /\ queue[p][j] = t /\ i < j

\* Whoever is granted a pipe beside a waiting link was ahead of it.
LEMMA GrantInOrder == IndInv /\ FlowInv /\ [Next]_vars => FifoStep
<1> SUFFICES ASSUME IndInv, FlowInv, [Next]_vars, NEW p \in Pipes, NEW t \in Tasks, NEW u \in Tasks,
                    t # u, frame[t][p] = "queued", ~Holds(u, p), Holds(u, p)'
             PROVE  \E i, j \in 1..Len(queue[p]) : queue[p][i] = u /\ queue[p][j] = t /\ i < j
  BY DEF FifoStep
<1>1. frame[u][p] \notin Granted /\ frame'[u][p] \in Granted
  BY AdvancedGrows DEF Holds
<1>2. PICK j \in 1..Len(queue[p]) : queue[p][j] = t
  BY DEF FlowInv, QueuedIn
<1>3. queue[p] \in Seq(Tasks) /\ Len(queue[p]) \in Nat
  BY LenProperties DEF IndInv, TypeInv
<1>4. queue[p] # <<>>
  BY <1>2, <1>3, EmptySeq
<1>5. u = queue[p][1]
  BY <1>1, <1>3, <1>4, NewGrant, HeadTailProperties
<1>6. j # 1 /\ 1 \in 1..Len(queue[p]) /\ 1 < j
  BY <1>2, <1>3, <1>5
<1> QED
  BY <1>2, <1>5, <1>6

-----------------------------------------------------------------------------
(* References *)

One(b) == IF b THEN 1 ELSE 0

\* The links of t that are in a queue or whose turn is on some thread's stack.
Entries(t) == {p \in Wants(t) : frame[t][p] \in {"queued", "granted", "cascaded", "turned"}}
Worked(t)  == phase[t] \in {"ready", "running", "advancing"}

\* An async block is referenced once by its handle, once by each of its entries and
\* once by the worker that runs it; a caller-owned op keeps its handle until it settles.
RefOK(t) ==
    /\ num_locks[t] \in Nat
    /\ Kind[t] = "async" =>
         refcount[t] = One(handle[t]) + Cardinality(Entries(t)) + One(Worked(t))
    /\ Kind[t] # "async" => refcount[t] = 0
    /\ handle[t] => phase[t] # "new"
    /\ phase[t] \in {"probing", "entering"} => Kind[t] = "access"
    /\ Kind[t] = "access" =>
         /\ phase[t] # "new" /\ ~completed[t] => handle[t]
         /\ completed[t] => phase[t] = "done"
         /\ \A p \in Pipes : frame[t][p] # "turned"

RefInv == \A t \in Tasks : RefOK(t)

\* The entries of an access are finitely many.
LEMMA EntriesFinite ==
    ASSUME NEW t \in Tasks
    PROVE  /\ IsFiniteSet(Entries(t)) /\ Cardinality(Entries(t)) \in Nat
           /\ (Entries(t) # {} => Cardinality(Entries(t)) > 0)
<1>1. IsFiniteSet(Entries(t))
  BY LinkFacts, FS_Subset DEF Entries
<1> QED
  BY <1>1, FS_CardinalityType, FS_EmptySet

\* A step that leaves t's own variables alone.
LEMMA RefSame ==
    ASSUME NEW t \in Tasks, RefOK(t), frame'[t] = frame[t], phase'[t] = phase[t],
           num_locks'[t] = num_locks[t], completed'[t] = completed[t],
           refcount'[t] = refcount[t], handle'[t] = handle[t]
    PROVE  RefOK(t)'
<1>1. Entries(t)' = Entries(t)
  BY DEF Entries, Wants
<1>2. Worked(t)' <=> Worked(t)
  BY DEF Worked
<1> QED
  BY <1>1, <1>2 DEF RefOK, One

\* A link joins t's entries.
LEMMA EntriesJoin ==
    ASSUME NEW t \in Tasks, NEW q \in Wants(t), frame[t][q] = "out",
           frame'[t][q] \in {"queued", "granted"},
           \A r \in Wants(t) \ {q} :
             (frame'[t][r] \in {"queued", "granted", "cascaded", "turned"} <=>
              frame[t][r] \in {"queued", "granted", "cascaded", "turned"})
    PROVE  Cardinality(Entries(t)') = Cardinality(Entries(t)) + 1
<1>1. Entries(t)' = Entries(t) \cup {q} /\ q \notin Entries(t)
  BY DEF Entries, Wants
<1> QED
  BY <1>1, EntriesFinite, FS_AddElement

\* A link leaves t's entries.
LEMMA EntriesLeave ==
    ASSUME NEW t \in Tasks, NEW q \in Wants(t), frame[t][q] = "turned", frame'[t][q] = "fired",
           \A r \in Wants(t) \ {q} : frame'[t][r] = frame[t][r]
    PROVE  Cardinality(Entries(t)') = Cardinality(Entries(t)) - 1
<1>1. Entries(t)' = Entries(t) \ {q} /\ q \in Entries(t)
  BY DEF Entries, Wants
<1> QED
  BY <1>1, EntriesFinite, FS_RemoveElement

\* launch makes two references: the handle's and the first entry's.
LEMMA Ref_launch ==
    ASSUME IndInv, RefInv, NEW t \in Tasks, launch(t)
    PROVE  RefOK(t)'
<1>0. TypeInv /\ LinkOK(t)
  BY DEF IndInv, LinksInv
<1>1. /\ Kind[t] = "async" /\ phase[t] = "new" /\ pipe_enter_link(t, First(t), <<"submit", t>>, frame)
      /\ phase'[t] = "waiting" /\ num_locks'[t] = Cardinality(Wants(t))
      /\ handle'[t] = TRUE /\ refcount'[t] = 2
  BY <1>0 DEF launch, Submittable, TypeInv, EntryRef
<1>2. First(t) \in Wants(t) /\ First(t) \in Pipes /\ Wants(t) \subseteq Pipes
  BY LinkFacts
<1>3. \A r \in Pipes : frame[t][r] = "out"
  BY <1>0, <1>1 DEF LinkOK
<1>4. PICK v \in {"granted", "queued"} : frame' = [frame EXCEPT ![t][First(t)] = v]
  BY <1>1 DEF pipe_enter_link
<1>5. /\ frame'[t][First(t)] \in {"queued", "granted"}
      /\ \A r \in Pipes \ {First(t)} : frame'[t][r] = frame[t][r]
  BY <1>0, <1>2, <1>4 DEF TypeInv
<1>6. Cardinality(Entries(t)') = Cardinality(Entries(t)) + 1
  BY <1>2, <1>3, <1>5, EntriesJoin
<1>7. Entries(t) = {} /\ Cardinality(Entries(t)) = 0
  BY <1>2, <1>3, FS_EmptySet DEF Entries
<1>8. Cardinality(Wants(t)) \in Nat /\ ~Worked(t)'
  BY <1>1, LinkFacts, FS_CardinalityType DEF Worked
<1> QED
  BY <1>1, <1>6, <1>7, <1>8 DEF RefOK, One

\* The cascade pins the block once more for the next link.
LEMMA Ref_cascade ==
    ASSUME IndInv, RefInv, NEW c \in Carriers, NEW t \in Tasks, NEW p \in Wants(t), cascade(c, t, p)
    PROVE  RefOK(t)'
<1> DEFINE q == Least(t, After(t, p))
           fr == [frame EXCEPT ![t][p] = "cascaded"]
<1>0. TypeInv /\ LinkOK(t) /\ RefOK(t)
  BY DEF IndInv, LinksInv, RefInv
<1>1. /\ q \in Wants(t) /\ p < q /\ q # p /\ q \in Pipes /\ p \in Pipes /\ Wants(t) \subseteq Pipes
  BY NextLink, LinkFacts DEF cascade
<1>2. /\ frame[t][p] = "granted" /\ pipe_enter_link(t, q, c, fr) /\ phase' = phase
      /\ num_locks' = num_locks /\ completed' = completed /\ handle' = handle
      /\ refcount' = [refcount EXCEPT ![t] = @ + EntryRef(t)]
  BY DEF cascade
<1>3. frame[t][q] = "out"
  BY <1>0, <1>1, <1>2 DEF LinkOK
<1>4. \E v \in {"granted", "queued"} : frame' = [fr EXCEPT ![t][q] = v]
  BY <1>2 DEF pipe_enter_link
<1>5. /\ frame'[t][q] \in {"queued", "granted"} /\ frame'[t][p] = "cascaded"
      /\ \A r \in Pipes \ {p, q} : frame'[t][r] = frame[t][r]
  BY <1>0, <1>1, <1>4 DEF TypeInv
<1> HIDE DEF q, fr
<1>6. Cardinality(Entries(t)') = Cardinality(Entries(t)) + 1
  BY <1>1, <1>2, <1>3, <1>5, EntriesJoin
<1>7. refcount'[t] = refcount[t] + EntryRef(t) /\ refcount[t] \in Int /\ Cardinality(Entries(t)) \in Nat
  BY <1>0, <1>2, EntriesFinite DEF TypeInv
<1>8. Worked(t)' <=> Worked(t)
  BY <1>2 DEF Worked
<1>9. Kind[t] = "async" =>
        refcount'[t] = One(handle'[t]) + Cardinality(Entries(t)') + One(Worked(t)')
  BY <1>0, <1>2, <1>6, <1>7, <1>8 DEF RefOK, One, EntryRef
<1>10. Kind[t] # "async" => refcount'[t] = 0
  BY <1>0, <1>7 DEF RefOK, EntryRef
<1>11. Kind[t] = "access" => \A r \in Pipes : frame'[t][r] # "turned"
  BY <1>0, <1>1, <1>5 DEF RefOK
<1> QED
  BY <1>0, <1>2, <1>9, <1>10, <1>11 DEF RefOK

\* A turn: the last one hands the block to a worker, with a reference of its own.
LEMMA Ref_turn ==
    ASSUME IndInv, RefInv, NEW c \in Carriers, NEW t \in Tasks, NEW p \in Wants(t), turn(c, t, p)
    PROVE  RefOK(t)'
<1>0. TypeInv /\ LinkOK(t) /\ CountOK(t) /\ RefOK(t)
  BY DEF IndInv, LinksInv, RefInv
<1>1. p \in Pipes /\ Wants(t) \subseteq Pipes /\ IsFiniteSet(Wants(t))
  BY LinkFacts
<1>2. /\ Kind[t] # "hold" /\ frame[t][p] \in {"granted", "cascaded"}
      /\ completed' = completed /\ handle' = handle /\ num_locks' = [num_locks EXCEPT ![t] = @ - 1]
  BY DEF turn
<1>3. phase[t] = "waiting"
  BY <1>0, <1>1, <1>2 DEF LinkOK, TypeInv, Phases
<1>4. num_locks[t] \in Nat /\ num_locks[t] > 0
  <2>1. p \in Unturned(t) /\ IsFiniteSet(Unturned(t))
    BY <1>1, <1>2, FS_Subset DEF Unturned
  <2>2. Cardinality(Unturned(t)) \in Nat /\ Cardinality(Unturned(t)) # 0
    BY <2>1, FS_CardinalityType, FS_EmptySet
  <2> QED
    BY <1>0, <1>2, <1>3, <2>2 DEF CountOK
<1>5. num_locks'[t] \in Nat
  BY <1>0, <1>2, <1>4 DEF TypeInv
<1>6. CASE Kind[t] = "async"
  <2>1. frame' = [frame EXCEPT ![t][p] = "turned"]
    BY <1>6 DEF turn
  <2>2. frame'[t][p] = "turned" /\ \A r \in Pipes \ {p} : frame'[t][r] = frame[t][r]
    BY <1>0, <1>1, <2>1 DEF TypeInv
  <2>3. Entries(t)' = Entries(t)
    BY <1>1, <1>2, <2>2 DEF Entries, Wants
  <2>4. refcount[t] \in Int /\ Cardinality(Entries(t)) \in Nat
    BY <1>0, EntriesFinite DEF TypeInv
  <2>5. \/ phase'[t] = phase[t] /\ refcount'[t] = refcount[t]
        \/ phase'[t] = "ready" /\ refcount'[t] = refcount[t] + 1
    BY <1>0, <1>6 DEF turn, EntryRef, TypeInv
  <2>6. ~Worked(t)
    BY <1>3 DEF Worked
  <2>7. refcount'[t] = One(handle'[t]) + Cardinality(Entries(t)') + One(Worked(t)')
    <3>1. refcount[t] = One(handle[t]) + Cardinality(Entries(t)) + 0
      BY <1>0, <1>6, <2>6 DEF RefOK, One
    <3>2. One(handle'[t]) = One(handle[t]) /\ One(handle[t]) \in Nat
      BY <1>2 DEF One
    <3>3. CASE phase'[t] = phase[t] /\ refcount'[t] = refcount[t]
      <4>1. One(Worked(t)') = 0
        BY <1>3, <3>3 DEF Worked, One
      <4> QED
        BY <2>3, <3>1, <3>2, <3>3, <4>1
    <3>4. CASE phase'[t] = "ready" /\ refcount'[t] = refcount[t] + 1
      <4>1. One(Worked(t)') = 1
        BY <3>4 DEF Worked, One
      <4> QED
        BY <2>3, <2>4, <3>1, <3>2, <3>4, <4>1
    <3> QED
      BY <2>5, <3>3, <3>4
  <2> QED
    BY <1>3, <1>5, <1>6, <2>5, <2>7 DEF RefOK
<1>7. CASE Kind[t] = "access"
  <2>1. frame' = [frame EXCEPT ![t][p] = "fired"]
    BY <1>7 DEF turn
  <2>2. \A r \in Pipes : frame'[t][r] # "turned"
    BY <1>0, <1>1, <1>7, <2>1 DEF TypeInv, RefOK
  <2>3. phase'[t] \in {"waiting", "ready"} /\ refcount'[t] = 0
    <3>1. refcount[t] = 0 /\ EntryRef(t) = 0
      BY <1>0, <1>7 DEF RefOK, EntryRef
    <3> QED
      BY <1>0, <1>3, <3>1 DEF turn, TypeInv
  <2> QED
    BY <1>0, <1>2, <1>3, <1>5, <1>7, <2>2, <2>3 DEF RefOK
<1> QED
  BY <1>2, <1>6, <1>7, PipeAssumption

\* Every step keeps RefInv.
LEMMA RefStep == IndInv /\ RefInv /\ [Next]_vars => RefInv'
<1> SUFFICES ASSUME IndInv, RefInv, [Next]_vars PROVE RefInv'
  OBVIOUS
<1>0. /\ TypeInv /\ LinksInv /\ \A u \in Tasks : RefOK(u) /\ num_locks[u] \in Nat
      /\ \A u \in Tasks : Kind[u] \in {"async", "access", "hold"}
  BY PipeAssumption DEF IndInv, RefInv, RefOK
<1> DEFINE Other(t) == \A u \in Tasks \ {t} :
             /\ frame'[u] = frame[u] /\ phase'[u] = phase[u] /\ num_locks'[u] = num_locks[u]
             /\ completed'[u] = completed[u] /\ refcount'[u] = refcount[u] /\ handle'[u] = handle[u]
<1>a. ASSUME NEW t \in Tasks, Other(t), RefOK(t)' PROVE RefInv'
  BY <1>0, <1>a, RefSame DEF RefInv
<1>b. ASSUME NEW t \in Tasks, NEW p, NEW c, NEW fr, pipe_enter_link(t, p, c, fr),
             \A u \in Tasks \ {t} : fr[u] = frame[u], DOMAIN fr = Tasks
      PROVE  \A u \in Tasks \ {t} : frame'[u] = frame[u]
  BY <1>b DEF pipe_enter_link
<1>s. ASSUME frame' = frame, phase' = phase, num_locks' = num_locks, completed' = completed,
             refcount' = refcount, handle' = handle
      PROVE  RefInv'
  BY <1>0, <1>s, RefSame DEF RefInv
<1>1. ASSUME NEW t \in Tasks, launch(t) PROVE RefInv'
  <2>1. Other(t)
    BY <1>0, <1>1, <1>b DEF launch, TypeInv
  <2> QED
    BY <1>1, <1>a, <2>1, Ref_launch
<1>2. ASSUME NEW t \in Tasks, fire(t) PROVE RefInv'
  <2>1. Other(t)
    BY <1>0, <1>2 DEF fire, TypeInv
  <2>2. /\ Kind[t] = "access" /\ phase[t] = "new" /\ phase'[t] \in {"probing", "entering"}
        /\ handle'[t] /\ completed' = completed /\ refcount' = refcount /\ frame' = frame
        /\ num_locks'[t] = Cardinality(Wants(t))
    BY <1>0, <1>2 DEF fire, TypeInv, Submittable
  <2>3. num_locks'[t] \in Nat
    BY <2>2, LinkFacts, FS_CardinalityType
  <2>4. RefOK(t)'
    BY <1>0, <2>2, <2>3 DEF RefOK
  <2> QED
    BY <1>a, <2>1, <2>4
<1>3. ASSUME NEW t \in Tasks, lock_pipe(t) PROVE RefInv'
  BY <1>3, <1>s DEF lock_pipe
<1>4. ASSUME NEW t \in Tasks, pipe_try_inline(t) PROVE RefInv'
  <2>1. Other(t)
    BY <1>0, <1>4 DEF pipe_try_inline, TypeInv
  <2>2. /\ Kind[t] = "access" /\ phase[t] = "probing" /\ phase'[t] \in {"ready", "entering"}
        /\ handle' = handle /\ completed' = completed /\ refcount' = refcount
        /\ num_locks' = num_locks
    BY <1>0, <1>4 DEF pipe_try_inline, TypeInv, RefOK
  <2>3. \A r \in Pipes : frame'[t][r] # "turned"
    <3>1. CASE frame' = frame
      BY <1>0, <2>2, <3>1 DEF RefOK
    <3>2. CASE frame' = [frame EXCEPT ![t] =
                          [p \in Pipes |-> IF p \in Wants(t) THEN "fired" ELSE @[p]]]
      BY <1>0, <2>2, <3>2 DEF RefOK, TypeInv
    <3> QED
      BY <1>4, <3>1, <3>2 DEF pipe_try_inline
  <2>4. RefOK(t)'
    BY <1>0, <2>2, <2>3 DEF RefOK
  <2> QED
    BY <1>a, <2>1, <2>4
<1>5. ASSUME NEW t \in Tasks, pipe_enter_first(t) PROVE RefInv'
  <2>1. Other(t)
    BY <1>0, <1>5, <1>b DEF pipe_enter_first, TypeInv
  <2>2. /\ Kind[t] = "access" /\ phase[t] = "entering" /\ phase'[t] = "waiting"
        /\ handle' = handle /\ completed' = completed /\ refcount' = refcount
        /\ num_locks' = num_locks
    BY <1>0, <1>5 DEF pipe_enter_first, TypeInv, RefOK
  <2>3. \A r \in Pipes : frame'[t][r] # "turned"
    <3>1. PICK v \in {"granted", "queued"} : frame' = [frame EXCEPT ![t][First(t)] = v]
      BY <1>5 DEF pipe_enter_first, pipe_enter_link
    <3> QED
      BY <1>0, <2>2, <3>1 DEF RefOK, TypeInv
  <2>4. RefOK(t)'
    BY <1>0, <2>2, <2>3 DEF RefOK
  <2> QED
    BY <1>a, <2>1, <2>4
<1>6. ASSUME NEW t \in Tasks, pipe_acquire(t) PROVE RefInv'
  <2>1. Other(t)
    BY <1>0, <1>6 DEF pipe_acquire, TypeInv
  <2>2. /\ Kind[t] = "hold" /\ phase[t] = "new" /\ phase'[t] \in {"running", "waiting"}
        /\ handle' = handle /\ refcount' = refcount /\ num_locks' = num_locks
    BY <1>0, <1>6 DEF pipe_acquire, TypeInv, Submittable
  <2>3. RefOK(t)'
    BY <1>0, <2>2 DEF RefOK
  <2> QED
    BY <1>a, <2>1, <2>3
<1>7. ASSUME NEW c \in Carriers, NEW t \in Tasks, NEW p \in Wants(t), cascade(c, t, p)
      PROVE RefInv'
  <2>1. Other(t)
    <3> DEFINE fr == [frame EXCEPT ![t][p] = "cascaded"]
    <3>1. DOMAIN fr = Tasks /\ \A u \in Tasks \ {t} : fr[u] = frame[u]
      BY <1>0 DEF TypeInv
    <3>2. pipe_enter_link(t, Least(t, After(t, p)), c, fr)
      BY <1>7 DEF cascade
    <3>3. \A u \in Tasks \ {t} : frame'[u] = frame[u]
      <4> HIDE DEF fr
      <4> QED
        BY <3>1, <3>2, <1>b
    <3>4. /\ refcount' = [refcount EXCEPT ![t] = @ + EntryRef(t)]
          /\ phase' = phase /\ num_locks' = num_locks /\ completed' = completed /\ handle' = handle
      BY <1>7 DEF cascade
    <3> QED
      BY <1>0, <3>3, <3>4 DEF TypeInv
  <2> QED
    BY <1>7, <1>a, <2>1, Ref_cascade
<1>8. ASSUME NEW c \in Carriers, NEW t \in Tasks, NEW p \in Wants(t), turn(c, t, p)
      PROVE RefInv'
  <2>1. Other(t)
    <3>1. PICK v \in {"turned", "fired"} : frame' = [frame EXCEPT ![t][p] = v]
      BY <1>8 DEF turn
    <3>2. /\ phase' = phase \/ phase' = [phase EXCEPT ![t] = "ready"]
          /\ refcount' = refcount \/ refcount' = [refcount EXCEPT ![t] = @ + EntryRef(t)]
          /\ num_locks' = [num_locks EXCEPT ![t] = @ - 1]
          /\ completed' = completed /\ handle' = handle
      BY <1>8 DEF turn
    <3> QED
      BY <1>0, <3>1, <3>2 DEF TypeInv
  <2> QED
    BY <1>8, <1>a, <2>1, Ref_turn
<1>9. ASSUME NEW c \in Carriers, NEW t \in Tasks, NEW p \in Wants(t), drop_entry_ref(c, t, p)
      PROVE RefInv'
  <2>1. Other(t)
    BY <1>0, <1>9 DEF drop_entry_ref, TypeInv
  <2>2. /\ frame[t][p] = "turned" /\ frame' = [frame EXCEPT ![t][p] = "fired"]
        /\ refcount'[t] = refcount[t] - 1 /\ phase' = phase /\ num_locks' = num_locks
        /\ completed' = completed /\ handle' = handle /\ p \in Pipes /\ Wants(t) \subseteq Pipes
    BY <1>0, <1>9, LinkFacts DEF drop_entry_ref, TypeInv
  <2>3. Kind[t] = "async"
    BY <1>0, <2>2 DEF RefOK, LinksInv, LinkOK
  <2>4. frame'[t][p] = "fired" /\ \A r \in Pipes \ {p} : frame'[t][r] = frame[t][r]
    BY <1>0, <2>2 DEF TypeInv
  <2>5. Cardinality(Entries(t)') = Cardinality(Entries(t)) - 1 /\ Cardinality(Entries(t)) \in Nat
    BY <2>2, <2>4, EntriesLeave, EntriesFinite
  <2>6. Worked(t)' <=> Worked(t)
    BY <2>2 DEF Worked
  <2>7. refcount'[t] = One(handle'[t]) + Cardinality(Entries(t)') + One(Worked(t)')
    BY <1>0, <2>2, <2>3, <2>5, <2>6 DEF RefOK, One
  <2>8. RefOK(t)'
    BY <1>0, <2>2, <2>3, <2>7 DEF RefOK
  <2> QED
    BY <1>a, <2>1, <2>8
<1>10. ASSUME NEW c \in Carriers, NEW t \in Tasks, NEW p \in Wants(t), fire_hold(c, t, p)
       PROVE RefInv'
  <2>1. Other(t)
    BY <1>0, <1>10 DEF fire_hold, TypeInv
  <2>2. /\ Kind[t] = "hold" /\ phase'[t] = "ready" /\ handle' = handle /\ refcount' = refcount
        /\ num_locks' = num_locks
    BY <1>0, <1>10 DEF fire_hold, TypeInv
  <2>3. RefOK(t)'
    BY <1>0, <2>2 DEF RefOK
  <2> QED
    BY <1>a, <2>1, <2>3
<1>11. ASSUME NEW t \in Tasks, run(t) \/ run_cancelled(t) \/ finish_body(t) PROVE RefInv'
  <2>1. Other(t)
    BY <1>0, <1>11 DEF run, run_cancelled, finish_body, leave_body, TypeInv
  <2>2. /\ phase[t] \in {"ready", "running"} /\ phase'[t] \in {"running", "advancing"}
        /\ frame' = frame /\ handle' = handle /\ refcount' = refcount /\ num_locks' = num_locks
        /\ Kind[t] = "access" => completed'[t] = completed[t] \/ ~completed'[t]
    BY <1>0, <1>11 DEF run, run_cancelled, finish_body, leave_body, TypeInv, SettlesFirst
  <2>3. Worked(t) /\ Worked(t)'
    BY <2>2 DEF Worked
  <2>4. Entries(t)' = Entries(t)
    BY <2>2 DEF Entries, Wants
  <2>5. Kind[t] = "access" => ~completed[t] /\ handle[t]
    BY <1>0, <2>2 DEF RefOK
  <2>6. RefOK(t)'
    BY <1>0, <2>2, <2>3, <2>4, <2>5 DEF RefOK, One
  <2> QED
    BY <1>a, <2>1, <2>6
<1>12. ASSUME NEW t \in Tasks, advance(t) PROVE RefInv'
  BY <1>12, <1>s DEF advance
<1>13. ASSUME NEW p \in Pipes, collect_admissions(p) PROVE RefInv'
  <2>1. PICK h : h = Head(queue[p])
    OBVIOUS
  <2>2. /\ queue[p] # <<>> /\ queue[p] \in Seq(Tasks) /\ frame' = [frame EXCEPT ![h][p] = "granted"]
        /\ phase' = phase /\ num_locks' = num_locks /\ completed' = completed
        /\ refcount' = refcount /\ handle' = handle
    BY <1>0, <1>13, <2>1 DEF collect_admissions, HeadAdmissible, TypeInv
  <2>3. h \in Tasks /\ frame[h][p] = "queued"
    <3>1. h = queue[p][1] /\ 1 \in 1..Len(queue[p]) /\ h \in Tasks
      BY <2>1, <2>2, HeadTailProperties, EmptySeq, LenProperties
    <3> QED
      BY <1>0, <3>1 DEF LinksInv, QueueOK
  <2>4. Other(h)
    BY <1>0, <2>2, <2>3 DEF TypeInv
  <2>5. frame'[h][p] = "granted" /\ \A r \in Pipes \ {p} : frame'[h][r] = frame[h][r]
    BY <1>0, <2>2, <2>3 DEF TypeInv
  <2>6. Entries(h)' = Entries(h)
    BY <2>3, <2>5, LinkFacts DEF Entries, Wants
  <2>7. Worked(h)' <=> Worked(h)
    BY <2>2 DEF Worked
  <2>8. RefOK(h)'
    BY <1>0, <2>2, <2>3, <2>5, <2>6, <2>7 DEF RefOK, One
  <2> QED
    BY <1>a, <2>3, <2>4, <2>8
<1>14. ASSUME NEW p \in Pipes, end_pass(p) \/ destroy(p) \/ wake(p) PROVE RefInv'
  BY <1>14, <1>s DEF end_pass, destroy, wake, check_idle
<1>15. ASSUME NEW t \in Tasks, finish(t) PROVE RefInv'
  <2>1. Other(t)
    BY <1>0, <1>15 DEF finish, TypeInv
  <2>2. /\ phase[t] = "advancing" /\ phase'[t] = "done" /\ completed'[t] /\ frame' = frame
        /\ handle' = handle /\ num_locks' = num_locks /\ refcount'[t] = refcount[t] - EntryRef(t)
        /\ refcount[t] \in Int
    BY <1>0, <1>15 DEF finish, TypeInv
  <2>3. Worked(t) /\ ~Worked(t)' /\ Entries(t)' = Entries(t) /\ Cardinality(Entries(t)) \in Nat
    BY <2>2, EntriesFinite DEF Worked, Entries, Wants
  <2>4. Kind[t] = "async" =>
          refcount'[t] = One(handle'[t]) + Cardinality(Entries(t)') + One(Worked(t)')
    BY <1>0, <2>2, <2>3 DEF RefOK, One, EntryRef
  <2>5. Kind[t] # "async" => refcount'[t] = 0
    BY <1>0, <2>2 DEF RefOK, EntryRef
  <2>6. RefOK(t)'
    BY <1>0, <2>2, <2>4, <2>5 DEF RefOK
  <2> QED
    BY <1>a, <2>1, <2>6
<1>16. ASSUME NEW t \in Tasks, drop_handle(t) PROVE RefInv'
  <2>1. Other(t)
    BY <1>0, <1>16 DEF drop_handle, TypeInv
  <2>2. /\ handle[t] /\ ~handle'[t] /\ (Kind[t] = "access" => completed[t]) /\ frame' = frame
        /\ phase' = phase /\ completed' = completed /\ num_locks' = num_locks
        /\ refcount'[t] = refcount[t] - EntryRef(t) /\ refcount[t] \in Int
    BY <1>0, <1>16 DEF drop_handle, TypeInv
  <2>3. (Worked(t)' <=> Worked(t)) /\ Entries(t)' = Entries(t) /\ Cardinality(Entries(t)) \in Nat
    BY <2>2, EntriesFinite DEF Worked, Entries, Wants
  <2>4. Kind[t] = "async" =>
          refcount'[t] = One(handle'[t]) + Cardinality(Entries(t)') + One(Worked(t)')
    BY <1>0, <2>2, <2>3 DEF RefOK, One, EntryRef
  <2>5. Kind[t] # "async" => refcount'[t] = 0
    BY <1>0, <2>2 DEF RefOK, EntryRef
  <2>6. RefOK(t)'
    BY <1>0, <2>2, <2>4, <2>5 DEF RefOK
  <2> QED
    BY <1>a, <2>1, <2>6
<1>17. CASE UNCHANGED vars
  BY <1>17, <1>s DEF vars
<1> QED
  BY <1>1, <1>2, <1>3, <1>4, <1>5, <1>6, <1>7, <1>8, <1>9, <1>10, <1>11, <1>12, <1>13, <1>14,
     <1>15, <1>16, <1>17
  DEF Next, TaskStep, FireStep, PipeStep, UserStep, Ended

-----------------------------------------------------------------------------
(* Theorems *)

\* IndInv holds throughout, whatever the pipes, the accesses and their modes: the
\* links are turned in canonical order, num_locks counts the turns to come, and
\* struct Pipe's counters agree with the grants.
THEOREM Inductive == SafetySpec => []IndInv
<1>1. Init => IndInv
  BY InitInv
<1>2. IndInv /\ [Next]_vars => IndInv'
  BY IndStep
<1> QED
  BY <1>1, <1>2, PTL DEF SafetySpec

\* GrantAccounting: active_readers, writer_active, writer_owner and the parity of
\* write_epoch always name exactly the accesses that hold the pipe.
THEOREM PipeGrantAccounting == SafetySpec => []GrantAccounting
<1>1. IndInv => GrantAccounting
  BY DEF IndInv
<1> QED
  BY <1>1, Inductive, PTL

\* HeldUntilSettled: an access that admit, cascade and turn have dispatched holds
\* every one of its pipes until its body is over.
THEOREM PipeHeldUntilSettled == SafetySpec => []HeldUntilSettled
<1>1. IndInv => HeldUntilSettled
  <2> SUFFICES ASSUME IndInv, NEW t \in Tasks, phase[t] \in {"ready", "running"},
                      NEW p \in Wants(t)
               PROVE  Holds(t, p)
    BY DEF HeldUntilSettled
  <2>1. frame[t][p] \in {"turned", "fired"} /\ advanced[t] = {}
    BY DEF IndInv, LinksInv, LinkOK
  <2> QED
    BY <2>1 DEF Holds, Granted
<1> QED
  BY <1>1, Inductive, PTL

\* MutualExclusion: two bodies run at once on one object only as its readers.
\* Both hold the pipe, and the accounting leaves a writer alone on it.
THEOREM PipeMutualExclusion == SafetySpec => []MutualExclusion
<1>1. IndInv => MutualExclusion
  <2> SUFFICES ASSUME IndInv, NEW t \in Tasks, NEW u \in Tasks,
                      NEW p \in Wants(t) \cap Wants(u), t # u,
                      phase[t] = "running", phase[u] = "running"
               PROVE  Mode[t][p] = "read_only" /\ Mode[u][p] = "read_only"
    BY DEF MutualExclusion
  <2>1. Holds(t, p) /\ Holds(u, p)
    <3>1. /\ frame[t][p] \in {"turned", "fired"} /\ advanced[t] = {}
          /\ frame[u][p] \in {"turned", "fired"} /\ advanced[u] = {}
      BY DEF IndInv, LinksInv, LinkOK
    <3> QED
      BY <3>1 DEF Holds, Granted
  <2>2. p \in Pipes /\ Mode[t][p] \in Modes /\ Mode[u][p] \in Modes
    BY LinkFacts
  <2>3. /\ t \in Readers(p) \/ t \in Writers(p)
        /\ u \in Readers(p) \/ u \in Writers(p)
        /\ t \in Readers(p) => Mode[t][p] = "read_only"
        /\ u \in Readers(p) => Mode[u][p] = "read_only"
    BY <2>1, <2>2 DEF Readers, Writers, Reads, Writes, Modes
  <2>4. /\ Writers(p) = (IF writer_active[p] THEN {writer_owner[p]} ELSE {})
        /\ writer_active[p] => Readers(p) = {}
    BY <2>2 DEF IndInv, GrantAccounting
  <2> QED
    BY <2>3, <2>4
<1> QED
  BY <1>1, Inductive, PTL

\* EpochInv holds throughout: admissions and releases are the only steps that
\* move write_epoch, and a running body's grant excludes both.
THEOREM Epochs == SafetySpec => []EpochInv
<1>1. Init => EpochInv
  BY LinkFacts DEF Init, EpochInv, EpochOK
<1>2. IndInv /\ EpochInv /\ [Next]_vars => EpochInv'
  BY EpochInvStep
<1> QED
  BY <1>1, <1>2, Inductive, PTL DEF SafetySpec

\* EpochCurrentInWindow: the epochs a body captured stay current while it runs.
THEOREM PipeEpochCurrent == SafetySpec => []EpochCurrentInWindow
<1>1. EpochInv => EpochCurrentInWindow
  BY DEF EpochInv, EpochOK, EpochCurrentInWindow
<1> QED
  BY <1>1, Epochs, PTL

\* StaleWriteSnapshot: a snapshot of a write window is stale for ever once the
\* window is closed; no number of later windows brings its epoch back.
THEOREM PipeStaleSnapshot == SafetySpec => []StaleWriteSnapshot
<1>1. IndInv /\ EpochInv => StaleWriteSnapshot
  <2> SUFFICES ASSUME IndInv, EpochInv, NEW t \in Tasks, NEW p \in Writes(t) \cap advanced[t]
               PROVE  seen[t][p] # write_epoch[p]
    BY DEF StaleWriteSnapshot
  <2>1. p \in Pipes /\ seen[t][p] < write_epoch[p]
    BY LinkFacts DEF EpochInv, EpochOK, Writes
  <2>2. seen[t][p] \in Nat /\ write_epoch[p] \in Nat
    BY <2>1 DEF IndInv, TypeInv
  <2> QED
    BY <2>1, <2>2
<1> QED
  BY <1>1, Inductive, Epochs, PTL

\* EpochsKept: what Access_guard's checks rely on. A snapshot taken inside an
\* open window compares equal to write_epoch, and one of a closed write window
\* never does again.
THEOREM PipeEpochsKept == SafetySpec => []EpochsKept
  BY PipeEpochCurrent, PipeStaleSnapshot, PTL DEF EpochsKept

\* A pipe moves in order: NoAdmissibleHeadLeft and FifoAdmission hold of every
\* interleaving of submissions, cascades, probes and releases.
THEOREM Flow == SafetySpec => []FlowInv
<1>1. Init => FlowInv
  BY DEF Init, FlowInv, MutexOK, QueuedIn, HeadOK, HeadAdmissible
<1>2. IndInv /\ FlowInv /\ [Next]_vars => FlowInv'
  BY FlowStep
<1> QED
  BY <1>1, <1>2, Inductive, PTL DEF SafetySpec

\* FifoWorkConserving: between critical sections no admissible head is left waiting,
\* and no step grants a pipe past an entry that was queued earlier.
THEOREM PipeFifo == SafetySpec => FifoWorkConserving
<1>1. FlowInv => NoAdmissibleHeadLeft
  BY DEF FlowInv, HeadOK, Releasing, NoAdmissibleHeadLeft
<1>2. IndInv /\ FlowInv /\ [Next]_vars => [FifoStep]_vars
  BY GrantInOrder
<1>3. SafetySpec => [][FifoStep]_vars
  BY <1>2, Inductive, Flow, PTL DEF SafetySpec
<1>4. SafetySpec => FifoAdmission
  BY <1>3 DEF FifoAdmission, FifoStep
<1> QED
  BY <1>1, <1>4, Flow, PTL DEF FifoWorkConserving

\* RefInv holds throughout: every reference an async block has is a handle, an entry or
\* a worker.
THEOREM References == SafetySpec => []RefInv
<1>1. Init => RefInv
  <2> SUFFICES ASSUME Init, NEW t \in Tasks PROVE RefOK(t)
    BY DEF RefInv
  <2>1. Entries(t) = {} /\ Cardinality(Entries(t)) = 0 /\ ~Worked(t)
    BY FS_EmptySet, LinkFacts DEF Init, Entries, Worked
  <2> QED
    BY <2>1 DEF Init, RefOK, One
<1>2. IndInv /\ RefInv /\ [Next]_vars => RefInv'
  BY RefStep
<1> QED
  BY <1>1, <1>2, Inductive, PTL DEF SafetySpec

\* NoUseAfterFree: whatever the submitter does with its handle, a block that a queue, a
\* turn or a worker can reach has a reference, and an op that one can reach still exists.
THEOREM PipeNoUseAfterFree == SafetySpec => []NoUseAfterFree
<1>1. ASSUME IndInv, RefInv PROVE NoUseAfterFree
  <2> SUFFICES ASSUME NEW t \in Tasks, Reachable(t)
               PROVE  CASE Kind[t] = "async"  -> refcount[t] > 0
                        [] Kind[t] = "access" -> handle[t]
                        [] OTHER -> TRUE
    BY DEF NoUseAfterFree
  <2>1. RefOK(t) /\ LinkOK(t) /\ Kind[t] \in {"async", "access", "hold"}
    BY <1>1, PipeAssumption DEF IndInv, LinksInv, RefInv
  <2>2. CASE Kind[t] = "async"
    <3>1. Entries(t) # {} \/ Worked(t)
      BY <2>1, <2>2 DEF Reachable, RefOK, Entries, Worked
    <3>2. Cardinality(Entries(t)) \in Nat /\ (Entries(t) # {} => Cardinality(Entries(t)) > 0)
      BY EntriesFinite
    <3>3. refcount[t] = One(handle[t]) + Cardinality(Entries(t)) + One(Worked(t))
      BY <2>1, <2>2 DEF RefOK
    <3>4. One(handle[t]) \in Nat /\ One(Worked(t)) \in Nat /\ (Worked(t) => One(Worked(t)) = 1)
      BY DEF One
    <3>5. refcount[t] > 0
      BY <3>1, <3>2, <3>3, <3>4
    <3> QED
      BY <2>2, <3>5
  <2>3. CASE Kind[t] = "access"
    <3>1. phase[t] \notin {"new", "done"}
      BY <2>1, <2>3, LinkFacts DEF Reachable, RefOK, LinkOK
    <3>2. handle[t]
      BY <2>1, <2>3, <3>1 DEF RefOK
    <3> QED
      BY <2>3, <3>2
  <2>4. CASE Kind[t] = "hold"
    BY <2>4
  <2> QED
    BY <2>1, <2>2, <2>3, <2>4
<1> QED
  BY <1>1, Inductive, References, PTL

\* TypeOK: none of the counts of readers, of locks and of references that the code
\* decrements ever runs below zero.
THEOREM PipeTypeOK == SafetySpec => []TypeOK
<1>1. ASSUME IndInv, RefInv PROVE TypeOK
  <2>1. TypeInv /\ GrantAccounting /\ \A t \in Tasks : RefOK(t)
    BY <1>1 DEF IndInv, RefInv
  <2>2. active_readers \in [Pipes -> Nat]
    <3>1. \A p \in Pipes : IsFiniteSet(Readers(p))
      BY TasksFinite, FS_Subset DEF Readers
    <3>2. \A p \in Pipes : active_readers[p] \in Nat
      BY <2>1, <3>1, FS_CardinalityType DEF GrantAccounting
    <3> QED
      BY <2>1, <3>2 DEF TypeInv
  <2>3. num_locks \in [Tasks -> Nat]
    BY <2>1 DEF TypeInv, RefOK
  <2>4. refcount \in [Tasks -> Nat]
    <3>1. ASSUME NEW t \in Tasks PROVE refcount[t] \in Nat
      <4>1. CASE Kind[t] = "async"
        <5>1. One(handle[t]) \in Nat /\ One(Worked(t)) \in Nat /\ Cardinality(Entries(t)) \in Nat
          BY EntriesFinite DEF One
        <5> QED
          BY <2>1, <4>1, <5>1 DEF RefOK
      <4>2. CASE Kind[t] # "async"
        BY <2>1, <4>2 DEF RefOK
      <4> QED
        BY <4>1, <4>2
    <3> QED
      BY <2>1, <3>1 DEF TypeInv
  <2> QED
    BY <2>1, <2>2, <2>3, <2>4 DEF TypeInv, TypeOK
<1> QED
  BY <1>1, Inductive, References, PTL

-----------------------------------------------------------------------------
(* The exclusive-access promise *)

\* The moves an access makes through its phases.
Moves ==
    ({"new"} \X {"probing", "entering", "waiting", "running"})
        \cup ({"probing"} \X {"ready", "entering"}) \cup {<<"entering", "waiting">>}
        \cup {<<"waiting", "ready">>, <<"ready", "running">>, <<"ready", "advancing">>}
        \cup {<<"running", "advancing">>, <<"advancing", "done">>}

\* A step moves at most one access, along Moves.
LEMMA PhaseMoves ==
    ASSUME IndInv, [Next]_vars
    PROVE  \/ phase' = phase
           \/ \E t \in Tasks : \E b \in Phases :
                <<phase[t], b>> \in Moves /\ phase' = [phase EXCEPT ![t] = b]
<1> USE DEF Moves, Phases
<1>0. TypeInv /\ LinksInv
  BY DEF IndInv
<1>1. ASSUME NEW t \in Tasks,
             \/ launch(t) \/ fire(t) \/ pipe_try_inline(t) \/ pipe_enter_first(t) \/ pipe_acquire(t)
             \/ run(t) \/ run_cancelled(t) \/ finish_body(t) \/ finish(t)
      PROVE  \E b \in Phases : <<phase[t], b>> \in Moves /\ phase' = [phase EXCEPT ![t] = b]
  <2>1. CASE launch(t)
    BY <2>1 DEF launch, Submittable
  <2>2. CASE fire(t)
    BY <2>2 DEF fire, Submittable
  <2>3. CASE pipe_try_inline(t)
    BY <2>3 DEF pipe_try_inline
  <2>4. CASE pipe_enter_first(t)
    BY <2>4 DEF pipe_enter_first
  <2>5. CASE pipe_acquire(t)
    BY <2>5 DEF pipe_acquire, Submittable
  <2>6. CASE run(t)
    BY <2>6 DEF run
  <2>7. CASE run_cancelled(t) \/ finish_body(t)
    BY <2>7 DEF run_cancelled, finish_body, leave_body
  <2>8. CASE finish(t)
    BY <2>8 DEF finish
  <2> QED
    BY <1>1, <2>1, <2>2, <2>3, <2>4, <2>5, <2>6, <2>7, <2>8
<1>2. ASSUME NEW t \in Tasks, lock_pipe(t) \/ advance(t) \/ drop_handle(t) PROVE phase' = phase
  BY <1>2 DEF lock_pipe, advance, drop_handle
<1>3. ASSUME NEW c \in Carriers, NEW t \in Tasks, NEW p \in Wants(t),
             turn(c, t, p) \/ fire_hold(c, t, p)
      PROVE  \/ phase' = phase
             \/ <<phase[t], "ready">> \in Moves /\ phase' = [phase EXCEPT ![t] = "ready"]
  <2>1. frame[t][p] \in {"granted", "cascaded"} /\ p \in Pipes
    BY <1>3, LinkFacts DEF turn, fire_hold
  <2>2. phase[t] = "waiting"
    BY <1>0, <2>1 DEF LinksInv, LinkOK, TypeInv
  <2>3. phase' = phase \/ phase' = [phase EXCEPT ![t] = "ready"]
    BY <1>3 DEF turn, fire_hold
  <2> QED
    BY <2>2, <2>3
<1>4. ASSUME NEW c \in Carriers, NEW t \in Tasks, NEW p \in Wants(t),
             cascade(c, t, p) \/ drop_entry_ref(c, t, p)
      PROVE  phase' = phase
  BY <1>4 DEF cascade, drop_entry_ref
<1>5. ASSUME NEW p \in Pipes, PipeStep(p) \/ destroy(p) PROVE phase' = phase
  BY <1>5 DEF PipeStep, collect_admissions, end_pass, wake, destroy, check_idle
<1>6. CASE UNCHANGED vars
  BY <1>6 DEF vars
<1> QED
  BY <1>1, <1>2, <1>3, <1>4, <1>5, <1>6 DEF Next, TaskStep, FireStep, UserStep, Ended

\* Every step of the pipes is one of ExclusiveAccess, or none.
LEMMA AccessSteps == IndInv /\ MutualExclusion' /\ [Next]_vars => [EA!Next]_AccessState
<1> SUFFICES ASSUME IndInv, MutualExclusion', [Next]_vars PROVE [EA!Next]_AccessState
  OBVIOUS
<1>0. phase \in [Tasks -> Phases]
  BY DEF IndInv, TypeInv
<1>1. CASE phase' = phase
  <2>1. AccessState' = AccessState
    BY <1>1 DEF AccessState
  <2> QED
    BY <2>1
<1>2. ASSUME NEW t \in Tasks, NEW b \in Phases, <<phase[t], b>> \in Moves,
             phase' = [phase EXCEPT ![t] = b]
      PROVE  [EA!Next]_AccessState
  <2>1. phase'[t] = b /\ \A u \in Tasks \ {t} : phase'[u] = phase[u]
    BY <1>0, <1>2
  <2>2. /\ AccessState = [u \in Tasks |-> AccessState[u]] /\ AccessState' = [u \in Tasks |-> AccessState'[u]]
        /\ \A u \in Tasks \ {t} : AccessState'[u] = AccessState[u]
    BY <2>1 DEF AccessState
  <2>3. AccessState' = [AccessState EXCEPT ![t] = AccessState'[t]]
    BY <2>2
  <2>4. /\ phase[t] = "new" => AccessState[t] = "idle"
        /\ phase[t] \in {"probing", "entering", "waiting", "ready"} => AccessState[t] = "pending"
        /\ phase[t] = "running" => AccessState[t] = "running"
        /\ phase[t] \in {"advancing", "done"} => AccessState[t] = "done"
    BY DEF AccessState
  <2>5. /\ b \in {"probing", "entering", "waiting", "ready"} => AccessState'[t] = "pending"
        /\ b = "running" => AccessState'[t] = "running"
        /\ b \in {"advancing", "done"} => AccessState'[t] = "done"
    BY <2>1 DEF AccessState
  <2>6. CASE phase[t] = "new" /\ b # "running"
    <3>1. b \in {"probing", "entering", "waiting"}
      BY <1>2, <2>6 DEF Moves
    <3>2. EA!Submit(t)
      BY <2>3, <2>4, <2>5, <2>6, <3>1 DEF EA!Submit
    <3> QED
      BY <3>2 DEF EA!Next
  <2>7. CASE b = "running"
    <3>1. AccessState[t] \in {"idle", "pending"}
      BY <1>2, <2>4, <2>7 DEF Moves
    <3>2. ASSUME NEW u \in Tasks \ {t}, AccessState[u] = "running"
          PROVE  ~EA!Conflict(t, u)
      <4>1. phase[u] = "running"
        BY <1>0, <3>2 DEF AccessState, Phases
      <4>2. phase'[u] = "running" /\ phase'[t] = "running"
        BY <2>1, <2>7, <4>1
      <4>3. \A p \in Wants(t) \cap Wants(u) : Mode[t][p] = "read_only" /\ Mode[u][p] = "read_only"
        BY <4>2 DEF MutualExclusion, Wants
      <4> QED
        BY <4>3 DEF EA!Conflict, Wants
    <3>3. EA!Begin(t)
      BY <2>3, <2>5, <2>7, <3>1, <3>2 DEF EA!Begin
    <3> QED
      BY <3>3 DEF EA!Next
  <2>8. CASE phase[t] = "ready" /\ b = "advancing"
    <3>1. EA!Skip(t)
      BY <2>3, <2>4, <2>5, <2>8 DEF EA!Skip
    <3> QED
      BY <3>1 DEF EA!Next
  <2>9. CASE phase[t] = "running"
    <3>1. b = "advancing"
      BY <1>2, <2>9 DEF Moves
    <3>2. EA!End(t)
      BY <2>3, <2>4, <2>5, <2>9, <3>1 DEF EA!End
    <3> QED
      BY <3>2 DEF EA!Next
  <2>10. CASE \/ phase[t] \in {"probing", "entering", "waiting"}
              \/ phase[t] = "advancing"
    <3>1. AccessState'[t] = AccessState[t]
      BY <1>2, <2>4, <2>5, <2>10 DEF Moves
    <3>2. AccessState' = AccessState
      BY <2>2, <2>3, <3>1
    <3> QED
      BY <3>2
  <2> QED
    BY <1>2, <2>6, <2>7, <2>8, <2>9, <2>10 DEF Moves
<1> QED
  BY <1>1, <1>2, PhaseMoves

\* The pipes implement what Guarded promises: every behaviour, seen through AccessState,
\* submits an access once, begins its body only beside bodies it does not conflict with,
\* or skips it, and ends it.  (That it does begin or is skipped is left to TLC.)
THEOREM PipeImplementsExclusiveAccess == SafetySpec => EA!SafetySpec
<1>1. Init => EA!Init
  BY DEF Init, EA!Init, AccessState
<1>2. IndInv /\ MutualExclusion' /\ [Next]_vars => [EA!Next]_AccessState
  BY AccessSteps
<1> QED
  BY <1>1, <1>2, Inductive, PipeMutualExclusion, PTL DEF SafetySpec, EA!SafetySpec
=============================================================================
