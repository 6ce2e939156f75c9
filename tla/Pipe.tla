-------------------------------- MODULE Pipe --------------------------------
(***************************************************************************)
(* The access pipe of a `Guarded<T>` object and the cascade that takes     *)
(* several pipes for one access (include/ts/detail/pipe.h, src/guarded.cpp *)
(* and the launch sites of include/ts/guarded.h).                          *)
(*                                                                         *)
(* Three kinds of access use pipes:                                        *)
(*   "async"   a refcounted, always queued task (Guarded::async);          *)
(*   "access"  a caller-owned Access_op: it first probes all its pipes and *)
(*             runs inline if every one is free, else it is queued;        *)
(*   "hold"    a coroutine guard, which keeps one pipe until pipe_release. *)
(*                                                                         *)
(* Pipes are numbered by address.  Every critical section of `Pipe::mutex` *)
(* that is a straight line of code is one action; the two that are not (an *)
(* admission pass and the multi-pipe probe) take and give back mutex[p] in *)
(* actions of their own.  Turns fire outside the mutex, on the stack of    *)
(* the thread that submits the access or of the one that released a grant. *)
(***************************************************************************)
EXTENDS Naturals, Sequences, FiniteSets

CONSTANTS
    Pipes,      \* the objects' pipes, as addresses
    Tasks,      \* the accesses the program may submit, each once
    Kind,       \* Kind[t]: "async", "access" or "hold"
    Mode,       \* Mode[t][p]: Access mode of t's link on p; DOMAIN Mode[t] = its pipes
    Teardown,   \* the pipes whose Guarded the program destroys
    NoTask      \* a null task pointer

Modes == {"read_only", "read_write"}
Wants(t) == DOMAIN Mode[t]

ASSUME PipeAssumption ==
    /\ Pipes \subseteq Nat
    /\ NoTask \notin Tasks
    /\ Kind \in [Tasks -> {"async", "access", "hold"}]
    /\ \A t \in Tasks :
        /\ Wants(t) \subseteq Pipes /\ Wants(t) # {} /\ IsFiniteSet(Wants(t))
        /\ Mode[t] \in [Wants(t) -> Modes]
        /\ Kind[t] = "hold" => Cardinality(Wants(t)) = 1
    /\ Teardown \subseteq Pipes

ASSUME TasksFinite == IsFiniteSet(Tasks)

VARIABLES
    \* --- struct Pipe
    queue,          \* queue[p]: the FIFO of waiting entries, by owner
    active_readers, \* active_readers[p]
    writer_active,  \* writer_active[p]
    writer_owner,   \* writer_owner[p]: the task holding the write grant, or NoTask
    write_epoch,    \* write_epoch[p]: odd while a write grant is out
    mutex,          \* mutex[p]: the task for which some thread holds Pipe::mutex, or NoTask
    life,           \* life[p]: "live"; "waiting" / "woken" in wait_until_idle; "dead"
    \* --- Task_control_block and its links
    phase,          \* phase[t]: where the access is in its life
    frame,          \* frame[t][p]: the state of t's link on p
    num_locks,      \* num_locks[t]: pipe turns still to come before dispatch
    advanced,       \* advanced[t]: pipes already released by advance_pipe_links
    completed,      \* completed[t]: settled, sync() returns
    refcount,       \* refcount[t]: intrusive count of an async block
    handle,         \* handle[t]: the submitter still owns a Task handle / the Access_op
    seen,           \* seen[t][p]: write_epoch captured by the body's Access_context
    stack           \* stack[c]: the admitted entries thread c has still to fire, top first

\* The threads that fire turns, by the submission or the release they are in.
Carriers == {"submit", "release"} \X Tasks

pipeVars == <<active_readers, writer_active, writer_owner, write_epoch>>
vars == <<queue, pipeVars, mutex, life, phase, frame, num_locks, advanced,
          completed, refcount, handle, seen, stack>>

-----------------------------------------------------------------------------
(* Links in canonical order *)

\* Mutant: links left in the order the caller named the objects.
BeforeUnsorted(t, p, q) == IF Kind[t] = "access" THEN q < p ELSE p < q

\* The order in which async_build_modes and bind_targets sort an access's links.
Before(t, p, q) == p < q

Least(t, S) == CHOOSE p \in S : \A q \in S \ {p} : Before(t, p, q)
First(t)    == Least(t, Wants(t))
After(t, p) == {q \in Wants(t) : q # p /\ Before(t, p, q)}

Init ==
    /\ queue = [p \in Pipes |-> <<>>]
    /\ active_readers = [p \in Pipes |-> 0]
    /\ writer_active = [p \in Pipes |-> FALSE]
    /\ writer_owner = [p \in Pipes |-> NoTask]
    /\ write_epoch = [p \in Pipes |-> 0]
    /\ mutex = [p \in Pipes |-> NoTask]
    /\ life = [p \in Pipes |-> "live"]
    /\ phase = [t \in Tasks |-> "new"]
    /\ frame = [t \in Tasks |-> [p \in Pipes |-> "out"]]
    /\ num_locks = [t \in Tasks |-> 0]
    /\ advanced = [t \in Tasks |-> {}]
    /\ completed = [t \in Tasks |-> FALSE]
    /\ refcount = [t \in Tasks |-> 0]
    /\ handle = [t \in Tasks |-> FALSE]
    /\ seen = [t \in Tasks |-> [p \in Pipes |-> 0]]
    /\ stack = [c \in Carriers |-> <<>>]

-----------------------------------------------------------------------------
(* Admission: the code run under Pipe::mutex *)

\* Mutant: a writer is let in beside active readers.
admissibleBesideReaders(p, mode) == ~writer_active[p]

admissible(p, mode) ==
    IF mode = "read_only" THEN ~writer_active[p]
                          ELSE ~writer_active[p] /\ active_readers[p] = 0

\* Mutant: the check for entries already queued is dropped.
AdmitNowPastQueue(t, p) == admissible(p, Mode[t][p])

\* An entry may be admitted in the call that makes it only ahead of nobody.
AdmitNow(t, p) == queue[p] = <<>> /\ admissible(p, Mode[t][p])

Reads(t)  == {p \in Wants(t) : Mode[t][p] = "read_only"}
Writes(t) == {p \in Wants(t) : Mode[t][p] = "read_write"}

\* admit_locked of t's links on the pipes S.
admit_locked(t, S) ==
    /\ active_readers' = [p \in Pipes |->
            IF p \in S \cap Reads(t) THEN active_readers[p] + 1 ELSE active_readers[p]]
    /\ writer_active' = [p \in Pipes |-> p \in S \cap Writes(t) \/ writer_active[p]]
    /\ writer_owner' = [p \in Pipes |->
            IF p \in S \cap Writes(t) THEN t ELSE writer_owner[p]]
    /\ write_epoch' = [p \in Pipes |->
            IF p \in S \cap Writes(t) THEN write_epoch[p] + 1 ELSE write_epoch[p]]

\* Mutant: the release does not close the write window.
release_grantSameEpoch(t, p) ==
    IF Mode[t][p] = "read_only"
    THEN /\ active_readers' = [active_readers EXCEPT ![p] = @ - 1]
         /\ UNCHANGED <<writer_active, writer_owner, write_epoch>>
    ELSE /\ writer_active' = [writer_active EXCEPT ![p] = FALSE]
         /\ writer_owner' = [writer_owner EXCEPT ![p] = NoTask]
         /\ UNCHANGED <<active_readers, write_epoch>>

\* The first half of release_and_redispatch: give up t's grant on p.
release_grant(t, p) ==
    IF Mode[t][p] = "read_only"
    THEN /\ active_readers' = [active_readers EXCEPT ![p] = @ - 1]
         /\ UNCHANGED <<writer_active, writer_owner, write_epoch>>
    ELSE /\ writer_active' = [writer_active EXCEPT ![p] = FALSE]
         /\ writer_owner' = [writer_owner EXCEPT ![p] = NoTask]
         /\ write_epoch' = [write_epoch EXCEPT ![p] = @ + 1]
         /\ UNCHANGED active_readers

\* pipe_enter_link on thread c; fr is `frame` as its caller leaves it.  An entry
\* admitted at once fires its turn next, on top of c's stack.
pipe_enter_link(t, p, c, fr) ==
    /\ mutex[p] = NoTask
    /\ \/ /\ AdmitNow(t, p)
          /\ admit_locked(t, {p})
          /\ frame' = [fr EXCEPT ![t][p] = "granted"]
          /\ stack' = [stack EXCEPT ![c] = <<<<t, p>>>> \o @]
          /\ UNCHANGED queue
       \/ /\ ~AdmitNow(t, p)
          /\ queue' = [queue EXCEPT ![p] = Append(@, t)]
          /\ frame' = [fr EXCEPT ![t][p] = "queued"]
          /\ UNCHANGED <<pipeVars, stack>>

\* An entry pins a refcounted block; a caller-owned one takes no reference.
EntryRef(t) == IF Kind[t] = "async" THEN 1 ELSE 0

-----------------------------------------------------------------------------
(* Submitting an access *)

Submittable(t) == phase[t] = "new" /\ \A p \in Wants(t) : life[p] = "live"

\* Guarded::launch and async_build_modes: build, bind the sorted links, enter
\* the first one and return a Task handle.
launch(t) ==
    /\ Kind[t] = "async" /\ Submittable(t)
    /\ pipe_enter_link(t, First(t), <<"submit", t>>, frame)
    /\ phase' = [phase EXCEPT ![t] = "waiting"]
    /\ num_locks' = [num_locks EXCEPT ![t] = Cardinality(Wants(t))]
    /\ handle' = [handle EXCEPT ![t] = TRUE]
    /\ refcount' = [refcount EXCEPT ![t] = 1 + EntryRef(t)]
    /\ UNCHANGED <<mutex, life, advanced, completed, seen>>

\* Access_op::fire: probe the pipes first, unless the options say `queued`.
fire(t) ==
    /\ Kind[t] = "access" /\ Submittable(t)
    /\ \E arm \in {"probing", "entering"} : phase' = [phase EXCEPT ![t] = arm]
    /\ num_locks' = [num_locks EXCEPT ![t] = Cardinality(Wants(t))]
    /\ handle' = [handle EXCEPT ![t] = TRUE]
    /\ UNCHANGED <<queue, pipeVars, mutex, life, frame, advanced, completed,
                   refcount, seen, stack>>

\* Locked_pipes: the probe takes every pipe mutex, in canonical order.
Unlocked(t) == {p \in Wants(t) : mutex[p] # t}

lock_pipe(t) ==
    /\ phase[t] = "probing" /\ Unlocked(t) # {}
    /\ mutex[Least(t, Unlocked(t))] = NoTask
    /\ mutex' = [mutex EXCEPT ![Least(t, Unlocked(t))] = t]
    /\ UNCHANGED <<queue, pipeVars, life, phase, frame, num_locks, advanced,
                   completed, refcount, handle, seen, stack>>

\* pipe_try_inline under all the mutexes: admit on every pipe or on none.
pipe_try_inline(t) ==
    /\ phase[t] = "probing" /\ Unlocked(t) = {}
    /\ mutex' = [p \in Pipes |-> IF p \in Wants(t) THEN NoTask ELSE mutex[p]]
    /\ \/ /\ \A p \in Wants(t) : AdmitNow(t, p)
          /\ admit_locked(t, Wants(t))
          /\ frame' = [frame EXCEPT ![t] =
                          [p \in Pipes |-> IF p \in Wants(t) THEN "fired" ELSE @[p]]]
          /\ phase' = [phase EXCEPT ![t] = "ready"]
       \/ /\ \E p \in Wants(t) : ~AdmitNow(t, p)
          /\ phase' = [phase EXCEPT ![t] = "entering"]
          /\ UNCHANGED <<pipeVars, frame>>
    /\ UNCHANGED <<queue, life, num_locks, advanced, completed, refcount, handle,
                   seen, stack>>

\* The op's queued arm: fire falls through to pipe_enter_first.
pipe_enter_first(t) ==
    /\ phase[t] = "entering"
    /\ pipe_enter_link(t, First(t), <<"submit", t>>, frame)
    /\ phase' = [phase EXCEPT ![t] = "waiting"]
    /\ UNCHANGED <<mutex, life, num_locks, advanced, completed, refcount, handle, seen>>

\* A coroutine guard's acquire: granted in the call, or queued as a Hold_node.
pipe_acquire(t) ==
    /\ Kind[t] = "hold" /\ Submittable(t)
    /\ mutex[First(t)] = NoTask
    /\ \/ /\ AdmitNow(t, First(t))
          /\ admit_locked(t, {First(t)})
          /\ frame' = [frame EXCEPT ![t][First(t)] = "fired"]
          /\ phase' = [phase EXCEPT ![t] = "running"]
          /\ seen' = [seen EXCEPT ![t] = write_epoch']
          /\ UNCHANGED queue
       \/ /\ ~AdmitNow(t, First(t))
          /\ queue' = [queue EXCEPT ![First(t)] = Append(@, t)]
          /\ frame' = [frame EXCEPT ![t][First(t)] = "queued"]
          /\ phase' = [phase EXCEPT ![t] = "waiting"]
          /\ UNCHANGED <<pipeVars, seen>>
    /\ UNCHANGED <<mutex, life, num_locks, advanced, completed, refcount, handle, stack>>

-----------------------------------------------------------------------------
(* The turn of an admitted entry: t's link on p, on top of c's stack *)

Firing(c, t, p) == stack[c] # <<>> /\ Head(stack[c]) = <<t, p>>
pop(c) == stack' = [stack EXCEPT ![c] = Tail(@)]

\* fire_task_turn, first half: enter the owner's next link.
cascade(c, t, p) ==
    /\ Firing(c, t, p) /\ Kind[t] # "hold"
    /\ frame[t][p] = "granted" /\ After(t, p) # {}
    /\ pipe_enter_link(t, Least(t, After(t, p)), c, [frame EXCEPT ![t][p] = "cascaded"])
    /\ refcount' = [refcount EXCEPT ![t] = @ + EntryRef(t)]
    /\ UNCHANGED <<mutex, life, phase, num_locks, advanced, completed, handle, seen>>

\* Mutant: the turn before the last already dispatches.
turnEarlyDispatch(c, t, p) ==
    /\ Firing(c, t, p) /\ Kind[t] # "hold"
    /\ frame[t][p] = "cascaded" \/ (frame[t][p] = "granted" /\ After(t, p) = {})
    /\ frame' = [frame EXCEPT ![t][p] = "fired"]
    /\ pop(c)
    /\ num_locks' = [num_locks EXCEPT ![t] = @ - 1]
    /\ phase' = IF num_locks[t] <= 2 THEN [phase EXCEPT ![t] = "ready"] ELSE phase
    /\ UNCHANGED <<queue, pipeVars, mutex, life, advanced, completed, refcount,
                   handle, seen>>

\* fire_task_turn, second half: Task_control_block::release drops one lock; the
\* last one submits the block (with a reference of its own, unless caller-owned).
\* The frame of a caller-owned block touches nothing after that.
turn(c, t, p) ==
    /\ Firing(c, t, p) /\ Kind[t] # "hold"
    /\ frame[t][p] = "cascaded" \/ (frame[t][p] = "granted" /\ After(t, p) = {})
    /\ \/ /\ Kind[t] = "async"
          /\ frame' = [frame EXCEPT ![t][p] = "turned"]
          /\ UNCHANGED stack
       \/ /\ Kind[t] = "access"
          /\ frame' = [frame EXCEPT ![t][p] = "fired"]
          /\ pop(c)
    /\ num_locks' = [num_locks EXCEPT ![t] = @ - 1]
    /\ \/ num_locks[t] # 1 /\ UNCHANGED <<phase, refcount>>
       \/ /\ num_locks[t] = 1
          /\ phase' = [phase EXCEPT ![t] = "ready"]
          /\ refcount' = [refcount EXCEPT ![t] = @ + EntryRef(t)]
    /\ UNCHANGED <<queue, pipeVars, mutex, life, advanced, completed, handle, seen>>

\* `keep` leaves scope: the entry's reference goes.
drop_entry_ref(c, t, p) ==
    /\ Firing(c, t, p) /\ frame[t][p] = "turned"
    /\ frame' = [frame EXCEPT ![t][p] = "fired"]
    /\ refcount' = [refcount EXCEPT ![t] = @ - 1]
    /\ pop(c)
    /\ UNCHANGED <<queue, pipeVars, mutex, life, phase, num_locks, advanced,
                   completed, handle, seen>>

\* fire_granted on a Hold_node: submit on_acquired, delete the node.
fire_hold(c, t, p) ==
    /\ Firing(c, t, p) /\ Kind[t] = "hold" /\ frame[t][p] = "granted"
    /\ frame' = [frame EXCEPT ![t][p] = "fired"]
    /\ phase' = [phase EXCEPT ![t] = "ready"]
    /\ pop(c)
    /\ UNCHANGED <<queue, pipeVars, mutex, life, num_locks, advanced, completed,
                   refcount, handle, seen>>

-----------------------------------------------------------------------------
(* Running and settling *)

\* Mutant: the context keeps the epochs of an earlier window.
runStaleEpochs(t) ==
    /\ phase[t] = "ready"
    /\ phase' = [phase EXCEPT ![t] = "running"]
    /\ UNCHANGED <<queue, pipeVars, mutex, life, frame, num_locks, advanced,
                   completed, refcount, handle, seen, stack>>

\* Executable::run or Access_op's run_body: the Access_context snapshots the
\* epochs.  For a hold: on_acquired resumes the coroutine.
run(t) ==
    /\ phase[t] = "ready"
    /\ phase' = [phase EXCEPT ![t] = "running"]
    /\ seen' = [seen EXCEPT ![t] = write_epoch]
    /\ UNCHANGED <<queue, pipeVars, mutex, life, frame, num_locks, advanced,
                   completed, refcount, handle, stack>>

\* Mutant: an op, too, settles before it releases its pipes.
SettlesFirstAlways(t) == TRUE

\* A generic task settles (waking sync()) before on_complete releases its pipes;
\* an Access_op settles only after.
SettlesFirst(t) == Kind[t] = "async"

leave_body(t) ==
    /\ phase' = [phase EXCEPT ![t] = "advancing"]
    /\ completed' = [completed EXCEPT ![t] = SettlesFirst(t)]
    /\ UNCHANGED <<queue, pipeVars, mutex, life, frame, num_locks, advanced,
                   refcount, handle, seen, stack>>

\* run finds its token cancelled: the body is destroyed, never invoked.
run_cancelled(t) == phase[t] = "ready" /\ Kind[t] # "hold" /\ leave_body(t)

\* The body returns, or the coroutine gives its guard up.
finish_body(t) == phase[t] = "running" /\ leave_body(t)

\* t's releasing thread has unlocked its last pipe and fired what that granted.
Between(t) == stack[<<"release", t>>] = <<>> /\ \A q \in Pipes : mutex[q] # t

\* One round of advance_pipe_links (or pipe_release): lock the pipe and give up
\* the grant.  The admission pass that follows keeps the mutex.
advance(t) ==
    LET p == Least(t, Wants(t) \ advanced[t]) IN
    /\ phase[t] = "advancing" /\ advanced[t] # Wants(t)
    /\ Between(t) /\ mutex[p] = NoTask
    /\ release_grant(t, p)
    /\ mutex' = [mutex EXCEPT ![p] = t]
    /\ advanced' = [advanced EXCEPT ![t] = @ \cup {p}]
    /\ UNCHANGED <<queue, life, phase, frame, num_locks, completed, refcount,
                   handle, seen, stack>>

Releasing(p) == mutex[p] # NoTask /\ phase[mutex[p]] = "advancing"
HeadAdmissible(p) == queue[p] # <<>> /\ admissible(p, Mode[Head(queue[p])][p])

\* One iteration of collect_admissions; the entry joins the thread's Granted list.
collect_admissions(p) ==
    LET c == <<"release", mutex[p]>> IN
    /\ Releasing(p) /\ HeadAdmissible(p)
    /\ stack' = [stack EXCEPT ![c] = Append(@, <<Head(queue[p]), p>>)]
    /\ admit_locked(Head(queue[p]), {p})
    /\ frame' = [frame EXCEPT ![Head(queue[p])][p] = "granted"]
    /\ queue' = [queue EXCEPT ![p] = Tail(@)]
    /\ UNCHANGED <<mutex, life, phase, num_locks, advanced, completed, refcount,
                   handle, seen>>

\* The predicate wait_until_idle sleeps on.
Idle(p) == queue[p] = <<>> /\ active_readers[p] = 0 /\ ~writer_active[p]

\* The pass ends: notify a wait_until_idle waiter if the pipe drained, unlock.
end_pass(p) ==
    /\ Releasing(p) /\ ~HeadAdmissible(p)
    /\ mutex' = [mutex EXCEPT ![p] = NoTask]
    /\ life' = [life EXCEPT ![p] = IF @ = "waiting" /\ Idle(p) THEN "woken" ELSE @]
    /\ UNCHANGED <<queue, pipeVars, phase, frame, num_locks, advanced, completed,
                   refcount, handle, seen, stack>>

\* Every pipe is released: the worker drops its block reference, and only now
\* does op_settle publish a caller-owned op's completion.
finish(t) ==
    /\ phase[t] = "advancing" /\ advanced[t] = Wants(t) /\ Between(t)
    /\ phase' = [phase EXCEPT ![t] = "done"]
    /\ completed' = [completed EXCEPT ![t] = TRUE]
    /\ refcount' = [refcount EXCEPT ![t] = @ - EntryRef(t)]
    /\ UNCHANGED <<queue, pipeVars, mutex, life, frame, num_locks, advanced,
                   handle, seen, stack>>

-----------------------------------------------------------------------------
(* The owners' side *)

\* A Task handle may go at any time; ~Access_op first waits for the settle.
drop_handle(t) ==
    /\ handle[t]
    /\ Kind[t] = "access" => completed[t]
    /\ handle' = [handle EXCEPT ![t] = FALSE]
    /\ refcount' = [refcount EXCEPT ![t] = @ - EntryRef(t)]
    /\ UNCHANGED <<queue, pipeVars, mutex, life, phase, frame, num_locks, advanced,
                   completed, seen, stack>>

\* ~Guarded: wait_until_idle checks its predicate, and sleeps if it is false.
\* The program submits no access to an object it is destroying, and destroys it
\* only after the calls that submitted its accesses have returned.
check_idle(p) ==
    /\ mutex[p] = NoTask
    /\ life' = [life EXCEPT ![p] = IF Idle(p) THEN "dead" ELSE "waiting"]
    /\ UNCHANGED <<queue, pipeVars, mutex, phase, frame, num_locks, advanced,
                   completed, refcount, handle, seen, stack>>

destroy(p) ==
    /\ p \in Teardown /\ life[p] = "live"
    /\ \A t \in Tasks : p \in Wants(t) =>
        phase[t] \notin {"probing", "entering"} /\ stack[<<"submit", t>>] = <<>>
    /\ check_idle(p)
wake(p)    == life[p] = "woken" /\ check_idle(p)

-----------------------------------------------------------------------------

TaskStep(t) ==
    \/ lock_pipe(t) \/ pipe_try_inline(t) \/ pipe_enter_first(t)
    \/ run(t) \/ run_cancelled(t) \/ finish_body(t) \/ advance(t) \/ finish(t)

FireStep(c) == \E t \in Tasks : \E p \in Wants(t) :
    cascade(c, t, p) \/ turn(c, t, p) \/ drop_entry_ref(c, t, p) \/ fire_hold(c, t, p)

PipeStep(p) == collect_admissions(p) \/ end_pass(p) \/ wake(p)

UserStep ==
    \/ \E t \in Tasks : launch(t) \/ fire(t) \/ pipe_acquire(t) \/ drop_handle(t)
    \/ \E p \in Pipes : destroy(p)

\* Nothing left to do: every access has ended or can no longer be submitted.
Ended ==
    /\ \A t \in Tasks : phase[t] = "done" \/ (phase[t] = "new" /\ ~Submittable(t))
    /\ UNCHANGED vars

Next ==
    \/ \E t \in Tasks : TaskStep(t)
    \/ \E c \in Carriers : FireStep(c)
    \/ \E p \in Pipes : PipeStep(p)
    \/ UserStep
    \/ Ended

\* Workers keep taking work, bodies end, and a thread in the library runs on.
Fairness ==
    /\ \A t \in Tasks : WF_vars(TaskStep(t))
    /\ \A c \in Carriers : WF_vars(FireStep(c))
    /\ \A p \in Pipes : WF_vars(PipeStep(p))

SafetySpec == Init /\ [][Next]_vars
Spec == SafetySpec /\ Fairness
-----------------------------------------------------------------------------
(* Properties *)

FrameStates == {"out", "queued", "granted", "cascaded", "turned", "fired"}
Phases == {"new", "probing", "entering", "waiting", "ready", "running", "advancing", "done"}
Granted == {"granted", "cascaded", "turned", "fired"}

\* t has been admitted to p and has not given the grant back.
Holds(t, p) == frame[t][p] \in Granted /\ p \notin advanced[t]
Readers(p) == {t \in Tasks : p \in Reads(t) /\ Holds(t, p)}
Writers(p) == {t \in Tasks : p \in Writes(t) /\ Holds(t, p)}
Queued(p)  == {t \in Tasks : frame[t][p] = "queued"}

\* Every variable keeps its type; the counters of struct Pipe and of the block
\* are naturals, so none of the code's decrements ever runs below zero.
TypeOK ==
    /\ queue \in [Pipes -> Seq(Tasks)]
    /\ active_readers \in [Pipes -> Nat]
    /\ writer_active \in [Pipes -> BOOLEAN]
    /\ writer_owner \in [Pipes -> Tasks \cup {NoTask}]
    /\ write_epoch \in [Pipes -> Nat]
    /\ mutex \in [Pipes -> Tasks \cup {NoTask}]
    /\ life \in [Pipes -> {"live", "waiting", "woken", "dead"}]
    /\ phase \in [Tasks -> Phases]
    /\ frame \in [Tasks -> [Pipes -> FrameStates]]
    /\ num_locks \in [Tasks -> Nat]
    /\ advanced \in [Tasks -> SUBSET Pipes]
    /\ completed \in [Tasks -> BOOLEAN]
    /\ refcount \in [Tasks -> Nat]
    /\ handle \in [Tasks -> BOOLEAN]
    /\ seen \in [Tasks -> [Pipes -> Nat]]
    /\ stack \in [Carriers -> Seq(Tasks \X Pipes)]

\* Two bodies that run at the same time share an object only as readers: the
\* guarantee of Guarded<T>, which admissible, the FIFO cascade, the inline probe
\* and the release order establish together.
MutualExclusion ==
    \A t, u \in Tasks : \A p \in Wants(t) \cap Wants(u) :
        t # u /\ phase[t] = "running" /\ phase[u] = "running" =>
            Mode[t][p] = "read_only" /\ Mode[u][p] = "read_only"

\* struct Pipe's counters say who holds the grant: active_readers counts the
\* readers, and writer_active, writer_owner and the parity of write_epoch agree
\* on the one writer, at every step of every admission pass.
GrantAccounting ==
    \A p \in Pipes :
        /\ active_readers[p] = Cardinality(Readers(p))
        /\ Writers(p) = (IF writer_active[p] THEN {writer_owner[p]} ELSE {})
        /\ writer_active[p] => Readers(p) = {}
        /\ write_epoch[p] % 2 = (IF writer_active[p] THEN 1 ELSE 0)

\* A dispatched or running access holds every one of its pipes: the num_locks
\* countdown reaches zero only when the whole cascade has been admitted, and
\* nothing is released before the body is over.
HeldUntilSettled ==
    \A t \in Tasks : phase[t] \in {"ready", "running"} =>
        \A p \in Wants(t) : Holds(t, p)

\* Work conservation: whenever no thread is inside the pipe's critical section,
\* the entry at the head of the queue really is blocked (pipe_acquire relies on
\* it: "No admission pass here - the blocking condition still holds").
NoAdmissibleHeadLeft ==
    \A p \in Pipes : mutex[p] = NoTask => ~HeadAdmissible(p)

\* FIFO: no step grants a pipe to an entry while an entry that was already
\* queued ahead of it stays queued.
FifoAdmission ==
    [][\A p \in Pipes : \A t, u \in Tasks :
          (t # u /\ frame[t][p] = "queued" /\ frame'[t][p] = "queued"
            /\ ~Holds(u, p) /\ Holds(u, p)')
          => \E i, j \in 1..Len(queue[p]) : queue[p][i] = u /\ queue[p][j] = t /\ i < j]_vars

\* A pipe's queue moves in order, and as far as it can.
FifoWorkConserving == []NoAdmissibleHeadLeft /\ FifoAdmission

\* The epoch a body's Access_context captured is current on every object for as
\* long as the body runs, so a lend made by the holder is never rejected as stale.
EpochCurrentInWindow ==
    \A t \in Tasks : phase[t] = "running" =>
        \A p \in Wants(t) : seen[t][p] = write_epoch[p]

\* A snapshot of a write grant that outlives its window is stale for ever after:
\* once the grant is released no later write window can bring the epoch back.
StaleWriteSnapshot ==
    \A t \in Tasks : \A p \in Writes(t) \cap advanced[t] : seen[t][p] # write_epoch[p]

\* The epochs tell a grant that is still in its window from one that is over.
EpochsKept == EpochCurrentInWindow /\ StaleWriteSnapshot

\* Some thread, queue or worker still has a pointer to t's block or its links.
Reachable(t) ==
    \/ \E p \in Wants(t) : frame[t][p] \in {"queued", "granted", "cascaded", "turned"}
    \/ phase[t] \in {"probing", "entering", "ready", "running", "advancing"}

\* No use after free: a refcounted block has a reference, and a caller-owned op
\* has not been destroyed, as long as a pipe, a turn or a worker can reach it,
\* even when the submitter drops its handle at the worst moment.
NoUseAfterFree ==
    \A t \in Tasks : Reachable(t) =>
        CASE Kind[t] = "async"  -> refcount[t] > 0
          [] Kind[t] = "access" -> handle[t]
          [] OTHER -> TRUE

\* ~Guarded waits out every pending access to the object: once it returns no
\* submitted access will still enter, hold or release the object's pipe.
ObjectOutlivesAccess ==
    \A p \in Pipes : life[p] = "dead" =>
        \A t \in Tasks : p \in Wants(t) /\ phase[t] # "new" => p \in advanced[t]

\* Blocks, ops and objects outlive everything that can still reach them.
LifetimesKept == NoUseAfterFree /\ ObjectOutlivesAccess

\* Every submitted access runs to its end and releases its objects: the canonical
\* order of links and of probe locks leaves no cycle of waiting accesses.
EveryAccessEnds == \A t \in Tasks : (phase[t] # "new") ~> (phase[t] = "done")

\* A destructor asleep in wait_until_idle is always woken and returns.
TeardownReturns == \A p \in Teardown : (life[p] # "live") ~> (life[p] = "dead")

AccessesEnd == EveryAccessEnds /\ TeardownReturns

\* The pipes implement the exclusive-access promise, liveness included.
AccessState == [t \in Tasks |->
    CASE phase[t] = "new" -> "idle"
      [] phase[t] \in {"probing", "entering", "waiting", "ready"} -> "pending"
      [] phase[t] = "running" -> "running"
      [] OTHER -> "done"]

EA == INSTANCE ExclusiveAccess WITH state <- AccessState
\* Every behaviour of the pipes is one of ExclusiveAccess: bodies begin only
\* beside bodies they do not conflict with, and every submitted access begins
\* or is cancelled, then ends.
ImplementsExclusiveAccess == EA!Spec
=============================================================================
