------------------------------ MODULE Coroutine ------------------------------
(* Coroutine tasks: frames that suspend on tasks, guards and the frame gate, the *)
(* handshake that decides who resumes them, the resume trampoline of every       *)
(* thread, and the bookkeeping of waits (Current_task, the suspension registry,  *)
(* the circular-wait detector, the gate's External_wait).                        *)
(*                                                                               *)
(* A body is a sequence of operations.  The pipes are FifoPipes, an awaited      *)
(* block completes once and fires its continuations on the settling thread       *)
(* (module TaskBlock).  A thread is the stack of what it is in the middle of.    *)
EXTENDS FifoPipe

LOCAL INSTANCE Functions

CONSTANTS
    Threads,
    Frames,     \* the coroutines
    Signals,    \* tasks settled by something outside
    Objects,    \* Guarded objects, numbered in the order of their pipes' addresses
    Scenarios,  \* programs: [body, holds, roots, handles, signals, relaxed, opens, yields]
    Rank,       \* Rank[o]: the declared rank of o, 0 for none
    MaxGate,    \* bound on the gates the frame loop opens
    None

\* body[c] is a sequence of [do, on] with do one of "call" (on: a frame), "await"
\* (on: a signal or a frame), "next" (the gate), "access" (on: one object, for writing),
\* "read_only", "read_write" and "release" (on: a set of objects).  holds[c]: the objects the task of c was granted
\* before its body began, for writing; the grants end with the task.  roots: the frames
\* the program starts, handles: those whose handle it keeps, signals: those it
\* triggers.  relaxed: it runs in Relaxed_scope{access_rank}.  opens: the gates opened
\* with nobody waiting, yields: the yield points at which another task is run.
ASSUME CoroutineAssumption ==
    /\ Objects \subseteq Nat /\ Rank \in [Objects -> Nat] /\ MaxGate \in Nat
    /\ \A p \in Scenarios :
        /\ p.handles \subseteq p.roots /\ p.roots \subseteq Frames /\ p.signals \subseteq Signals
        /\ p.opens < MaxGate /\ p.relaxed \in BOOLEAN
        /\ \A c \in Frames :
            /\ p.holds[c] \subseteq Objects
            /\ Cardinality({i \in DOMAIN p.body[c] : p.body[c][i].do = "access"}) <= 1

VARIABLES
    scenario,
    \* --- threads
    stack,      \* stack[t]: the frames and loops t is in the middle of
    current,    \* current[t]: Current_task
    queue,      \* queue[t]: Resume_queue::pending_, what the drain has still to resume
    draining,   \* draining[t]
    yields,     \* yield points taken
    \* --- frames
    pc,         \* pc[c]: where the frame is
    op,         \* op[c]: the operation it is at
    state,      \* state[c]: the awaiter's state_: 0, 1 (fired) or 2 (suspended)
    prev_task,  \* prev_task[c]
    refs,       \* refs[c]: who keeps the frame alive
    freed,      \* the destroyed frames
    \* --- waits
    ready,      \* the settled signals, frames and gates
    conts,      \* conts[x]: the awaiters attached to x
    pipe,       \* pipe[o]
    chain,      \* chain[c]: the objects a guard has still to acquire, or the task to attach to
    blocked,    \* blocked[c]: the object at which a guard's acquire was deferred first
    registry,   \* the frames in the suspension registry
    edges,      \* wait_edges: [held, awaited, by]
    life,       \* "live", or the rule that was fatal
    \* --- the frame gate
    gate,       \* the number of the current gate
    pending,    \* pending_ is armed
    releases,   \* the gates whose release task is queued
    ticket      \* ticket[c]: the gate whose handle c took; 1 when it has fired an access

threads == <<stack, current, queue, draining, yields>>
frames  == <<pc, op, state, prev_task, refs, freed>>
waits   == <<ready, conts, pipe, chain, blocked, registry, edges, life>>
gates   == <<gate, pending, releases, ticket>>
vars    == <<scenario, threads, frames, waits, gates>>

\* What stands in a pipe for c: the grant of its task, the guard it awaits, and the
\* block of the Access_op it awaits.
Granted(c) == <<c, "task">>
Guard(c)   == <<c, "guard">>
Access(c)  == <<c, "access">>

Gates == 0..MaxGate

\* The signal of gate g.
Boundary(g) == <<"gate", g>>

Init ==
    /\ scenario \in Scenarios
    /\ stack = [t \in Threads |-> <<>>] /\ current = [t \in Threads |-> None]
    /\ queue = [t \in Threads |-> <<>>] /\ draining = [t \in Threads |-> FALSE] /\ yields = 0
    /\ pc = [c \in Frames |-> "new"] /\ op = [c \in Frames |-> 1]
    /\ state = [c \in Frames |-> 0] /\ prev_task = [c \in Frames |-> None]
    /\ refs = [c \in Frames |-> {}] /\ freed = {}
    /\ ready = {} /\ conts = [x \in Signals \cup Frames \cup {Access(c) : c \in Frames} \cup {Boundary(g) : g \in Gates} |-> <<>>]
    /\ pipe = [o \in Objects |->
                [queue |-> <<>>,
                 holders |-> {Entry(Granted(c), "write") : c \in {d \in Frames : o \in scenario.holds[d]}}]]
    /\ chain = [c \in Frames |-> {}] /\ blocked = [c \in Frames |-> None] /\ registry = {} /\ edges = {} /\ life = "live"
    /\ gate = 0 /\ pending = FALSE /\ releases = {} /\ ticket = [c \in Frames |-> 0]

Least(S)   == CHOOSE x \in S : \A y \in S : x <= y
Frame(c)   == [in |-> "frame", c |-> c]
Top(t)     == stack[t][Len(stack[t])]
In(t, k)   == stack[t] # <<>> /\ Top(t).in = k
Push(t, e) == stack' = [stack EXCEPT ![t] = Append(@, e)]
Pop(s)     == SubSeq(s, 1, Len(s) - 1)
Goto(c, l) == pc' = [pc EXCEPT ![c] = l]

\* Thread t is running frame c, which is at l.
At(t, c, l) == life = "live" /\ In(t, "frame") /\ Top(t).c = c /\ pc[c] = l

Op(c)      == scenario.body[c][op[c]]
AtOp(t, c, d) == At(t, c, "run") /\ op[c] <= Len(scenario.body[c]) /\ Op(c).do = d

\* t can take up a task: at the top of a worker's loop, or at a yield point.
Free(t) == life = "live" /\ (stack[t] = <<>> \/ (In(t, "yield") /\ ~Top(t).used))

\* The stack of t after it took a task up at a yield point.
Taken(t) == IF In(t, "yield") THEN [stack[t] EXCEPT ![Len(stack[t])].used = TRUE] ELSE stack[t]

-----------------------------------------------------------------------------
(* Segments and the trampoline *)

\* enter_segment and exit_segment of c on t.
enter_segment(t, c) ==
    /\ prev_task' = [prev_task EXCEPT ![c] = current[t]]
    /\ current' = [current EXCEPT ![t] = c]

exit_segment(t, c) ==
    /\ current' = [current EXCEPT ![t] = prev_task[c]]
    /\ prev_task' = [prev_task EXCEPT ![c] = None]

\* Mutant: the continuation resumes whatever the handshake says.
fireAlways(t, c, s) ==
    /\ state' = [state EXCEPT ![c] = 2]
    /\ queue' = [queue EXCEPT ![t] = Append(@, c)]
    /\ draining' = [draining EXCEPT ![t] = TRUE]
    /\ stack' = [stack EXCEPT ![t] = IF draining[t] THEN s ELSE Append(s, [in |-> "drain"])]

\* The continuation of c's awaiter is called on t, whose stack is s below it: the
\* second of the two to reach state_ resumes.  push_and_drain starts a drain unless
\* one is running.
fire(t, c, s) ==
    /\ state' = [state EXCEPT ![c] = IF @ = 2 THEN 2 ELSE 1]
    /\ IF state[c] = 2
       THEN /\ queue' = [queue EXCEPT ![t] = Append(@, c)]
            /\ draining' = [draining EXCEPT ![t] = TRUE]
            /\ stack' = [stack EXCEPT ![t] = IF draining[t] THEN s ELSE Append(s, [in |-> "drain"])]
       ELSE stack' = [stack EXCEPT ![t] = s] /\ UNCHANGED <<queue, draining>>

\* end_wait and finish_acquire: the record and the edges of the wait go.
end_wait(c) ==
    /\ registry' = registry \ {c}
    /\ edges' = {e \in edges : e.by # c}

\* await_resume: the wait is over, the awaiter and its reference are gone.
await_resume(c) ==
    /\ end_wait(c)
    /\ state' = [state EXCEPT ![c] = 0]
    /\ pc' = [pc EXCEPT ![c] = "run"]
    /\ op' = [op EXCEPT ![c] = @ + 1]
    /\ refs' = [d \in Frames |-> refs[d] \ {c}]
    /\ freed' = freed \cup {d \in Frames : refs[d] = {c}}

\* The drain resumes the next frame: resume_with_access.
resume(t) ==
    /\ life = "live" /\ In(t, "drain") /\ queue[t] # <<>>
    /\ LET c == Head(queue[t])
       IN /\ queue' = [queue EXCEPT ![t] = Tail(@)]
          /\ Push(t, Frame(c))
          /\ enter_segment(t, c)
          /\ await_resume(c)
    /\ UNCHANGED <<scenario, draining, yields, ready, conts, pipe, chain, blocked, life, gates>>

drain_end(t) ==
    /\ life = "live" /\ In(t, "drain") /\ queue[t] = <<>>
    /\ draining' = [draining EXCEPT ![t] = FALSE]
    /\ stack' = [stack EXCEPT ![t] = Pop(@)]
    /\ UNCHANGED <<scenario, current, queue, yields, frames, waits, gates>>

\* A settling thread calls the next continuation.
fire_next(t) ==
    /\ life = "live" /\ In(t, "settle")
    /\ IF Top(t).list = <<>>
       THEN stack' = [stack EXCEPT ![t] = Pop(@)] /\ UNCHANGED <<state, queue, draining>>
       ELSE fire(t, Head(Top(t).list), [stack[t] EXCEPT ![Len(stack[t])].list = Tail(@)])
    /\ UNCHANGED <<scenario, current, yields, pc, op, prev_task, refs, freed, waits, gates>>

\* A yield point runs one task on top: the drain is set aside (detach), and the
\* running task with it.
yield(t) ==
    /\ \E c \in Frames : At(t, c, "run")
    /\ \A i \in DOMAIN stack[t] : stack[t][i].in # "yield"
    /\ yields < scenario.yields /\ yields' = yields + 1
    /\ Push(t, [in |-> "yield", task |-> current[t], rest |-> queue[t], on |-> draining[t], used |-> FALSE])
    /\ current' = [current EXCEPT ![t] = None]
    /\ queue' = [queue EXCEPT ![t] = <<>>] /\ draining' = [draining EXCEPT ![t] = FALSE]
    /\ UNCHANGED <<scenario, frames, waits, gates>>

\* The task has returned: reattach.
yield_end(t) ==
    /\ life = "live" /\ In(t, "yield")
    /\ current' = [current EXCEPT ![t] = Top(t).task]
    /\ queue' = [queue EXCEPT ![t] = Top(t).rest]
    /\ draining' = [draining EXCEPT ![t] = Top(t).on]
    /\ stack' = [stack EXCEPT ![t] = Pop(@)]
    /\ UNCHANGED <<scenario, yields, frames, waits, gates>>

-----------------------------------------------------------------------------
(* A frame *)

\* Promise_base(): the frame keeps itself alive and runs at once on the caller.
Begin(t, c, s, kept) ==
    /\ stack' = [stack EXCEPT ![t] = Append(s, Frame(c))]
    /\ enter_segment(t, c)
    /\ refs' = [refs EXCEPT ![c] = {"self"} \cup (IF kept THEN {"handle"} ELSE {})]

start(t, c) ==
    /\ Free(t) /\ c \in scenario.roots /\ pc[c] = "new"
    /\ Begin(t, c, Taken(t), c \in scenario.handles) /\ Goto(c, "run")
    /\ UNCHANGED <<scenario, queue, draining, yields, op, state, freed, waits, gates>>

call(t, c) ==
    /\ AtOp(t, c, "call")
    /\ Begin(t, Op(c).on, stack[t], TRUE)
    /\ pc' = [pc EXCEPT ![Op(c).on] = "run"]
    /\ op' = [op EXCEPT ![c] = @ + 1]
    /\ UNCHANGED <<scenario, queue, draining, yields, state, freed, waits, gates>>

\* The holder of the handle of a root drops it.
drop_handle(c) ==
    /\ life = "live" /\ c \in scenario.handles /\ "handle" \in refs[c]
    /\ refs' = [refs EXCEPT ![c] = @ \ {"handle"}]
    /\ freed' = IF refs[c] = {"handle"} THEN freed \cup {c} ELSE freed
    /\ UNCHANGED <<scenario, threads, pc, op, state, prev_task, waits, gates>>

\* Frame_gate::next: a handle on the current gate; the deadlock net is told.
next(t, c) ==
    /\ AtOp(t, c, "next") /\ ticket[c] = 0
    /\ ticket' = [ticket EXCEPT ![c] = gate + 1]
    /\ pending' = TRUE
    /\ UNCHANGED <<scenario, threads, frames, waits, gate, releases>>

\* What c awaits at an "await", at a "next" whose handle it has, or at an "access" that
\* was fired.
Awaited(c) ==
    CASE Op(c).do = "next"   -> Boundary(ticket[c] - 1)
      [] Op(c).do = "access" -> Access(c)
      [] OTHER               -> Op(c).on

AtAwait(t, c) ==
    /\ At(t, c, "run") /\ op[c] <= Len(scenario.body[c])
    /\ Op(c).do = "await" \/ (Op(c).do \in {"next", "access"} /\ ticket[c] # 0)

\* c has a guard alive: guard_depth.
Guarding(c) == \E o \in Objects : Holds(pipe[o], Guard(c))

\* The access c is at is lent the grant that c's task or its guard holds.
Lent(c) == \A o \in Op(c).on : o \in scenario.holds[c] \/ Holds(pipe[o], Guard(c))

reentrant_under_held_grant(c) == Op(c).do = "access" /\ Lent(c)

\* check_access_rank of the awaited objects against what the task holds; one object
\* alone is skipped when it is held already.
check_access_rank(c) ==
    LET held == scenario.holds[c]
        on   == IF Cardinality(Op(c).on) = 1 THEN Op(c).on \ held ELSE Op(c).on
    IN scenario.relaxed \/ \A h \in held, o \in on : Rank[h] > 0 /\ Rank[o] > Rank[h]

LeaveAll(S, who) == [o \in Objects |-> IF o \in S THEN Leave(pipe[o], who) ELSE pipe[o]]

\* The thread runs the body of c's access: its block is the running task.
Enter_access(t, c, s) ==
    /\ stack' = [stack EXCEPT ![t] = Append(s, [in |-> "access", c |-> c, task |-> current[t]])]
    /\ current' = [current EXCEPT ![t] = Access(c)]

\* Access_op::fire: inline under a grant that is lent or on a free pipe; else, or with
\* the queued option, dispatched when its turn comes.
access(t, c) ==
    /\ AtOp(t, c, "access") /\ ticket[c] = 0
    /\ ticket' = [ticket EXCEPT ![c] = 1]
    /\ \E o \in Op(c).on :
        /\ pipe' = IF Lent(c) THEN pipe ELSE [pipe EXCEPT ![o] = Enter(@, Access(c), "write")]
        /\ \/ (Lent(c) \/ Holds(pipe'[o], Access(c))) /\ Enter_access(t, c, stack[t])
           \/ ~Lent(c) /\ UNCHANGED <<stack, current>>
    /\ UNCHANGED <<scenario, queue, draining, yields, frames, ready, conts, chain, blocked, registry,
                   edges, life, gate, pending, releases>>

\* A queued access whose turn has come is run by a thread.
run_access(t, c) ==
    /\ Free(t) /\ \E o \in Objects : Holds(pipe[o], Access(c))
    /\ ~ \E u \in Threads : \E i \in DOMAIN stack[u] : stack[u][i].in = "access" /\ stack[u][i].c = c
    /\ Enter_access(t, c, Taken(t))
    /\ UNCHANGED <<scenario, queue, draining, yields, frames, waits, gates>>

\* The body is over: the running task is restored and the turn on the pipe ends.
end_access(t) ==
    /\ life = "live" /\ In(t, "access")
    /\ LET c == Top(t).c
       IN /\ pipe' = LeaveAll({o \in Objects : Holds(pipe[o], Access(c))}, Access(c))
          /\ stack' = [stack EXCEPT ![t] = Append(Pop(@), [in |-> "op_settle", c |-> c])]
          /\ current' = [current EXCEPT ![t] = Top(t).task]
    /\ UNCHANGED <<scenario, queue, draining, yields, frames, ready, conts, chain, blocked, registry,
                   edges, life, gates>>

\* Then the block settles.
op_settle(t) ==
    /\ life = "live" /\ In(t, "op_settle")
    /\ LET x == Access(Top(t).c)
       IN /\ ready' = ready \cup {x}
          /\ stack' = [stack EXCEPT ![t] = Append(Pop(@), [in |-> "settle", list |-> conts[x]])]
          /\ conts' = [conts EXCEPT ![x] = <<>>]
    /\ UNCHANGED <<scenario, current, queue, draining, yields, frames, pipe, chain, blocked, registry,
                   edges, life, gates>>

\* The objects reachable from o along the edges.
Reach(o) ==
    LET R[n \in 0..Cardinality(Objects)] ==
            IF n = 0 THEN {o}
            ELSE R[n - 1] \cup {e.awaited : e \in {f \in edges : f.held \in R[n - 1]}}
    IN R[Cardinality(Objects)]

\* Mutant: only an edge straight back closes a cycle.
wait_reachesOnce(from, target) ==
    from = target \/ \E e \in edges : e.held = from /\ e.awaited = target

wait_reaches(from, target) == target \in Reach(from)

\* circular_wait_record: an edge from every grant the task holds to each object it
\* awaits; the one that closes a cycle is fatal.
circular_wait_record(c, awaited) ==
    /\ edges' = edges \cup {[held |-> h, awaited |-> o, by |-> c] : h \in scenario.holds[c], o \in awaited}
    /\ life' = IF \E h \in scenario.holds[c], o \in awaited : wait_reaches(o, h) THEN "circular_wait" ELSE life

\* The rules a co_await of a task passes: no guard alive and, for an access, the ranks.
Lawful(c) ==
    \/ reentrant_under_held_grant(c)
    \/ ~Guarding(c) /\ (Op(c).do = "access" => check_access_rank(c))

\* await_ready of a settled task.
await_ready(t, c) ==
    /\ AtAwait(t, c) /\ Lawful(c) /\ Awaited(c) \in ready
    /\ op' = [op EXCEPT ![c] = @ + 1]
    /\ ticket' = [ticket EXCEPT ![c] = 0]
    /\ UNCHANGED <<scenario, threads, pc, state, prev_task, refs, freed, waits, gate, pending, releases>>

\* Task_awaiter::await_suspend: the edges of an access are recorded, the record linked
\* and the segment left.
await_suspend(t, c) ==
    /\ AtAwait(t, c) /\ Lawful(c) /\ Awaited(c) \notin ready
    /\ circular_wait_record(c, IF Op(c).do = "access" THEN Op(c).on ELSE {})
    /\ registry' = registry \cup {c}
    /\ exit_segment(t, c)
    /\ refs' = IF Awaited(c) \in Frames THEN [refs EXCEPT ![Awaited(c)] = @ \cup {c}] ELSE refs
    /\ ticket' = [ticket EXCEPT ![c] = 0]
    /\ pc' = [pc EXCEPT ![c] = "attach"]
    /\ chain' = [chain EXCEPT ![c] = {Awaited(c)}]
    /\ UNCHANGED <<scenario, stack, queue, draining, yields, op, state, freed, ready, conts, pipe, blocked,
                   gate, pending, releases>>

\* attach: the continuation is called at once when the task has settled since.
attach(t, c) ==
    /\ At(t, c, "attach")
    /\ \E x \in chain[c] :
        IF x \in ready
        THEN state' = [state EXCEPT ![c] = 1] /\ UNCHANGED conts
        ELSE conts' = [conts EXCEPT ![x] = Append(@, c)] /\ UNCHANGED state
    /\ chain' = [chain EXCEPT ![c] = {}]
    /\ Goto(c, "suspend")
    /\ UNCHANGED <<scenario, threads, op, prev_task, refs, freed, ready, pipe, blocked,
                   registry, edges, life, gates>>

\* The end of await_suspend: suspended, unless the continuation came first.
suspended(t, c) ==
    /\ At(t, c, "suspend") /\ state[c] = 0
    /\ state' = [state EXCEPT ![c] = 2]
    /\ Goto(c, "suspended")
    /\ stack' = [stack EXCEPT ![t] = Pop(@)]
    /\ UNCHANGED <<scenario, current, queue, draining, yields, op, prev_task, refs, freed, waits, gates>>

\* Mutant: the segment is not entered again.
not_suspendedOutside(t, c) ==
    /\ At(t, c, "suspend") /\ state[c] = 1
    /\ await_resume(c)
    /\ UNCHANGED <<scenario, stack, current, prev_task, queue, draining, yields, ready, conts, pipe,
                   chain, blocked, life, gates>>

not_suspended(t, c) ==
    /\ At(t, c, "suspend") /\ state[c] = 1
    /\ enter_segment(t, c)
    /\ await_resume(c)
    /\ UNCHANGED <<scenario, stack, queue, draining, yields, ready, conts, pipe, chain, blocked, life, gates>>

\* The handles in a frame go with its locals, when its body ends.
Dropped(c, r) ==
    LET called == {d \in Frames : \E i \in DOMAIN scenario.body[c] :
                        scenario.body[c][i].do = "call" /\ scenario.body[c][i].on = d}
    IN [d \in Frames |-> IF d \in called THEN r[d] \ {"handle"} ELSE r[d]]

\* The body is over.  Final_awaiter: the segment is left, the block completed (its
\* pipes' turns end), then the self-reference dropped.
co_return(t, c) ==
    /\ At(t, c, "run") /\ op[c] > Len(scenario.body[c])
    /\ exit_segment(t, c)
    /\ refs' = Dropped(c, refs)
    /\ freed' = freed \cup {d \in Frames : refs[d] # {} /\ refs'[d] = {}}
    /\ Goto(c, "complete")
    /\ UNCHANGED <<scenario, stack, queue, draining, yields, op, state, waits, gates>>

complete(t, c) ==
    /\ At(t, c, "complete")
    /\ ready' = ready \cup {c}
    /\ Push(t, [in |-> "settle", list |-> conts[c]])
    /\ conts' = [conts EXCEPT ![c] = <<>>]
    /\ pipe' = LeaveAll(scenario.holds[c], Granted(c))
    /\ Goto(c, "completed")
    /\ UNCHANGED <<scenario, current, queue, draining, yields, op, state, prev_task, refs, freed,
                   chain, blocked, registry, edges, life, gates>>

destroy_frame(t, c) ==
    /\ At(t, c, "completed")
    /\ refs' = [refs EXCEPT ![c] = @ \ {"self"}]
    /\ freed' = IF refs[c] = {"self"} THEN freed \cup {c} ELSE freed
    /\ stack' = [stack EXCEPT ![t] = Pop(@)]
    /\ Goto(c, "done")
    /\ UNCHANGED <<scenario, current, queue, draining, yields, op, state, prev_task, waits, gates>>

-----------------------------------------------------------------------------
(* Guards *)

AtAcquire(t, c) == AtOp(t, c, "read_write") \/ AtOp(t, c, "read_only")

\* A co_await under a live guard is fatal, whether it would suspend or not.
check_await_under_guard(t, c) ==
    /\ (AtAwait(t, c) /\ ~reentrant_under_held_grant(c)) \/ AtAcquire(t, c)
    /\ Guarding(c)
    /\ life' = "await_under_guard"
    /\ UNCHANGED <<scenario, threads, frames, ready, conts, pipe, chain, blocked, registry, edges, gates>>

\* An awaited access that does not climb the ranks is fatal.
report_rank_violation(t, c) ==
    /\ AtAwait(t, c) /\ Op(c).do = "access" /\ ~Guarding(c) /\ ~check_access_rank(c)
    /\ life' = "access_rank"
    /\ UNCHANGED <<scenario, threads, frames, ready, conts, pipe, chain, blocked, registry, edges, gates>>

\* co_await read_write(...): the rank rule, then the segment is left.
read_write(t, c) ==
    /\ AtAcquire(t, c) /\ ~Guarding(c)
    /\ IF check_access_rank(c)
       THEN /\ exit_segment(t, c)
            /\ chain' = [chain EXCEPT ![c] = Op(c).on]
            /\ Goto(c, "drive")
            /\ UNCHANGED life
       ELSE life' = "access_rank" /\ UNCHANGED <<current, prev_task, chain, pc>>
    /\ UNCHANGED <<scenario, stack, queue, draining, yields, op, state, refs, freed, ready, conts, pipe,
                   blocked, registry, edges, gates>>

\* pipe_acquire of the next object in canonical order.
Mode(c) == IF Op(c).do = "read_only" THEN "read" ELSE "write"
pipe_acquire(c) == pipe' = [pipe EXCEPT ![Least(chain[c])] = Enter(@, Guard(c), Mode(c))]
Acquired(c) == Holds(pipe'[Least(chain[c])], Guard(c))
Rest(c)     == chain' = [chain EXCEPT ![c] = @ \ {Least(chain[c])}]

\* drive, inside await_suspend.
drive(t, c) ==
    /\ At(t, c, "drive")
    /\ IF chain[c] = {}
       THEN /\ state' = [state EXCEPT ![c] = 1]
            /\ Goto(c, "suspend")
            /\ UNCHANGED <<pipe, chain, blocked>>
       ELSE /\ pipe_acquire(c)
            /\ IF Acquired(c)
               THEN Rest(c) /\ UNCHANGED <<pc, blocked>>
               ELSE /\ Goto(c, "record")
                    /\ blocked' = [blocked EXCEPT ![c] = Least(chain[c])]
                    /\ UNCHANGED chain
            /\ UNCHANGED state
    /\ UNCHANGED <<scenario, threads, op, prev_task, refs, freed, ready, conts, registry, edges, life, gates>>

\* record_wait: the registry, and the edges.  The object may have been granted in the
\* meantime.
record_wait(t, c) ==
    /\ At(t, c, "record")
    /\ registry' = registry \cup {c}
    /\ circular_wait_record(c, {blocked[c]})
    /\ blocked' = [blocked EXCEPT ![c] = None]
    /\ Goto(c, "suspend")
    /\ UNCHANGED <<scenario, threads, op, state, prev_task, refs, freed, ready, conts, pipe, chain, gates>>

\* The object c waits for was granted: its callback, a closure of the scheduler's,
\* is run by a thread.
on_acquired(t, c) ==
    /\ Free(t) /\ pc[c] \in {"record", "suspend", "suspended"} /\ chain[c] # {}
    /\ Holds(pipe[Least(chain[c])], Guard(c))
    /\ Rest(c)
    /\ stack' = [stack EXCEPT ![t] = Append(Taken(t), [in |-> "drive", c |-> c])]
    /\ UNCHANGED <<scenario, current, queue, draining, yields, frames, ready, conts, pipe, blocked,
                   registry, edges, life, gates>>

\* drive, continued on the granting side.
drive_on(t) ==
    /\ life = "live" /\ In(t, "drive")
    /\ LET c == Top(t).c
       IN IF chain[c] = {}
          THEN fire(t, c, Pop(stack[t])) /\ UNCHANGED <<pipe, chain>>
          ELSE /\ pipe_acquire(c)
               /\ IF Acquired(c)
                  THEN Rest(c) /\ UNCHANGED stack
                  ELSE stack' = [stack EXCEPT ![t] = Pop(@)] /\ UNCHANGED chain
               /\ UNCHANGED <<state, queue, draining>>
    /\ UNCHANGED <<scenario, current, yields, pc, op, prev_task, refs, freed, ready, conts, blocked, registry,
                   edges, life, gates>>

\* ~Access_guard, ~Multi_access_guard: pipe by pipe, in canonical order.
release(t, c) ==
    /\ AtOp(t, c, "release")
    /\ LET held == {o \in Op(c).on : Holds(pipe[o], Guard(c))}
       IN /\ pipe' = LeaveAll({Least(held)}, Guard(c))
          /\ op' = IF Cardinality(held) = 1 THEN [op EXCEPT ![c] = @ + 1] ELSE op
    /\ UNCHANGED <<scenario, threads, pc, state, prev_task, refs, freed, ready, conts, chain, blocked, registry,
                   edges, life, gates>>

-----------------------------------------------------------------------------
(* Everybody else *)

\* A signal is triggered, or the release task of a gate triggers it.
Settle(t, x) ==
    /\ ready' = ready \cup {x}
    /\ stack' = [stack EXCEPT ![t] = Append(Taken(t), [in |-> "settle", list |-> conts[x]])]
    /\ conts' = [conts EXCEPT ![x] = <<>>]
    /\ UNCHANGED <<scenario, current, queue, draining, yields, frames, pipe, chain, blocked, registry, edges, life>>

trigger(t, s) ==
    /\ Free(t) /\ s \in scenario.signals \ ready
    /\ Settle(t, s)
    /\ UNCHANGED gates

release_gate(t) ==
    /\ Free(t)
    /\ \E g \in releases : Settle(t, Boundary(g)) /\ releases' = releases \ {g}
    /\ UNCHANGED <<gate, pending, ticket>>

\* Mutant: the signal is read after the fresh one was installed.
openFresh ==
    /\ life = "live" /\ (pending \/ gate < scenario.opens) /\ gate < MaxGate
    /\ gate' = gate + 1 /\ releases' = releases \cup {gate + 1}
    /\ pending' = FALSE
    /\ UNCHANGED <<scenario, threads, frames, waits, ticket>>

\* Frame_gate::open: a fresh gate, the old one to be released by a task.
open ==
    /\ life = "live" /\ (pending \/ gate < scenario.opens) /\ gate < MaxGate
    /\ gate' = gate + 1 /\ releases' = releases \cup {gate}
    /\ pending' = FALSE
    /\ UNCHANGED <<scenario, threads, frames, waits, ticket>>

FrameStep(t, c) ==
    \/ call(t, c) \/ next(t, c) \/ await_ready(t, c) \/ await_suspend(t, c) \/ attach(t, c)
    \/ suspended(t, c) \/ not_suspended(t, c) \/ co_return(t, c) \/ complete(t, c)
    \/ destroy_frame(t, c) \/ read_write(t, c) \/ drive(t, c) \/ record_wait(t, c)
    \/ release(t, c) \/ access(t, c) \/ check_await_under_guard(t, c)
    \/ report_rank_violation(t, c)

LoopStep(t) == resume(t) \/ drain_end(t) \/ fire_next(t) \/ drive_on(t) \/ yield_end(t)
                \/ end_access(t) \/ op_settle(t)

\* A task the scheduler or the program has for a thread.
Job(t) == release_gate(t) \/ (\E s \in Signals : trigger(t, s))
            \/ (\E c \in Frames : start(t, c) \/ on_acquired(t, c) \/ run_access(t, c))

Next ==
    \/ \E t \in Threads, c \in Frames : FrameStep(t, c)
    \/ \E t \in Threads : LoopStep(t) \/ Job(t) \/ yield(t)
    \/ \E c \in Frames : drop_handle(c)
    \/ open

Spec ==
    /\ Init /\ [][Next]_vars
    /\ \A t \in Threads : WF_vars((\E c \in Frames : FrameStep(t, c)) \/ LoopStep(t) \/ Job(t))
    /\ WF_vars(pending /\ open)

-----------------------------------------------------------------------------
(* Properties *)

\* The places c is run, or about to be resumed, in.
Places(c) ==
    UNION {{<<t, i>> : i \in {k \in DOMAIN stack[t] : stack[t][k] = Frame(c)}} : t \in Threads}

Queued(c) == {t \in Threads : \E i \in DOMAIN queue[t] : queue[t][i] = c}
                \cup {t \in Threads : \E i \in DOMAIN stack[t] :
                        stack[t][i].in = "yield" /\ \E k \in DOMAIN stack[t][i].rest : stack[t][i].rest[k] = c}

\* A frame is run by one thread at a time and resumed once for a suspension: it is
\* on one stack, or in one resume queue, or suspended.  A frame that is on a stack,
\* queued, awaiting or registered has not been destroyed.
ResumedOnce ==
    \A c \in Frames :
        /\ Cardinality(Places(c)) + Cardinality(Queued(c)) <= 1
        /\ pc[c] \in {"new", "suspended", "done"} <=> Places(c) = {}
        /\ Queued(c) # {} => pc[c] = "suspended" /\ state[c] = 2
        /\ c \in freed => pc[c] = "done" /\ c \notin registry /\ Places(c) = {} /\ Queued(c) = {}

\* Every thread's Current_task is the task it is running: the innermost frame whose
\* segment is entered or access whose body runs, and none when the thread runs none,
\* however frames were called, suspended, resumed elsewhere, queued on the trampoline
\* or set aside.
AmbientRestored ==
    \A t \in Threads :
        LET base == {i \in DOMAIN stack[t] : stack[t][i].in = "yield"}
            from == IF base = {} THEN 1 ELSE CHOOSE i \in base : \A j \in base : j <= i
            on   == {i \in from..Len(stack[t]) :
                        \/ stack[t][i].in = "access"
                        \/ stack[t][i].in = "frame" /\ pc[stack[t][i].c] = "run"}
            last == stack[t][CHOOSE i \in on : \A j \in on : j <= i]
        IN current[t] = CASE on = {}            -> None
                          [] last.in = "frame"  -> last.c
                          [] last.in = "access" -> Access(last.c)

\* Something will call the continuation of the suspended c, or has: it is attached to a
\* task that has not settled or is being settled, its object is awaited or granted, or
\* its resume is queued.
Expected(c) ==
    \/ \E x \in DOMAIN conts : x \notin ready /\ c \in Range(conts[x])
    \/ \E o \in Objects : o \in chain[c] /\ (Holds(pipe[o], Guard(c)) \/ Waits(pipe[o], Guard(c)))
    \/ Queued(c) # {}
    \/ \E t \in Threads : \E i \in DOMAIN stack[t] :
        \/ stack[t][i].in = "settle" /\ c \in Range(stack[t][i].list)
        \/ stack[t][i].in = "drive" /\ stack[t][i].c = c

\* c is bound for gate g: it has its handle, or is on the way to attach, or attached.
BoundFor(c, g) ==
    \/ pc[c] = "run" /\ op[c] <= Len(scenario.body[c]) /\ Op(c).do = "next" /\ ticket[c] = g + 1
    \/ pc[c] = "attach" /\ chain[c] = {Boundary(g)}
    \/ c \in Range(conts[Boundary(g)])

\* Every suspended frame is in the registry and can still be woken.  The deadlock net is
\* armed just when some frame is bound for the current gate, and the release of an
\* earlier gate with frames attached is on its way.  A program that keeps the rank
\* rule never comes to a circular wait, but for a task that awaits an object it holds.
WaitsAccounted ==
    /\ \A c \in Frames :
        /\ pc[c] = "suspended" => c \in registry /\ Expected(c)
        /\ c \in registry => pc[c] \in {"attach", "suspend", "suspended"}
    /\ pending <=> \E c \in Frames : BoundFor(c, gate)
    /\ \A g \in Gates \ {gate} : conts[Boundary(g)] # <<>> => g \in releases
    /\ life = "circular_wait" => scenario.relaxed \/ \E e \in edges : e.held = e.awaited

\* Every frame that was started ends, unless a rule of the harness reports it.
CoroutinesFinish ==
    <>[](life # "live" \/ \A c \in Frames : pc[c] \in {"new", "done"})
=============================================================================
