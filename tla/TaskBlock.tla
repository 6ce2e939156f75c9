----------------------------- MODULE TaskBlock -----------------------------
(***************************************************************************)
(* The task control block (include/ts/detail/task_block.h): running a      *)
(* body, gating completion on nested children, settling, continuations and *)
(* waiters, and the reference counts that keep a block alive meanwhile.    *)
(*                                                                         *)
(* A parent is a bare task (Executable), a caller-owned access             *)
(* (Access_op) or a graph node.  A child is a block completed by hand: a   *)
(* Signal, a nested graph run's `done` handle, a coroutine frame.  A       *)
(* thread's call stack is part of the state, for a settle runs the         *)
(* continuations and the parent's own settle inside itself, and a block    *)
(* may be freed before the frames below return to it.                      *)
(***************************************************************************)
EXTENDS Integers, Sequences, FiniteSets, Functions

CONSTANTS
    Parents,        \* the blocks with a body
    Children,       \* the blocks without one
    NoBlock,
    Kinds,          \* what a parent may be: "task", "op", "node"
    Nested,         \* Nested[p]: the children p's body attaches, in order
    Clients,        \* the threads and coroutines outside the pool
    Handle,         \* Handle[c]: the block c's handle names
    Triggers,       \* the clients that complete their child
    Borrowers,      \* those that do so through a handle another client owns
    Workers,        \* the threads that run dispatched bodies
    ExecutionFlag   \* execution_flag

Blocks  == Parents \cup Children
Threads == Workers \cup Clients
Holders(b) == {c \in Clients \ Borrowers : Handle[c] = b}

ASSUME TaskBlockAssumption ==
    /\ Parents \cap Children = {} /\ NoBlock \notin Blocks
    /\ Kinds \subseteq {"task", "op", "node"}
    /\ Nested \in [Parents -> Seq(Children)]
    /\ \A p \in Parents : \A i, j \in DOMAIN Nested[p] : i # j => Nested[p][i] # Nested[p][j]
    /\ \A p, q \in Parents : p # q => Range(Nested[p]) \cap Range(Nested[q]) = {}
    /\ Handle \in [Clients -> Blocks]
    /\ IsFiniteSet(Threads)
    /\ Triggers \subseteq {c \in Clients : Handle[c] \in Children}
    /\ Borrowers \subseteq Triggers
    /\ Workers \cap Clients = {}
    /\ ExecutionFlag \in Nat /\ \A p \in Parents : Len(Nested[p]) + 1 < ExecutionFlag

VARIABLES
    kind,                   \* kind[b]: the flags and the wrapper of the block, fixed at creation
    num_locks,
    refcount,
    body_claimed,
    completed,
    cancelled,
    prereq_cancelled,
    nested_parent,
    continuations,          \* continuations[b]: the clients to resume, in order
    settle_synchronously,   \* of an Access_op
    queue,                  \* the blocks the scheduler has yet to run
    stack,                  \* stack[t]: t's frames in this library, innermost first
    client                  \* client[c]: "dormant", "idle", "blocked", "attached", "served" or "gone"

blockVars == <<num_locks, body_claimed, completed, cancelled, prereq_cancelled,
               nested_parent, continuations, settle_synchronously>>
vars == <<kind, blockVars, refcount, queue, stack, client>>

\* The body of p holds a handle on each child it attaches.
Captor(b) == {p \in Parents : b \in Range(Nested[p])}

Init ==
    /\ kind \in {k \in [Blocks -> Kinds \cup {"bare"}] :
            \A b \in Blocks : /\ b \in Children <=> k[b] = "bare"
                              /\ k[b] = "op" => Cardinality(Holders(b)) = 1}
    /\ num_locks = [b \in Blocks |-> 0]
    /\ refcount = [b \in Blocks |->
            CASE kind[b] = "bare" -> Cardinality(Holders(b)) + Cardinality(Captor(b))
              [] kind[b] = "task" -> Cardinality(Holders(b)) + 1
              [] kind[b] = "node" -> 1
              [] kind[b] = "op"   -> 0]
    /\ body_claimed = [b \in Blocks |-> FALSE]
    /\ completed = [b \in Blocks |-> FALSE]
    /\ cancelled = [b \in Blocks |-> FALSE]
    /\ prereq_cancelled = [b \in Blocks |-> FALSE]
    /\ nested_parent = [b \in Blocks |-> NoBlock]
    /\ continuations = [b \in Blocks |-> <<>>]
    /\ settle_synchronously = [b \in Blocks |-> FALSE]
    /\ queue = {b \in Parents : kind[b] # "op"}
    /\ stack = [t \in Threads |-> <<>>]
    /\ client = [c \in Clients |-> CASE kind[Handle[c]] = "node" -> "gone"
                                     [] kind[Handle[c]] = "op" -> "dormant"
                                     [] OTHER -> "idle"]

-----------------------------------------------------------------------------
(* Frames *)

Frame(f, b, at) ==
    [f |-> f, b |-> b, at |-> at,
     k |-> 0,               \* children attached so far
     cancel |-> FALSE,      \* the settle's argument
     conts |-> <<>>,        \* the settle's locals
     parent |-> NoBlock]

Top(t) == Head(stack[t])
At(t, f, s) == stack[t] # <<>> /\ Top(t).f = f /\ Top(t).at = s

Put(t, frame)    == stack' = [stack EXCEPT ![t] = <<frame>> \o Tail(@)]
Goto(t, s)       == Put(t, [Top(t) EXCEPT !.at = s])
Call(t, s, frame) == stack' = [stack EXCEPT ![t] = <<frame, [Top(t) EXCEPT !.at = s]>> \o Tail(@)]
Return(t)        == stack' = [stack EXCEPT ![t] = Tail(@)]

settle(b, cancel)  == [Frame("settle", b, "lock") EXCEPT !.cancel = cancel]
Release(b, cancel) == [Frame("release", b, "sub") EXCEPT !.cancel = cancel]

\* Reference counts.  An Access_op is never counted.
Counted(b) == kind[b] # "op"
Plus(rc, b)  == IF Counted(b) THEN [rc EXCEPT ![b] = @ + 1] ELSE rc
Minus(rc, b) == IF Counted(b) THEN [rc EXCEPT ![b] = @ - 1] ELSE rc
MinusAll(rc, S) == [b \in Blocks |-> IF b \in S THEN rc[b] - 1 ELSE rc[b]]

\* A block's memory is gone when the last reference is dropped, an op's when its
\* owner has destroyed it.
Freed(b) == IF Counted(b) THEN refcount[b] = 0 ELSE \A c \in Holders(b) : client[c] = "gone"

-----------------------------------------------------------------------------
(* Running a body *)

\* A worker takes a dispatched block from the scheduler, with the queue's reference.
dispatch(t) ==
    /\ t \in Workers /\ stack[t] = <<>>
    /\ \E b \in queue :
        /\ queue' = queue \ {b}
        /\ stack' = [stack EXCEPT ![t] = <<Frame("run", b, "claim")>>]
    /\ UNCHANGED <<kind, blockVars, refcount, client>>

\* Access_op::fire: the owner runs the body inside the call, or queues it.
fire_inline(t) ==
    /\ t \in Clients /\ client[t] = "dormant"
    /\ client' = [client EXCEPT ![t] = "idle"]
    /\ settle_synchronously' = [settle_synchronously EXCEPT ![Handle[t]] = TRUE]
    /\ stack' = [stack EXCEPT ![t] = <<Frame("run", Handle[t], "claim")>>]
    /\ UNCHANGED <<kind, num_locks, refcount, body_claimed, completed, cancelled,
                   prereq_cancelled, nested_parent, continuations, queue>>

fire_queued(t) ==
    /\ t \in Clients /\ client[t] = "dormant"
    /\ client' = [client EXCEPT ![t] = "idle"]
    /\ queue' = queue \cup {Handle[t]}
    /\ UNCHANGED <<kind, blockVars, refcount, stack>>

\* destroy_body: a task's body dies with its captures before the task settles; an op
\* and a node keep theirs.
DestroyBody(rc, b) == IF kind[b] = "task" THEN MinusAll(rc, Range(Nested[b])) ELSE rc

\* Claimed and not cancelled: switch the lock count to completion locks, with a
\* self-lock for the body, and install Current_task.
run(t) ==
    /\ At(t, "run", "claim") /\ ~body_claimed[Top(t).b]
    /\ kind[Top(t).b] # "node" => ~prereq_cancelled[Top(t).b]
    /\ LET b == Top(t).b IN
        /\ body_claimed' = [body_claimed EXCEPT ![b] = TRUE]
        /\ num_locks' = [num_locks EXCEPT ![b] = ExecutionFlag + 1]
        /\ refcount' = Plus(refcount, b)
    /\ Goto(t, "body")
    /\ UNCHANGED <<kind, completed, cancelled, prereq_cancelled, nested_parent, continuations,
                   settle_synchronously, queue, client>>

\* Claimed, but the token (or a prerequisite) was cancelled: the body is skipped.
run_cancelled(t) ==
    /\ At(t, "run", "claim") /\ ~body_claimed[Top(t).b]
    /\ LET b == Top(t).b IN
        /\ body_claimed' = [body_claimed EXCEPT ![b] = TRUE]
        /\ refcount' = DestroyBody(refcount, b)
        /\ Call(t, "drop", settle(b, TRUE))
    /\ UNCHANGED <<kind, num_locks, completed, cancelled, prereq_cancelled, nested_parent,
                   continuations, settle_synchronously, queue, client>>

NextChild(t) == Nested[Top(t).b][Top(t).k + 1]

\* Mutant: the child is linked without a completion lock.
add_nestedUnlocked(t) ==
    /\ At(t, "run", "body") /\ Top(t).k < Len(Nested[Top(t).b])
    /\ refcount' = Plus(refcount, Top(t).b)
    /\ Goto(t, "link")
    /\ UNCHANGED <<kind, blockVars, queue, client>>

\* add_nested: a completion lock on the running task, and a reference to it unless
\* it is caller-owned ...
add_nested(t) ==
    /\ At(t, "run", "body") /\ Top(t).k < Len(Nested[Top(t).b])
    /\ num_locks' = [num_locks EXCEPT ![Top(t).b] = @ + 1]
    /\ refcount' = Plus(refcount, Top(t).b)
    /\ Goto(t, "link")
    /\ UNCHANGED <<kind, body_claimed, completed, cancelled, prereq_cancelled, nested_parent,
                   continuations, settle_synchronously, queue, client>>

\* ... then, under the child's mutex, the link, or for a settled child the release.
link_child(t) ==
    /\ At(t, "run", "link")
    /\ \/ /\ ~completed[NextChild(t)]
          /\ nested_parent' = [nested_parent EXCEPT ![NextChild(t)] = Top(t).b]
          /\ Put(t, [Top(t) EXCEPT !.k = @ + 1, !.at = "body"])
       \/ /\ completed[NextChild(t)]
          /\ Call(t, "unlink", Release(Top(t).b, FALSE))
          /\ UNCHANGED nested_parent
    /\ UNCHANGED <<kind, num_locks, refcount, body_claimed, completed, cancelled,
                   prereq_cancelled, continuations, settle_synchronously, queue, client>>

\* add_nested returns after its own release: the local parent goes.
unlink(t) ==
    /\ At(t, "run", "unlink")
    /\ refcount' = Minus(refcount, Top(t).b)
    /\ Put(t, [Top(t) EXCEPT !.k = @ + 1, !.at = "body"])
    /\ UNCHANGED <<kind, blockVars, queue, client>>

BodyEnds(t) == At(t, "run", "body") /\ Top(t).k = Len(Nested[Top(t).b])

\* Mutant: an inline access that has children still counts on nobody watching.
end_bodyKeepsSync(t) ==
    /\ BodyEnds(t)
    /\ refcount' = DestroyBody(Minus(refcount, Top(t).b), Top(t).b)
    /\ Goto(t, "self_lock")
    /\ UNCHANGED <<kind, blockVars, queue, client>>

\* The body returned: restore Current_task, destroy the body.  An Access_op with
\* children pending gives up settling synchronously before it drops the self-lock.
end_body(t) ==
    /\ BodyEnds(t)
    /\ LET b == Top(t).b IN
        /\ refcount' = DestroyBody(Minus(refcount, b), b)
        /\ settle_synchronously' = [settle_synchronously EXCEPT ![b] =
                                        @ /\ num_locks[b] = ExecutionFlag + 1]
    /\ Goto(t, "self_lock")
    /\ UNCHANGED <<kind, num_locks, body_claimed, completed, cancelled, prereq_cancelled,
                   nested_parent, continuations, queue, client>>

\* Drop the self-lock; whoever drops the last lock completes the block.
drop_self_lock(t) ==
    /\ At(t, "run", "self_lock")
    /\ LET b == Top(t).b IN
        /\ num_locks' = [num_locks EXCEPT ![b] = @ - 1]
        /\ IF num_locks[b] = ExecutionFlag + 1 THEN Call(t, "drop", settle(b, FALSE))
                                               ELSE Goto(t, "drop")
    /\ UNCHANGED <<kind, refcount, body_claimed, completed, cancelled, prereq_cancelled,
                   nested_parent, continuations, settle_synchronously, queue, client>>

\* The dispatch returns; a task's dispatch owned the queue's reference.
drop(t) ==
    /\ At(t, "run", "drop")
    /\ refcount' = IF kind[Top(t).b] = "task" THEN Minus(refcount, Top(t).b) ELSE refcount
    /\ Return(t)
    /\ UNCHANGED <<kind, blockVars, queue, client>>

-----------------------------------------------------------------------------
(* release and settle *)

\* One nested task settled; the last lock to go completes the block.  Nothing here
\* touches the block after that call.
release(t) ==
    /\ At(t, "release", "sub")
    /\ LET b == Top(t).b IN
        /\ prereq_cancelled' = [prereq_cancelled EXCEPT ![b] = @ \/ Top(t).cancel]
        /\ num_locks' = [num_locks EXCEPT ![b] = @ - 1]
        /\ IF num_locks[b] - 1 = ExecutionFlag THEN Put(t, settle(b, FALSE)) ELSE Return(t)
    /\ UNCHANGED <<kind, refcount, body_claimed, completed, cancelled, nested_parent,
                   continuations, settle_synchronously, queue, client>>

SetCompleted(b, cancel) ==
    /\ completed' = [completed EXCEPT ![b] = TRUE]
    /\ cancelled' = [cancelled EXCEPT ![b] = cancel]

\* The waiters blocked on b's condition variable return.
Notified(b) == [c \in Clients |->
    IF client[c] = "blocked" /\ Handle[c] = b THEN "served" ELSE client[c]]

\* The settle of a task or of a bare block: the first one wins.  The continuations
\* and the parent move into the settling thread's hands.
settle_lock(t) ==
    /\ At(t, "settle", "lock") /\ kind[Top(t).b] \in {"task", "bare"}
    /\ LET b == Top(t).b IN
       IF completed[b]
       THEN Return(t) /\ UNCHANGED <<completed, cancelled, continuations, nested_parent>>
       ELSE /\ SetCompleted(b, Top(t).cancel)
            /\ Put(t, [Top(t) EXCEPT !.conts = continuations[b],
                                     !.parent = nested_parent[b], !.at = "notify"])
            /\ continuations' = [continuations EXCEPT ![b] = <<>>]
            /\ nested_parent' = [nested_parent EXCEPT ![b] = NoBlock]
    /\ UNCHANGED <<kind, num_locks, refcount, body_claimed, prereq_cancelled,
                   settle_synchronously, queue, client>>

\* The waiters are woken before the tail runs.
settle_notify(t) ==
    /\ At(t, "settle", "notify")
    /\ client' = Notified(Top(t).b)
    /\ Goto(t, "conts")
    /\ UNCHANGED <<kind, blockVars, refcount, queue>>

\* Access_op::State::op_settle: without the mutex while the owner is still inside the
\* call that fired the op, else with the notify under the mutex.
op_settle(t) ==
    /\ At(t, "settle", "lock") /\ kind[Top(t).b] = "op"
    /\ LET b == Top(t).b IN
        /\ SetCompleted(b, Top(t).cancel)
        /\ \/ /\ settle_synchronously[b]
              /\ Return(t) /\ UNCHANGED <<continuations, client>>
           \/ /\ ~settle_synchronously[b]
              /\ Put(t, [Top(t) EXCEPT !.conts = continuations[b], !.at = "conts"])
              /\ continuations' = [continuations EXCEPT ![b] = <<>>]
              /\ client' = Notified(b)
    /\ UNCHANGED <<kind, num_locks, refcount, body_claimed, prereq_cancelled, nested_parent,
                   settle_synchronously, queue>>

\* A graph node has no waiter and no continuation: its settle takes no mutex.
settle_node(t) ==
    /\ At(t, "settle", "lock") /\ kind[Top(t).b] = "node"
    /\ SetCompleted(Top(t).b, Top(t).cancel)
    /\ Goto(t, "on_complete")
    /\ UNCHANGED <<kind, num_locks, refcount, body_claimed, prereq_cancelled, nested_parent,
                   continuations, settle_synchronously, queue, client>>

\* The next continuation resumes its client, which may free the block at once.
settle_cont(t) ==
    /\ At(t, "settle", "conts") /\ Top(t).conts # <<>>
    /\ client' = [client EXCEPT ![Head(Top(t).conts)] = "served"]
    /\ Put(t, [Top(t) EXCEPT !.conts = Tail(@)])
    /\ UNCHANGED <<kind, blockVars, refcount, queue>>

\* After the continuations: an op's settle is over; any other releases the parent.
settle_parent(t) ==
    /\ At(t, "settle", "conts") /\ Top(t).conts = <<>>
    /\ IF kind[Top(t).b] = "op" THEN Return(t)
       ELSE IF Top(t).parent # NoBlock
       THEN Call(t, "drop_parent", Release(Top(t).parent, Top(t).cancel))
       ELSE Goto(t, "on_complete")
    /\ UNCHANGED <<kind, blockVars, refcount, queue, client>>

\* The local parent goes; the borrowed link to a caller-owned one is only forgotten.
drop_parent(t) ==
    /\ At(t, "settle", "drop_parent")
    /\ refcount' = Minus(refcount, Top(t).parent)
    /\ Put(t, [Top(t) EXCEPT !.parent = NoBlock, !.at = "on_complete"])
    /\ UNCHANGED <<kind, blockVars, queue, client>>

\* The completion hook is read from the block: a node's continues the graph.
on_complete(t) ==
    /\ At(t, "settle", "on_complete")
    /\ Return(t)
    /\ UNCHANGED <<kind, blockVars, refcount, queue, client>>

-----------------------------------------------------------------------------
(* Handles *)

Outside(c) == c \in Clients /\ stack[c] = <<>>

\* sync(): settled already, or block on the condition variable.
wait(c) ==
    /\ Outside(c) /\ client[c] = "idle" /\ c \notin Triggers
    /\ client' = [client EXCEPT ![c] = IF completed[Handle[c]] THEN "served" ELSE "blocked"]
    /\ UNCHANGED <<kind, blockVars, refcount, queue, stack>>

\* attach (co_await): queue the continuation, or run it now.
attach(c) ==
    /\ Outside(c) /\ client[c] = "idle" /\ c \notin Triggers
    /\ LET b == Handle[c] IN
       IF completed[b]
       THEN client' = [client EXCEPT ![c] = "served"] /\ UNCHANGED continuations
       ELSE /\ client' = [client EXCEPT ![c] = "attached"]
            /\ continuations' = [continuations EXCEPT ![b] = Append(@, c)]
    /\ UNCHANGED <<kind, num_locks, refcount, body_claimed, completed, cancelled,
                   prereq_cancelled, nested_parent, settle_synchronously, queue, stack>>

\* The Signal a client triggers lives as long as one of its owners.
Triggering(c) ==
    /\ Outside(c) /\ client[c] = "idle" /\ c \in Triggers
    /\ \E d \in Holders(Handle[c]) : client[d] # "gone"
    /\ client' = [client EXCEPT ![c] = IF c \in Borrowers THEN "gone" ELSE "served"]

\* Mutant: trigger goes through the raw pointer.
triggerUnpinned(c) ==
    /\ Triggering(c)
    /\ \E cancel \in BOOLEAN : stack' = [stack EXCEPT ![c] = <<settle(Handle[c], cancel)>>]
    /\ UNCHANGED <<kind, blockVars, refcount, queue>>

\* Signal::trigger, and the completer of a graph run, pin the block while they settle it.
trigger(c) ==
    /\ Triggering(c)
    /\ refcount' = Plus(refcount, Handle[c])
    /\ \E cancel \in BOOLEAN :
        stack' = [stack EXCEPT ![c] = <<settle(Handle[c], cancel),
                                        Frame("trigger", Handle[c], "drop")>>]
    /\ UNCHANGED <<kind, blockVars, queue>>

unpin(t) ==
    /\ At(t, "trigger", "drop")
    /\ refcount' = Minus(refcount, Top(t).b)
    /\ Return(t)
    /\ UNCHANGED <<kind, blockVars, queue, client>>

\* The handle goes.  A task's may go at any time; an op that settled inside the call
\* that fired it needs no wait; any other op is waited out first, and takes its body
\* with it.
drop_handle(c) ==
    /\ Outside(c)
    /\ LET b == Handle[c] IN
        /\ \/ client[c] = "served"
           \/ client[c] = "idle" /\ kind[b] = "task"
           \/ client[c] = "idle" /\ kind[b] = "op" /\ settle_synchronously[b]
        /\ client' = [client EXCEPT ![c] = "gone"]
        /\ refcount' = IF kind[b] = "op" THEN MinusAll(refcount, Range(Nested[b]))
                                         ELSE Minus(refcount, b)
    /\ UNCHANGED <<kind, blockVars, queue, stack>>

-----------------------------------------------------------------------------

Running(t) ==
    \/ dispatch(t) \/ run(t) \/ run_cancelled(t) \/ add_nested(t) \/ link_child(t)
    \/ unlink(t) \/ end_body(t) \/ drop_self_lock(t) \/ drop(t)

Settling(t) ==
    \/ release(t) \/ settle_lock(t) \/ settle_notify(t) \/ op_settle(t) \/ settle_node(t)
    \/ settle_cont(t) \/ settle_parent(t) \/ drop_parent(t) \/ on_complete(t) \/ unpin(t)

Owning(c) ==
    \/ fire_inline(c) \/ fire_queued(c) \/ wait(c) \/ attach(c) \/ trigger(c)
    \/ drop_handle(c)

Step(t) == Running(t) \/ Settling(t) \/ Owning(t)

Idle == queue = {} /\ \A t \in Threads : stack[t] = <<>>
Done == Idle /\ \A c \in Clients \ Borrowers : client[c] = "gone"

Next == (\E t \in Threads : Step(t)) \/ (Done /\ UNCHANGED vars)

SafetySpec == Init /\ [][Next]_vars

\* Threads run, bodies end, and a client eventually waits for its handle or drops it.
Fairness == \A t \in Threads : WF_vars(Step(t))

Spec == SafetySpec /\ Fairness

-----------------------------------------------------------------------------
(* Properties *)

\* Every variable keeps its type; no count drops below zero.
TypeOK ==
    /\ kind \in [Blocks -> {"task", "op", "node", "bare"}]
    /\ num_locks \in [Blocks -> Nat]
    /\ refcount \in [Blocks -> Nat]
    /\ body_claimed \in [Blocks -> BOOLEAN]
    /\ completed \in [Blocks -> BOOLEAN] /\ cancelled \in [Blocks -> BOOLEAN]
    /\ prereq_cancelled \in [Blocks -> BOOLEAN]
    /\ nested_parent \in [Blocks -> Parents \cup {NoBlock}]
    /\ continuations \in [Blocks -> Seq(Clients)]
    /\ settle_synchronously \in [Blocks -> BOOLEAN]
    /\ queue \subseteq Parents
    /\ client \in [Clients -> {"dormant", "idle", "blocked", "attached", "served", "gone"}]

\* The frames on the threads' stacks.
Frames == UNION {{<<t, i>> : i \in DOMAIN stack[t]} : t \in Threads}
FrameAt(x) == stack[x[1]][x[2]]
Count(S) == Cardinality(S)

\* A body is on the stack.
InBody == {"body", "link", "unlink"}

\* p's body has not been destroyed.
BodyLives(p) ==
    CASE kind[p] = "task" -> body_claimed[p] => \E x \in Frames :
            FrameAt(x).f = "run" /\ FrameAt(x).b = p /\ FrameAt(x).at \in InBody
      [] kind[p] = "op"   -> ~Freed(p)
      [] OTHER            -> TRUE

\* The references to b that the program and this library hold.
References(b) ==
      Count({c \in Holders(b) : kind[b] # "node" /\ client[c] # "gone"})
    + Count({p \in Captor(b) : BodyLives(p)})
    + Count({x \in {b} : kind[b] = "node" \/ (kind[b] = "task" /\ b \in queue)})
    + Count({c \in Children : nested_parent[c] = b})
    + Count({x \in Frames : FrameAt(x).b = b /\ kind[b] = "task" /\ FrameAt(x).f = "run"})
    + Count({x \in Frames : FrameAt(x).b = b /\ FrameAt(x).f = "run" /\ FrameAt(x).at \in InBody})
    + Count({x \in Frames : FrameAt(x).b = b /\ FrameAt(x).f = "run" /\ FrameAt(x).at \in {"link", "unlink"}})
    + Count({x \in Frames : FrameAt(x).b = b /\ FrameAt(x).f = "trigger"})
    + Count({x \in Frames : FrameAt(x).parent = b})

\* The count of every block is the number of references held to it, through nesting,
\* links made and missed, and settles that free what they settle; a caller-owned
\* access is never counted, though the same code handles its links.
RefcountExact ==
    \A b \in Blocks : refcount[b] = IF Counted(b) THEN References(b) ELSE 0

\* The blocks a frame will still read or write before it returns.
Touches(frame) ==
    (CASE frame.f = "run"     -> IF frame.at = "drop" /\ kind[frame.b] # "task" THEN {} ELSE {frame.b}
       [] frame.f = "settle"  -> IF frame.at = "conts" /\ kind[frame.b] = "op" THEN {} ELSE {frame.b}
       [] frame.f = "release" -> {frame.b}
       [] frame.f = "trigger" -> {frame.b})
    \cup (IF frame.parent = NoBlock \/ (frame.at = "drop_parent" /\ ~Counted(frame.parent))
          THEN {} ELSE {frame.parent})

\* No use after free: a block is alive while any frame on any thread's stack will
\* still touch it, though settle wakes waiters and resumes continuations, which drop
\* the last handle or destroy the access, before it is done.
NoUseAfterFree ==
    /\ \A x \in Frames : \A b \in Touches(FrameAt(x)) : ~Freed(b)
    /\ \A b \in queue : ~Freed(b)
    /\ \A c \in Children : nested_parent[c] # NoBlock => ~Freed(nested_parent[c])

\* The completion locks of a block whose body has started are the body's own and one
\* per attached child that has not released it; none is lost when a child settles
\* between the lock and the link.
NumLocksExact ==
    \A p \in Parents : num_locks[p] > 0 =>
        num_locks[p] = ExecutionFlag
            + Count({x \in Frames : FrameAt(x).f = "run" /\ FrameAt(x).b = p
                                    /\ FrameAt(x).at \in InBody \cup {"self_lock"}})
            + Count({x \in Frames : FrameAt(x).f = "run" /\ FrameAt(x).b = p /\ FrameAt(x).at = "link"})
            + Count({x \in Frames : FrameAt(x).f = "release" /\ FrameAt(x).b = p})
            + Count({x \in Frames : FrameAt(x).parent = p /\ FrameAt(x).at # "drop_parent"})
            + Count({c \in Children : nested_parent[c] = p})

\* Both counts of every block are exact, the references and the completion locks that
\* settle, release and add_nested take and drop in turn, and no block goes while it is
\* still to be touched.
CountsAndLifetimes == TypeOK /\ RefcountExact /\ NumLocksExact /\ NoUseAfterFree

\* A block whose body ran settles only after the body returned and every child it
\* attached has settled.
CompletesAfterChildren ==
    \A p \in Parents : completed[p] /\ ~cancelled[p] =>
        /\ \A c \in Range(Nested[p]) : completed[c]
        /\ \A x \in Frames : FrameAt(x).f = "run" /\ FrameAt(x).b = p => FrameAt(x).at = "drop"

\* Every block settles, every waiter and every continuation, attached before, during
\* or after the settle, gets its turn, and all memory is released.
EventuallyReleased ==
    <>[](/\ Done
         /\ \A b \in Blocks : completed[b]
         /\ \A b \in Blocks : kind[b] \notin {"node", "op"}
                /\ (\A p \in Captor(b) : kind[p] # "node") => Freed(b))
=============================================================================
