# A verification development for macrame

macrame (`include/ts`, `src`, `tools`) is a C++ task library: a worker pool, tasks
and coroutines with nested completion, `Guarded<T>` objects that tasks access
through per-object queues instead of locks, and, on top of them, task graphs,
versioned objects, deferred commands, an event bus, timers and parallel loops. This
directory models it in TLA+, model-checks it with TLC and proves the main safety
properties of its core (pipes, task blocks, scheduler, queues, graphs, versioned
objects, loops) with TLAPS.

Source paths in this file are relative to the repository root.

## 1. The system

| Part | State | Operations | Hard behaviour | What makes it correct |
|---|---|---|---|---|
| Access pipes (`src/guarded.cpp`, `detail/pipe.h`, `guarded.h`) | per object: FIFO of entries, `active_readers`, `writer_active`, `writer_owner`, `write_epoch`, a mutex; per task: links, `num_locks` | `launch`, `fire`, `pipe_acquire`, admission, cascade over several objects, release, `~Guarded` | turns fire on whichever thread released a grant; caller-owned accesses die as soon as they settle; teardown races | exclusion, exact grant counters, FIFO, every access ends, no block or object used after it is gone |
| Task control block (`detail/task_block.h`, `task.h`) | `num_locks`, `refcount`, `completed`, `cancelled`, continuations, nested parent | run, `add_nested`, `settle`, `release`, `wait`, `attach`, `trigger` | settle wakes a waiter that frees the block; a child settles during its attachment | exact counts, completion after all children, everything released |
| Scheduler (`src/scheduler.cpp`, `src/worker_thread.cpp`, `detail/event_count.h`) | three global queues, a deque per worker, the eventcount, `num_spinning_`, `idle_workers_`, `quit_` | `submit`, `find_work`, park / spin / handoff, `yield_to_higher`, `~Scheduler` | lost wake-ups, shutdown against submission, stale spinner counts | exactly once, no lost wake-up, drained and joined at exit |
| Deque (`detail/work_stealing_deque.h`) | `top`, `bottom`, cells | push, take, steal | race for the last entry, cell reuse | exactly once, oldest first |
| MPMC queue (`detail/mpmc_queue.h`) | positions, cells with sequence numbers, overflow list and count | push, pop, `empty` | claimed and unpublished slots, laps, overflow | exactly once, nothing stranded, honest `empty` |
| Cancellation (`cancellation.h`) | flag, callback list, `firing` | `request_cancel`, callback construction and destruction | a callback destroyed while it fires | fired at most once, never after destruction |
| Timer (`src/timer.cpp`) | heap of armed waits, `timer_live`, `live_`, the thread, a `Periodic`'s grid | `sleep_until`, `next`, arm, cancel, deliver, shutdown | cancel against delivery, an earlier deadline against a parking thread, the timer thread destroying a block whose callback fires | one fate per wait, never early, none forgotten, teardown ends |
| Static graph (`src/static_task_graph.cpp`) | nodes, declared and compiled edges, countdowns, the run's handle | declare, `compile`, move, destroy, `execute` attached or detached, node completion, cancel | re-execution against the previous run's tail, grants lent by the caller | conflicting nodes ordered and exclusive, nothing left of a finished run, every run ends |
| Versioned (`versioned.h`) | front, shadow, previous, journal, one batch, the publish chain | stage, `publish` in three phases, `publish_into`, resync, views, destruction | chained and cancelled publishes against views and resync | a view does not move, replicas meet, every write published once |
| Deferred and journal (`deferred.h`, `recorder.h`, `detail/journal.h`) | slots, free slots, batch, `last_commit_` | mint, stage, cut, commit inside and outside the grant, clear, destroy | staging against a cut that goes slot by slot, slots inherited by new recorders | applied once, in each recorder's order, never to a dead target |
| Event bus (`event_bus.h`) | board of subscriptions and events, tombstones, owners | subscribe, publish, dispatch, disconnect | disconnect before the install is applied or while a handler runs, expiring owners | exact delivery, silence after disconnect |
| Parallel loops (`parallel_for.h`) | claim counter or `phase_next`, done count, reference count | claim, skip, body, band advance, helper entry and exit, return | late helpers, parked participants, cancellation between chunks | each item once and in its band, the caller needs no helper |
| Coroutines (`coroutine_support.h`), frame gate, suspension registry | frames, handshake states, `Current_task`, resume queue per thread, gates, wait edges | call, await (a task, an access), guard, `next` / `open`, drain, yield, final suspend | completion during suspension, nested drains, circular waits | one resume per suspension, ambient state restored, every wait known and ended or reported |
| Profiling and trace (`scheduler.h`, `detail/trace_owner.h`, `tools/trace_stamps.h`, `tools/graph_trace.h`) | per-worker tick counters; per-graph aggregates | arm, book, read, disarm; fold, derive | reads beside completions, arming beside running tasks; ties and zero durations | no span dropped, body within busy; chain, critical path and rows correct |
| Access deduction, rules, diagnostics | - | - | - | compile-time checks, reporting |

The parts meet as follows. A `Guarded` launch builds a task control block with
one link per object; entering a pipe either admits it or queues it; the last
admission drops `num_locks` to zero and submits the block to the scheduler; a
worker runs it through `execute`; the body may attach nested children (a
coroutine frame, a nested graph run); the last lock settles the block, which
wakes waiters, runs continuations, releases the parent and, in `on_complete`,
gives the pipes back, which admits the next entries on the same stack. Graph nodes,
swaps of a `Versioned`, commits of a `Deferred` and coroutine guards are all entries
of those pipes.

## 2. Modules

| Module | Models | State and actions |
|---|---|---|
| `ExclusiveAccess` | what `Guarded` promises | one state per access; Submit, Begin, Skip, End |
| `Pipe` | pipes and cascade | fields of `struct Pipe`, the task's links, the carriers' stacks of turns to fire; one action per critical section or step outside one |
| `PipeProofs`, `SchedulerProofs`, `BlockProofs` with `BlockInvariant`, `WorkerProofs`, `QueueProofs`, `VersionedProofs`, `GraphProofs`, `BusProofs` | - | theorems about `Pipe`, `Scheduler`, `TaskBlock`, `WorkStealingDeque`, `BusyTracking` and `ParallelFor` (these three in `WorkerProofs`), `MpmcQueue`, `Versioned`, `StaticTaskGraph`, `Deferred` and `EventBus` (both in `BusProofs`) (section 4) |
| `FifoPipe` | a pipe by its interface | operators on a record of queue and holders, for the modules that use pipes |
| `Scheduler` | pool, eventcount, idle policies, yield points, shutdown | one action per shared access of `find_work`, `park`, `handoff_wait`, `submit` |
| `TaskBlock` | run, nesting, settle, counts | each thread's call stack inside the library, since settles run inside settles |
| `WorkStealingDeque` | the deque | one action per atomic access |
| `MpmcQueue` | the queue | one action per atomic access; a critical section of the overflow mutex is one |
| `Timer` | cancellation and the timer service | `Cancel_state`, the heap and its thread, blocks with their counts; one action per critical section of either mutex or step between two |
| `StaticTaskGraph` | building, compiling and running a graph | the graph as data, one stage per node, caller and unrelated access; `compile` is an operator checked against its meaning |
| `Versioned` | a versioned object | a replica is the sequence of commands that made it; one action per phase |
| `Deferred` | the journal and commits | slots of commands `[by, n, what]`; a cut is one action per slot |
| `EventBus` | the bus, over `Deferred` (EXTENDS) | board, tombstones, deliveries; dispatch is one action per subscription and event |
| `ParallelFor` | the three loops | the counters, each executor's position and chunk |
| `Coroutine` | frames, awaits, guards, gate, registry, rank rule, circular-wait detector | a thread is the stack of what it is in the middle of; a program is data |
| `BusyTracking` | the profiling counters | a worker's `Busy_slot` and locals, the tracer's reads one by one |
| `GraphTrace` | the trace's aggregation | runs folded; chain, critical path and rows as operators checked against reference definitions |
| `MC...` | instances for TLC | constants; `MCQueuesAndTrace` runs four unrelated parts, one per behaviour |

Operators named after a function stand for that function; where a function is
several actions the name says the step (`take`, `take_top`, `take_cas`).
Definitions under "Mutant" are faulty variants used to check that a property can
fail; no specification uses them. `PROJECT.json` maps every definition to its
lines, names the hazards and the properties that cover each.

How the modules compose. `Pipe` implements `ExclusiveAccess` (checked as a
property). `StaticTaskGraph`, `Versioned`, `Deferred` and `Coroutine` take a pipe as
what `Pipe` shows it to be (`FifoPipe`: exclusive, FIFO, work-conserving) and a block
as what `TaskBlock` shows (completes once, after body and children). `Scheduler` uses
its queues by interface; `MpmcQueue` and `WorkStealingDeque` model their insides.
`EventBus` runs on the full `Deferred`.

### Abstractions

All modules: atomics are sequentially consistent; values, names and the safety
checks that only report are left out. What the code answers with `ts::fatal` is a
precondition, except where the fatal path itself is checked (`Versioned`,
`Coroutine`: `life`).

* `Pipe`: an access is submitted once (no re-fire through `start()`), takes all
  its objects itself (no lending from the calling task's grants), and has no
  nested children (`TaskBlock` has them). A hold has one object. `write_epoch` is
  kept as in builds with safety checks. A pipe's address is its number.
* `TaskBlock`: a cancelled token is a choice at `run`; `ready` and `completed`,
  written together, are one variable; results are left out; the inline and destroy
  trampolines, which bound recursion, are left out, and so is `Signal::reset`. The
  branches of `release` for pre-execution locks are in `Pipe`. A settle of an
  already settled block is modelled, but no client of the instance does it.
* `Scheduler`: a slot of a global queue is claimed, then published; a steal fails if
  the top moved. The ring of a global queue is never full here. The eventcount's
  epoch is the question "has it moved since this worker's snapshot", so its wrap at
  2^32 is not considered. A sleeper returns only when notified. A worker's own advisory
  count (yield signal after a pop, idle mark, spinner mark) moves with the statement
  before it. The scheduler is destroyed only once no external thread uses it, as
  `include/ts/scheduler.h:87-91` demands. The worker-less mode is left out.
* `Timer`: one source, whose token every call uses, and one `Periodic`, whose `next`
  has one consumer at a time. A clock tick is an action. The heap is a sequence sorted by
  deadline and arming order. `timer_delivered` is left out: it is set wherever
  `timer_live` is cleared for a delivery. A block handed to the scheduler is in a set
  until a worker runs it. No call of the library overlaps `timer_shutdown`, as with
  `destroy_scheduler`; `request_cancel` and destructors do. A user callback returns or
  destroys itself. The thread's two readings of the clock in one turn are one.
* `MpmcQueue`: positions are naturals; the `size_t` wrap is out of reach.
* `StaticTaskGraph`: where a ready node runs (priority, inline) is not distinguished;
  nodes are declared in the order of their numbers; one graph. `move` and `destroy` have
  the code's check, which looks at the count of nodes alone; a thread that settles a run of
  a destroyed graph reads a freed token, so either outcome (`TokenRead`).
* `Versioned`: a command is a number, a replica the sequence of those applied, so
  that equality of replicas is equality of histories. An `overwrite` command makes
  the whole state. Staging is atomic here; its lanes are in `Deferred`.
* `Deferred`, `EventBus`: one event type; the bus is not destroyed; recorders and
  connections are not moved.
* `ParallelFor`: the body of a chunk is one step; yield points between chunks and the
  scopes a helper inherits are left out; `phase_next` is a pair.
* `Coroutine`: bodies are sequences of operations; results and promise types are left
  out; the enclosing task of a scenario is the frame itself, with the grants in `holds`. An
  awaited `Access_op` writes one object and a body has at most one; that the inline arm is
  not taken stands for the `.queued` option as well. The handles in a frame go at the end of
  its body, with its locals, and a guard of several objects is released pipe by pipe.
* `BusyTracking`: a clock read and the store that follows it are one step; a task yields
  at most once. One worker: slots share no state, and the tracer reads them one by one.
* `GraphTrace`: a run is its nodes' start and end ticks; the P2 estimators are exact
  below five samples, so a median is one. `SlackEps` is the microsecond of `slack_eps`; one
  tick is one microsecond in the instance.

## 3. Runs

| Run | Instance | Shows |
|---|---|---|
| `pipe` | two objects; a queued task that writes 1 and reads 2, a caller-owned access that reads 1 and writes 2, a hold of 2; object 1 is destroyed | exclusion, grant counters, held grants, epochs, lifetimes, FIFO, termination, teardown, refinement of `ExclusiveAccess` |
| `pipe_teardown` | a two-object task queued on the first object while the second is destroyed | **violation**, see section 6 |
| `sched` | two workers, all three policies, a low body that forks two tasks into a one-entry deque, an external high task, valves at 1 | exactly once, no lost wake-up, drain at exit, yield counts, quiescence; every pushed task runs, shutdown joins |
| `task_block` | a parent of each kind, two children, an owner, a waiter that may also attach, an owning and a borrowing trigger | exact reference and lock counts, no use after free, completion order, release |
| `queues_and_trace` | one of: a queue of two cells, two producers with three items, two consumers, an observer; a deque of two cells, six pushes, two thieves; a worker and two traced runs over four ticks; every graph of three nodes, two runs with starts to 2 and durations to 1 | exactly once, honest `empty`, every item popped; exactly once, oldest stolen; busy and body time; chain, critical path, rows |
| `timer` | a sleep due at 3, a tick with period 2 and a user callback, in four mixes with a request and a shutdown; the clock stops at 3 | one fate per wait, the deadlock net's count, no use after free, never early, the grid, everything waiting ends |
| `graph` | up to three nodes over two objects, each node with a choice of accesses, two declarable edges; called from no task, or from a task that writes object 1, attached or detached; an unrelated writer; two runs, a cancel, a move, the destructor | exclusion, compile and order, quiescence between runs, every run ends |
| `graph_moved` | the same | **violation**, see section 6 |
| `versioned` | two publishes, one flip, one reader, three commands, every policy and history | stable views, converging replicas, no write lost, publishes and destruction end |
| `bus` | two producers and two recorders per lane of slots, two commits, a writing access that commits, either cancelled; or a bus with two lanes, one event, a plain and a pinned subscription, two dispatches | commands applied once in order, exact delivery, calls return |
| `parallel` | flat and asynchronous loops of 1 and 4 items, coloured ones with bands of 1 to 3 and two rounds, two or three workers, three balances, an asynchronous handle dropped at any time | every item once in its band, no use of a freed state, the loop settles and the caller returns |
| `coroutine` | eleven programs of up to three frames on two threads: calls, guards, the gate, awaited accesses (inline, queued, lent by a guard), circles of three through guards and through accesses, with the rank rule and relaxed | one resume, `Current_task`, waits accounted, frames finish or the detector reports |

The run `pipe` states its invariants as named conjunctions (`LifetimesKept` is
`NoUseAfterFree` and `ObjectOutlivesAccess`, `EpochsKept` is `EpochCurrentInWindow` and
`StaleWriteSnapshot`, ...), as do the others; the parts are defined just above them.

Why the bounds suffice for the interesting cases. Two objects and two
conflicting two-object accesses are the smallest ABBA; the third access makes
queues of length two. A one-entry deque makes a fork overflow to the global queue;
valves at 1 fire in every run; `SpinCycles = 1` has a spinner scan once and then park.
A ring or deque of two cells laps and overflows within three to six items. A parent
with two children has a last child and one that is not. With the clock stopped at the
sleep's deadline, a tick armed after it must wake the timer thread itself or wait for
ever; with a period of 2 a tick run at 3 is late by half a period, so a grid counted from
the late tick (due at 5) and the grid kept (due at 4) differ. Three nodes with a
read-write choice give chains, forks, joins and a conflict that only compile orders; two
runs are the smallest re-execution, and the caller's object is lent in one and not in
the other. Two publishes are the smallest chain; with the flip a third swap meets a
shadow left by a resync. Two recorders minted by two producers make a slot change
hands while commands lie in it. A cycle of three tasks is closed by an edge whose other
end is not the closer's own, which a detector that looks one step ahead misses. Three
nodes make the shortest chain with an inner node, and two of everything make ties.

Deadlock is checked except where the program may simply be over: `timer` (all calls
made, the clock at its bound), `graph`, `versioned`, `bus` (every call returned or the
object gone), `parallel` (the loop returned) and `coroutine` (all frames done, or the
harness reported). There a liveness property says that nobody who waits is left.

### Fairness

Nothing outside the library owes a further call: starting, staging, submitting, handle
drops, cancel requests, moves and destructors are never fair. What is fair is a thread
inside the library running on, and a worker running what it was given.

* `Pipe`: weak fairness for each access's library steps and body, for each
  carrier's turns and for each pipe's pass: workers keep taking work, bodies return,
  and a hold is released.
* `Scheduler`: weak fairness for each worker, each submit under way and a
  destructor under way. No thread need submit again or destroy the pool, so a task
  may not depend on a later submit to be found. Yield points are not fair.
* `TaskBlock`: weak fairness per thread: owners finally drop their handles.
* `Timer`: weak fairness for the timer thread, for workers, destructors, a shutdown, a
  request and a call under way. No clock tick or spurious wake-up is owed.
* `MpmcQueue`: weak fairness per producer and consumer: a worker keeps calling pop. (`queues_and_trace`
  states it of the behaviours that are the queue's; its other parts have safety only.)
* `StaticTaskGraph`: weak fairness for the caller's steps inside `execute` and its wait,
  for each node, and for an unrelated access that has been queued (its turn and its end).
* `Versioned`: weak fairness for each publish's phases, for a reader binding and dropping
  its view (views are scoped), and for a destructor waiting for the chain.
* `EventBus`: weak fairness for each commit and dispatch under way and each disconnect
  that has begun.
* `ParallelFor`: weak fairness for each executor inside a loop and the caller's wait. A
  helper of a blocking loop need never get a worker; one of an asynchronous loop does,
  since nobody else runs it.
* `Coroutine`: weak fairness per thread, and the frame loop opens the gate again while
  somebody waits at it (that is what a frame loop does; the gate is modelled from
  `frame_gate.h`, the loop from its use).

The deque, the profiling counters and the trace are checked for safety only.

## 4. Proofs

Each proof module extends its component (`WorkerProofs` two that share no
variable) and proves, for every value of the
constants that the component's named assumptions admit, an inductive invariant
`Spec => []Inv` and from it the properties the runs check on small instances. TLC
checked every inductive invariant first. The theorems are about `SafetySpec`
(`Init /\ [][Next]_vars`), which every fair specification implies.

**`PipeProofs`** (`PipeAssumption`, `TasksFinite`: addresses in `Nat`, finitely many
accesses, any kinds and modes).

* `Inductive`; from it `PipeMutualExclusion`, `PipeGrantAccounting` and
  `PipeHeldUntilSettled`. `MutualExclusion` speaks of running bodies, and what
  keeps them apart are the grants they hold, so the invariant `IndInv` is `TypeInv /\
  LinksInv /\ GrantAccounting`. `LinksInv` says, per access, how far the cascade has
  come: a link whose turn has not been passed on has no later link entered, all are
  turned by the time the block is dispatched, none is released before the body is
  over, and `num_locks` counts the turns to come; per pipe, that the queue holds only
  links that wait for it, each once.
* `Epochs`; from it `PipeEpochCurrent`, `PipeStaleSnapshot`, `PipeEpochsKept`:
  a running body's snapshot is the current epoch and a released write snapshot lies
  below it, because the epoch moves only when a pipe is free or its writer lets go.
* `Flow` and `PipeFifo` (`FifoWorkConserving`, an invariant and an action property):
  whoever is inside a pipe's critical section is alone there (`MutexOK`), the
  unscanned rest of the queue is what the scan has left to admit, and outside a
  critical section the head is one that may not be admitted.
* `References` and `PipeNoUseAfterFree`: `ref_count` of an `async` block is the number
  of its handle, its queue entry or turn, and its worker (`RefOK`), so whoever can
  reach a block has one of the references. `PipeTypeOK`: no counter that the code
  decrements goes below zero.
* `PipeImplementsExclusiveAccess`: every step of the pipes is a step of
  `ExclusiveAccess` or changes nothing in it. Its fairness stays with TLC.

`LifetimesKept` joins `NoUseAfterFree`, proved, with `ObjectOutlivesAccess`, which is
false in general (section 6). In the instance object 1 is destroyed while accesses are
queued; it holds there because 1 is the lowest address, so that every access enters its
pipe first and `~Guarded` sees it.

**`SchedulerProofs`** (`SchedulerAssumption`: at least one worker, any outside threads,
entries, priorities, policies, spin count, deque capacity and valves; an entry is
submitted at one point of the program, since `submit` takes a block that becomes
runnable once): `SchedulerCountsSafe` and `SchedulerRunOnceAndDrained`. The invariant has
four layers, each inductive given those before it.

* `Types`: a worker's local state has one of the shapes its program counter allows: which
  scan it is in (the loop's, a spinner's, the re-scan of a park), when it has an entry in
  hand and whether it is marked idle; a thief between its two reads has a victim.
* `Counts`: a class's yield count is its queue's length plus the submits between count
  and claim, `num_spinning` and `idle_workers` are the numbers of workers that are so, and
  a deque is within its capacity. `CountsSafe` follows from it.
* `Places`: an entry is in one of five places (a queue slot, a deque cell, a worker's hand,
  a submit before its claim, started), in each at most once, and the entries in those
  places are the ones the outside threads and the bodies have got to (`Accounted`).
  `ExactlyOnce` follows; an entry stolen on a stale top would be in two hands.
* `WakeUps`: a claimed slot not yet published has its publisher on the way
  (`UnreadyOwned`); a parking worker that has passed a class in its re-scan with its key
  still good left nothing there unless a submit is about to move the epoch (`KeysGood`);
  for each class with an entry, a submit is about to wake somebody or some worker will
  still look there before it sleeps or leaves (`SomebodyLooks`); the owner of a nonempty
  deque is awake and will take from it (`OwnersLook`). `NoLostWakeup` and `DrainedAtExit`
  are the cases where nobody is left to look. The second is why `all_empty`, which reads
  queue by queue, is safe: a worker in it answers for the classes it has yet to read.

**`WorkerProofs`, the deque** (a capacity of at least one, any set of thieves): `DequeInductive`, `DequeExactlyOnce` and
the action property `DequeOldestStolen`. `take` lowers the bottom before it knows
whether there is an entry, so the window of live indices ends at `End`, not at
`bottom`. The invariant says that the window fits the buffer with a cell to spare while
a push is under way, its entries are in the order of their pushes, what the owner
and a thief have read of the cell they race for is still true while the top has not
moved (`RaceInv`), and each entry is in one live cell or was handed out once. That two
indices of a window have different cells is a lemma about the mask.

**`QueueProofs`** (a ring of two cells or more, a finite set of consumers, any
producers, observers and number of items): `QueueInductive` and `QueueItemsKept`.
`QueueInv` says who has which position, what each cell's sequence number says of it
on whichever lap, where every item is, that a consumer's claimed position is
published, and what an `empty()` under way may still rely on (`ObserversInv`): every
item that was there when it began and is still in the queue lies where it has yet to look.

**`VersionedProofs`** (readers are not named like the publishes' own accesses):
`VersionedInductive`, `ViewsStable`, `ReplicasInStep`, `CommandsPublishedOnce`. The
invariant has the grants (a view is held under a read grant, a flip is made under a
write grant, and `FifoPipe`'s pass admits a write alone), the chain (one publish owns the
shadow and the batch at a time, the others wait for it in order), the replicas (what the
shadow lacks of the front is the batch the resync replays) and the commands (staged,
batch and front are sorted and below one another, and account for every number).

**`WorkerProofs`, the loops** (`LoopsAssumption`, `HelpersAssumption`: any bands, rounds, items and
balance, and at least as many helpers as `effective_workers` asks for): `LoopInductive`
and `LoopIsSafe`. The chunks in hand are disjoint parts of the current phase below
`next`; `done` is the cardinality of what is claimed and counted; the executor whose
count ends a band is alone with it until it publishes the next; the state's references
are those of the executors still in it.

**`WorkerProofs`, the profiling counters** (`BusyAssumption`: slots are numbers): `BusyInductive` and
`BusyTrackingExact`. What a worker has booked to functors plus what its open scopes
would book if they closed now is within its busy time, at every step of arming and
disarming; a snapshot is never short of what was booked before its clock was read.

**`GraphProofs`** (`GraphAssumption`: finitely many nodes; nodes, caller and unrelated
accesses have different names; any declarations, edges, lines and rebuilds):
`GraphInductive`, `GraphExcludes`, `GraphOrdered`, `GraphQuiescent`. `GraphInv` says that
what runs was compiled from what is declared and links are the uses that were not
lent (`BuildInv`); that every entry of a pipe is a participant on its way, and a granted
participant holds all its lines (`PipesInv`); that a node's count is the number of its
prerequisites still to end (`CountInv`); that `remaining` is the number of nodes not yet
over, that the last of them folds the run alone, and that a caller who lent its grants
keeps them until it has (`NodesInv`, `RanInv`, `CallerInv`); that while a node is still
counted the graph is where the run's pointers lead (`AtHome`). The last is all the
count-only check of `move` and `destroy` gives: it says nothing of the thread that has taken
the last node from the count and not yet settled the handle, which is what `graph_moved`
shows. Two nodes of one run are kept apart
by the compiled edges between them, a node and an outsider by the pipe, and a node
on a lent object by the caller's grant. `GraphOrdered` also has `CompileSound`: a graph
the compiler accepts has a rank that rises along every edge, and one it refuses has
none. That is about the rounds of `detect_cycles`, a function given by recursion; that
it exists and what it does is shown for the least round where it could fail.

**`BlockProofs`** (`TaskBlockAssumption`: finitely many threads; a child is attached by
one body, at one place; a parent has fewer children than `ExecutionFlag`, less one, so
that the lock count never runs into the flag; any kinds, handles and borrowers):
`BlockInductive`, `BlockCountsAndLifetimes`, `BlockCompletesAfterChildren`, and
`FairBlockSafe` for the specification the run checks. The invariant `IInv` has a module of
its own, `BlockInvariant`. The counts of a block are
numbers of things held, some of them by frames of some thread's stack. `StackType`
gives the seven shapes a stack can have (a run or a trigger, the settle or release it
calls, and the parent's under a child's), so that no stack has two frames counting for
the same, and counting frames is counting threads (`Num`): a step of one thread moves a
count by what its own stack gains or loses. On that rest the counts (`RefsInv`,
`LocksInv`). A count going to zero is final because a body is run once (`RunInv`), a
parent is settled once, after its last lock went (`SettleInv`), and a child stays linked
until it completes (`ChildInv`); a continuation is resumed once (`AttachInv`), and the
owner of a caller-owned access outlives it (`OwnerInv`). Two more parts are about who may
touch a block without a count: the settle of an access goes no further than its
continuations, since the owner may have freed it by then (`OpSettleInv`), and a borrower
never has a handle to drop (`BorrowInv`).

**`BusProofs`** (`EventBusAssumption`: the calls have different names, `None` names
nothing, a lane for each thread; any producers, commits, write accesses, lanes, events
and subscriptions): `BusInductive`, `DeferredCommandsKept` and `BusDeliveryExact`.
`CommandsInv` says who is where: the calls under way are those in the pipe, one of them
granted, and only it can have a batch (`PcTypes`, `PipeInv`); one call is in the slots
(`RegisterInv`); a recorder has a slot of its own with all its staged commands, a
released slot is nobody's, and on the bus a thread's commands are in its lane
(`RecordersInv`). A slot may hold the commands of dead recorders besides its owner's,
so order is a matter of one recorder's commands: `InOrder` holds across the slots, the
batch and what is applied, and with `AllKept` it is inductive given the rest. That
`~Deferred` need look at one commit only is `LastInv`: of the commits in the pipe
`last_commit_` is the last.
`DeliveryInv` is inductive given `CommandsInv`. An event or subscription is staged once
(`PostedInv`), so what is on the board was applied once, a live subscription stays
on it, and one whose `disconnect` returned is not there (`BoardInv`); the handler that runs
is that of the subscription looked at last (`RunInv`). An event is delivered exactly when
its subscription is passed (`GotInv`); a subscription its publisher made before it was
applied before it (`InOrder`) and is passed when the events are cleared. The removal of
`disconnect` meets no running handler because both need the board's write grant. What
`std::erase_if` leaves (`Erased`) is shown as for `detect_cycles`, for the least element
where it could fail.

A proof has one lemma per kind of step, resting on frame lemmas for the
parts a step leaves alone. The proofs changed the models in one respect: a `CASE` with
overlapping guards (`FifoPipe`'s `Pass`, `ParallelFor`'s `load_phase`,
`StaticTaskGraph`'s `Strongest`, `TaskBlock`'s `settle_parent`) has a value TLC picks
by the first true guard and the provers do not know; they are `IF` chains now, in the
code's order. For `Scheduler` the victims of a steal scan are given as a function
of the position instead of by filtering a sequence; for `EventBus`, `Erase` is a
recursive function instead of `SelectSeq`, and `StagedExactlyOnce` speaks of the
sequences themselves, not of their concatenation.

Only model-checked, and why:

* liveness and the fairness half of the refinement: fairness and `ENABLED` are outside
  the prover's reach;
* what recursive operators compute (`GraphTrace`'s passes, `Coroutine`'s `Reach`):
  their modules lose the SMT backend;
* `ObjectOutlivesAccess`, the second half of `LifetimesKept`: false in general (section 6);
* `Timer` and the parts of `Coroutine` without recursion: their invariants (`FateKept`,
  `ResumedOnce`, `AmbientRestored`, `WaitsAccounted`) have no theorem; none of the
  obstacles above is in the way of the first.

## 5. What is not modelled

`PROJECT.json` lists every part with its status. Left out:

* access deduction and rules (compile time and assertions) and the diagnostics that only
  report: naming, the registry's dump, memory profiling, introspection;
* the worker-less serial trampoline, `run_until`'s helping, thread affinity;
* lending part of a multi-object `Access_op`, `Access_op::start` after a settle,
  `Signal::reset`, results;
* `set_priority` and `set_inline` of graph nodes;
* destruction of an `Event_bus`, moves of recorders and connections;
* the trace's drawing, statistics, utilisation buckets, per-node sink and orchestration
  time;
* weak memory orders: every atomic is sequentially consistent;
* the samples, tests and benchmarks, which are clients.

## 6. Disagreements with the documentation

* `pipe_teardown`: `docs/guide.md:596` and `include/ts/guarded.h:992` promise that
  `~Guarded` waits for every pending access. A multi-object access enters its later
  pipes only when its earlier turns are granted, so the destructor of a later object
  can see an idle pipe and return.
* `graph_moved`: `include/ts/static_task_graph.h:133-135` says that destructor and moves
  are fatal while a run is in flight, and `docs/guide.md:602-603` counts on it.
  `check_quiescent` (`src/static_task_graph.cpp:77`) looks at `remaining_nodes` alone, which
  reaches zero (493) before the thread that took it there reads `run.graph->trace_` (508) and
  settles the handle (511, 513). A graph moved or destroyed in between passes the check, and
  that thread follows a pointer to where the graph no longer is. `execute` asks for the
  settled handle too, and its comment (624-628) names the window. A caller that awaited the
  run does not meet it. `RunQuiescent` claims what the count does give, and `RunsEnd`
  promises nothing of a handle whose graph was destroyed unsettled.

Seen while modelling, without a run of their own:

* `tools/graph_trace.h:922-923` says that the meet-point clamp guarantees that
  consecutive critical bars do not overlap. The clamp goes through the edges once,
  predecessors first, and line 894 may move a bar's start back after the edge into it was
  dealt with. Two runs of the chain 1-2-3 (starts 0,0,1 and ends 0,1,1; then 1,2,2 and
  2,2,2) do it: clamping 2-3 moves the start of 2 to 1.5, before the end of 1 at 2. The
  packing loop then moves a bar to another row; `RowsExact` checks that it does, and that
  a bar is on the spine just when its slack is within `slack_eps` and it fits.
* `src/scheduler.cpp:304-307` says the low valve's reset caps `since_low`; a worker fed by
  the high queue alone counts the pop and returns (line 297) before it gets there.
* `docs/design.md:398` speaks of at most one spinner, `handoff_wait` lets every idle worker
  spin; `detail/task_block.h:276-280` says graph successors inherit `prereq_cancelled`,
  `run_graph_node` looks at the token only; `detail/mpmc_queue.h:20` says the overflow is
  drained after the ring empties, but a pop also goes there when the oldest slot is
  claimed and not published.
* `versioned.h:369-377`: a cancelled or empty publish triggers `swapped` before
  `shadow_ready`, so a caller that has synced `publish()` can still meet
  `publish_into`'s fatal for an unresolved chain (429-433). `Versioned` has the
  outcome as `life = "fatal"`.
* `Access_awaiter` and `Multi_access_awaiter` link their suspension record after
  `exit_segment`, so the record names the enclosing task, not the frame.
* A wait edge is cleared only when the frame resumes, so for a moment the detector may
  follow an edge that is no longer a wait; `detail/pipe.h:165-168` accepts this. And only
  the first blocked pipe of a multi-object guard is recorded; a cycle through a later one
  is left to the deadlock net, so the scenarios of `CoroutinesFinish` have none.
* `scheduler.h:235-237` says a nonzero `started` is counted with "no double"; between the
  store of `ticks` and that of `started` a span is counted twice, as 222-224 admits.
  `BusyExact` therefore claims only that none is dropped.
* `detail/trace_owner.h:48-51` has body time within busy time by construction. A yield
  entered while disarmed, under a functor that is timed, followed by a new arming, books
  the nested functor twice; `BusyTracking` keeps such workers apart (`crossed`).
* A task still running at the edge of a traced window can make the derived machinery
  time negative, and the utilisation buckets are cleared by `arm_busy_tracking`
  (`scheduler.h:347`) while workers may still write to them.

## 7. Plan

1. Done: `Pipe` with `ExclusiveAccess` and its proofs; `Scheduler`, `TaskBlock`,
   `WorkStealingDeque`, `MpmcQueue`, `Timer`.
2. Done: `StaticTaskGraph`, `Versioned`, `Deferred`, `EventBus`, `ParallelFor`,
   `Coroutine` (with frame gate, registry and detector), `BusyTracking`, `GraphTrace`.
3. Done: proofs about `Pipe` (FIFO, references and the safety part of the refinement
   included), `WorkStealingDeque`, `MpmcQueue`, `Versioned`, `ParallelFor`, `BusyTracking`,
   `StaticTaskGraph`, `TaskBlock`, `Scheduler`, `Deferred` and `EventBus`.
4. A proof to come: `FateKept` of `Timer`.
