------------------------------- MODULE Timer -------------------------------
(***************************************************************************)
(* Cancellation (include/ts/cancellation.h) and the timed waits built on   *)
(* it (src/timer.cpp): one Cancellation_source, the Cancel_callbacks on    *)
(* its token, the timer thread with its heap of armed waits, the delivery  *)
(* of a due or cancelled wait to the scheduler, and timer_shutdown.        *)
(*                                                                         *)
(* Every critical section of the source's mutex and of the timer's is one  *)
(* action.  A wait is a block with a reference count and a Cancel_callback *)
(* inside it, so dropping the last reference runs ~Cancel_callback, which  *)
(* may have to sleep; a user callback is a Cancel_callback of its own.     *)
(***************************************************************************)
EXTENDS Integers, Sequences, FiniteSets

CONSTANTS
    Sleeps,         \* sleep_until calls
    Ticks,          \* Periodic::next calls, of one Periodic
    Users,          \* Cancel_callbacks the program registers itself
    Deadline,       \* Deadline[s]: the deadline sleep s is called with
    Period,         \* of the Periodic
    Programs,       \* programs: the threads, other than the timer's, that take part
    Requesters,     \* the threads that call request_cancel
    MaxClock,       \* bound on the clock
    Timer, Closer,  \* the timer thread, and the thread that calls timer_shutdown
    None

Waits     == Sleeps \cup Ticks
Callbacks == Waits \cup Users
Threads   == Callbacks \cup Requesters \cup {Timer, Closer}    \* a call is named by its callback

ASSUME TimerAssumption ==
    /\ Sleeps \cap Ticks = {} /\ Users \cap Waits = {} /\ Requesters \cap Callbacks = {}
    /\ {Timer, Closer, None} \cap (Callbacks \cup Requesters) = {} /\ Timer # Closer
    /\ IsFiniteSet(Waits) /\ Programs \subseteq SUBSET (Threads \ {Timer})
    /\ Deadline \in [Sleeps -> Nat] /\ Period \in Nat \ {0} /\ MaxClock \in Nat

VARIABLES
    clock,
    \* --- Cancel_state
    requested, callbacks, firing,
    \* --- Timer_service
    heap,           \* heap_, earliest deadline first, FIFO among equal ones
    live,           \* the waits with timer_live set
    live_count,     \* live_
    stopping,       \* stopping_
    thread,         \* the timer thread: "none", "top", "parked", "fire", "exited"
    until,          \* the deadline it is parked for, or None
    spent,          \* spent[x]: entries whose references thread x is about to drop
    \* --- blocks
    refcount,
    life,           \* life[c]: "none", "alive", "dying" / "asleep" in ~Cancel_callback, "freed"
    deadline, next_deadline,
    result,         \* result[w]: "none", "completed" or "cancelled" (a tick: 0)
    \* --- the rest of the program
    external,       \* outstanding_external_waits
    queue,          \* blocks handed to the scheduler
    ran,            \* blocks whose dispatch has still to drop its reference
    pc,             \* pc[x]: the next statement of thread x, other than the timer
    hand,           \* hand[x]: the blocks thread x has to deliver
    sent,           \* sent[x]: the first of them is submitted, not yet uncounted
    lost            \* the waits timer_shutdown dropped

cancelVars == <<requested, callbacks, firing>>
timerVars  == <<heap, live, live_count, stopping, thread, until, spent>>
blockVars  == <<refcount, life, deadline, next_deadline, result>>
restVars   == <<external, queue, ran, pc, hand, sent, lost>>
vars == <<clock, cancelVars, timerVars, blockVars, restVars>>

Init ==
    /\ clock = 0
    /\ requested = FALSE /\ callbacks = <<>> /\ firing = None
    /\ heap = <<>> /\ live = {} /\ live_count = 0 /\ stopping = FALSE
    /\ thread = "none" /\ until = None /\ spent = [x \in {Timer, Closer} |-> <<>>]
    /\ refcount = [w \in Waits |-> 0]
    /\ life = [c \in Callbacks |-> "none"]
    /\ deadline = [w \in Waits |-> IF w \in Sleeps THEN Deadline[w] ELSE 0]
    /\ next_deadline = Period
    /\ result = [w \in Waits |-> "none"]
    /\ external = 0 /\ queue = {} /\ ran = {} /\ lost = {}
    /\ \E program \in Programs :
        pc = [x \in Threads |-> IF x \in program THEN "new" ELSE "absent"]
    /\ hand = [x \in Threads |-> <<>>]
    /\ sent = [x \in Threads |-> FALSE]

At(x, s)   == pc[x] = s
Goto(x, s) == pc' = [pc EXCEPT ![x] = s]

\* Time passes.
pass ==
    /\ clock < MaxClock /\ clock' = clock + 1
    /\ UNCHANGED <<cancelVars, timerVars, blockVars, restVars>>

\* No call of the timer while timer_shutdown runs, nor the other way round.
Unarmed    == {"absent", "new", "inline", "arm"}
MidCall    == {"inline", "arm", "wake", "register", "cancel", "deliver"}
NoShutdown == pc[Closer] \in {"absent", "new", "done"}

-----------------------------------------------------------------------------
(* The calls *)

\* Mutant: the next tick is due one period after this one was run.
settleDrifting(w) ==
    /\ result' = [result EXCEPT ![w] = IF requested THEN "cancelled" ELSE "completed"]
    /\ next_deadline' = IF w \in Sleeps \/ requested THEN next_deadline ELSE clock + Period

\* Executable::run settles a sleep whose token was requested as cancelled.  A tick's
\* body is Periodic::advance: 0 once the token was requested, else the grid points
\* passed.
settle(w) ==
    /\ result' = [result EXCEPT ![w] = IF requested THEN "cancelled" ELSE "completed"]
    /\ next_deadline' = IF w \in Sleeps \/ requested THEN next_deadline
                        ELSE next_deadline + Period * (1 + (clock - next_deadline) \div Period)

\* The call makes the block, whose handle it will return, and settles it at once if
\* the token is requested or the deadline has passed.
Call(w, due) ==
    /\ At(w, "new") /\ NoShutdown
    /\ life' = [life EXCEPT ![w] = "alive"]
    /\ refcount' = [refcount EXCEPT ![w] = 1]
    /\ deadline' = [deadline EXCEPT ![w] = due]
    /\ Goto(w, IF requested \/ due <= clock THEN "inline" ELSE "arm")
    /\ UNCHANGED <<clock, cancelVars, timerVars, next_deadline, result, external, queue, ran,
                   hand, sent, lost>>

sleep_until(w) == w \in Sleeps /\ Call(w, deadline[w])

Pending == {w \in Ticks \ lost : pc[w] \notin {"absent", "new"} /\ result[w] = "none"}

\* One consumer awaits next() at a time.
next(w) == w \in Ticks /\ Pending = {} /\ Call(w, next_deadline)

\* Periodic::reset, between ticks.
reset ==
    /\ Ticks # {} /\ Pending = {} /\ next_deadline # clock + Period
    /\ next_deadline' = clock + Period
    /\ UNCHANGED <<clock, cancelVars, timerVars, refcount, life, deadline, result, restVars>>

inline(w) ==
    /\ At(w, "inline")
    /\ settle(w)
    /\ Goto(w, "held")
    /\ UNCHANGED <<clock, cancelVars, timerVars, refcount, life, deadline, external, queue, ran,
                   hand, sent, lost>>

\* The heap with w behind every entry that is due no later.
Inserted(w) ==
    SelectSeq(heap, LAMBDA e : deadline[e] <= deadline[w]) \o <<w>>
    \o SelectSeq(heap, LAMBDA e : deadline[e] > deadline[w])

\* Mutant: the thread is woken for the first entry only.
armWakeFirst(w) ==
    /\ At(w, "arm")
    /\ thread' = IF thread = "none" THEN "top" ELSE thread
    /\ stopping' = (stopping /\ thread # "none")
    /\ live' = live \cup {w} /\ live_count' = live_count + 1 /\ external' = external + 1
    /\ refcount' = [refcount EXCEPT ![w] = @ + 1]
    /\ Goto(w, IF heap = <<>> THEN "wake" ELSE "register")
    /\ heap' = Inserted(w)
    /\ UNCHANGED <<clock, cancelVars, until, spent, life, deadline, next_deadline, result,
                   queue, ran, hand, sent, lost>>

\* Timer_service::arm.  The first wait starts the thread.
arm(w) ==
    /\ At(w, "arm")
    /\ thread' = IF thread = "none" THEN "top" ELSE thread
    /\ stopping' = (stopping /\ thread # "none")
    /\ live' = live \cup {w} /\ live_count' = live_count + 1 /\ external' = external + 1
    /\ refcount' = [refcount EXCEPT ![w] = @ + 1]
    /\ Goto(w, IF heap = <<>> \/ deadline[w] < deadline[Head(heap)] THEN "wake" ELSE "register")
    /\ heap' = Inserted(w)
    /\ UNCHANGED <<clock, cancelVars, until, spent, life, deadline, next_deadline, result,
                   queue, ran, hand, sent, lost>>

\* cv_.notify_one: the timer thread, if it is parked, goes round its loop.
notify == thread' = IF thread = "parked" THEN "top" ELSE thread

wake(w) ==
    /\ At(w, "wake") /\ w \in Waits
    /\ notify /\ Goto(w, "register")
    /\ UNCHANGED <<clock, cancelVars, heap, live, live_count, stopping, until, spent, blockVars,
                   external, queue, ran, hand, sent, lost>>

\* A user callback comes into being.
construct(u) ==
    /\ u \in Users /\ At(u, "new")
    /\ life' = [life EXCEPT ![u] = "alive"]
    /\ Goto(u, "register")
    /\ UNCHANGED <<clock, cancelVars, timerVars, refcount, deadline, next_deadline, result,
                   external, queue, ran, hand, sent, lost>>

\* Cancel_callback's constructor: registered, or fired right here.
register(c) ==
    /\ At(c, "register")
    /\ \/ /\ requested /\ Goto(c, IF c \in Waits THEN "cancel" ELSE "held")
          /\ UNCHANGED callbacks
       \/ /\ ~requested /\ Goto(c, "held")
          /\ callbacks' = Append(callbacks, c)
    /\ UNCHANGED <<clock, requested, firing, timerVars, blockVars, external, queue, ran, hand,
                   sent, lost>>

-----------------------------------------------------------------------------
(* Cancelling and delivering *)

\* Mutant: the wait is taken whether or not it is still live.
takeBlind(x, w) ==
    /\ live' = live \ {w} /\ live_count' = live_count - 1
    /\ refcount' = [refcount EXCEPT ![w] = @ + 1]
    /\ hand' = [hand EXCEPT ![x] = <<w>>]

\* Timer_service::cancel: a live wait is taken with a reference of its own; its entry
\* stays in the heap.
cancel(x, w) ==
    IF w \in live
    THEN /\ live' = live \ {w} /\ live_count' = live_count - 1
         /\ refcount' = [refcount EXCEPT ![w] = @ + 1]
         /\ hand' = [hand EXCEPT ![x] = <<w>>]
    ELSE UNCHANGED <<live, live_count, refcount, hand>>

\* The constructor found the token requested.
cancel_in_ctor(w) ==
    /\ At(w, "cancel") /\ cancel(w, w) /\ Goto(w, "deliver")
    /\ UNCHANGED <<clock, cancelVars, heap, stopping, thread, until, spent, life, deadline,
                   next_deadline, result, external, queue, ran, sent, lost>>

ctor_done(w) ==
    /\ At(w, "deliver") /\ hand[w] = <<>> /\ w \in Waits
    /\ Goto(w, "held")
    /\ UNCHANGED <<clock, cancelVars, timerVars, blockVars, external, queue, ran, hand, sent, lost>>

\* deliver: submit_ready, then the external wait is released.
deliver(x) ==
    /\ hand[x] # <<>>
    /\ \/ /\ ~sent[x] /\ queue' = queue \cup {Head(hand[x])}
          /\ sent' = [sent EXCEPT ![x] = TRUE] /\ UNCHANGED <<external, hand>>
       \/ /\ sent[x] /\ external' = external - 1
          /\ sent' = [sent EXCEPT ![x] = FALSE] /\ hand' = [hand EXCEPT ![x] = Tail(@)]
          /\ UNCHANGED queue
    /\ UNCHANGED <<clock, cancelVars, timerVars, blockVars, ran, pc, lost>>

\* The newest callback is popped and published as the one being fired.
Pop(r) ==
    IF callbacks = <<>>
    THEN firing' = None /\ UNCHANGED callbacks /\ Goto(r, "done")
    ELSE /\ firing' = callbacks[Len(callbacks)]
         /\ callbacks' = SubSeq(callbacks, 1, Len(callbacks) - 1)
         /\ Goto(r, "invoke")

\* The first request wins; the others return.
request_cancel(r) ==
    /\ r \in Requesters /\ At(r, "new")
    /\ requested' = TRUE
    /\ IF requested THEN Goto(r, "done") /\ UNCHANGED <<callbacks, firing>> ELSE Pop(r)
    /\ UNCHANGED <<clock, timerVars, blockVars, external, queue, ran, hand, sent, lost>>

\* The callback runs outside the lock: a wait's is Timer_service::cancel.
invoke_wait(r) ==
    /\ At(r, "invoke") /\ firing \in Waits
    /\ cancel(r, firing)
    /\ Goto(r, "return")
    /\ UNCHANGED <<clock, cancelVars, heap, stopping, thread, until, spent, life, deadline,
                   next_deadline, result, external, queue, ran, sent, lost>>

\* A program's own returns, or destroys its Cancel_callback first: ~Cancel_callback finds
\* itself on the firing thread, and detaches.
invoke_user(r) ==
    /\ At(r, "invoke") /\ firing \in Users
    /\ \/ Goto(r, "return") /\ UNCHANGED life
       \/ /\ At(firing, "held")
          /\ life' = [life EXCEPT ![firing] = "freed"]
          /\ pc' = [pc EXCEPT ![r] = "return", ![firing] = "detached"]
    /\ UNCHANGED <<clock, cancelVars, timerVars, refcount, deadline, next_deadline, result,
                   external, queue, ran, hand, sent, lost>>

\* The callback has returned: firing is cleared, the destructors asleep on it are
\* notified, and the next callback is popped in the same critical section.
refire(r) ==
    /\ At(r, "return") /\ hand[r] = <<>>
    /\ Pop(r)
    /\ life' = [c \in Callbacks |-> IF life[c] = "asleep" THEN "dying" ELSE life[c]]
    /\ UNCHANGED <<clock, requested, timerVars, refcount, deadline, next_deadline, result,
                   external, queue, ran, hand, sent, lost>>

-----------------------------------------------------------------------------
(* Workers and references *)

\* A worker runs a delivered block,
run_block(w) ==
    /\ w \in queue
    /\ settle(w)
    /\ queue' = queue \ {w} /\ ran' = ran \cup {w}
    /\ UNCHANGED <<clock, cancelVars, timerVars, refcount, life, deadline, external, pc, hand,
                   sent, lost>>

\* One reference less; the last one starts the block's destruction.
Unref(w) ==
    /\ refcount' = [refcount EXCEPT ![w] = @ - 1]
    /\ life' = [life EXCEPT ![w] = IF refcount[w] = 1 THEN "dying" ELSE @]

\* and drops the scheduler's reference.
unref_run(w) ==
    /\ w \in ran /\ ran' = ran \ {w} /\ Unref(w)
    /\ UNCHANGED <<clock, cancelVars, timerVars, deadline, next_deadline, result, external,
                   queue, pc, hand, sent, lost>>

\* The program drops the Task it got, whenever it likes.
drop_handle(w) ==
    /\ w \in Waits /\ At(w, "held") /\ Goto(w, "gone") /\ Unref(w)
    /\ UNCHANGED <<clock, cancelVars, timerVars, deadline, next_deadline, result, external,
                   queue, ran, hand, sent, lost>>

\* The program destroys a callback of its own.
destroy_user(u) ==
    /\ u \in Users /\ At(u, "held") /\ Goto(u, "gone")
    /\ life' = [life EXCEPT ![u] = "dying"]
    /\ UNCHANGED <<clock, cancelVars, timerVars, refcount, deadline, next_deadline, result,
                   external, queue, ran, hand, sent, lost>>

\* ~Cancel_callback, after which the block is freed: deregistered if not yet fired; asleep
\* until notified if another thread is in it.
destroy_callback(c) ==
    /\ life[c] = "dying"
    /\ callbacks' = SelectSeq(callbacks, LAMBDA d : d # c)
    /\ life' = [life EXCEPT ![c] = IF firing = c THEN "asleep" ELSE "freed"]
    /\ UNCHANGED <<clock, requested, firing, timerVars, refcount, deadline, next_deadline,
                   result, restVars>>

\* The timer thread and the closer drop heap references one at a time, and sit through
\* the destruction of a block whose last one it was.
release(x) ==
    /\ spent[x] # <<>>
    /\ LET w == Head(spent[x])
           pop == spent' = [spent EXCEPT ![x] = Tail(@)]
       IN \/ life[w] = "alive" /\ Unref(w) /\ IF refcount[w] = 1 THEN UNCHANGED spent ELSE pop
          \/ life[w] = "freed" /\ pop /\ UNCHANGED <<refcount, life>>
    /\ IF x = Timer THEN thread = "fire" /\ hand[Timer] = <<>> ELSE At(x, "release")
    /\ UNCHANGED <<clock, cancelVars, heap, live, live_count, stopping, thread, until, deadline,
                   next_deadline, result, restVars>>

-----------------------------------------------------------------------------
(* The timer thread *)

\* The heap entry is due.
Due(e) == deadline[e] <= clock

\* Timer_service::run, the top of the loop: exit, park, or take every due entry, the live
\* ones to deliver and the cancelled ones to drop.
run ==
    /\ thread = "top"
    /\ LET due == SelectSeq(heap, Due)
       IN IF stopping
          THEN thread' = "exited" /\ UNCHANGED <<heap, live, live_count, until, spent, hand>>
          ELSE IF due = <<>>
          THEN /\ thread' = "parked"
               /\ until' = IF heap = <<>> THEN None ELSE deadline[Head(heap)]
               /\ UNCHANGED <<heap, live, live_count, spent, hand>>
          ELSE /\ thread' = "fire"
               /\ heap' = SelectSeq(heap, LAMBDA e : ~Due(e))
               /\ hand' = [hand EXCEPT ![Timer] = SelectSeq(due, LAMBDA e : e \in live)]
               /\ spent' = [spent EXCEPT ![Timer] = SelectSeq(due, LAMBDA e : e \notin live)]
               /\ live' = live \ {due[i] : i \in DOMAIN due}
               /\ live_count' = live_count - Len(SelectSeq(due, LAMBDA e : e \in live))
               /\ UNCHANGED until
    /\ UNCHANGED <<clock, cancelVars, stopping, blockVars, external, queue, ran, pc, sent, lost>>

\* Everything due is delivered or dropped.
loop ==
    /\ thread = "fire" /\ hand[Timer] = <<>> /\ spent[Timer] = <<>>
    /\ thread' = "top"
    /\ UNCHANGED <<clock, cancelVars, heap, live, live_count, stopping, until, spent, blockVars,
                   restVars>>

\* park returns: the deadline has come,
timeout ==
    /\ thread = "parked" /\ until # None /\ clock >= until
    /\ thread' = "top"
    /\ UNCHANGED <<clock, cancelVars, heap, live, live_count, stopping, until, spent, blockVars,
                   restVars>>

\* or for no reason at all.
spurious ==
    /\ thread = "parked" /\ thread' = "top"
    /\ UNCHANGED <<clock, cancelVars, heap, live, live_count, stopping, until, spent, blockVars,
                   restVars>>

-----------------------------------------------------------------------------
(* timer_shutdown *)

\* Every armed wait is dropped: it will never be delivered.  (With check_armed set, an
\* armed wait is fatal instead.)
shutdown ==
    /\ At(Closer, "new") /\ \A w \in Waits : pc[w] \notin MidCall
    /\ IF thread = "none"
       THEN Goto(Closer, "done") /\ UNCHANGED <<stopping, lost, live, live_count, external, spent, heap>>
       ELSE /\ Goto(Closer, "stop")
            /\ stopping' = TRUE
            /\ lost' = lost \cup live /\ external' = external - Cardinality(live)
            /\ live' = {} /\ live_count' = 0
            /\ spent' = [spent EXCEPT ![Closer] = heap] /\ heap' = <<>>
    /\ UNCHANGED <<clock, cancelVars, thread, until, blockVars, queue, ran, hand, sent>>

stop ==
    /\ At(Closer, "stop") /\ notify /\ Goto(Closer, "join")
    /\ UNCHANGED <<clock, cancelVars, heap, live, live_count, stopping, until, spent, blockVars,
                   external, queue, ran, hand, sent, lost>>

join ==
    /\ At(Closer, "join") /\ thread = "exited"
    /\ thread' = "none" /\ Goto(Closer, "release")
    /\ UNCHANGED <<clock, cancelVars, heap, live, live_count, stopping, until, spent, blockVars,
                   external, queue, ran, hand, sent, lost>>

closed ==
    /\ At(Closer, "release") /\ spent[Closer] = <<>> /\ Goto(Closer, "done")
    /\ UNCHANGED <<clock, cancelVars, timerVars, blockVars, external, queue, ran, hand, sent, lost>>

-----------------------------------------------------------------------------
CallStep(w) ==
    inline(w) \/ arm(w) \/ wake(w) \/ register(w) \/ cancel_in_ctor(w) \/ ctor_done(w) \/ deliver(w)
RequestStep(r) == invoke_wait(r) \/ invoke_user(r) \/ refire(r) \/ deliver(r)
TimerStep == run \/ loop \/ timeout \/ deliver(Timer) \/ release(Timer)
CloserStep == stop \/ join \/ closed \/ release(Closer)
WorkerStep(w) == run_block(w) \/ unref_run(w)

\* What the program does of its own accord.
ProgramStep ==
    \/ \E w \in Waits : sleep_until(w) \/ next(w) \/ drop_handle(w)
    \/ \E u \in Users : construct(u) \/ destroy_user(u)
    \/ \E r \in Requesters : request_cancel(r)
    \/ reset \/ shutdown \/ pass \/ spurious

Next ==
    \/ ProgramStep \/ TimerStep \/ CloserStep
    \/ \E c \in Callbacks : CallStep(c) \/ destroy_callback(c)
    \/ \E w \in Waits : WorkerStep(w)
    \/ \E r \in Requesters : RequestStep(r)

\* A thread inside a call of the library keeps running; the program need never call.
Fairness ==
    /\ WF_vars(TimerStep) /\ WF_vars(CloserStep)
    /\ \A c \in Callbacks : WF_vars(CallStep(c)) /\ WF_vars(destroy_callback(c))
    /\ \A w \in Waits : WF_vars(WorkerStep(w))
    /\ \A r \in Requesters : WF_vars(RequestStep(r))

Spec == Init /\ [][Next]_vars /\ Fairness

-----------------------------------------------------------------------------
(* Properties *)

Entries(s) == {s[i] : i \in DOMAIN s}
Count(b)   == IF b THEN 1 ELSE 0

\* The blocks thread x owns on their way to the scheduler.
Unsent(x) == Entries(IF sent[x] THEN Tail(hand[x]) ELSE hand[x])

\* Every variable has its type: the counters of timer.cpp never go below zero.
TypeOK ==
    /\ clock \in 0 .. MaxClock /\ requested \in BOOLEAN /\ stopping \in BOOLEAN
    /\ firing \in Callbacks \cup {None} /\ Entries(callbacks) \subseteq Callbacks
    /\ Entries(heap) \subseteq Waits /\ live \subseteq Waits /\ lost \subseteq Waits
    /\ live_count \in Nat /\ external \in Nat
    /\ thread \in {"none", "top", "parked", "fire", "exited"} /\ until \in Nat \cup {None}
    /\ \A x \in {Timer, Closer} : Entries(spent[x]) \subseteq Waits
    /\ refcount \in [Waits -> Nat] /\ deadline \in [Waits -> Nat] /\ next_deadline \in Nat
    /\ life \in [Callbacks -> {"none", "alive", "dying", "asleep", "freed"}]
    /\ result \in [Waits -> {"none", "completed", "cancelled"}]
    /\ queue \subseteq Waits /\ ran \subseteq Waits
    /\ \A x \in Threads : Entries(hand[x]) \subseteq Waits /\ sent[x] \in BOOLEAN

\* The references to block w that somebody holds.
Refs(w) ==
    Count(pc[w] \notin {"absent", "new", "gone"}) + Count(w \in Entries(heap)) + Count(w \in queue)
    + Count(w \in ran) + Cardinality({x \in Threads : w \in Unsent(x)})
    + Cardinality({x \in {Timer, Closer} : life[w] = "alive" /\ w \in Entries(spent[x])})

\* No thread is left with a pointer into freed memory: a block's count is the number of
\* references held, a callback is gone only when it is neither registered nor being run,
\* save by the callback that destroyed itself, and whatever is reachable is alive.
NoUseAfterFree ==
    /\ \A w \in Waits : refcount[w] = Refs(w) /\ (Refs(w) > 0 => life[w] = "alive")
    /\ \A c \in Callbacks :
           life[c] = "freed" => c \notin Entries(callbacks) /\ (firing = c => At(c, "detached"))

\* An armed wait has exactly one fate, whichever way a deadline, a cancel in its own
\* constructor, request_cancel and timer_shutdown race: it is armed, or on its way through
\* one thread's hands, or queued, or settled, or dropped by the shutdown.
ExactlyOneFate ==
    \A w \in Waits :
        Count(w \in live) + Count(w \in queue) + Count(result[w] # "none") + Count(w \in lost)
        + Cardinality({x \in Threads : w \in Unsent(x)})
        = Count(pc[w] \notin Unarmed)

\* The deadlock net is told of every wait that no worker can see: a wait is counted from
\* its arming until after it is queued, and live_ counts the armed ones.
WaitsCounted ==
    /\ live_count = Cardinality(live) /\ live \subseteq Entries(heap)
    /\ external = Cardinality(live) + Cardinality({x \in Threads : sent[x]})
                  + Cardinality({w \in Waits : \E x \in Threads : w \in Unsent(x)})

\* No wait completes before its deadline, whatever woke the timer thread and whichever
\* entries were due or cancelled when it looked.
NeverEarly == \A w \in Waits : result[w] = "completed" => deadline[w] <= clock

\* A Periodic's next deadline moves by whole periods, to the one grid point in the
\* coming period, however late the tick was run: the grid does not drift, there is no
\* backlog of missed ticks, and none is skipped that is not due.  Only reset moves the
\* grid, to one period from now.
GridKept ==
    [][next_deadline' # next_deadline =>
          /\ clock < next_deadline' /\ next_deadline' <= clock + Period
          /\ reset \/ next_deadline' % Period = next_deadline % Period]_vars

\* Every wait has one fate, the deadlock net knows of it until then, and what any thread
\* can still reach is alive until then.
FateKept == TypeOK /\ ExactlyOneFate /\ WaitsCounted /\ NoUseAfterFree

\* No wait ends before its time, and a Periodic's deadlines stay on the grid.
OnTime == []NeverEarly /\ GridKept

\* An armed wait whose deadline has passed or whose token is requested settles, unless
\* the shutdown drops it: no wakeup of the timer thread is lost, however the arming of
\* an earlier deadline races its parking.  A destructor and timer_shutdown return: a
\* ~Cancel_callback asleep on a callback another thread is in is notified, also when
\* it is the timer thread that the closer joins.  (Each of these happens once.)
WaitsAndTeardownsEnd ==
    <>[](/\ \A w \in Waits : pc[w] \notin Unarmed /\ (requested \/ clock >= deadline[w])
                => result[w] # "none" \/ w \in lost
         /\ \A c \in Callbacks : life[c] \notin {"dying", "asleep"}
         /\ pc[Closer] \in {"absent", "new", "done"})
=============================================================================
