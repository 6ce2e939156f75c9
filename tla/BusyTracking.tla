---------------------------- MODULE BusyTracking ----------------------------
(***************************************************************************)
(* The scheduler's profiling counters (include/ts/scheduler.h, compiled in *)
(* with TS_PROFILING): what a worker books while a traced graph run is     *)
(* armed, and what the run's begin and fold read.  `ticks` is the time a   *)
(* worker spent in tasks and in successful scans, `started` the start of   *)
(* the task in flight, `body` the time spent in user functors; the trace   *)
(* reports busy - body as the machinery's cost, so body must stay within   *)
(* busy and a reader must not drop a task that completes under its hands.  *)
(* A worker's task may yield once to a nested one, which is not timed but  *)
(* books its own functor.                                                  *)
(* A clock read and the store that follows it are one step, and a local is *)
(* zeroed once it is dead.  The counters only shown to the user are left   *)
(* out: the task count, the setup time, the per-node sink and the buckets. *)
(***************************************************************************)
EXTENDS Integers

CONSTANTS
    Slots,          \* the workers, one Busy_slot each
    MaxClock,       \* bound: the last tick
    MaxTraces       \* bound: traced runs, one at a time

\* A worker is known by the index of its slot.
ASSUME BusyAssumption == Slots \subseteq Nat

VARIABLES
    clock,              \* steady_clock
    busy_tracking,      \* busy_tracking_: a traced run is armed
    trace_owner_armed,  \* the same for the scopes inside tasks
    slot,               \* slot[w]: Busy_slot: [ticks, started, body]
    work,               \* work[w]: the worker's position and locals
    crossed,            \* workers that were in a yield entered while disarmed, under a
                        \* functor being timed, when the next run was armed
    tracer              \* the thread that begins and folds traced runs; short: the slots
                        \* whose value in the last snapshot fell short of the floor

busyVars == <<clock, busy_tracking, trace_owner_armed, slot, work, crossed, tracer>>

\* Trace_busy_scope's members; scope 1 is the task's functor, 2 the nested task's.
Scope == [active |-> FALSE, t0 |-> 0, nested0 |-> 0]

BusyInit ==
    /\ clock = 1
    /\ busy_tracking = 0 /\ trace_owner_armed = 0
    /\ slot = [w \in Slots |-> [ticks |-> 0, started |-> 0, body |-> 0]]
    /\ work = [w \in Slots |->
                 [pc |-> "loop", t0 |-> 0, scope |-> [k \in 1..2 |-> Scope],
                  dispatch0 |-> 0, nested_span |-> 0]]   \* counted from the task's start
    /\ crossed = {}
    /\ tracer = [pc |-> "off", folding |-> FALSE, now |-> 0, left |-> {}, ticks |-> 0,
                 started |-> 0, floor |-> [w \in Slots |-> 0], short |-> {}, traces |-> 0]

Tick == clock < MaxClock /\ clock' = clock + 1

-----------------------------------------------------------------------------
(* The worker *)

\* find_work_dispatch: a scan is timed when it starts armed.
find_work_dispatch(w) ==
    /\ work[w].pc = "loop"
    /\ work' = [work EXCEPT ![w].pc = "scan",
                            ![w].t0 = IF busy_tracking # 0 THEN clock ELSE 0]
    /\ UNCHANGED slot

\* It found a task: the scan is booked as busy.
scan_hit(w) ==
    /\ work[w].pc = "scan"
    /\ work' = [work EXCEPT ![w].pc = "found", ![w].t0 = 0]
    /\ slot' = [slot EXCEPT ![w].ticks = @ + IF work[w].t0 # 0 THEN clock - work[w].t0 ELSE 0]

\* It found nothing: that is idle time, charged to nobody.
scan_miss(w) ==
    /\ work[w].pc = "scan"
    /\ work' = [work EXCEPT ![w].pc = "loop", ![w].t0 = 0]
    /\ UNCHANGED slot

\* run_task: the task is timed when it starts armed.
begin_task(w) ==
    /\ work[w].pc = "found"
    /\ IF busy_tracking # 0
       THEN /\ work' = [work EXCEPT ![w].pc = "func", ![w].t0 = clock]
            /\ slot' = [slot EXCEPT ![w].started = clock]
       ELSE work' = [work EXCEPT ![w].pc = "func"] /\ UNCHANGED slot

in_timed_span(w) == slot[w].started # 0

\* Trace_busy_scope's constructor, for the task's functor (k = 1) or the nested one's.
OpenScope(w, k, from, to) ==
    /\ work[w].pc = from
    /\ work' = [work EXCEPT
         ![w].pc = to,
         ![w].scope[k] = IF trace_owner_armed # 0 /\ in_timed_span(w)
                         THEN [active |-> TRUE, t0 |-> clock, nested0 |-> work[w].nested_span]
                         ELSE Scope]
    /\ UNCHANGED slot

\* The scope's span less what tasks nested in it took.
OwnTime(w, k) ==
    clock - work[w].scope[k].t0 - (work[w].nested_span - work[w].scope[k].nested0)

\* Its destructor: trace_body_add.
CloseScope(w, k, from, to) ==
    /\ work[w].pc = from
    /\ work' = [work EXCEPT ![w].pc = to, ![w].scope[k] = Scope]
    /\ slot' = [slot EXCEPT
         ![w].body = @ + IF work[w].scope[k].active THEN OwnTime(w, k) ELSE 0]

open(w)         == OpenScope(w, 1, "func", "body")
close(w)        == CloseScope(w, 1, "body", "done")
open_nested(w)  == OpenScope(w, 2, "nested", "nested_body")
close_nested(w) == CloseScope(w, 2, "nested_body", "nested_done")

\* yield_to_higher with an entry to run: Nested_dispatch_scope's constructor.
yield_to_higher(w) ==
    /\ work[w].pc = "body"
    /\ work' = [work EXCEPT ![w].pc = "nested",
                            ![w].dispatch0 = IF trace_owner_armed # 0 THEN clock ELSE 0]
    /\ UNCHANGED slot

\* Its destructor adds the nested span to what the functor's scope will subtract.
yield_return(w) ==
    /\ work[w].pc = "nested_done"
    /\ work' = [work EXCEPT
         ![w].pc = "body", ![w].dispatch0 = 0,
         ![w].nested_span = @ + IF work[w].dispatch0 # 0 THEN clock - work[w].dispatch0 ELSE 0]
    /\ UNCHANGED slot

\* run_task's end: the span goes to `ticks` first, `started` is cleared after it.
end_task(w) ==
    /\ work[w].pc = "done"
    /\ IF work[w].t0 # 0
       THEN /\ slot' = [slot EXCEPT ![w].ticks = @ + clock - work[w].t0]
            /\ work' = [work EXCEPT ![w].pc = "clear", ![w].t0 = 0]
       ELSE /\ work' = [work EXCEPT ![w].pc = "loop", ![w].nested_span = 0]
            /\ UNCHANGED slot

clear_started(w) ==
    /\ work[w].pc = "clear"
    /\ work' = [work EXCEPT ![w].pc = "loop", ![w].nested_span = 0]
    /\ slot' = [slot EXCEPT ![w].started = 0]

-----------------------------------------------------------------------------
(* Trace_stamps: begin_run arms and takes a snapshot, fold takes another and  *)
(* disarms.                                                                   *)

Tracer(from, to) == tracer.pc = from /\ tracer' = [tracer EXCEPT !.pc = to]

\* The time a worker has been busy: what its completed spans add up to, and the
\* part of the one in flight that is not among them yet.
InFlight(w) == slot[w].started # 0 /\ work[w].pc # "clear"
Busy(w)     == slot[w].ticks + IF InFlight(w) THEN clock - slot[w].started ELSE 0

\* arm_busy_tracking: the workers' flag first, the scopes' second.
arm ==
    /\ tracer.traces < MaxTraces
    /\ tracer' = [tracer EXCEPT !.pc = "arming", !.traces = @ + 1]
    /\ tracer.pc = "off"
    /\ busy_tracking' = busy_tracking + 1
    /\ UNCHANGED <<trace_owner_armed, crossed>>

arm_scopes ==
    /\ Tracer("arming", "begin")
    /\ trace_owner_armed' = trace_owner_armed + 1
    /\ crossed' = crossed \cup
         {w \in Slots : /\ work[w].pc \in {"nested", "nested_body", "nested_done"}
                        /\ work[w].dispatch0 = 0 /\ work[w].scope[1].active}
    /\ UNCHANGED busy_tracking

\* busy_ticks: the clock, then each slot in turn.
read_clock ==
    /\ tracer.pc \in {"begin", "armed"}
    /\ tracer' = [tracer EXCEPT !.pc = "ticks", !.folding = tracer.pc = "armed",
                                !.now = clock, !.left = Slots,
                                !.floor = [w \in Slots |-> Busy(w)], !.short = {}]

Reading(w, from) == tracer.pc = from /\ w \in tracer.left /\ \A v \in tracer.left : w <= v

read_ticks(w) ==
    /\ Reading(w, "ticks")
    /\ tracer' = [tracer EXCEPT !.pc = "started", !.ticks = slot[w].ticks]

read_started(w) ==
    /\ Reading(w, "started")
    /\ tracer' = [tracer EXCEPT !.pc = "again", !.started = slot[w].started]

\* What the slot adds to the sum.
SlotValue ==
    tracer.ticks + IF tracer.started # 0 /\ tracer.now > tracer.started
                   THEN tracer.now - tracer.started ELSE 0

\* The slot is taken; the last one ends the snapshot.
Take(w) ==
    tracer' = [tracer EXCEPT !.ticks = 0, !.started = 0, !.floor[w] = 0, !.left = @ \ {w},
                             !.now = IF tracer.left # {w} THEN @ ELSE 0,
                             !.short = @ \cup {v \in {w} : SlotValue < tracer.floor[v]},
                             !.pc = IF tracer.left # {w} THEN "ticks"
                                    ELSE IF tracer.folding THEN "disarm" ELSE "armed"]

\* Mutant: the pair is taken as it was read.
read_againNever(w) == Reading(w, "again") /\ Take(w)

\* `ticks` changed under the read: once more.
read_again(w) ==
    /\ Reading(w, "again")
    /\ \/ slot[w].ticks # tracer.ticks /\ tracer' = [tracer EXCEPT !.pc = "ticks", !.ticks = 0, !.started = 0]
       \/ slot[w].ticks = tracer.ticks /\ Take(w)

\* disarm_busy_tracking: in the opposite order.
disarm_scopes ==
    /\ Tracer("disarm", "disarming")
    /\ trace_owner_armed' = trace_owner_armed - 1
    /\ UNCHANGED <<busy_tracking, crossed>>

disarm ==
    /\ Tracer("disarming", "off")
    /\ busy_tracking' = busy_tracking - 1
    /\ UNCHANGED <<trace_owner_armed, crossed>>

-----------------------------------------------------------------------------
WorkStep(w) ==
    \/ find_work_dispatch(w) \/ scan_hit(w) \/ scan_miss(w) \/ begin_task(w)
    \/ open(w) \/ close(w) \/ yield_to_higher(w) \/ open_nested(w) \/ close_nested(w)
    \/ yield_return(w) \/ end_task(w) \/ clear_started(w)

BusyNext ==
    \/ Tick /\ UNCHANGED <<busy_tracking, trace_owner_armed, slot, work, crossed, tracer>>
    \/ \E w \in Slots : WorkStep(w)
         /\ UNCHANGED <<clock, busy_tracking, trace_owner_armed, crossed, tracer>>
    \/ (arm \/ arm_scopes \/ disarm_scopes \/ disarm) /\ UNCHANGED <<clock, slot, work>>
    \/ (read_clock \/ \E w \in Slots : read_ticks(w) \/ read_started(w) \/ read_again(w))
         /\ UNCHANGED <<clock, busy_tracking, trace_owner_armed, slot, work, crossed>>

BusySpec == BusyInit /\ [][BusyNext]_busyVars

-----------------------------------------------------------------------------
(* Properties *)

\* busy_ticks drops no span: what it counts for a slot is at least what the worker
\* had been busy for when the clock was read, though the worker may complete its
\* task, and begin another, between the reader's loads.
SnapshotDropsNothing == tracer.short = {}

\* The functors' time is a part of the workers' busy time ("B is a sub-span of busy
\* by construction", trace_owner.h), so the machinery's share cannot be negative,
\* although three flags decide it at three places and a run may be armed or disarmed
\* between any two.  Except for a worker that was in a yield entered while disarmed,
\* under a functor still being timed, when the next run was armed: its nested functor
\* is booked twice.
BodyWithinBusy == \A w \in Slots \ crossed : slot[w].body <= Busy(w)

\* The two facts the trace's overhead figure rests on.
BusyExact == SnapshotDropsNothing /\ BodyWithinBusy
=============================================================================
