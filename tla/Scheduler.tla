----------------------------- MODULE Scheduler -----------------------------
(***************************************************************************)
(* The worker pool (src/scheduler.cpp, src/worker_thread.cpp): submission, *)
(* the find_work scan, the three idle policies on the eventcount, yield    *)
(* points, and shutdown.                                                   *)
(*                                                                         *)
(* The shared atomics are read and written in separate actions, so that    *)
(* the workers' scans, the producers' pushes and their wake-ups interleave *)
(* at the grain of the code; a worker's own advisory count (the yield      *)
(* signal after a pop, the idle mark, the spinner mark) moves together     *)
(* with the statement before it.  The two queue classes are used by their  *)
(* interface: an Mpmc_queue is a FIFO whose slots are claimed first and    *)
(* published later, and pops nothing while its oldest slot is unpublished; *)
(* a Work_stealing_deque gives a thief its top entry only if the top index *)
(* has not moved since the thief read it.                                  *)
(***************************************************************************)
EXTENDS Naturals, Sequences, FiniteSets

CONSTANTS
    N,              \* the number of workers
    Tasks,          \* the task entries that may be submitted, each once
    NoTask,
    Priority,       \* Priority[t]: "high", "normal" or "low"
    Spawns,         \* Spawns[t]: the entries t's body submits, in order
    Externals,      \* the non-worker threads that submit work
    Program,        \* Program[e]: the entries thread e submits, in order
    Policies,       \* the Idle_policy values a scheduler may be configured with
    SpinCycles,     \* Scheduler_config::spin_cycles
    DequeCap,       \* the capacity of a local deque
    LowValve,       \* low_valve_threshold
    GlobalValve     \* global_valve_threshold

Workers == 1..N
Actors  == Workers \cup Externals
Classes == {"high", "normal", "low"}

ASSUME SchedulerAssumption ==
    /\ N \in Nat \ {0}
    /\ NoTask \notin Tasks
    /\ Externals \cap Workers = {}
    /\ Priority \in [Tasks -> Classes]
    /\ Spawns \in [Tasks -> Seq(Tasks)]
    /\ Program \in [Externals -> Seq(Tasks)]
    /\ Policies \subseteq {"spin", "spin_then_block", "handoff"}
    /\ {SpinCycles, DequeCap, LowValve, GlobalValve} \subseteq Nat
    \* each entry is submitted at one point of the program
    /\ \A e, f \in Externals : \A i \in DOMAIN Program[e], j \in DOMAIN Program[f] :
          Program[e][i] = Program[f][j] => e = f /\ i = j
    /\ \A t, u \in Tasks : \A i \in DOMAIN Spawns[t], j \in DOMAIN Spawns[u] :
          Spawns[t][i] = Spawns[u][j] => t = u /\ i = j
    /\ \A e \in Externals, t \in Tasks : \A i \in DOMAIN Program[e], j \in DOMAIN Spawns[t] :
          Program[e][i] # Spawns[t][j]

VARIABLES
    \* --- the queues
    queues,         \* queues[c]: the claimed slots of class c, oldest first: [task, ready]
    local_normal,   \* local_normal[w]: w's deque, top first
    top,            \* top[w]: the top index of w's deque
    yield_signal,   \* yield_signal[c]: the count a yield point reads, for "high" and "normal"
    \* --- the scheduler's flags and counters
    quit,           \* quit_
    num_spinning,   \* num_spinning_
    idle_workers,   \* idle_workers_
    idle_policy,    \* idle_policy_, fixed at construction
    dtor,           \* where ~Scheduler is: "no", "quit", "advanced", "joining"
    \* --- the threads
    worker,         \* worker[w]: w's thread, see Thread
    sig,            \* sig[a]: the next statement of a's submit or wake-up, "idle" outside
    sub,            \* sub[a]: the entry a is submitting
    issued,         \* issued[e]: how much of Program[e] has been submitted
    runs            \* runs[t]: how often t's body was started

queueVars == <<queues, local_normal, top, yield_signal>>
flagVars  == <<quit, num_spinning, idle_workers, idle_policy, dtor>>
subVars   == <<sig, sub, issued>>
vars == <<queueVars, flagVars, worker, subVars, runs>>

\* A worker outside find_work and the idle wait: their locals are gone.
Thread ==
    [pc           |-> "high",   \* the next statement
     from         |-> "main",   \* who called find_work: "main", "spin" or "park"
     got          |-> NoTask,   \* the entry find_work returned
     spins        |-> 0,        \* scans made in the current spin
     moved        |-> FALSE,    \* epoch_ has moved off the key park snapshotted
     victims      |-> <<>>,     \* the deques the steal loop has still to visit
     top_read     |-> 0,        \* the top index read by the steal under way
     place        |-> 1,        \* the queue all_empty reads next
     since_low    |-> 0,        \* find_work's thread-local counters
     since_global |-> 0,
     idle         |-> FALSE,    \* Worker_thread::main's `idle`
     frames       |-> <<>>]     \* bodies on the stack, innermost first: <<task, next spawn>>

Init ==
    /\ queues = [c \in Classes |-> <<>>]
    /\ local_normal = [w \in Workers |-> <<>>]
    /\ top = [w \in Workers |-> 0]
    /\ yield_signal = [c \in {"high", "normal"} |-> 0]
    /\ quit = FALSE /\ num_spinning = 0 /\ idle_workers = 0
    /\ idle_policy \in Policies /\ dtor = "no"
    /\ worker = [w \in Workers |-> Thread]
    /\ sig = [a \in Actors |-> "idle"]
    /\ sub = [a \in Actors |-> NoTask]
    /\ issued = [e \in Externals |-> 0]
    /\ runs = [t \in Tasks |-> 0]

At(w, s) == worker[w].pc = s

-----------------------------------------------------------------------------
(* submit *)

Then(a, s) == sig' = [sig EXCEPT ![a] = s]

\* The entry goes to the submitting worker's own deque if it is `normal` and there
\* is room, else to the class's global queue.
push(a) ==
    /\ sig[a] = "push"
    /\ LET fits == /\ a \in Workers /\ Priority[sub[a]] = "normal"
                   /\ Len(local_normal[a]) < DequeCap IN
       \/ /\ fits
          /\ local_normal' = [local_normal EXCEPT ![a] = Append(@, sub[a])]
          /\ Then(a, "signal")
       \/ /\ ~fits
          /\ Then(a, IF Priority[sub[a]] = "low" THEN "claim" ELSE "count")
          /\ UNCHANGED local_normal
    /\ UNCHANGED <<queues, top, yield_signal, flagVars, worker, sub, issued, runs>>

\* The yield-point count moves before the push.
count(a) ==
    /\ sig[a] = "count"
    /\ yield_signal' = [yield_signal EXCEPT ![Priority[sub[a]]] = @ + 1]
    /\ Then(a, "claim")
    /\ UNCHANGED <<queues, local_normal, top, flagVars, worker, sub, issued, runs>>

\* Mpmc_queue::push claims a slot, then publishes it.
claim(a) ==
    /\ sig[a] = "claim"
    /\ queues' = [queues EXCEPT ![Priority[sub[a]]] =
                    Append(@, [task |-> sub[a], ready |-> FALSE])]
    /\ Then(a, "publish")
    /\ UNCHANGED <<local_normal, top, yield_signal, flagVars, worker, sub, issued, runs>>

publish(a) ==
    /\ sig[a] = "publish"
    /\ \E i \in DOMAIN queues[Priority[sub[a]]] :
        /\ queues[Priority[sub[a]]][i].task = sub[a]
        /\ queues' = [queues EXCEPT ![Priority[sub[a]]][i].ready = TRUE]
    /\ Then(a, "signal")
    /\ UNCHANGED <<local_normal, top, yield_signal, flagVars, worker, sub, issued, runs>>

\* Event_count::advance: the epoch moves off the key of every park under way.
advance == worker' = [w \in Workers |-> [worker[w] EXCEPT !.moved = worker[w].from = "park"]]

\* signal_submit: move the epoch; then wake a worker, under `handoff` only if
\* nobody is spinning.
signal_submit(a) ==
    /\ sig[a] = "signal"
    /\ \/ /\ idle_policy = "spin"
          /\ Then(a, "idle")
          /\ UNCHANGED worker
       \/ /\ idle_policy # "spin"
          /\ advance
          /\ Then(a, IF idle_policy = "handoff" THEN "spinners" ELSE "wake")
    /\ UNCHANGED <<queueVars, flagVars, sub, issued, runs>>

spinners(a) ==
    /\ sig[a] = "spinners"
    /\ Then(a, IF num_spinning = 0 THEN "wake" ELSE "idle")
    /\ UNCHANGED <<queueVars, flagVars, worker, sub, issued, runs>>

Asleep == {w \in Workers : At(w, "asleep")}

\* One sleeper, if there is one, returns to commit_wait's value check.
rouse == IF Asleep = {} THEN UNCHANGED worker
         ELSE \E w \in Asleep : worker' = [worker EXCEPT ![w].pc = "commit"]

wake_one(a) ==
    /\ sig[a] = "wake"
    /\ Then(a, "idle")
    /\ rouse
    /\ UNCHANGED <<queueVars, flagVars, sub, issued, runs>>

-----------------------------------------------------------------------------
(* find_work: one action per attempt *)

Poppable(c) == queues[c] # <<>> /\ Head(queues[c]).ready
First(c) == Head(queues[c]).task

\* Mpmc_queue::pop, with the yield-point count that follows it.
pop(c) ==
    /\ queues' = [queues EXCEPT ![c] = Tail(@)]
    /\ yield_signal' = IF c = "low" THEN yield_signal
                                    ELSE [yield_signal EXCEPT ![c] = @ - 1]

Goto(w, s) == worker' = [worker EXCEPT ![w].pc = s]

\* find_work returns true with entry t and its counters at low and global; a
\* spinner under `handoff` first gives up its role.
Serve(w, t, low, global) ==
    LET next == IF worker[w].from = "spin" /\ idle_policy = "handoff"
                THEN "relinquish" ELSE "run" IN
    worker' = [worker EXCEPT ![w].pc = next, ![w].got = t,
                             ![w].since_low = low, ![w].since_global = global]

Older(w)  == worker[w].since_low + 1
Global(w) == worker[w].since_global

\* find_work returns false.
Miss(w) == Goto(w, CASE worker[w].from = "main" -> "quit_check"
                     [] worker[w].from = "spin" -> "spin_check"
                     [] worker[w].from = "park" -> "park_check")

\* The valves: the attempt that follows a miss on the high class, and the one that
\* follows a miss on the low class.
AfterLow(w)  == IF Global(w) >= GlobalValve THEN "global_valve" ELSE "take"
AfterHigh(w) == IF worker[w].since_low >= LowValve THEN "low_valve" ELSE AfterLow(w)

pop_high(w) ==
    /\ At(w, "high")
    /\ \/ Poppable("high") /\ pop("high") /\ Serve(w, First("high"), Older(w), Global(w))
       \/ ~Poppable("high") /\ Goto(w, AfterHigh(w)) /\ UNCHANGED <<queues, yield_signal>>
    /\ UNCHANGED <<local_normal, top, flagVars, subVars, runs>>

low_valve(w) ==
    /\ At(w, "low_valve")
    /\ \/ Poppable("low") /\ pop("low") /\ Serve(w, First("low"), 0, Global(w))
       \/ /\ ~Poppable("low")
          /\ worker' = [worker EXCEPT ![w].since_low = 0, ![w].pc = AfterLow(w)]
          /\ UNCHANGED <<queues, yield_signal>>
    /\ UNCHANGED <<local_normal, top, flagVars, subVars, runs>>

global_valve(w) ==
    /\ At(w, "global_valve")
    /\ \/ Poppable("normal") /\ pop("normal") /\ Serve(w, First("normal"), Older(w), 0)
       \/ /\ ~Poppable("normal")
          /\ worker' = [worker EXCEPT ![w].since_global = 0, ![w].pc = "take"]
          /\ UNCHANGED <<queues, yield_signal>>
    /\ UNCHANGED <<local_normal, top, flagVars, subVars, runs>>

\* Work_stealing_deque::take, from the bottom; taking the last entry moves the top.
take(w) ==
    /\ At(w, "take")
    /\ LET d == local_normal[w] IN
       \/ /\ d # <<>>
          /\ Serve(w, d[Len(d)], Older(w), Global(w) + 1)
          /\ local_normal' = [local_normal EXCEPT ![w] = SubSeq(d, 1, Len(d) - 1)]
          /\ top' = [top EXCEPT ![w] = IF Len(d) = 1 THEN @ + 1 ELSE @]
       \/ d = <<>> /\ Goto(w, "normal") /\ UNCHANGED <<local_normal, top>>
    /\ UNCHANGED <<queues, yield_signal, flagVars, subVars, runs>>

\* The victims of a steal scan: the other workers in turn, from a random one on, and
\* around.
Round(w, begin) == [i \in 1..(N - 1) |-> ((w + ((begin + i) % (N - 1))) % N) + 1]

pop_normal(w) ==
    /\ At(w, "normal")
    /\ \/ Poppable("normal") /\ pop("normal") /\ Serve(w, First("normal"), Older(w), 0)
       \/ /\ ~Poppable("normal")
          /\ \E begin \in Workers :
                worker' = [worker EXCEPT ![w].pc = "steal", ![w].victims = Round(w, begin)]
          /\ UNCHANGED <<queues, yield_signal>>
    /\ UNCHANGED <<local_normal, top, flagVars, subVars, runs>>

Victim(w) == Head(worker[w].victims)

\* Work_stealing_deque::steal reads the victim's indices ...
steal(w) ==
    /\ At(w, "steal")
    /\ \/ worker[w].victims = <<>> /\ Goto(w, "low")
       \/ /\ worker[w].victims # <<>> /\ local_normal[Victim(w)] = <<>>
          /\ worker' = [worker EXCEPT ![w].victims = Tail(@)]
       \/ /\ worker[w].victims # <<>> /\ local_normal[Victim(w)] # <<>>
          /\ worker' = [worker EXCEPT ![w].top_read = top[Victim(w)], ![w].pc = "steal_cas"]
    /\ UNCHANGED <<queueVars, flagVars, subVars, runs>>

\* Mutant: the compare-and-swap does not look at the top the thief read.
steal_casBlind(w) ==
    /\ At(w, "steal_cas")
    /\ LET v == Victim(w) IN
       \/ /\ local_normal[v] # <<>>
          /\ Serve(w, Head(local_normal[v]), Older(w), Global(w))
          /\ top' = [top EXCEPT ![v] = @ + 1]
       \/ /\ local_normal[v] = <<>>
          /\ worker' = [worker EXCEPT ![w].victims = Tail(@), ![w].pc = "steal"]
          /\ UNCHANGED top
    /\ UNCHANGED <<local_normal, queues, yield_signal, flagVars, subVars, runs>>

\* ... and takes the top entry by a compare-and-swap that fails if the top moved.
steal_cas(w) ==
    /\ At(w, "steal_cas")
    /\ LET v == Victim(w) IN
       \/ /\ top[v] = worker[w].top_read
          /\ Serve(w, Head(local_normal[v]), Older(w), Global(w))
          /\ local_normal' = [local_normal EXCEPT ![v] = Tail(@)]
          /\ top' = [top EXCEPT ![v] = @ + 1]
       \/ /\ top[v] # worker[w].top_read
          /\ worker' = [worker EXCEPT ![w].victims = Tail(@), ![w].pc = "steal"]
          /\ UNCHANGED <<local_normal, top>>
    /\ UNCHANGED <<queues, yield_signal, flagVars, subVars, runs>>

pop_low(w) ==
    /\ At(w, "low")
    /\ \/ Poppable("low") /\ pop("low") /\ Serve(w, First("low"), 0, Global(w))
       \/ ~Poppable("low") /\ Miss(w) /\ UNCHANGED <<queues, yield_signal>>
    /\ UNCHANGED <<local_normal, top, flagVars, subVars, runs>>

-----------------------------------------------------------------------------
(* Worker_thread::main and the idle policies *)

\* Back to the top of the worker loop.
Fresh(w) == [Thread EXCEPT !.since_low = worker[w].since_low,
                           !.since_global = Global(w), !.idle = worker[w].idle]
Loop(w) == worker' = [worker EXCEPT ![w] = Fresh(w)]

\* idle_workers after mark(now_idle), which counts crossings only.
Marked(w, now_idle) ==
    CASE now_idle /\ ~worker[w].idle -> idle_workers + 1
      [] ~now_idle /\ worker[w].idle -> idle_workers - 1
      [] OTHER -> idle_workers

\* No work found anywhere: leave only on quit_ and all_empty().
quit_check(w) ==
    /\ At(w, "quit_check")
    /\ Goto(w, IF quit THEN "all_empty" ELSE "go_idle")
    /\ UNCHANGED <<queueVars, flagVars, subVars, runs>>

\* all_empty reads the queues and the deques one after the other.  A slot counts
\* from its claim on.
Class == <<"high", "normal", "low">>
IsEmpty(i) == IF i <= 3 THEN queues[Class[i]] = <<>> ELSE local_normal[i - 3] = <<>>

all_empty(w) ==
    /\ At(w, "all_empty")
    /\ LET i == worker[w].place IN
       \/ ~IsEmpty(i) /\ Goto(w, "go_idle") /\ UNCHANGED idle_workers
       \/ /\ IsEmpty(i) /\ i < 3 + N
          /\ worker' = [worker EXCEPT ![w].place = i + 1]
          /\ UNCHANGED idle_workers
       \/ /\ IsEmpty(i) /\ i = 3 + N
          /\ worker' = [worker EXCEPT ![w] = [Fresh(w) EXCEPT !.pc = "exited", !.idle = FALSE]]
          /\ idle_workers' = Marked(w, FALSE)
    /\ UNCHANGED <<queueVars, quit, num_spinning, idle_policy, dtor, subVars, runs>>

\* mark(true), then wait_for_work: `spin` yields and scans again, the other two
\* spin first, as a counted spinner under `handoff`.
wait_for_work(w) ==
    /\ At(w, "go_idle")
    /\ idle_workers' = Marked(w, TRUE)
    /\ num_spinning' = IF idle_policy = "handoff" THEN num_spinning + 1 ELSE num_spinning
    /\ worker' = [worker EXCEPT ![w] = [Fresh(w) EXCEPT
                    !.idle = TRUE,
                    !.from = IF idle_policy = "spin" THEN "main" ELSE "spin",
                    !.pc = IF idle_policy # "spin" /\ SpinCycles = 0
                           THEN "spun_out" ELSE "high"]]
    /\ UNCHANGED <<queueVars, quit, idle_policy, dtor, subVars, runs>>

\* num_spinning_ when a worker stops spinning.
OneLess == IF idle_policy = "handoff" THEN num_spinning - 1 ELSE num_spinning

\* One turn of spin_scan or of handoff_wait's loop found nothing.  On quit_ a
\* handoff spinner returns to the worker loop, spin_scan's caller goes on to park.
spin_check(w) ==
    /\ At(w, "spin_check")
    /\ LET n == worker[w].spins + 1 IN
       \/ quit /\ idle_policy = "handoff" /\ Loop(w) /\ num_spinning' = num_spinning - 1
       \/ quit /\ idle_policy # "handoff" /\ Goto(w, "prepare") /\ UNCHANGED num_spinning
       \/ /\ ~quit
          /\ worker' = [worker EXCEPT ![w].spins = n,
                                      ![w].pc = IF n < SpinCycles THEN "high" ELSE "spun_out"]
          /\ UNCHANGED num_spinning
    /\ UNCHANGED <<queueVars, quit, idle_workers, idle_policy, dtor, subVars, runs>>

\* The spin is over: no longer a spinner, park.
spun_out(w) ==
    /\ At(w, "spun_out")
    /\ Goto(w, "prepare")
    /\ num_spinning' = OneLess
    /\ UNCHANGED <<queueVars, quit, idle_workers, idle_policy, dtor, subVars, runs>>

\* handoff_wait found work: give up the role; the last spinner promotes a successor.
relinquish(w) ==
    /\ At(w, "relinquish")
    /\ Goto(w, "run")
    /\ num_spinning' = num_spinning - 1
    /\ IF num_spinning = 1 THEN Then(w, "promote") ELSE UNCHANGED sig
    /\ UNCHANGED <<queueVars, quit, idle_workers, idle_policy, dtor, sub, issued, runs>>

\* Event_count::notify_one, first half; wake_one follows.
promote(w) ==
    /\ sig[w] = "promote"
    /\ advance
    /\ Then(w, "wake")
    /\ UNCHANGED <<queueVars, flagVars, sub, issued, runs>>

\* Mutant: park does not scan again after it has snapshotted the epoch.
prepare_waitNoRescan(w) ==
    /\ At(w, "prepare")
    /\ worker' = [worker EXCEPT ![w].from = "park", ![w].pc = "park_check"]
    /\ UNCHANGED <<queueVars, flagVars, subVars, runs>>

\* park: snapshot the epoch, then scan once more.
prepare_wait(w) ==
    /\ At(w, "prepare")
    /\ worker' = [worker EXCEPT ![w].from = "park", ![w].pc = "high"]
    /\ UNCHANGED <<queueVars, flagVars, subVars, runs>>

park_check(w) ==
    /\ At(w, "park_check")
    /\ IF quit THEN Loop(w) ELSE Goto(w, "commit")
    /\ UNCHANGED <<queueVars, flagVars, subVars, runs>>

\* commit_wait, and the value check a woken worker makes: sleep while the epoch is
\* still the one park snapshotted.
commit_wait(w) ==
    /\ At(w, "commit")
    /\ IF worker[w].moved THEN Loop(w) ELSE Goto(w, "asleep")
    /\ UNCHANGED <<queueVars, flagVars, subVars, runs>>

-----------------------------------------------------------------------------
(* Bodies *)

Started(t) == runs' = [runs EXCEPT ![t] = @ + 1]

\* Mutant: the worker does not say that it is busy again.
run_taskUnmarked(w) ==
    /\ At(w, "run") /\ sig[w] = "idle"
    /\ worker' = [worker EXCEPT ![w] = [Fresh(w) EXCEPT
                    !.pc = "body", !.frames = <<<<worker[w].got, 1>>>>]]
    /\ Started(worker[w].got)
    /\ UNCHANGED <<queueVars, flagVars, subVars>>

\* mark(false), run_task.
run_task(w) ==
    /\ At(w, "run") /\ sig[w] = "idle"
    /\ idle_workers' = Marked(w, FALSE)
    /\ worker' = [worker EXCEPT ![w] = [Fresh(w) EXCEPT
                    !.pc = "body", !.idle = FALSE, !.frames = <<<<worker[w].got, 1>>>>]]
    /\ Started(worker[w].got)
    /\ UNCHANGED <<queueVars, quit, num_spinning, idle_policy, dtor, subVars>>

InBody(w)  == At(w, "body") /\ sig[w] = "idle"
Body(w)    == worker[w].frames[1][1]
Spawned(w) == worker[w].frames[1][2]

\* The innermost body submits its next entry.
spawn(w) ==
    /\ InBody(w) /\ Spawned(w) <= Len(Spawns[Body(w)])
    /\ sub' = [sub EXCEPT ![w] = Spawns[Body(w)][Spawned(w)]]
    /\ Then(w, "push")
    /\ worker' = [worker EXCEPT ![w].frames[1][2] = @ + 1]
    /\ UNCHANGED <<queueVars, flagVars, issued, runs>>

\* The innermost body returns; the outermost one returns to the worker loop.
return(w) ==
    /\ InBody(w) /\ Spawned(w) > Len(Spawns[Body(w)])
    /\ IF Len(worker[w].frames) = 1 THEN Loop(w)
       ELSE worker' = [worker EXCEPT ![w].frames = Tail(@)]
    /\ UNCHANGED <<queueVars, flagVars, subVars, runs>>

\* The class a yield point of w's body would run next, if any: `high`, or for a
\* `low` body the global `normal` queue.  A yield point inside the nested body and
\* one in a `high` body do nothing.
YieldsTo(w) ==
    IF Len(worker[w].frames) # 1 \/ Priority[Body(w)] = "high" THEN {}
    ELSE IF Poppable("high") THEN {"high"}
    ELSE IF Priority[Body(w)] = "low" /\ Poppable("normal") THEN {"normal"} ELSE {}

yield_to_higher(w) ==
    /\ InBody(w)
    /\ \E c \in YieldsTo(w) :
        /\ pop(c) /\ Started(First(c))
        /\ worker' = [worker EXCEPT ![w].frames = <<<<First(c), 1>>>> \o @]
    /\ UNCHANGED <<local_normal, top, flagVars, subVars>>

-----------------------------------------------------------------------------
(* External threads and ~Scheduler *)

issue(e) ==
    /\ sig[e] = "idle" /\ issued[e] < Len(Program[e])
    /\ sub' = [sub EXCEPT ![e] = Program[e][issued[e] + 1]]
    /\ Then(e, "push")
    /\ issued' = [issued EXCEPT ![e] = @ + 1]
    /\ UNCHANGED <<queueVars, flagVars, worker, runs>>

\* The program destroys the scheduler once no other thread uses it.
set_quit ==
    /\ dtor = "no" /\ \A e \in Externals : sig[e] = "idle" /\ issued[e] = Len(Program[e])
    /\ quit' = TRUE
    /\ dtor' = IF idle_policy = "spin" THEN "joining" ELSE "quit"
    /\ UNCHANGED <<queueVars, num_spinning, idle_workers, idle_policy, worker, subVars, runs>>

\* Event_count::notify_all: move the epoch, then wake every sleeper.
advance_all ==
    /\ dtor = "quit"
    /\ advance /\ dtor' = "advanced"
    /\ UNCHANGED <<queueVars, quit, num_spinning, idle_workers, idle_policy, subVars, runs>>

\* The rest of notify_all: every sleeper is woken.
wake_all ==
    /\ dtor = "advanced" /\ dtor' = "joining"
    /\ worker' = [w \in Workers |->
            IF w \in Asleep THEN [worker[w] EXCEPT !.pc = "commit"] ELSE worker[w]]
    /\ UNCHANGED <<queueVars, quit, num_spinning, idle_workers, idle_policy, subVars, runs>>

Exited == \A w \in Workers : At(w, "exited")

-----------------------------------------------------------------------------

Signalling(a) ==
    \/ push(a) \/ count(a) \/ claim(a) \/ publish(a)
    \/ signal_submit(a) \/ spinners(a) \/ wake_one(a)

FindWork(w) ==
    \/ pop_high(w) \/ low_valve(w) \/ global_valve(w) \/ take(w) \/ pop_normal(w)
    \/ steal(w) \/ steal_cas(w) \/ pop_low(w)

Idling(w) ==
    \/ quit_check(w) \/ all_empty(w) \/ wait_for_work(w) \/ spin_check(w) \/ spun_out(w)
    \/ relinquish(w) \/ promote(w) \/ prepare_wait(w) \/ park_check(w) \/ commit_wait(w)

WorkerStep(w) ==
    Signalling(w) \/ FindWork(w) \/ Idling(w) \/ run_task(w) \/ spawn(w) \/ return(w)

Destructor == set_quit \/ advance_all \/ wake_all

Next ==
    \/ \E w \in Workers : WorkerStep(w) \/ yield_to_higher(w)
    \/ \E e \in Externals : Signalling(e) \/ issue(e)
    \/ Destructor
    \/ Exited /\ UNCHANGED vars

SafetySpec == Init /\ [][Next]_vars

\* The operating system runs every thread that is not asleep, and bodies end.  No
\* thread need ever submit another entry or destroy the scheduler.
Fairness ==
    /\ \A w \in Workers : WF_vars(WorkerStep(w))
    /\ \A e \in Externals : WF_vars(Signalling(e))
    /\ WF_vars(advance_all \/ wake_all)

Spec == SafetySpec /\ Fairness

-----------------------------------------------------------------------------
(* Properties *)

\* Every variable keeps its type; in particular the counters of the yield points,
\* the spinners and the idle workers never drop below zero.
TypeOK ==
    /\ queues \in [Classes -> Seq([task : Tasks, ready : BOOLEAN])]
    /\ local_normal \in [Workers -> Seq(Tasks)]
    /\ \A w \in Workers : Len(local_normal[w]) <= DequeCap
    /\ top \in [Workers -> Nat]
    /\ yield_signal \in [{"high", "normal"} -> Nat]
    /\ quit \in BOOLEAN /\ dtor \in {"no", "quit", "advanced", "joining"}
    /\ num_spinning \in 0..N /\ idle_workers \in 0..N
    /\ DOMAIN worker = Workers
    /\ \A w \in Workers :
        /\ worker[w].got \in Tasks \cup {NoTask}
        /\ worker[w].moved \in BOOLEAN /\ worker[w].idle \in BOOLEAN
        /\ worker[w].frames \in Seq(Tasks \X (Nat \ {0}))
    /\ sub \in [Actors -> Tasks \cup {NoTask}]
    /\ runs \in [Tasks -> Nat]

\* Where an entry that has been pushed and not started can be.
InQueues(t) ==
    UNION {{<<"queue", c, i>> : i \in {j \in DOMAIN queues[c] : queues[c][j].task = t}} : c \in Classes}
InDeques(t) ==
    UNION {{<<"deque", w, i>> : i \in {j \in DOMAIN local_normal[w] : local_normal[w][j] = t}} :
                w \in Workers}
InHands(t) == {<<"hand", w, 0>> : w \in {v \in Workers : worker[v].got = t}}
Waiting(t) == InQueues(t) \cup InDeques(t) \cup InHands(t)

\* The entry's submit has gone past its push.
Pushed(t) ==
    \/ \E e \in Externals : \E i \in 1..issued[e] :
        Program[e][i] = t /\ (sub[e] = t => sig[e] \notin {"push", "count", "claim"})
    \/ \E u \in Tasks : runs[u] > 0 /\ \E i \in DOMAIN Spawns[u] : Spawns[u][i] = t /\
        \A w \in Workers :
            /\ \A j \in DOMAIN worker[w].frames :
                worker[w].frames[j][1] = u => i < worker[w].frames[j][2]
            /\ sub[w] = t => sig[w] \notin {"push", "count", "claim"}

\* Exactly once: an entry that has been pushed is in one place, a queue slot, a
\* deque cell or a worker's hand, or it has been started once, whatever races of
\* owners and thieves its deque has seen; an entry not pushed is nowhere.
ExactlyOnce ==
    \A t \in Tasks :
        Cardinality(Waiting(t)) + runs[t] = (IF Pushed(t) THEN 1 ELSE 0)

Quiet == \A a \in Actors : sig[a] = "idle"
NothingQueued ==
    (\A c \in Classes : queues[c] = <<>>) /\ (\A w \in Workers : local_normal[w] = <<>>)

\* No lost wake-up: when every worker sleeps and every submit has returned, nothing
\* is queued, under the eventcount's prepare, re-scan, commit protocol.
NoLostWakeup ==
    (\A w \in Workers : worker[w].pc \in {"asleep", "exited"}) /\ Quiet => NothingQueued

\* ~Scheduler drains: once the last worker has left, every entry submitted before
\* or by a drained task has been run, though all_empty is not an atomic check.
DrainedAtExit == Exited => NothingQueued /\ \A t \in Tasks : Pushed(t) => runs[t] = 1

\* No entry is lost, run twice, left while everybody sleeps or left behind at the end.
RunOnceAndDrained == ExactlyOnce /\ NoLostWakeup /\ DrainedAtExit

\* The yield points' counts never under-count the queues they stand for: submit
\* counts before it pushes, and every pop is followed by its own decrement.
YieldCountsCover ==
    \A c \in {"high", "normal"} : yield_signal[c] >= Len(queues[c])

\* quiescent() is never true while a body runs: a worker marks itself busy before
\* each body, on whichever path it found the entry.
QuiescentRunsNothing ==
    idle_workers = N => \A w \in Workers : worker[w].frames = <<>>

\* The scheduler's advisory counts err on the safe side, whichever worker is between
\* a count and the step it stands for.
CountsSafe == TypeOK /\ YieldCountsCover /\ QuiescentRunsNothing

\* Every pushed entry is eventually started, with no further submit and no shutdown
\* needed to wake somebody for it; once ~Scheduler has set quit_ every worker, asleep
\* or not, leaves and can be joined.  (Pushed, runs, quit and Exited only ever rise.)
WorkAndWorkersEnd ==
    <>[]((\A t \in Tasks : Pushed(t) => runs[t] = 1) /\ (quit => Exited))
=============================================================================
