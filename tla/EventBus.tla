------------------------------ MODULE EventBus ------------------------------
(* An Event_bus over Deferred: publish and subscribe stage commands for the     *)
(* board, dispatch applies them under the board's write grant and delivers the  *)
(* events, disconnect takes effect at once.  One event type.                    *)
EXTENDS Deferred

CONSTANTS
    Threads,    \* the threads that publish and subscribe
    lane,       \* lane[t]: Parallel_recorder::lane on thread t
    NumLanes,   \* the workers and the lane of everybody else
    Events, Subs,
    Pinned,     \* the subscriptions with an owner
    Dispatch,   \* the dispatch node, or frame loop
    MaxDispatch \* bound on the dispatches

Calls     == Commits \cup Writers \cup Subs \cup {Dispatch}
Recorders == 1..MaxMinted \cup Threads

ASSUME EventBusAssumption ==
    /\ Uses \subseteq {"program", "bus"}
    /\ lane \in [Threads -> 1..NumLanes]
    /\ Pinned \subseteq Subs /\ MaxMinted \in Nat /\ MaxStaged \in Nat /\ NumLanes \in Nat
    \* the calls have different names, and None names nothing
    /\ Commits \cap Writers = {} /\ (Commits \cup Writers) \cap (Subs \cup {Dispatch}) = {}
    /\ Dispatch \notin Subs /\ Events \cap Subs = {}
    /\ {None, "discard"} \cap Calls = {} /\ None # "discard"
    /\ None \notin [rec : Nat, slot : Nat]

VARIABLES
    posted,     \* the events published and the subscriptions made
    dead,       \* the Sub_controls marked dead
    expired,    \* the owners that are gone
    subs,       \* the lane's subs
    events,     \* the lane's events
    next_sub,   \* the index dispatch_and_clear reaches next
    running,    \* the subscription whose handler is running, or None
    got,        \* got[s]: the events delivered to s
    dispatched, \* the events cleared from the lane
    dispatches  \* dispatches so far

bus  == <<posted, dead, expired, subs, events, next_sub, running, got, dispatched, dispatches>>
vars == <<deferred, bus>>

Init ==
    /\ use \in Uses
    /\ slots = IF use = "bus" THEN [i \in 1..NumLanes |-> <<>>] ELSE <<>>
    /\ free = <<>> /\ register = None /\ at = 0 /\ batch = <<>>
    /\ num_staged = [r \in Recorders |-> 0] /\ minted = 0
    /\ slot_of = [p \in Producers |-> None]
    /\ applied = <<>> /\ dropped = {} /\ pipe = IdlePipe
    /\ last_commit = None /\ pc = [c \in Calls |-> "out"] /\ life = "live"
    /\ posted = {} /\ dead = {} /\ expired = {} /\ subs = <<>> /\ events = <<>>
    /\ next_sub = 0 /\ running = None /\ got = [s \in Subs |-> <<>>]
    /\ dispatched = {} /\ dispatches = 0

\* Parallel_recorder::stage on the lane of the calling thread.
post(t, what) ==
    /\ use = "bus" /\ what \notin posted
    /\ Stage(t, lane[t], what)
    /\ posted' = posted \cup {what}
    /\ UNCHANGED <<use, free, register, at, batch, minted, slot_of, dropped, applied, pipe,
                   last_commit, pc, life, dead, expired, subs, events, next_sub, running,
                   got, dispatched, dispatches>>

publish(t, e) == post(t, e)

\* subscribe: the install is staged, the Connection returned.
add_subscription(t, s) == post(t, s)

-----------------------------------------------------------------------------
(* disconnect *)

\* The tombstone, before anything else.
disconnect(s) ==
    /\ use = "bus" /\ s \in posted /\ pc[s] = "out"
    /\ dead' = dead \cup {s}
    /\ Goto(s, "dead")
    /\ UNCHANGED <<use, journal, applied, pipe, last_commit, life, posted, expired, subs,
                   events, next_sub, running, got, dispatched, dispatches>>

\* The removal, a write access of the board.
disconnect_access(s) ==
    /\ pc[s] = "dead"
    /\ pipe' = Enter(pipe, s, "write")
    /\ Goto(s, "removing")
    /\ UNCHANGED <<use, journal, applied, last_commit, life, bus>>

\* std::erase_if: what is left of q, in its order.
Erase(q, gone) ==
    LET kept[i \in 0..Len(q)] ==
            IF i = 0 THEN <<>>
            ELSE IF q[i] \in gone THEN kept[i - 1] ELSE Append(kept[i - 1], q[i])
    IN kept[Len(q)]

\* Mutant: the removal waits for the install it is to undo.
removeInstalled(s) ==
    /\ pc[s] = "removing" /\ Holds(pipe, s) /\ \E i \in DOMAIN subs : subs[i] = s
    /\ subs' = Erase(subs, {s})
    /\ pipe' = Leave(pipe, s)
    /\ Goto(s, "gone")
    /\ UNCHANGED <<use, journal, applied, last_commit, life, posted, dead, expired, events,
                   next_sub, running, got, dispatched, dispatches>>

\* Board::remove, after which disconnect returns.
remove(s) ==
    /\ pc[s] = "removing" /\ Holds(pipe, s)
    /\ subs' = Erase(subs, {s})
    /\ pipe' = Leave(pipe, s)
    /\ Goto(s, "gone")
    /\ UNCHANGED <<use, journal, applied, last_commit, life, posted, dead, expired, events,
                   next_sub, running, got, dispatched, dispatches>>

\* The last reference to a pinned subscription's owner is dropped.
owner_expires(s) ==
    /\ use = "bus" /\ s \in Pinned \cap posted /\ s \notin expired
    /\ expired' = expired \cup {s}
    /\ UNCHANGED <<deferred, posted, dead, subs, events, next_sub, running, got, dispatched,
                   dispatches>>

-----------------------------------------------------------------------------
(* dispatch *)

\* The node (or the frame loop's access) queues for the board.
dispatch ==
    /\ use = "bus" /\ pc[Dispatch] = "out" /\ dispatches < MaxDispatch
    /\ dispatches' = dispatches + 1
    /\ pipe' = Enter(pipe, Dispatch, "write")
    /\ Goto(Dispatch, "queued")
    /\ UNCHANGED <<use, journal, applied, last_commit, life, posted, dead, expired, subs,
                   events, next_sub, running, got, dispatched>>

\* Mutant: the install does not look at the tombstone.
InstallBlind(s) == subs' = Append(subs, s)

\* A staged install: a no-op once the Connection is disconnected.
Install(s) == subs' = IF s \in dead THEN subs ELSE Append(subs, s)

\* The inline commit applies one command to the board.
apply_to_board ==
    /\ pc[Dispatch] = "apply" /\ batch # <<>>
    /\ applied' = Append(applied, Head(batch))
    /\ batch' = Tail(batch)
    /\ LET x == Head(batch).what
       IN IF x \in Subs THEN Install(x) /\ UNCHANGED events
                        ELSE events' = Append(events, x) /\ UNCHANGED subs
    /\ UNCHANGED <<use, slots, free, register, at, num_staged, minted, slot_of, dropped,
                   pipe, last_commit, pc, life, posted, dead, expired, next_sub, running,
                   got, dispatched, dispatches>>

dispatch_all ==
    /\ use = "bus" /\ pc[Dispatch] = "apply" /\ batch = <<>>
    /\ next_sub' = 1
    /\ Goto(Dispatch, "deliver")
    /\ UNCHANGED <<use, journal, applied, pipe, last_commit, life, posted, dead, expired,
                   subs, events, running, got, dispatched, dispatches>>

Skipped(s) == s \in dead \/ (s \in Pinned /\ s \in expired)

\* dispatch_and_clear: the next subscription is looked at once for the whole cut.
next_subscription ==
    /\ pc[Dispatch] = "deliver" /\ running = None /\ next_sub <= Len(subs)
    /\ next_sub' = next_sub + 1
    /\ running' = IF Skipped(subs[next_sub]) THEN None ELSE subs[next_sub]
    /\ UNCHANGED <<deferred, posted, dead, expired, subs, events, got, dispatched, dispatches>>

\* Its handler has seen every event of the lane.
invoke ==
    /\ running # None
    /\ got' = [got EXCEPT ![running] = @ \o events]
    /\ running' = None
    /\ UNCHANGED <<deferred, posted, dead, expired, subs, events, next_sub, dispatched, dispatches>>

\* The dead and the expired are erased, the events cleared, the grant released.
clear ==
    /\ pc[Dispatch] = "deliver" /\ running = None /\ next_sub > Len(subs)
    /\ subs' = Erase(subs, {s \in Subs : Skipped(s)})
    /\ dispatched' = dispatched \cup {events[i] : i \in DOMAIN events}
    /\ events' = <<>> /\ next_sub' = 0
    /\ pipe' = Leave(pipe, Dispatch)
    /\ Goto(Dispatch, "out")
    /\ UNCHANGED <<use, journal, applied, last_commit, life, posted, dead, expired, running,
                   got, dispatches>>

DispatchStep ==
    \/ (granted(Dispatch) \/ cut(Dispatch) \/ cut_slot(Dispatch) \/ cut_end(Dispatch)) /\ UNCHANGED bus
    \/ apply_to_board \/ dispatch_all \/ next_subscription \/ invoke \/ clear

DisconnectStep(s) == disconnect_access(s) \/ remove(s)

Next ==
    \/ \E p \in Producers : (mint(p) \/ stage(p) \/ release_slot(p)) /\ UNCHANGED bus
    \/ \E c \in Commits : (commit(c) \/ pipe_enqueue(c) \/ CommitStep(c) \/ run_cancelled(c)) /\ UNCHANGED bus
    \/ \E w \in Writers : (write(w) \/ CommitStep(w) \/ commit_cancelled(w)) /\ UNCHANGED bus
    \/ (discard \/ clear_staged \/ destroy) /\ UNCHANGED bus
    \/ \E t \in Threads, e \in Events : publish(t, e)
    \/ \E t \in Threads, s \in Subs : add_subscription(t, s)
    \/ \E s \in Subs : disconnect(s) \/ DisconnectStep(s) \/ owner_expires(s)
    \/ dispatch \/ DispatchStep

SafetySpec == Init /\ [][Next]_vars

Fairness ==
    /\ \A c \in Commits : WF_vars((pipe_enqueue(c) \/ CommitStep(c) \/ run_cancelled(c)) /\ UNCHANGED bus)
    /\ \A w \in Writers : WF_vars((CommitStep(w) \/ commit_cancelled(w)) /\ UNCHANGED bus)
    /\ WF_vars(clear_staged /\ UNCHANGED bus)
    /\ WF_vars(DispatchStep)
    /\ \A s \in Subs : WF_vars(DisconnectStep(s))

Spec == SafetySpec /\ Fairness

-----------------------------------------------------------------------------
(* Properties *)

\* An event is delivered at most once to a subscription, and, when it is cleared,
\* has been delivered to every live subscription its publisher made before it.
\* Once disconnect has returned the handler is not running, and never runs again:
\* the subscription is neither installed nor about to be.
DeliveryExact ==
    /\ \A s \in Subs : \A i, j \in DOMAIN got[s] : got[s][i] = got[s][j] => i = j
    /\ \A i, k \in Commands :
        (i.what \in Subs /\ k.what \in dispatched /\ i.by = k.by /\ i.n < k.n /\ ~Skipped(i.what))
            => \E j \in DOMAIN got[i.what] : got[i.what][j] = k.what
    /\ \A s \in Subs : pc[s] = "gone" =>
        running # s /\ \A i \in DOMAIN subs : subs[i] # s

\* Every commit, dispatch and disconnect returns: in the end no call is on its way.
CallsReturn == <>[](\A c \in Calls : pc[c] \in {"out", "done", "gone"})
=============================================================================
