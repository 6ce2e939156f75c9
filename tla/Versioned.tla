------------------------------ MODULE Versioned ------------------------------
(* Versioned<T>: commands are staged, publish applies them to the shadow       *)
(* replica, swaps it with the front under a write grant and brings the new     *)
(* shadow up to date, while readers hold views of the front.                   *)
(*                                                                             *)
(* A replica is the sequence of the commands that made it.  The front's pipe   *)
(* is a FifoPipe and the journal a sequence (its lanes are module Deferred's   *)
(* subject).  A publish is dynamic (publish, in three phases on any thread) or *)
(* a flip (publish_into, a graph node that holds the write grant).             *)
EXTENDS FifoPipe

CONSTANTS
    Publishes,  \* the calls of publish
    Flips,      \* the runs of a publish_fn node
    Readers,    \* the accesses and views of readers
    MaxStaged,  \* bound on the number of commands staged
    Setups,     \* the [policy, history] pairs a Versioned may be constructed with
    NoPublish   \* the resolved chain of a fresh Versioned

Steps == Publishes \cup Flips

ASSUME VersionedAssumption ==
    /\ Publishes \cap Flips = {} /\ NoPublish \notin Steps
    /\ MaxStaged \in Nat
    \* init() is fatal for a replay with history.
    /\ \A s \in Setups : s.history => s.policy # "replay"
    \* A reader is not one of the accesses a publish makes.
    /\ \A r \in Readers, k \in Steps : r # Entry("swap", k) /\ r # Entry("resync", k)

VARIABLES
    policy,     \* policy_: "replay", "copy" or "overwrite"
    history,    \* History::current_and_previous
    front, shadow, previous,    \* the replicas
    serial,     \* stamps_.current_serial
    versions,   \* versions[n + 1]: what the n-th publish made visible
    staged,     \* journal_: commands staged and not yet cut
    num_staged, \* commands staged so far
    dropped,    \* the commands discarded
    batch,      \* batch_
    pipe,       \* the front's pipe
    chain,      \* chain_: whose shadow_ready the next phase 1 waits for
    prev,       \* prev[k]: the chain k found
    pc,         \* pc[k]: where step k is
    swapped,    \* swapped[k]: the task publish returned is done
    ready,      \* ready[k]: shadow_ready of k was triggered
    seen,       \* seen[r]: what reader r bound: [current, previous, serial]
    life        \* "live", "dying", "dead", or "fatal"

replicas == <<front, shadow, previous, serial, versions>>
journal  == <<staged, num_staged, dropped, batch>>
signals  == <<chain, prev, swapped, ready>>
vars     == <<policy, history, replicas, journal, pipe, signals, pc, seen, life>>

Init ==
    /\ \E s \in Setups : policy = s.policy /\ history = s.history
    /\ front = <<>> /\ shadow = <<>> /\ previous = <<>> /\ serial = 0 /\ versions = <<<<>>>>
    /\ staged = <<>> /\ num_staged = 0 /\ dropped = {} /\ batch = <<>>
    /\ pipe = IdlePipe
    /\ chain = NoPublish
    /\ prev = [k \in Steps |-> NoPublish]
    /\ pc = [k \in Steps |-> "out"]
    /\ swapped = [k \in Steps |-> FALSE]
    /\ ready = [k \in Steps \cup {NoPublish} |-> k = NoPublish]
    /\ seen = [r \in Readers |-> <<>>]
    /\ life = "live"

Goto(k, l) == pc' = [pc EXCEPT ![k] = l]

-----------------------------------------------------------------------------
(* Producers *)

\* Recorder::stage: no grant is needed.
stage ==
    /\ life = "live" /\ num_staged < MaxStaged
    /\ num_staged' = num_staged + 1
    /\ staged' = Append(staged, num_staged')
    /\ UNCHANGED <<policy, history, replicas, dropped, batch, pipe, signals, pc, seen, life>>

discard ==
    /\ life = "live" /\ staged # <<>>
    /\ dropped' = dropped \cup {staged[i] : i \in DOMAIN staged}
    /\ staged' = <<>>
    /\ UNCHANGED <<policy, history, replicas, num_staged, batch, pipe, signals, pc, seen, life>>

-----------------------------------------------------------------------------
(* Publishing *)

\* publish: take the place of the latest publish in the chain.  Publishing while a
\* flip is on its way to its grant is the one order the contract excludes.
publish(k) ==
    /\ life = "live" /\ pc[k] = "out"
    /\ \A f \in Flips : pc[f] # "node"
    /\ prev' = [prev EXCEPT ![k] = chain] /\ chain' = k
    /\ Goto(k, "phase1")
    /\ UNCHANGED <<policy, history, replicas, journal, pipe, swapped, ready, seen, life>>

\* Phase 1 is submitted when the previous publish's shadow_ready is triggered.
Gate(k) == ready[prev[k]]

Cut == batch' = staged /\ staged' = <<>> /\ UNCHANGED <<num_staged, dropped>>

\* Mutant: the batch is cut before the token is looked at.
phase1CutFirst(k) ==
    /\ pc[k] = "phase1" /\ Gate(k)
    /\ \/ Cut /\ Goto(k, "unstaged")
       \/ staged # <<>> /\ Cut /\ Goto(k, "applying")
    /\ UNCHANGED <<policy, history, replicas, pipe, signals, seen, life>>

\* Phase 1: a requested cancel, nothing staged, or the cut and the apply's start.
phase1(k) ==
    /\ pc[k] = "phase1" /\ Gate(k)
    /\ \/ Goto(k, "unstaged") /\ UNCHANGED journal
       \/ staged = <<>> /\ Cut /\ Goto(k, "unstaged")
       \/ staged # <<>> /\ Cut /\ Goto(k, "applying")
    /\ UNCHANGED <<policy, history, replicas, pipe, signals, seen, life>>

\* Mutant: a step that publishes nothing leaves the chain unresolved.
trigger_swappedOnly(k) ==
    /\ pc[k] = "unstaged"
    /\ swapped' = [swapped EXCEPT ![k] = TRUE]
    /\ Goto(k, "done")
    /\ UNCHANGED <<policy, history, replicas, journal, pipe, chain, prev, ready, seen, life>>

\* A step that publishes nothing: the returned task first, then the chain.
trigger_swapped(k) ==
    /\ pc[k] = "unstaged"
    /\ swapped' = [swapped EXCEPT ![k] = TRUE]
    /\ Goto(k, "unchain")
    /\ UNCHANGED <<policy, history, replicas, journal, pipe, chain, prev, ready, seen, life>>

trigger_ready(k) ==
    /\ pc[k] = "unchain"
    /\ ready' = [ready EXCEPT ![k] = TRUE]
    /\ Goto(k, "done")
    /\ UNCHANGED <<policy, history, replicas, journal, pipe, chain, prev, swapped, seen, life>>

\* What the commands of a batch make of a replica.  Under overwrite the contract is
\* that they replace all of it.
Apply(replica, b) == IF policy = "overwrite" THEN b ELSE replica \o b

\* apply_to_shadow is over; a dynamic publish queues for the write access.
apply_to_shadow(k) ==
    /\ pc[k] = "applying"
    /\ shadow' = Apply(shadow, batch)
    /\ IF k \in Flips
       THEN Goto(k, "granted") /\ UNCHANGED pipe
       ELSE Goto(k, "queued") /\ pipe' = Enter(pipe, Entry("swap", k), "write")
    /\ UNCHANGED <<policy, history, front, previous, serial, versions, journal, signals,
                   seen, life>>

\* Mutant: the old front is not rotated into the previous version.
swap_replicasUnrotated ==
    /\ front' = shadow /\ serial' = serial + 1 /\ versions' = Append(versions, shadow)
    /\ shadow' = front /\ UNCHANGED previous

swap_replicas ==
    /\ front' = shadow /\ serial' = serial + 1 /\ versions' = Append(versions, shadow)
    /\ IF history THEN previous' = front /\ shadow' = previous
                  ELSE shadow' = front /\ UNCHANGED previous

\* Mutant: the chain is resolved as soon as the resync is submitted.
start_resyncEarly(k, p) ==
    /\ pipe' = Enter(p, Entry("resync", k), "read")
    /\ ready' = [ready EXCEPT ![k] = TRUE] /\ UNCHANGED batch

\* start_resync: with overwrite there is nothing to bring forward.
start_resync(k, p) ==
    IF policy = "overwrite"
    THEN batch' = <<>> /\ ready' = [ready EXCEPT ![k] = TRUE] /\ pipe' = p
    ELSE /\ pipe' = Enter(p, Entry("resync", k), "read")
         /\ UNCHANGED <<batch, ready>>

\* Phase 2, under the write grant: swap, submit the resync, trigger the returned
\* task, release.
phase2(k) ==
    /\ \/ pc[k] = "queued" /\ Holds(pipe, Entry("swap", k))
       \/ pc[k] = "granted"
    /\ swap_replicas
    /\ start_resync(k, pipe)
    /\ Goto(k, "swapped")
    /\ UNCHANGED <<policy, history, staged, num_staged, dropped, chain, prev, swapped, seen, life>>

phase2_end(k) ==
    /\ pc[k] = "swapped"
    /\ swapped' = [swapped EXCEPT ![k] = TRUE]
    /\ pipe' = Leave(pipe, Entry("swap", k))
    /\ Goto(k, IF policy = "overwrite" THEN "done" ELSE "resync")
    /\ UNCHANGED <<policy, history, replicas, journal, chain, prev, ready, seen, life>>

\* Phase 3, under a read grant: replay the batch or copy the front, then resolve the
\* chain.
resync(k) ==
    /\ pc[k] = "resync" /\ Holds(pipe, Entry("resync", k))
    /\ shadow' = IF policy = "replay" THEN Apply(shadow, batch) ELSE front
    /\ batch' = <<>>
    /\ ready' = [ready EXCEPT ![k] = TRUE]
    /\ Goto(k, "resynced")
    /\ UNCHANGED <<policy, history, front, previous, serial, versions, staged, num_staged,
                   dropped, pipe, chain, prev, swapped, seen, life>>

resync_end(k) ==
    /\ pc[k] = "resynced"
    /\ pipe' = Leave(pipe, Entry("resync", k))
    /\ Goto(k, "done")
    /\ UNCHANGED <<policy, history, replicas, journal, signals, seen, life>>

\* A graph run with a publish node begins.  The program has synced every publish.
flip(k) ==
    /\ life = "live" /\ pc[k] = "out"
    /\ \A j \in Steps : pc[j] = "out" \/ swapped[j]
    /\ pipe' = Enter(pipe, Entry("swap", k), "write")
    /\ Goto(k, "node")
    /\ UNCHANGED <<policy, history, replicas, journal, signals, seen, life>>

\* publish_into under the node's grant: fatal beside an unresolved publish.
publish_into(k) ==
    /\ pc[k] = "node" /\ Holds(pipe, Entry("swap", k)) /\ life # "fatal"
    /\ IF ~ready[chain]
       THEN /\ life' = "fatal"
            /\ UNCHANGED <<journal, chain, ready, pc>>
       ELSE /\ chain' = k
            /\ Cut
            /\ IF staged = <<>>
               THEN ready' = [ready EXCEPT ![k] = TRUE] /\ Goto(k, "idle")
               ELSE UNCHANGED ready /\ Goto(k, "applying")
            /\ UNCHANGED life
    /\ UNCHANGED <<policy, history, replicas, pipe, prev, swapped, seen>>

\* The node's grant is released after a publish_into that found nothing staged.
flip_idle(k) ==
    /\ pc[k] = "idle"
    /\ swapped' = [swapped EXCEPT ![k] = TRUE]
    /\ pipe' = Leave(pipe, Entry("swap", k))
    /\ Goto(k, "done")
    /\ UNCHANGED <<policy, history, replicas, journal, chain, prev, ready, seen, life>>

-----------------------------------------------------------------------------
(* Readers *)

\* read, or read_last_versions: queue for a read turn on the front.
read(r) ==
    /\ life = "live" /\ ~Holds(pipe, r) /\ ~Waits(pipe, r) /\ seen[r] = <<>>
    /\ pipe' = Enter(pipe, r, "read")
    /\ UNCHANGED <<policy, history, replicas, journal, signals, pc, seen, life>>

\* The turn has come: the body or the Version_view is bound.
bind_view(r) ==
    /\ Holds(pipe, r) /\ seen[r] = <<>>
    /\ seen' = [seen EXCEPT ![r] = [current |-> front, previous |-> previous, serial |-> serial]]
    /\ UNCHANGED <<policy, history, replicas, journal, pipe, signals, pc, life>>

\* ~Version_view.
drop_view(r) ==
    /\ Holds(pipe, r) /\ seen[r] # <<>>
    /\ pipe' = Leave(pipe, r)
    /\ seen' = [seen EXCEPT ![r] = <<>>]
    /\ UNCHANGED <<policy, history, replicas, journal, signals, pc, life>>

-----------------------------------------------------------------------------
(* Destruction *)

\* ~Versioned: the returned tasks are synced and nothing is staged.
destroy ==
    /\ life = "live" /\ staged = <<>>
    /\ \A k \in Steps : pc[k] = "out" \/ swapped[k]
    /\ life' = "dying"
    /\ UNCHANGED <<policy, history, replicas, journal, pipe, signals, pc, seen>>

\* chain.sync() and wait_until_idle have returned.
destroyed ==
    /\ life = "dying" /\ ready[chain] /\ pipe = IdlePipe
    /\ life' = "dead"
    /\ UNCHANGED <<policy, history, replicas, journal, pipe, signals, pc, seen>>

StepOf(k) ==
    \/ phase1(k) \/ trigger_swapped(k) \/ trigger_ready(k) \/ apply_to_shadow(k)
    \/ phase2(k) \/ phase2_end(k) \/ resync(k) \/ resync_end(k)
    \/ publish_into(k) \/ flip_idle(k)

Next ==
    \/ stage \/ discard \/ destroy \/ destroyed
    \/ \E k \in Publishes : publish(k)
    \/ \E k \in Flips : flip(k)
    \/ \E k \in Steps : StepOf(k)
    \/ \E r \in Readers : read(r) \/ bind_view(r) \/ drop_view(r)

SafetySpec == Init /\ [][Next]_vars

Spec == /\ SafetySpec
        /\ WF_vars(destroyed)
        /\ \A k \in Steps : WF_vars(StepOf(k))
        /\ \A r \in Readers : WF_vars(bind_view(r) \/ drop_view(r))

-----------------------------------------------------------------------------
(* Properties *)

\* What a reader has bound is what the replicas hold for as long as it holds the
\* view, a published version and, with history, the one published before it.
ViewStable ==
    \A r \in Readers : seen[r] # <<>> =>
        /\ seen[r] = [current |-> front, previous |-> previous, serial |-> serial]
        /\ front = versions[serial + 1]
        /\ history /\ serial > 0 => previous = versions[serial]

\* The replica a batch is applied to equals the front whenever an apply starts, and
\* both replicas are equal when the chain is resolved, so that a delta is as good
\* as the state; nobody else is using the shadow or the batch meanwhile.
ReplicasConverge ==
    /\ policy # "overwrite" =>
        /\ \A k \in Steps : pc[k] = "applying" => shadow = front
        /\ \A k \in Steps : (pc[k] = "phase1" /\ Gate(k)) => shadow = front
    /\ \A j, k \in Steps :
        (pc[j] \in {"applying", "queued", "granted"} /\ pc[k] \in {"applying", "queued", "granted", "resync"})
            => j = k

Flatten(s) == {s[i] : i \in DOMAIN s}

\* No staged write is lost, applied twice or applied out of order: what is published
\* or on its way, with what is staged or was discarded, is every command once.
NoLostWrites ==
    LET going == \E k \in Steps : pc[k] \in {"applying", "queued", "granted"}
        made  == IF policy = "overwrite"
                 THEN UNION {Flatten(versions[n]) : n \in DOMAIN versions}
                 ELSE Flatten(front)
    IN /\ policy # "overwrite" =>
            \A i, j \in DOMAIN front : i < j => front[i] < front[j]
       /\ made \cup (IF going THEN Flatten(batch) ELSE {}) \cup Flatten(staged) \cup dropped
            = 1..num_staged

\* A Versioned that is gone is used by nobody: no phase, no resync, no reader.
DestroyedQuiet ==
    life = "dead" => pipe = IdlePipe /\ \A k \in Steps : pc[k] \in {"out", "done"}

\* Every command ends up published once, and nothing goes on after the end.
WritesKept == NoLostWrites /\ DestroyedQuiet

\* Every publish becomes visible and leaves the chain resolved; ~Versioned returns.
PublishesEnd ==
    /\ \A k \in Publishes : (pc[k] = "phase1") ~> ((swapped[k] /\ ready[k]) \/ life = "fatal")
    /\ (life = "dying") ~> (life = "dead")
=============================================================================
