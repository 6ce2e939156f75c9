------------------------------ MODULE Deferred ------------------------------
(* Deferred<T> and its Journal: producers stage commands into slots without any *)
(* grant, and a commit cuts the slots one after the other and applies the batch *)
(* under a write grant on the target.                                           *)
(*                                                                              *)
(* A command is [by, n, what]: the n-th one staged through the recorder `by`.   *)
(* The target's pipe is a FifoPipe.  A program uses a Deferred through          *)
(* recorders and commits; an Event_bus (module EventBus) owns one and stages    *)
(* through a Parallel_recorder.  What the code answers with ts::fatal is a      *)
(* precondition of the action.                                                  *)
EXTENDS FifoPipe

CONSTANTS
    Uses,       \* who the Deferred belongs to: "program", "bus"
    Producers,  \* the threads with a Recorder
    Commits,    \* the calls of commit from a thread without the write grant
    Writers,    \* the write accesses whose body calls commit
    MaxMinted,  \* bound on the recorders minted
    MaxStaged,  \* bound on the commands of one recorder
    None

VARIABLES
    use,        \* what the Deferred is used for
    slots,      \* slots_: the staged commands of each slot
    free,       \* free_
    register,   \* the call that holds register_mutex_
    at,         \* the slot the cut (or clear_staged) reaches next
    batch,      \* commit_batch_, or what is left of it
    num_staged, \* num_staged[r]: commands staged through recorder r
    minted,     \* recorders minted so far
    slot_of,    \* slot_of[p]: [rec, slot] of p's recorder, or None
    applied,    \* the commands applied to the target, in order
    dropped,    \* the commands discarded
    pipe,       \* the target's pipe
    last_commit,\* last_commit_
    pc,         \* pc[c]: where the call c is
    life        \* "live" or "dead"

journal  == <<slots, free, register, at, batch, num_staged, minted, slot_of, dropped>>
deferred == <<use, journal, applied, pipe, last_commit, pc, life>>

Goto(c, l) == pc' = [pc EXCEPT ![c] = l]

-----------------------------------------------------------------------------
(* Journal and recorders *)

\* Journal::add_slot, for Deferred::recorder: the latest released slot, or a new one.
mint(p) ==
    /\ use = "program" /\ life = "live"
    /\ slot_of[p] = None /\ minted < MaxMinted /\ register = None
    /\ minted' = minted + 1
    /\ IF free # <<>>
       THEN /\ slot_of' = [slot_of EXCEPT ![p] = [rec |-> minted', slot |-> free[Len(free)]]]
            /\ free' = SubSeq(free, 1, Len(free) - 1)
            /\ UNCHANGED slots
       ELSE /\ slot_of' = [slot_of EXCEPT ![p] = [rec |-> minted', slot |-> Len(slots) + 1]]
            /\ slots' = Append(slots, <<>>)
            /\ UNCHANGED free
    /\ UNCHANGED <<use, register, at, batch, num_staged, dropped, applied, pipe,
                   last_commit, pc, life>>

\* Mutant: the released slot is emptied.
release_slotEmptied(p) ==
    /\ slot_of[p] # None /\ register = None
    /\ free' = Append(free, slot_of[p].slot)
    /\ slots' = [slots EXCEPT ![slot_of[p].slot] = <<>>]
    /\ slot_of' = [slot_of EXCEPT ![p] = None]
    /\ UNCHANGED <<use, register, at, batch, num_staged, minted, dropped, applied,
                   pipe, last_commit, pc, life>>

\* ~Recorder: the slot is recycled with the commands it still has.
release_slot(p) ==
    /\ slot_of[p] # None /\ register = None
    /\ free' = Append(free, slot_of[p].slot)
    /\ slot_of' = [slot_of EXCEPT ![p] = None]
    /\ UNCHANGED <<use, slots, register, at, batch, num_staged, minted, dropped, applied,
                   pipe, last_commit, pc, life>>

\* Recorder::stage under the slot's mutex.
Stage(r, slot, what) ==
    /\ num_staged' = [num_staged EXCEPT ![r] = @ + 1]
    /\ slots' = [slots EXCEPT ![slot] = Append(@, [by |-> r, n |-> num_staged'[r], what |-> what])]

stage(p) ==
    /\ slot_of[p] # None /\ num_staged[slot_of[p].rec] < MaxStaged
    /\ Stage(slot_of[p].rec, slot_of[p].slot, "write")
    /\ UNCHANGED <<use, free, register, at, batch, minted, slot_of, dropped, applied, pipe,
                   last_commit, pc, life>>

\* Journal::cut starts: the buffer is cleared and register_mutex_ taken.
cut(c) ==
    /\ pc[c] = "commit" /\ register = None
    /\ register' = c /\ at' = 1 /\ batch' = <<>>
    /\ Goto(c, "cut")
    /\ UNCHANGED <<use, slots, free, num_staged, minted, slot_of, dropped, applied, pipe,
                   last_commit, life>>

\* One slot is cut under its mutex; a stage can fall between two slots.
cut_slot(c) ==
    /\ pc[c] = "cut" /\ at <= Len(slots)
    /\ batch' = batch \o slots[at]
    /\ slots' = [slots EXCEPT ![at] = <<>>]
    /\ at' = at + 1
    /\ UNCHANGED <<use, free, register, num_staged, minted, slot_of, dropped, applied, pipe,
                   last_commit, pc, life>>

cut_end(c) ==
    /\ pc[c] = "cut" /\ at > Len(slots)
    /\ register' = None /\ at' = 0
    /\ Goto(c, "apply")
    /\ UNCHANGED <<use, slots, free, batch, num_staged, minted, slot_of, dropped, applied,
                   pipe, last_commit, life>>

has_staged == \E i \in DOMAIN slots : slots[i] # <<>>

\* Deferred::discard: clear_staged, slot by slot as well.
discard ==
    /\ use = "program" /\ life = "live" /\ register = None /\ has_staged
    /\ register' = "discard" /\ at' = 1
    /\ UNCHANGED <<use, slots, free, batch, num_staged, minted, slot_of, dropped, applied,
                   pipe, last_commit, pc, life>>

clear_staged ==
    /\ register = "discard"
    /\ IF at > Len(slots)
       THEN register' = None /\ at' = 0 /\ UNCHANGED <<slots, dropped>>
       ELSE /\ dropped' = dropped \cup {slots[at][i] : i \in DOMAIN slots[at]}
            /\ slots' = [slots EXCEPT ![at] = <<>>]
            /\ at' = at + 1 /\ UNCHANGED register
    /\ UNCHANGED <<use, free, batch, num_staged, minted, slot_of, applied, pipe, last_commit,
                   pc, life>>

-----------------------------------------------------------------------------
(* commit *)

\* commit from a task that is not the writer_owner.
commit(c) ==
    /\ use = "program" /\ life = "live" /\ pc[c] = "out"
    /\ Goto(c, "enqueue")
    /\ UNCHANGED <<use, journal, applied, pipe, last_commit, life>>

\* pipe_enqueue: the write queues and is recorded, under the pipe's mutex.
pipe_enqueue(c) ==
    /\ pc[c] = "enqueue"
    /\ pipe' = Enter(pipe, c, "write")
    /\ last_commit' = c
    /\ Goto(c, "queued")
    /\ UNCHANGED <<use, journal, applied, life>>

\* A write access of the program, whose body commits inline.
write(w) ==
    /\ use = "program" /\ life = "live" /\ pc[w] = "out"
    /\ pipe' = Enter(pipe, w, "write")
    /\ Goto(w, "queued")
    /\ UNCHANGED <<use, journal, applied, last_commit, life>>

\* The write runs: apply_under_grant.
granted(c) ==
    /\ pc[c] = "queued" /\ Holds(pipe, c)
    /\ Goto(c, "commit")
    /\ UNCHANGED <<use, journal, applied, pipe, last_commit, life>>

\* An inline commit whose token is requested leaves the batch staged.
commit_cancelled(w) ==
    /\ w \in Writers /\ pc[w] = "commit"
    /\ Goto(w, "applied")
    /\ UNCHANGED <<use, journal, applied, pipe, last_commit, life>>

\* So does an enqueued one: its turn has come, and its body is skipped.
run_cancelled(c) ==
    /\ c \in Commits /\ pc[c] = "queued" /\ Holds(pipe, c)
    /\ Goto(c, "applied")
    /\ UNCHANGED <<use, journal, applied, pipe, last_commit, life>>

\* apply_under_grant: the batch is applied command by command (to a plain target).
apply_under_grant(c) ==
    /\ use = "program" /\ pc[c] = "apply" /\ batch # <<>>
    /\ applied' = Append(applied, Head(batch))
    /\ batch' = Tail(batch)
    /\ UNCHANGED <<use, slots, free, register, at, num_staged, minted, slot_of, dropped,
                   pipe, last_commit, pc, life>>

apply_end(c) ==
    /\ use = "program" /\ pc[c] = "apply" /\ batch = <<>>
    /\ Goto(c, "applied")
    /\ UNCHANGED <<use, journal, applied, pipe, last_commit, life>>

\* The write's body is over: its grant is released and its task is settled.
settle(c) ==
    /\ use = "program" /\ pc[c] = "applied"
    /\ pipe' = Leave(pipe, c)
    /\ Goto(c, "done")
    /\ UNCHANGED <<use, journal, applied, last_commit, life>>

\* ~Deferred and ~Journal: the last commit is settled, nothing staged, no recorder
\* left.  A call of commit racing the destructor is outside the contract.
destroy ==
    /\ use = "program" /\ life = "live"
    /\ last_commit # None => pc[last_commit] = "done"
    /\ \A c \in Commits : pc[c] # "enqueue"
    /\ \A w \in Writers : pc[w] \in {"out", "done"}
    /\ ~has_staged /\ Len(free) = Len(slots) /\ register = None
    /\ life' = "dead"
    /\ UNCHANGED <<use, journal, applied, pipe, last_commit, pc>>

ApplyStep(c) == cut(c) \/ cut_slot(c) \/ cut_end(c) \/ apply_under_grant(c) \/ apply_end(c)

CommitStep(c) == granted(c) \/ ApplyStep(c) \/ settle(c)

-----------------------------------------------------------------------------
(* Properties *)

In(q) == {q[i] : i \in DOMAIN q}
\* In q, and of q and what is to follow it, a recorder's commands are in its order.
Ordered(q) == \A i, j \in DOMAIN q : i < j /\ q[i].by = q[j].by => q[i].n < q[j].n
Before(q, r) == \A k \in In(q), l \in In(r) : k.by = l.by => k.n < l.n

\* The commands applied, being applied and staged.
Commands == In(applied) \cup In(batch) \cup UNION {In(slots[i]) : i \in DOMAIN slots}

\* A recorder's commands are in one slot, and in its order from the first applied on.
InOrder ==
    /\ Ordered(applied) /\ Ordered(batch) /\ Before(applied, batch)
    /\ \A i \in DOMAIN slots :
        /\ Ordered(slots[i]) /\ Before(applied, slots[i]) /\ Before(batch, slots[i])
        /\ \A j \in DOMAIN slots \ {i} : \A k \in In(slots[i]), l \in In(slots[j]) : k.by # l.by

\* Each command staged is there, or was discarded.
AllKept ==
    /\ \A r \in DOMAIN num_staged :
        {k.n : k \in {d \in Commands \cup dropped : d.by = r}} = 1..num_staged[r]
    /\ \A k \in Commands, d \in dropped : k.by = d.by => k.n # d.n

\* Every staged command is in one place only, and the commands of one recorder are
\* applied in the order they were staged, whatever slots are cut before and after a
\* stage and whoever inherits a slot with commands in it.
StagedExactlyOnce == InOrder /\ AllKept

\* No write of a destroyed Deferred is still queued or running: the commit recorded
\* last, which is the only one the destructor looks at, is the last one in the pipe.
NoCommitAfterDestroy ==
    life = "dead" => \A c \in Commits \cup Writers : pc[c] \in {"out", "done"}

\* No command is lost, repeated or applied to an object that is gone.
CommandsKept == StagedExactlyOnce /\ NoCommitAfterDestroy
=============================================================================
