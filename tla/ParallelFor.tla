----------------------------- MODULE ParallelFor -----------------------------
(* The parallel loops: parallel_for and parallel_for_async claim chunks of one   *)
(* range; parallel_for_colored runs bands one after the other, round after       *)
(* round, the executor that ends a band opening the next.                        *)
(*                                                                               *)
(* A flat loop is the one-phase case of the state: next and done are its two     *)
(* counters; a coloured loop packs the phase and the next claim into one word,   *)
(* phase_next, here the pair <<phase, next>>.  Helpers are entries the           *)
(* scheduler may run late, or not before the loop is over; the body is one step. *)
EXTENDS Integers, Sequences, FiniteSets

CONSTANTS
    Loops,      \* the loops to check: [kind, bands, rounds, workers, balance]
    Helpers,    \* the helper entries that can be submitted, numbered from 1
    Caller      \* the calling thread

\* kind is "for", "async" or "colored"; a flat loop has one band and one round.  An
\* empty loop is not started, and a coloured one leaves its empty bands out.
ASSUME LoopsAssumption ==
    /\ IsFiniteSet(Helpers) /\ Helpers = 1..Cardinality(Helpers) /\ Caller \notin Helpers
    /\ \A l \in Loops :
        /\ l.kind \in {"for", "async", "colored"}
        /\ l.balance \in {"unbalanced", "balanced", "guided"}
        /\ l.bands \in Seq(Nat \ {0}) /\ l.bands # <<>>
        /\ l.rounds \in Nat \ {0} /\ l.workers \in Int
        /\ l.kind # "colored" => Len(l.bands) = 1 /\ l.rounds = 1

VARIABLES
    loop,       \* the loop that is run
    next,       \* the next item to claim (the lower half of phase_next)
    phase,      \* the upper half of phase_next
    done,       \* done, or band_done
    skipped,    \* some chunk was skipped
    requested,  \* the token's cancel was requested
    settled,    \* the results the block was settled with
    refs,       \* refcount
    freed,      \* the state was deleted
    cur,        \* cur[x]: the <<phase, next>> x read last
    chunk,      \* chunk[x]: the items x has claimed: [phase, from, to]
    pc,         \* pc[x]: where the executor x is
    ran         \* ran[p][i]: how often the body was called for item i of phase p

vars == <<loop, next, phase, done, skipped, requested, settled, refs, freed, cur, chunk, pc, ran>>

Executors   == Helpers \cup {Caller}
Colored     == loop.kind = "colored"
TotalPhases == loop.rounds * Len(loop.bands)
BandSize(p) == loop.bands[(p % Len(loop.bands)) + 1]
Smaller(a, b) == IF a < b THEN a ELSE b
Larger(a, b)  == IF a > b THEN a ELSE b

Widest(l) == CHOOSE w \in {l.bands[b] : b \in DOMAIN l.bands} :
                \A b \in DOMAIN l.bands : l.bands[b] <= w

\* The option clamped to the work there is.
effective_workers(l) == Smaller(Larger(l.workers, 1), Widest(l))

\* Bound: there are helper entries enough for the widest of the loops.
ASSUME HelpersAssumption == \A l \in Loops : effective_workers(l) <= Cardinality(Helpers)

\* The items to claim at once.
claim_grain(size, claimed, workers) ==
    CASE loop.balance = "unbalanced" -> 1
      [] loop.balance = "balanced"   -> Larger((size + workers - 1) \div workers, 1)
      [] loop.balance = "guided"     -> Larger((size - claimed) \div (2 * workers), 1)

\* The caller of a blocking loop is one of the executors.
NumHelpers == IF loop.kind = "async" THEN effective_workers(loop) ELSE effective_workers(loop) - 1

\* One for every helper, counted before it is submitted, and one for the caller or
\* the returned handle.
References == NumHelpers + 1

\* The state is built, its helpers counted and submitted.
Init ==
    /\ loop \in Loops
    /\ next = 0 /\ phase = 0 /\ done = 0 /\ skipped = FALSE /\ requested = FALSE
    /\ settled = <<>> /\ freed = FALSE
    /\ refs = References
    /\ pc = [x \in Executors |->
                IF x = Caller THEN (IF loop.kind = "async" THEN "wait" ELSE "loop")
                ELSE IF x <= NumHelpers THEN "queued" ELSE "exit"]
    /\ cur = [x \in Executors |-> <<0, 0>>]
    /\ chunk = [x \in Executors |-> <<>>]
    /\ ran = [p \in 0..(TotalPhases - 1) |-> [i \in 0..(BandSize(p) - 1) |-> 0]]

Goto(x, l) == pc' = [pc EXCEPT ![x] = l]

\* helper_entry: a worker takes the helper up.
helper_entry(x) ==
    /\ pc[x] = "queued"
    /\ Goto(x, "loop")
    /\ UNCHANGED <<loop, next, phase, done, skipped, requested, settled, refs, freed, cur, chunk, ran>>

\* The helper drops its reference; the last one deletes the state.
Dec == refs' = refs - 1 /\ freed' = (refs = 1)

helper_exit(x) ==
    /\ pc[x] = "leave" /\ x # Caller
    /\ Dec
    /\ Goto(x, "exit")
    /\ UNCHANGED <<loop, next, phase, done, skipped, requested, settled, cur, chunk, ran>>

request_cancel ==
    /\ loop.kind = "async" /\ ~requested
    /\ requested' = TRUE
    /\ UNCHANGED <<loop, next, phase, done, skipped, settled, refs, freed, cur, chunk, pc, ran>>

-----------------------------------------------------------------------------
(* The flat loop *)

\* The token is looked at and, for the grain, next is read.
look(x) ==
    /\ pc[x] = "loop" /\ ~Colored
    /\ cur' = [cur EXCEPT ![x] = <<0, next>>]
    /\ Goto(x, IF requested THEN "skip" ELSE "claim")
    /\ UNCHANGED <<loop, next, phase, done, skipped, requested, settled, refs, freed, chunk, ran>>

\* fetch_add: the grain comes from the stale read, the chunk is clamped.
claim(x) ==
    /\ pc[x] = "claim"
    /\ LET n == BandSize(0)
           g == claim_grain(n, cur[x][2], effective_workers(loop))
       IN /\ next' = next + g
          /\ chunk' = [chunk EXCEPT ![x] =
                        IF next >= n THEN @ ELSE [phase |-> 0, from |-> next, to |-> Smaller(next + g, n)]]
          /\ Goto(x, IF next >= n THEN "leave" ELSE "body")
    /\ UNCHANGED <<loop, phase, done, skipped, requested, settled, refs, freed, cur, ran>>

\* A requested cancel: everything left is claimed in one exchange and not run.
skip(x) ==
    /\ pc[x] = "skip"
    /\ next' = BandSize(0)
    /\ IF next >= BandSize(0)
       THEN Goto(x, "leave") /\ UNCHANGED <<chunk, skipped>>
       ELSE /\ chunk' = [chunk EXCEPT ![x] = [phase |-> 0, from |-> next, to |-> BandSize(0)]]
            /\ skipped' = TRUE
            /\ Goto(x, "account")
    /\ UNCHANGED <<loop, phase, done, requested, settled, refs, freed, cur, ran>>

\* The body is called for the items of the chunk.
body(x) ==
    /\ pc[x] = "body"
    /\ LET c == chunk[x]
       IN ran' = [ran EXCEPT ![c.phase] =
                    [i \in DOMAIN @ |-> IF i \in c.from..(c.to - 1) THEN @[i] + 1 ELSE @[i]]]
    /\ Goto(x, IF Colored THEN "band" ELSE "account")
    /\ UNCHANGED <<loop, next, phase, done, skipped, requested, settled, refs, freed, cur, chunk>>

Size(c) == c.to - c.from

\* The chunk is counted; whoever reaches n settles the task.
account(x) ==
    /\ pc[x] = "account"
    /\ done' = done + Size(chunk[x])
    /\ settled' = IF done' = BandSize(0)
                  THEN Append(settled, IF skipped THEN "cancelled" ELSE "completed") ELSE settled
    /\ chunk' = [chunk EXCEPT ![x] = <<>>]
    /\ Goto(x, "loop")
    /\ UNCHANGED <<loop, next, phase, skipped, requested, refs, freed, cur, ran>>

-----------------------------------------------------------------------------
(* The coloured loop *)

\* phase_next is read: over, nothing left in this band, or a claim to try.
load_phase(x) ==
    /\ pc[x] = "loop" /\ Colored
    /\ cur' = [cur EXCEPT ![x] = <<phase, next>>]
    /\ Goto(x, IF phase >= TotalPhases THEN "leave"
               ELSE IF next >= BandSize(phase) THEN "spin" ELSE "cas")
    /\ UNCHANGED <<loop, next, phase, done, skipped, requested, settled, refs, freed, chunk, ran>>

\* The band is claimed to the end: spin until phase_next changes.
spin(x) ==
    /\ pc[x] = "spin" /\ cur[x] # <<phase, next>>
    /\ Goto(x, "loop")
    /\ UNCHANGED <<loop, next, phase, done, skipped, requested, settled, refs, freed, cur, chunk, ran>>

\* phase_next.wait: asleep if it still has the value read, until notified.
park(x) ==
    /\ pc[x] = "spin" /\ cur[x] = <<phase, next>>
    /\ Goto(x, "parked")
    /\ UNCHANGED <<loop, next, phase, done, skipped, requested, settled, refs, freed, cur, chunk, ran>>

\* Mutant: the claim compares the index alone.
claim_casIndexOnly(x) ==
    /\ pc[x] = "cas"
    /\ LET p == cur[x][1]
           g == claim_grain(BandSize(p), cur[x][2], effective_workers(loop))
           to == Smaller(cur[x][2] + g, BandSize(p))
       IN IF cur[x][2] = next
          THEN /\ next' = to
               /\ chunk' = [chunk EXCEPT ![x] = [phase |-> p, from |-> cur[x][2], to |-> to]]
               /\ Goto(x, "body")
          ELSE Goto(x, "loop") /\ UNCHANGED <<next, chunk>>
    /\ UNCHANGED <<loop, phase, done, skipped, requested, settled, refs, freed, cur, ran>>

\* The compare-and-swap on both halves; a failed one starts over.
claim_cas(x) ==
    /\ pc[x] = "cas"
    /\ LET p == cur[x][1]
           g == claim_grain(BandSize(p), cur[x][2], effective_workers(loop))
           to == Smaller(cur[x][2] + g, BandSize(p))
       IN IF cur[x] = <<phase, next>>
          THEN /\ next' = to
               /\ chunk' = [chunk EXCEPT ![x] = [phase |-> p, from |-> cur[x][2], to |-> to]]
               /\ Goto(x, "body")
          ELSE Goto(x, "loop") /\ UNCHANGED <<next, chunk>>
    /\ UNCHANGED <<loop, phase, done, skipped, requested, settled, refs, freed, cur, ran>>

\* The chunk is counted; whoever ends the band goes on to open the next.
band_account(x) ==
    /\ pc[x] = "band"
    /\ done' = done + Size(chunk[x])
    /\ Goto(x, IF done' = BandSize(chunk[x].phase) THEN "reset" ELSE "loop")
    /\ UNCHANGED <<loop, next, phase, skipped, requested, settled, refs, freed, cur, chunk, ran>>

\* band_done is reset before the phase is published (not after the last phase).
band_reset(x) ==
    /\ pc[x] = "reset"
    /\ done' = IF chunk[x].phase + 1 >= TotalPhases THEN done ELSE 0
    /\ Goto(x, "advance")
    /\ UNCHANGED <<loop, next, phase, skipped, requested, settled, refs, freed, cur, chunk, ran>>

\* x goes on to l, and the parked executors are woken.
notify_all(x, l) ==
    pc' = [y \in Executors |-> IF y = x THEN l ELSE IF pc[y] = "parked" THEN "loop" ELSE pc[y]]

\* Mutant: the terminal phase is stored without a notify.
advanceSilent(x) ==
    /\ pc[x] = "advance"
    /\ phase' = chunk[x].phase + 1 /\ next' = 0
    /\ IF phase' >= TotalPhases
       THEN settled' = Append(settled, "completed") /\ Goto(x, "leave")
       ELSE UNCHANGED settled /\ notify_all(x, "loop")
    /\ UNCHANGED <<loop, done, skipped, requested, refs, freed, cur, chunk, ran>>

\* The next phase is published, or the terminal one and the task completed.
advance(x) ==
    /\ pc[x] = "advance"
    /\ phase' = chunk[x].phase + 1 /\ next' = 0
    /\ IF phase' >= TotalPhases
       THEN settled' = Append(settled, "completed") /\ notify_all(x, "leave")
       ELSE UNCHANGED settled /\ notify_all(x, "loop")
    /\ UNCHANGED <<loop, done, skipped, requested, refs, freed, cur, chunk, ran>>

-----------------------------------------------------------------------------
(* The caller *)

\* run_participants: the caller has found nothing more and waits.
caller_wait ==
    /\ pc[Caller] = "leave"
    /\ Goto(Caller, "wait")
    /\ UNCHANGED <<loop, next, phase, done, skipped, requested, settled, refs, freed, cur, chunk, ran>>

\* st->wait() has returned, or the handle of parallel_for_async is dropped, at any time:
\* the reference goes.
caller_return ==
    /\ pc[Caller] = "wait" /\ (settled # <<>> \/ loop.kind = "async")
    /\ Dec
    /\ Goto(Caller, "exit")
    /\ UNCHANGED <<loop, next, phase, done, skipped, requested, settled, cur, chunk, ran>>

LoopStep(x) ==
    \/ look(x) \/ claim(x) \/ skip(x) \/ body(x) \/ account(x)
    \/ load_phase(x) \/ spin(x) \/ park(x) \/ claim_cas(x) \/ band_account(x) \/ band_reset(x) \/ advance(x)

Next ==
    \/ \E x \in Executors : LoopStep(x)
    \/ \E x \in Helpers : helper_entry(x) \/ helper_exit(x)
    \/ caller_wait \/ caller_return
    \/ request_cancel

SafetySpec == Init /\ [][Next]_vars

\* An executor that is running goes on.  No worker need ever take a helper of a
\* blocking loop; a helper of parallel_for_async is an ordinary queued entry.
Spec ==
    /\ SafetySpec
    /\ \A x \in Executors : WF_vars(LoopStep(x))
    /\ \A x \in Helpers : WF_vars(helper_exit(x))
    /\ \A x \in Helpers : WF_vars(loop.kind = "async" /\ helper_entry(x))
    /\ WF_vars(caller_wait \/ caller_return)

-----------------------------------------------------------------------------
(* Properties *)

\* The items of phase p that were run.
Over(p) == \A i \in DOMAIN ran[p] : ran[p][i] = 1

\* The body is called at most once for every item of every phase, and never for a
\* phase before the one before it is over; the task is settled once, completed only
\* when every item was run and cancelled only when one was not.
LoopExact ==
    /\ \A p \in DOMAIN ran : \A i \in DOMAIN ran[p] :
        /\ ran[p][i] <= 1
        /\ (ran[p][i] = 1 /\ p > 0) => Over(p - 1)
    /\ Len(settled) <= 1
    /\ settled = <<"completed">> => \A p \in DOMAIN ran : Over(p)
    /\ settled = <<"cancelled">> => requested /\ ~Over(0)
    /\ settled # <<>> => \A x \in Executors : pc[x] # "body"

\* The state is deleted by the last of the caller (or the handle) and the helpers,
\* however late a helper is run.
StateOutlivesHelpers ==
    freed <=> \A x \in Executors : pc[x] = "exit"

\* Every item once, by executors that still have the loop's state.
LoopSafe == LoopExact /\ StateOutlivesHelpers

\* The loop settles and its caller is gone though no helper of a blocking loop ever gets
\* a worker, and though the handle of an asynchronous one is dropped while it runs.
LoopsReturn == <>(pc[Caller] = "exit" /\ settled # <<>>)
=============================================================================
