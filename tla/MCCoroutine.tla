----------------------------- MODULE MCCoroutine -----------------------------
(* Small programs of coroutines for TLC.                                         *)
EXTENDS Coroutine

CONSTANTS a, b, d, sig

Do(what, on) == [do |-> what, on |-> on]
Each(pa, pb, pd) == [c \in {a, b, d} |-> CASE c = a -> pa [] c = b -> pb [] c = d -> pd]

Plain(body, roots) ==
    [body |-> body, roots |-> roots, holds |-> Each({}, {}, {}), handles |-> {}, signals |-> {},
     relaxed |-> FALSE, opens |-> 0, yields |-> 0]

Lock(objects) == <<Do("read_write", objects), Do("release", objects)>>

\* A chain of calls and awaits: the completion of d resumes a, the signal b and d.
Chain ==
    [Plain(Each(<<Do("call", d), Do("await", d)>>, <<Do("await", sig)>>, <<Do("await", sig)>>), {a, b})
        EXCEPT !.handles = {a, b}, !.signals = {sig}, !.yields = 2]

\* Guards of one and of two objects, and a reader.
Locks ==
    [Plain(Each(Lock({1, 2}), Lock({2}), <<Do("read_only", {1}), Do("release", {1})>>), {a, b, d})
        EXCEPT !.yields = 1]

\* Frames at the gate.
AtGate ==
    [Plain(Each(Lock({1}) \o <<Do("next", {})>>, <<Do("next", {})>> \o Lock({1}), <<>>), {a, b})
        EXCEPT !.opens = 1, !.yields = 1]

\* Three tasks that each hold an object and await the next one's: against the rank
\* rule, and with the rule relaxed.
Cycle(relaxed) ==
    [Plain(Each(Lock({2}), Lock({3}), Lock({1})), {a, b, d})
        EXCEPT !.holds = Each({1}, {2}, {3}), !.relaxed = relaxed]

\* Waits that climb the ranks.
Climb == [Plain(Each(Lock({2, 3}), Lock({3}), <<>>), {a, b}) EXCEPT !.holds = Each({1}, {2}, {})]

\* A wait for an object the task holds, and an await under a live guard.
Itself == [Plain(Each(Lock({1}), <<>>, <<>>), {a}) EXCEPT !.holds = Each({1}, {}, {})]
Under  == Plain(Each(<<Do("read_write", {1}), Do("await", sig)>>, <<>>, <<>>), {a})

\* Accesses of one object, the last one lent the grant of a guard.
Accesses ==
    [Plain(Each(<<Do("access", {1})>>, <<Do("access", {1})>>,
                <<Do("read_write", {1, 2}), Do("access", {2}), Do("release", {1, 2})>>), {a, b, d})
        EXCEPT !.yields = 1]

\* The circle of Cycle, closed through awaited accesses.
Circle(relaxed) ==
    [Plain(Each(Lock({2}), <<Do("access", {3})>>, <<Do("access", {1})>>), {a, b, d})
        EXCEPT !.holds = Each({1}, {2}, {3}), !.relaxed = relaxed]

SomePrograms ==
    {Chain, Locks, AtGate, Cycle(TRUE), Cycle(FALSE), Climb, Itself, Under, Accesses,
     Circle(TRUE), Circle(FALSE)}
SomeRanks == <<1, 2, 3>>
=============================================================================
