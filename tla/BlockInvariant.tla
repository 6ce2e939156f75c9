--------------------------- MODULE BlockInvariant ---------------------------
(***************************************************************************)
(* The inductive invariant of TaskBlock: what BlockProofs proves of every  *)
(* reachable state.                                                        *)
(***************************************************************************)
EXTENDS TaskBlock

-----------------------------------------------------------------------------
(* The stacks, and what is counted *)

FrameSet ==
    [f : {"run", "settle", "release", "trigger"}, b : Blocks,
     at : {"claim", "body", "link", "unlink", "self_lock", "drop", "lock", "notify", "conts",
           "drop_parent", "on_complete", "sub"},
     k : Nat, cancel : BOOLEAN, conts : Seq(Clients), parent : Parents \cup {NoBlock}]

\* What the frames of a stack can be: the run of a body, a trigger, a settle of the
\* block that was run or triggered or of the parent of the one triggered, and a release
\* of such a parent.
RunFrame(x) ==
    /\ x.f = "run" /\ x.b \in Parents /\ x.parent = NoBlock /\ x.conts = <<>>
    /\ x.at \in {"claim", "body", "link", "unlink", "self_lock", "drop"}
    /\ x.k <= Len(Nested[x.b])
    /\ x.at \in {"link", "unlink"} => x.k < Len(Nested[x.b])
    /\ x.at \in {"self_lock"} => x.k = Len(Nested[x.b])
    /\ x.at = "claim" => x.k = 0

TriggerFrame(x) ==
    x.f = "trigger" /\ x.b \in Children /\ x.at = "drop" /\ x.parent = NoBlock /\ x.conts = <<>>

ParentSettle(x, p) ==
    /\ x.f = "settle" /\ x.b = p /\ p \in Parents /\ x.parent = NoBlock
    /\ x.at \in {"lock", "notify", "conts", "on_complete"}
    /\ x.at \in {"lock", "on_complete"} => x.conts = <<>>

ChildSettle(x) ==
    /\ x.f = "settle" /\ x.b \in Children
    /\ x.at \in {"lock", "notify", "conts", "drop_parent", "on_complete"}
    /\ x.at \in {"lock", "drop_parent", "on_complete"} => x.conts = <<>>
    /\ x.at \in {"lock", "on_complete"} => x.parent = NoBlock
    /\ x.at = "drop_parent" => x.parent # NoBlock

ReleaseFrame(x, p) ==
    x.f = "release" /\ x.b = p /\ p \in Parents /\ x.at = "sub" /\ x.parent = NoBlock /\ x.conts = <<>>

StackOK(s) ==
    /\ s \in Seq(FrameSet)
    /\ \/ Len(s) = 0
       \/ Len(s) = 1 /\ RunFrame(s[1])
       \/ Len(s) = 1 /\ TriggerFrame(s[1])
       \/ Len(s) = 2 /\ RunFrame(s[2]) /\ s[2].at = "drop" /\ ParentSettle(s[1], s[2].b)
       \/ Len(s) = 2 /\ RunFrame(s[2]) /\ s[2].at = "unlink" /\ ReleaseFrame(s[1], s[2].b)
       \/ Len(s) = 2 /\ TriggerFrame(s[2]) /\ ChildSettle(s[1]) /\ s[1].b = s[2].b
       \/ /\ Len(s) = 3 /\ TriggerFrame(s[3]) /\ ChildSettle(s[2]) /\ s[2].b = s[3].b
          /\ s[2].at = "drop_parent"
          /\ ReleaseFrame(s[1], s[2].parent) \/ ParentSettle(s[1], s[2].parent)

\* What a frame x counts for with block b: references (1 to 5) and locks (6 to 9).
Is(n, x, b) ==
    \/ n = 1 /\ x.f = "run" /\ x.b = b /\ kind[b] = "task"
    \/ n = 2 /\ x.f = "run" /\ x.b = b /\ x.at \in InBody
    \/ n = 3 /\ x.f = "run" /\ x.b = b /\ x.at \in {"link", "unlink"}
    \/ n = 4 /\ x.f = "trigger" /\ x.b = b
    \/ n = 5 /\ x.parent = b
    \/ n = 6 /\ x.f = "run" /\ x.b = b /\ x.at \in InBody \cup {"self_lock"}
    \/ n = 7 /\ x.f = "run" /\ x.b = b /\ x.at = "link"
    \/ n = 8 /\ x.f = "release" /\ x.b = b
    \/ n = 9 /\ x.parent = b /\ x.at # "drop_parent"

\* The threads with such a frame, and their number.
With(n, b) == {t \in Threads : \E i \in DOMAIN stack[t] : Is(n, stack[t][i], b)}
Num(n, b) == Cardinality(With(n, b))

StackRefs(b)  == Num(1, b) + Num(2, b) + Num(3, b) + Num(4, b) + Num(5, b)
StackLocks(b) == Num(6, b) + Num(7, b) + Num(8, b) + Num(9, b)

\* The outermost frame of a stack: the body that is run, or a trigger.
Base(t) == stack[t][Len(stack[t])]

Runs(t, p)    == stack[t] # <<>> /\ Base(t).f = "run" /\ Base(t).b = p
Settles(t, b) == stack[t] # <<>> /\ Top(t).f = "settle" /\ Top(t).b = b

\* The references that no frame holds.
Linked(b) == {c \in Children : nested_parent[c] = b}
Lives(p) ==
    /\ kind[p] = "task" /\ body_claimed[p] => \E t \in Threads : Runs(t, p) /\ Base(t).at \in InBody
    /\ kind[p] = "op" => \E c \in Holders(p) : client[c] # "gone"
HeldBy(b) == {c \in Holders(b) : kind[b] # "node" /\ client[c] # "gone"}
Captors(b) == {p \in Captor(b) : Lives(p)}
Owned(b) == IF kind[b] = "node" \/ (kind[b] = "task" /\ b \in queue) THEN 1 ELSE 0

Rest(b) == Cardinality(HeldBy(b)) + Cardinality(Captors(b)) + Owned(b) + Cardinality(Linked(b))

RefsInv == \A b \in Blocks : refcount[b] = IF Counted(b) THEN Rest(b) + StackRefs(b) ELSE 0

LocksInv ==
    \A p \in Parents : \/ num_locks[p] = 0 /\ StackLocks(p) + Cardinality(Linked(p)) = 0
                       \/ num_locks[p] = ExecutionFlag + StackLocks(p) + Cardinality(Linked(p))

CountType ==
    /\ num_locks \in [Blocks -> Int] /\ refcount \in [Blocks -> Int]
    /\ \A c \in Children : num_locks[c] = 0

FlagType ==
    /\ body_claimed \in [Blocks -> BOOLEAN] /\ completed \in [Blocks -> BOOLEAN]
    /\ cancelled \in [Blocks -> BOOLEAN] /\ prereq_cancelled \in [Blocks -> BOOLEAN]
    /\ settle_synchronously \in [Blocks -> BOOLEAN]

LinkType ==
    /\ nested_parent \in [Blocks -> Parents \cup {NoBlock}]
    /\ continuations \in [Blocks -> Seq(Clients)] /\ queue \subseteq Parents
    /\ client \in [Clients -> {"dormant", "idle", "blocked", "attached", "served", "gone"}]

KindType ==
    /\ kind \in [Blocks -> {"task", "op", "node", "bare"}]
    /\ \A b \in Blocks : kind[b] = "bare" <=> b \in Children
    /\ \A b \in Blocks : kind[b] = "op" => Cardinality(Holders(b)) = 1

StackType == stack \in [Threads -> Seq(FrameSet)] /\ \A t \in Threads : StackOK(stack[t])

TypeInv == CountType /\ FlagType /\ LinkType /\ KindType /\ StackType

\* A body is run once, by one thread.
RunInv ==
    /\ \A p \in queue : ~body_claimed[p] /\ \A t \in Threads : ~Runs(t, p)
    /\ \A p \in Parents, t \in Threads : Runs(t, p) => (body_claimed[p] <=> Base(t).at # "claim")
    /\ \A p \in Parents, t, u \in Threads : Runs(t, p) /\ Runs(u, p) => t = u
    /\ \A p \in Parents : ~body_claimed[p] => num_locks[p] = 0 /\ ~completed[p]
    /\ \A c \in Clients : client[c] = "dormant" =>
            /\ stack[c] = <<>> /\ kind[Handle[c]] = "op" /\ ~body_claimed[Handle[c]]
            /\ Handle[c] \notin queue /\ \A t \in Threads : ~Runs(t, Handle[c])

\* A parent is settled once, after its last lock went.
SettleOK(p) ==
    /\ (completed[p] \/ \E t \in Threads : Settles(t, p)) =>
            body_claimed[p] /\ StackLocks(p) = 0 /\ Linked(p) = {}
    /\ \A t, u \in Threads : Settles(t, p) /\ Settles(u, p) => t = u
    /\ \A t \in Threads : Settles(t, p) => /\ completed[p] <=> Top(t).at # "lock"
                                           /\ ~Top(t).cancel => num_locks[p] > 0
    /\ completed[p] /\ ~cancelled[p] => num_locks[p] > 0
SettleInv == \A p \in Parents : SettleOK(p)

\* What a body attached is linked to it until it completes.
ChildInv ==
    /\ \A c \in Children, p \in Parents : nested_parent[c] = p =>
            /\ ~completed[c]
            /\ \E i \in DOMAIN Nested[p] : /\ c = Nested[p][i]
                                           /\ \A t \in Threads : Runs(t, p) => i <= Base(t).k
    /\ \A p \in Parents : nested_parent[p] = NoBlock
    /\ \A p \in Parents : num_locks[p] > 0 => \A i \in DOMAIN Nested[p] :
            \/ completed[Nested[p][i]] \/ nested_parent[Nested[p][i]] = p
            \/ \E t \in Threads : Runs(t, p) /\ Base(t).at \in InBody /\ i > Base(t).k
    /\ \A p \in Parents, t \in Threads : Runs(t, p) /\ Base(t).at = "unlink" =>
                completed[Nested[p][Base(t).k + 1]]

\* A client attached to a block is resumed once.
ContsOK(b) ==
    /\ IsInjective(continuations[b]) /\ (continuations[b] # <<>> => ~completed[b])
    /\ \A c \in Range(continuations[b]) : client[c] = "attached" /\ Handle[c] = b
TopOK(t) ==
    /\ IsInjective(Top(t).conts) /\ (Top(t).conts # <<>> => completed[Top(t).b])
    /\ \A c \in Range(Top(t).conts) : client[c] = "attached" /\ Handle[c] = Top(t).b
Resumes(t) == stack[t] # <<>> /\ Top(t).conts # <<>>
AttachInv ==
    /\ \A b \in Blocks : ContsOK(b)
    /\ \A t \in Threads : stack[t] # <<>> => TopOK(t)
    /\ \A t, u \in Threads : Resumes(t) /\ Resumes(u) /\ Top(t).b = Top(u).b => t = u
    /\ \A c \in Clients : kind[Handle[c]] = "node" => client[c] = "gone"

\* The owner of a caller-owned access outlives it.
OwnerOK(c) ==
    /\ client[c] \in {"served", "gone"} => completed[Handle[c]]
    /\ settle_synchronously[Handle[c]] => client[c] \in {"idle", "served", "gone"}
    /\ settle_synchronously[Handle[c]] /\ ~completed[Handle[c]] =>
            (Runs(c, Handle[c]) /\ Base(c).at # "drop") \/ Settles(c, Handle[c])
    /\ \A t \in Threads : settle_synchronously[Handle[c]] /\ Runs(t, Handle[c])
                            /\ Base(t).at = "self_lock" =>
            num_locks[Handle[c]] = ExecutionFlag + 1
OwnerInv == \A c \in Clients : kind[Handle[c]] = "op" => OwnerOK(c)

BlockInv ==
    TypeInv /\ RefsInv /\ LocksInv /\ RunInv /\ SettleInv /\ ChildInv /\ AttachInv /\ OwnerInv

\* Whoever borrows a handle triggers through it and has nothing to drop.
BorrowInv == \A c \in Borrowers : client[c] \in {"idle", "gone"}

\* The settle of an access is over with its continuations.
OpStops(x) == x.f = "settle" /\ kind[x.b] = "op" => x.at \in {"lock", "conts"}
OpSettleInv == \A t \in Threads : stack[t] # <<>> => OpStops(Top(t))

IInv == BlockInv /\ BorrowInv /\ OpSettleInv

-----------------------------------------------------------------------------
(* Shapes of a stack, what it counts for, and the initial state *)

\* Whether a stack has a frame that counts.
Has(n, s, b) == IF \E i \in DOMAIN s : Is(n, s[i], b) THEN 1 ELSE 0

\* What a stack counts for in references and in locks.
G(s, b) == Has(1, s, b) + Has(2, s, b) + Has(3, s, b) + Has(4, s, b) + Has(5, s, b)
M(s, b) == Has(6, s, b) + Has(7, s, b) + Has(8, s, b) + Has(9, s, b)

\* What a settle is called by.
SettleOfRun(s)    == Len(s) = 2 /\ RunFrame(s[2]) /\ s[2].at = "drop" /\ ParentSettle(s[1], s[2].b)
SettleOfChild(s)  == Len(s) = 2 /\ TriggerFrame(s[2]) /\ ChildSettle(s[1]) /\ s[1].b = s[2].b
SettleOfParent(s) ==
    /\ Len(s) = 3 /\ TriggerFrame(s[3]) /\ ChildSettle(s[2]) /\ s[2].b = s[3].b
    /\ s[2].at = "drop_parent" /\ ParentSettle(s[1], s[2].parent)

\* What a release is called by.
ReleaseOfRun(s) == Len(s) = 2 /\ RunFrame(s[2]) /\ s[2].at = "unlink" /\ ReleaseFrame(s[1], s[2].b)
ReleaseOfChild(s) ==
    /\ Len(s) = 3 /\ TriggerFrame(s[3]) /\ ChildSettle(s[2]) /\ s[2].b = s[3].b
    /\ s[2].at = "drop_parent" /\ ReleaseFrame(s[1], s[2].parent)

\* What an initial state holds, block by block.
InitFacts ==
    /\ stack = [t \in Threads |-> <<>>] /\ queue = {b \in Parents : kind[b] # "op"}
    /\ \A b \in Blocks : /\ ~body_claimed[b] /\ ~completed[b] /\ ~cancelled[b] /\ ~settle_synchronously[b]
                         /\ num_locks[b] = 0 /\ nested_parent[b] = NoBlock /\ continuations[b] = <<>>
    /\ \A c \in Clients : /\ client[c] = "gone" <=> kind[Handle[c]] = "node"
                          /\ client[c] = "dormant" <=> kind[Handle[c]] = "op"
                          /\ client[c] \in {"dormant", "idle", "gone"}

\* What is below the settle or the release of a parent holds a reference to it.
Below(s, p) ==
    \/ Len(s) = 2 /\ RunFrame(s[2]) /\ s[2].b = p
    \/ Len(s) = 3 /\ s[2].parent = p
=============================================================================
