--------------------------- MODULE StaticTaskGraph ---------------------------
(* A Static_task_graph: building and compiling it, and running it again and    *)
(* again, at top level or nested in a task that lends its grants.              *)
(*                                                                             *)
(* The nodes, the task that calls execute and the unrelated asynchronous       *)
(* accesses (outsiders) all queue on the pipes of the objects.  A pipe is      *)
(* taken here as what module Pipe shows it to be: a FIFO whose head is         *)
(* admitted when it is compatible with the holders.  A node's block is taken   *)
(* as what TaskBlock shows: it completes once, after its body and the body's   *)
(* nested frames.  Where a ready node runs (priority, inline) is the           *)
(* scheduler's business and changes nothing here.  What the code answers with  *)
(* ts::fatal is a precondition of the action.                                  *)
EXTENDS FifoPipe

CONSTANTS
    Objects,    \* the Guarded objects; their order is the order of pipe addresses
    Accesses,   \* Accesses[i]: the access lists node i may be declared with
    Declarable, \* the explicit edges after/before may declare
    Launches,   \* how execute may be called: [holds, task, detach]
    Outsiders,  \* the unrelated accesses
    OutAccess,  \* OutAccess[x]: the access list of outsider x
    Caller,     \* the thread that builds and runs the graph
    MaxRuns     \* bound on the number of runs

Modes      == {"none", "read", "write"}
AccessList == [Objects -> Modes]
Indices    == DOMAIN Accesses
Parts      == Indices \cup {Caller} \cup Outsiders

ASSUME GraphAssumption ==
    /\ Objects \subseteq Nat
    /\ IsFiniteSet(Indices) /\ Indices = 1..Cardinality(Indices)
    /\ Caller \notin Indices \cup Outsiders /\ Outsiders \cap Indices = {}
    /\ \A i \in Indices : Accesses[i] \subseteq AccessList
    /\ Declarable \subseteq Indices \X Indices
    /\ Launches \subseteq [holds : AccessList, task : BOOLEAN, detach : BOOLEAN]
    /\ OutAccess \in [Outsiders -> AccessList]
    /\ MaxRuns \in Nat

VARIABLES
    \* --- the graph
    built,      \* "building", "compiled", "fatal" (a cycle) or "destroyed"
    nodes,      \* nodes_: the access list of each node
    explicit,   \* explicit_edges_
    edges,      \* the compiled edges: successors and indegree
    bound,      \* bound[i]: the objects node i's links are bound to
    links_lent, \* the links are bound to less than the declared objects
    addr,       \* the address of the graph object, which a move changes
    \* --- Run_state
    back,       \* run.graph and the blocks' graph pointers
    deps,       \* remaining_deps
    remaining,  \* remaining_nodes
    done,       \* run.done: the completion handle of the current run (0: none)
    token,      \* a cancel of the current run was requested
    result,     \* result[h]: "pending", "completed" or "cancelled"
    tails,      \* the handles some thread is still settling
    kept,       \* the handles kept alive by a reference of the settling thread
    \* --- the participants
    pipe,       \* pipe[o]: the queue and the holders of o's pipe
    stage,      \* stage[p]: where p is
    left,       \* left[p]: the objects p has still to enter, in canonical order
    todo,       \* successors to count down (a node), roots to start (the caller)
    ready_buf,  \* ready_buf[i]: successors that i's completion made ready
    ran,        \* ran[i]: what became of node i's body in this run
    launch,     \* the execution options and the grants of the calling task
    handle      \* the handle the caller holds (0: none)

graphVars == <<built, nodes, explicit, edges, addr>>
runVars   == <<back, deps, remaining, done, token, result, tails, kept>>
bindVars  == <<bound, links_lent>>
callVars  == <<launch, handle>>
partVars  == <<pipe, stage, left, todo, ready_buf, ran>>
vars      == <<graphVars, runVars, bindVars, callVars, partVars>>

Nodes   == DOMAIN nodes
None    == [o \in Objects |-> "none"]
Uses(a) == {o \in Objects : a[o] # "none"}
Least(S) == CHOOSE x \in S : \A y \in S : x <= y

Init ==
    /\ built = "building" /\ nodes = <<>> /\ explicit = {} /\ edges = {}
    /\ bound = [i \in Indices |-> {}] /\ links_lent = FALSE /\ addr = 1
    /\ back = 1 /\ deps = [i \in Indices |-> 0] /\ remaining = 0 /\ done = 0
    /\ token = FALSE /\ result = [h \in 0..MaxRuns |-> "completed"]
    /\ tails = {} /\ kept = {}
    /\ pipe = [o \in Objects |-> IdlePipe]
    /\ stage = [p \in Parts |-> "idle"]
    /\ left = [p \in Parts |-> {}] /\ todo = [p \in Parts |-> {}]
    /\ ready_buf = [i \in Indices |-> {}] /\ ran = [i \in Indices |-> "no"]
    /\ launch = [holds |-> None, task |-> FALSE, detach |-> FALSE] /\ handle = 0

-----------------------------------------------------------------------------
(* Building *)

\* add_node: the access list is deduced from the functor or its tags.
add_node ==
    /\ built = "building" /\ Len(nodes) < Cardinality(Indices)
    /\ \E a \in Accesses[Len(nodes) + 1] : nodes' = Append(nodes, a)
    /\ UNCHANGED <<built, explicit, edges, addr, runVars, bindVars, callVars, partVars>>

\* Graph_node::after and before.
add_edge ==
    /\ built = "building"
    /\ \E e \in Declarable \cap (Nodes \X Nodes) :
        e \notin explicit /\ explicit' = explicit \cup {e}
    /\ UNCHANGED <<built, nodes, edges, addr, runVars, bindVars, callVars, partVars>>

\* Mutant: only two writers are taken to conflict.
conflictsWriters(a, b) == \E o \in Objects : a[o] = "write" /\ b[o] = "write"

conflicts(a, b) ==
    \E o \in Uses(a) \cap Uses(b) : a[o] = "write" \/ b[o] = "write"

\* Explicit edges and conflicts, the latter in declaration order, as one set.
Compiled ==
    explicit \cup {e \in Nodes \X Nodes : e[1] < e[2] /\ conflicts(nodes[e[1]], nodes[e[2]])}

\* The nodes detect_cycles visits: those whose every prerequisite it has visited.
Visited ==
    LET Round[k \in 0..Len(nodes)] ==
            IF k = 0 THEN {}
            ELSE {n \in Nodes : \A m \in Nodes : <<m, n>> \in Compiled => m \in Round[k - 1]}
    IN Round[Len(nodes)]

compile ==
    /\ built = "building"
    /\ edges' = Compiled
    /\ built' = IF Visited = Nodes THEN "compiled" ELSE "fatal"
    /\ bound' = [i \in Indices |-> IF i \in Nodes THEN Uses(nodes[i]) ELSE {}]
    /\ links_lent' = FALSE
    /\ UNCHANGED <<nodes, explicit, addr, runVars, callVars, partVars>>

Succ(i) == {j \in Nodes : <<i, j>> \in edges}

Indegree(j) == Cardinality({i \in Nodes : <<i, j>> \in edges})

\* The strongest mode any node uses on o (pipe_modes_).
Strongest(o) ==
    IF \E i \in Nodes : nodes[i][o] = "write" THEN "write"
    ELSE IF \E i \in Nodes : nodes[i][o] # "none" THEN "read" ELSE "none"

-----------------------------------------------------------------------------
(* Pipes *)

ModeOf(p, o) ==
    CASE p \in Nodes   -> nodes[p][o]
      [] p = Caller    -> launch.holds[o]
      [] p \in Outsiders -> OutAccess[p][o]
      [] OTHER         -> "none"

\* p enters the first of the lines S; with none to enter it is ready at once.
pipe_enter_first(p, S) ==
    IF S = {}
    THEN /\ stage' = [stage EXCEPT ![p] = "ready"]
         /\ UNCHANGED <<pipe, left>>
    ELSE LET o == Least(S)
         IN /\ stage' = [stage EXCEPT ![p] = "line"]
            /\ pipe' = [pipe EXCEPT ![o] = Enter(@, p, ModeOf(p, o))]
            /\ left' = [left EXCEPT ![p] = S \ {o}]

\* p's turn has come: on to its next line, or dispatched.
turn(p) ==
    /\ stage[p] = "line" /\ \A o \in Objects : ~Waits(pipe[o], p)
    /\ pipe_enter_first(p, left[p])
    /\ UNCHANGED <<todo, ready_buf, ran, graphVars, runVars, bindVars, callVars>>

\* Every grant p holds is given back and the lines behind it advance.
advance_pipe_links(p) ==
    pipe' = [o \in Objects |-> IF Holds(pipe[o], p) THEN Leave(pipe[o], p) ELSE pipe[o]]

-----------------------------------------------------------------------------
(* execute *)

\* A read grant on what the graph writes is fatal.
Lendable(l) ==
    \A o \in Objects : (l.task /\ ~l.detach /\ l.holds[o] = "read") => Strongest(o) # "write"

\* The caller is about to run the graph, from a task with grants or from none.
call ==
    /\ built = "compiled" /\ stage[Caller] = "idle" /\ done < MaxRuns
    /\ result[done] # "pending"
    /\ \E l \in Launches :
        /\ Lendable(l) /\ launch' = l
    /\ stage' = [stage EXCEPT ![Caller] = "line"]
    /\ left' = [left EXCEPT ![Caller] = Uses(launch'.holds)]
    /\ UNCHANGED <<pipe, todo, ready_buf, ran, graphVars, runVars, bindVars, handle>>

Covers(held, mode) == held = "write" \/ held = mode

\* Mutant: nothing is lent.
LentNothing == {}

\* The objects of the graph the calling task's grants cover, for an attached run.
Lent == {o \in Objects :
            /\ launch.task /\ ~launch.detach
            /\ Strongest(o) # "none" /\ launch.holds[o] # "none"
            /\ Covers(launch.holds[o], Strongest(o))}

\* Mutant: the full binding is not restored after a lent run.
bind_links_for_runSticky ==
    IF Lent = {} THEN UNCHANGED bindVars
    ELSE /\ bound' = [i \in Indices |-> IF i \in Nodes THEN Uses(nodes[i]) \ Lent ELSE {}]
         /\ links_lent' = TRUE

bind_links_for_run ==
    IF Lent = {} /\ ~links_lent THEN UNCHANGED bindVars
    ELSE /\ bound' = [i \in Indices |-> IF i \in Nodes THEN Uses(nodes[i]) \ Lent ELSE {}]
         /\ links_lent' = (Lent # {})

\* execute up to the kick-off: bind the links, re-arm every node, a fresh handle.
execute ==
    /\ stage[Caller] = "ready" /\ remaining = 0 /\ result[done] # "pending"
    /\ bind_links_for_run
    /\ back' = addr
    /\ deps' = [i \in Indices |-> IF i \in Nodes THEN Indegree(i) ELSE 0]
    /\ remaining' = Len(nodes)
    /\ done' = done + 1 /\ handle' = done' /\ token' = FALSE
    /\ result' = [result EXCEPT ![done'] = IF nodes = <<>> THEN "completed" ELSE "pending"]
    /\ ran' = [i \in Indices |-> "no"]
    /\ stage' = [p \in Parts |-> IF p = Caller THEN "kick"
                                 ELSE IF p \in Nodes THEN "armed" ELSE stage[p]]
    /\ todo' = [todo EXCEPT ![Caller] = {i \in Nodes : Indegree(i) = 0}]
    /\ UNCHANGED <<tails, kept, pipe, left, ready_buf, graphVars, launch>>

\* The kick-off loop reaches its next root.
kickoff ==
    /\ stage[Caller] = "kick" /\ todo[Caller] # {}
    /\ LET i == Least(todo[Caller])
       IN /\ pipe_enter_first(i, bound[i])
          /\ todo' = [todo EXCEPT ![Caller] = @ \ {i}]
    /\ UNCHANGED <<ready_buf, ran, graphVars, runVars, bindVars, callVars>>

Detached == launch.task /\ launch.detach

\* execute has returned.  An attached run gates the calling task's completion, and
\* a caller outside any task waits; a task that detached the run just ends.
end_call ==
    /\ stage[Caller] = "kick" /\ todo[Caller] = {}
    /\ Detached \/ result[done] # "pending"
    /\ stage' = [stage EXCEPT ![Caller] = "idle"]
    /\ advance_pipe_links(Caller)
    /\ handle' = IF result[done] = "pending" THEN handle ELSE 0
    /\ UNCHANGED <<left, todo, ready_buf, ran, graphVars, runVars, bindVars, launch>>

-----------------------------------------------------------------------------
(* A node *)

\* run_graph_node: the claim, the token, the body's start.
run_graph_node(i) ==
    /\ stage[i] = "ready"
    /\ stage' = [stage EXCEPT ![i] = IF token THEN "settling" ELSE "running"]
    /\ ran' = [ran EXCEPT ![i] = IF token THEN "skipped" ELSE "ran"]
    /\ UNCHANGED <<pipe, left, todo, ready_buf, graphVars, runVars, bindVars, callVars>>

\* The body and everything nested in it are over: the block completes.
complete(i) ==
    /\ stage[i] = "running"
    /\ stage' = [stage EXCEPT ![i] = "settling"]
    /\ UNCHANGED <<pipe, left, todo, ready_buf, ran, graphVars, runVars, bindVars, callVars>>

\* The block's on_complete: the lines first, then node_complete.
graph_node_completed(i) ==
    /\ stage[i] = "settling"
    /\ advance_pipe_links(i)
    /\ stage' = [stage EXCEPT ![i] = "completing"]
    /\ todo' = [todo EXCEPT ![i] = Succ(i)]
    /\ ready_buf' = [ready_buf EXCEPT ![i] = {}]
    /\ UNCHANGED <<left, ran, graphVars, runVars, bindVars, callVars>>

\* node_complete: one successor is counted down.
count_down(i) ==
    /\ stage[i] = "completing" /\ todo[i] # {}
    /\ LET s == Least(todo[i])
       IN /\ deps' = [deps EXCEPT ![s] = @ - 1]
          /\ ready_buf' = [ready_buf EXCEPT ![i] = IF deps[s] = 1 THEN @ \cup {s} ELSE @]
          /\ todo' = [todo EXCEPT ![i] = @ \ {s}]
    /\ UNCHANGED <<pipe, stage, left, ran, graphVars, back, remaining, done, token,
                   result, tails, kept, bindVars, callVars>>

\* node_complete: on_data_ready of one successor that has become ready.
on_data_ready(i) ==
    /\ stage[i] = "completing" /\ todo[i] = {} /\ ready_buf[i] # {}
    /\ LET s == Least(ready_buf[i])
       IN /\ pipe_enter_first(s, bound[s])
          /\ ready_buf' = [ready_buf EXCEPT ![i] = @ \ {s}]
    /\ UNCHANGED <<todo, ran, graphVars, runVars, bindVars, callVars>>

\* node_complete: the node leaves the count; the last one goes on to settle the run.
node_complete(i) ==
    /\ stage[i] = "completing" /\ todo[i] = {} /\ ready_buf[i] = {}
    /\ remaining' = remaining - 1
    /\ stage' = [stage EXCEPT ![i] = IF remaining = 1 THEN "folding" ELSE "idle"]
    /\ UNCHANGED <<pipe, left, todo, ready_buf, ran, graphVars, back, deps, done,
                   token, result, tails, kept, bindVars, callVars>>

Cancelled == {i \in Indices : ran[i] = "skipped"}

\* The token of the run as its last thread reads it: of a graph destroyed under that
\* thread the Run_state is freed, and it may read anything.
TokenRead == IF built = "destroyed" THEN BOOLEAN ELSE {token}

\* Mutant: no reference is kept across the settle.
settle_doneUnkept(i) ==
    /\ stage[i] = "folding"
    /\ \E requested \in TokenRead :
        result' = [result EXCEPT ![done] = IF requested THEN "cancelled" ELSE "completed"]
    /\ stage' = [stage EXCEPT ![i] = "idle"]
    /\ tails' = tails \cup {done}
    /\ UNCHANGED <<pipe, left, todo, ready_buf, ran, graphVars, back, deps, remaining,
                   done, token, kept, bindVars, callVars>>

\* The trace is folded and the run's handle settled; the thread is still in its tail
\* (notify).
settle_done(i) ==
    /\ stage[i] = "folding"
    /\ \E requested \in TokenRead :
        result' = [result EXCEPT ![done] = IF requested THEN "cancelled" ELSE "completed"]
    /\ stage' = [stage EXCEPT ![i] = "idle"]
    /\ tails' = tails \cup {done} /\ kept' = kept \cup {done}
    /\ UNCHANGED <<pipe, left, todo, ready_buf, ran, graphVars, back, deps, remaining,
                   done, token, bindVars, callVars>>

\* The settling thread returns and drops its reference.
settled(h) ==
    /\ h \in tails
    /\ tails' = tails \ {h} /\ kept' = kept \ {h}
    /\ UNCHANGED <<back, deps, remaining, done, token, result, graphVars, bindVars,
                   callVars, partVars>>

-----------------------------------------------------------------------------
(* Everybody else *)

request_cancel ==
    /\ ~token /\ result[done] = "pending" /\ token' = TRUE
    /\ UNCHANGED <<back, deps, remaining, done, result, tails, kept, graphVars,
                   bindVars, callVars, partVars>>

\* An unrelated access queues, runs and releases.
async(x) ==
    /\ stage[x] = "idle" /\ built = "compiled"
    /\ pipe_enter_first(x, Uses(OutAccess[x]))
    /\ UNCHANGED <<todo, ready_buf, ran, graphVars, runVars, bindVars, callVars>>

async_end(x) ==
    /\ stage[x] = "ready"
    /\ advance_pipe_links(x)
    /\ stage' = [stage EXCEPT ![x] = "gone"]
    /\ UNCHANGED <<left, todo, ready_buf, ran, graphVars, runVars, bindVars, callVars>>

\* The graph object is moved.  check_quiescent looks at the count alone: the run whose
\* last node has left it may not have settled its handle yet.
move ==
    /\ built = "compiled" /\ stage[Caller] = "idle" /\ addr = 1
    /\ remaining = 0
    /\ addr' = 2
    /\ UNCHANGED <<built, nodes, explicit, edges, runVars, bindVars, callVars, partVars>>

\* The graph is destroyed, with the same check.
destroy ==
    /\ built = "compiled" /\ stage[Caller] = "idle" /\ done = MaxRuns
    /\ remaining = 0
    /\ built' = "destroyed"
    /\ UNCHANGED <<nodes, explicit, edges, addr, runVars, bindVars, callVars, partVars>>

NodeStep(i) ==
    \/ turn(i) \/ run_graph_node(i) \/ complete(i) \/ graph_node_completed(i)
    \/ count_down(i) \/ on_data_ready(i) \/ node_complete(i) \/ settle_done(i)

CallStep == execute \/ kickoff \/ end_call \/ turn(Caller)

Next ==
    \/ add_node \/ add_edge \/ compile
    \/ call \/ CallStep
    \/ \E i \in Indices : NodeStep(i)
    \/ \E h \in 1..MaxRuns : settled(h)
    \/ \E x \in Outsiders : async(x) \/ turn(x) \/ async_end(x)
    \/ request_cancel \/ move \/ destroy

SafetySpec == Init /\ [][Next]_vars

Spec == SafetySpec
        /\ WF_vars(CallStep)
        /\ \A i \in Indices : WF_vars(NodeStep(i))
        /\ \A x \in Outsiders : WF_vars(turn(x) \/ async_end(x))

-----------------------------------------------------------------------------
(* Properties *)

\* compile rejects exactly the graphs whose edges admit no order of the nodes:
\* detect_cycles's visit order agrees with the existence of a topological order.
CompileSound ==
    built # "building" =>
        ((built = "fatal")
            <=> ~ \E rank \in [Nodes -> Nodes] : \A e \in edges : rank[e[1]] < rank[e[2]])

Touches(p, o) ==
    ModeOf(p, o) # "none"
        /\ stage[p] = IF p \in Nodes THEN "running" ELSE "ready"

\* Nobody touches an object beside a writer of it: nodes against nodes, against
\* unrelated accesses and against the calling task, whether the object was lent
\* (no turn is taken) or not, in this run and after a lent one.
GraphExclusion ==
    \A p, q \in Parts, o \in Objects :
        (p # q /\ Touches(p, o) /\ Touches(q, o)) => ModeOf(p, o) = "read"

\* A node's body starts only after every node it must follow is over: the ones
\* declared before it that read what it writes or write what it touches, and the
\* ones it was declared after.
OrderKept ==
    built = "compiled" =>
        \A i, j \in Nodes :
            /\ ran[j] # "no"
            /\ \/ <<i, j>> \in explicit
               \/ i < j /\ \E o \in Objects : {nodes[i][o], nodes[j][o]} \in
                                                 {{"write"}, {"read", "write"}}
            => ran[i] # "no" /\ stage[i] # "running"

\* compile finds an order for every graph that has one, and a run keeps it.
Ordered == CompileSound /\ OrderKept

\* When a run's handle is settled nothing of the run is left: every node is idle
\* and ran or was skipped once, completed means that none was skipped, and the
\* thread still in the handle's tail touches a block that is alive though the next
\* run may already have replaced it.  While a node has still to leave the count the
\* run's pointers lead to the graph, which was neither moved nor destroyed.
RunQuiescent ==
    /\ result[done] # "pending" =>
        /\ remaining = 0
        /\ \A i \in Nodes : stage[i] = "idle"
        /\ done > 0 => \A i \in Nodes : ran[i] # "no"
        /\ result[done] = "completed" /\ built # "destroyed" => Cancelled = {}
    /\ \A h \in tails : h = done \/ h = handle \/ h \in kept
    /\ \A i \in Nodes : stage[i] \notin {"idle", "folding"} => back = addr /\ built = "compiled"

\* What the class says of its destructor and its moves: they refuse a graph with a run
\* in flight, so that every thread of a run finds the graph where its pointers lead.
RunOwned ==
    \A i \in Nodes : stage[i] # "idle" => back = addr /\ built = "compiled"

\* Every run that was started ends, and with it the calling task, which waits for
\* an attached run with its own grants in hand.  (Nothing is promised of a handle that
\* was not settled when its graph was destroyed.)
RunsEnd ==
    (stage[Caller] # "idle")
        ~> (stage[Caller] = "idle" /\ (result[done] # "pending" \/ built = "destroyed"))
=============================================================================
