----------------------------- MODULE GraphTrace -----------------------------
(***************************************************************************)
(* The aggregation behind a graph's run trace (tools/graph_trace.h): what  *)
(* is folded from every traced run, and what the average-run picture       *)
(* derives from it.  A run is its nodes' start and end ticks, counted from *)
(* its begin.  The fold walks the run's binding chain back from the node   *)
(* that finished last; the picture runs a critical-path analysis over the  *)
(* median durations and packs the bars into rows.  Drawing, text, and the  *)
(* statistics that are only displayed are left out.                        *)
(***************************************************************************)
EXTENDS Integers, Sequences, FiniteSets, FiniteSetsExt, SequencesExt, TLC

CONSTANTS
    NodeCount,
    SlackEps,               \* slack_eps, one microsecond, in ticks
    MaxStart, MaxDuration,  \* bounds: the stamps of a run
    MaxFolds                \* bound: runs folded; below five the medians are exact

Bars == 1..NodeCount        \* the nodes, numbered so that edges go forward

VARIABLES
    structure,      \* edges_: pairs <<from, to>>
    samples,        \* the runs folded so far: what the P2 estimators buffer and the
                    \* means sum up
    critical_runs,  \* critical_runs[n]: runs whose binding chain goes through n
    binding,        \* binding[e]: [runs, gap] of the edge on the binding chains
    critical_work   \* critical_work_: the chains' own time

traceVars == <<structure, samples, critical_runs, binding, critical_work>>

Edge == {e \in Bars \X Bars : e[1] < e[2]}

Clear ==
    /\ samples' = <<>>
    /\ critical_runs' = [n \in Bars |-> 0]
    /\ binding' = [e \in Edge |-> [runs |-> 0, gap |-> 0]]
    /\ critical_work' = 0

TraceInit ==
    /\ structure = {} /\ samples = <<>> /\ critical_work = 0
    /\ critical_runs = [n \in Bars |-> 0]
    /\ binding = [e \in Edge |-> [runs |-> 0, gap |-> 0]]

\* arm_trace pushes a compiled structure and resets what was folded.
begin_structure == structure' \in SUBSET Edge /\ Clear

reset == samples # <<>> /\ Clear /\ UNCHANGED structure

-----------------------------------------------------------------------------
(* on_run_complete *)

In(n) == {u \in Bars : <<u, n>> \in structure}

\* The first of the nodes that finished last, as `>` in the loops leaves it.
LastOf(S, run) == Min({n \in S : \A m \in S : run.end[m] <= run.end[n]})

\* Mutant: the predecessor declared first.
BindingOfFirst(n, run) == Min(In(n))

\* The predecessor that released n: the one that finished last.
BindingOf(n, run) == LastOf(In(n), run)

\* fold_critical_chain's walk from the node that finished last back to a root.
Chain(run) ==
    LET Back[n \in Bars] == IF In(n) = {} THEN {n} ELSE {n} \cup Back[BindingOf(n, run)]
    IN  Back[LastOf(Bars, run)]

ChainEdges(run) == {<<BindingOf(n, run), n>> : n \in {m \in Chain(run) : In(m) # {}}}

Gap(e, run) == Max({0, run.start[e[2]] - run.end[e[1]]})

Durations(S, run) == FoldSet(LAMBDA n, sum : sum + run.end[n] - run.start[n], 0, S)

\* The runs the graph can produce: no node starts before its predecessors end.
Runs ==
    {run \in [start : [Bars -> 0..MaxStart], end : [Bars -> 0..(MaxStart + MaxDuration)]] :
        /\ \A n \in Bars : run.end[n] - run.start[n] \in 0..MaxDuration
        /\ \A e \in structure : run.end[e[1]] <= run.start[e[2]]}

on_run_complete ==
    /\ Len(samples) < MaxFolds
    /\ \E run \in Runs :
         /\ samples' = Append(samples, run)
         /\ critical_runs' = [n \in Bars |-> critical_runs[n] + IF n \in Chain(run) THEN 1 ELSE 0]
         /\ binding' = [e \in Edge |->
              IF e \in ChainEdges(run)
              THEN [runs |-> binding[e].runs + 1, gap |-> binding[e].gap + Gap(e, run)]
              ELSE binding[e]]
         /\ critical_work' = critical_work + Durations(Chain(run), run)
    /\ UNCHANGED structure

TraceNext == begin_structure \/ reset \/ on_run_complete

-----------------------------------------------------------------------------
(* write_SVG: the picture of the average run, in units of 1 / (2 * runs) tick *)

Folded == Len(samples)
Scale  == 2 * Folded

\* P2::value below five samples: the nearest rank, which of an even number is the
\* upper of the two in the middle.
Median(values) == SortSeq(values, <)[Folded \div 2 + 1]

Start(n)    == Scale * Median([i \in 1..Folded |-> samples[i].start[n]])
Duration(n) == Scale * Median([i \in 1..Folded |-> samples[i].end[n] - samples[i].start[n]])

\* An edge's mean meeting point.
Meet(e) == FoldSeq(LAMBDA run, sum : sum + run.end[e[1]] + run.start[e[2]], 0, samples)

Sorted(S) == SetToSortSeq(S, <)
Out(n)    == {v \in Bars : <<n, v>> \in structure}

\* Kahn's order: the roots, then what each node in turn releases.
topo ==
    LET After[h \in 0..NodeCount] ==
          IF h = 0 THEN Sorted({n \in Bars : In(n) = {}})
          ELSE LET done == After[h - 1]
               IN  done \o Sorted({v \in Out(done[h]) : In(v) \subseteq {done[i] : i \in 1..h}})
    IN  After[NodeCount]

\* The critical-path analysis: earliest starts forward, latest finishes backward.
est == LET E[n \in Bars] == Max({0} \cup {E[u] + Duration(u) : u \in In(n)}) IN E

cpm == Max({est[n] + Duration(n) : n \in Bars})

lf == LET L[n \in Bars] == Min({cpm} \cup {L[v] - Duration(v) : v \in Out(n)}) IN L

slack(n) == Max({0, lf[n] - (est[n] + Duration(n))})

\* Bars of an edge that cross are both cut at the edge's meeting point.
CutAt(bar, e) ==
    LET u == e[1]
        v == e[2]
        m == Meet(e)
        uEnd == Min({bar[u].end, m})
        vStart == Max({bar[v].start, m})
    IN  IF bar[u].end <= bar[v].start THEN bar
        ELSE [bar EXCEPT ![u] = [start |-> Min({@.start, uEnd}), end |-> uEnd],
                         ![v] = [start |-> vStart, end |-> Max({@.end, vStart})]]

OutEdges(n) == [i \in 1..Cardinality(Out(n)) |-> <<n, Sorted(Out(n))[i]>>]

bars ==
    FoldLeft(CutAt, [n \in Bars |-> [start |-> Start(n), end |-> Start(n) + Duration(n)]],
             FlattenSeq([h \in 1..NodeCount |-> OutEdges(topo[h])]))

\* A node counts as critical when its slack is within slack_eps.
critical(n) == slack(n) <= Scale * SlackEps

\* Row 0 is the spine, for critical nodes; any other bar takes the first row after it
\* that is free.  placed: [last: the rows' last ends, row: the rows given].
Place(bar, placed, n) ==
    LET rows == DOMAIN placed.last
        free == {r \in rows \ {0} : bar[n].start >= placed.last[r]}
        r == IF critical(n) /\ bar[n].start >= placed.last[0] THEN 0
             ELSE IF free # {} THEN Min(free) ELSE Max(rows) + 1
    IN  [last |-> [q \in rows \cup {r} |-> IF q = r THEN bar[n].end ELSE placed.last[q]],
         row  |-> [placed.row EXCEPT ![n] = r]]

\* The packing loop, over the bars in one of the orders a sort by start may leave.
row_of(bar, pack_order) ==
    FoldLeft(LAMBDA placed, n : Place(bar, placed, n),
             [last |-> (0 :> 0), row |-> [n \in Bars |-> 0]], pack_order).row

PackOrders(bar) ==
    {o \in SetToSeqs(Bars) : \A i \in 1..(NodeCount - 1) : bar[o[i]].start <= bar[o[i + 1]].start}

-----------------------------------------------------------------------------
(* Properties *)
\* The binding chain explains the whole run: from the root's start to the last end,
\* every tick is a chain node's own time or a gap on a chain edge, and a gap is time
\* in which the node was ready and did not run, none of it spent by a predecessor.  So
\* the shares and the dead times of the report add up to the makespans.
ChainExplainsRuns ==
    LET Ready(n, run) == Max({run.end[u] : u \in In(n)})
        Sum(x(_)) == FoldSeq(LAMBDA run, sum : sum + x(run), 0, samples)
    IN  /\ Sum(LAMBDA run : Max({run.end[n] : n \in Bars}))
             = critical_work + FoldSet(LAMBDA e, sum : sum + binding[e].gap, 0, structure)
                 + Sum(LAMBDA run : Min({run.start[n] : n \in {m \in Chain(run) : In(m) = {}}}))
        /\ FoldSet(LAMBDA e, sum : sum + binding[e].gap, 0, structure)
             = Sum(LAMBDA run : FoldSet(LAMBDA n, sum : sum + run.start[n] - Ready(n, run), 0,
                                        {m \in Chain(run) : In(m) # {}}))
        /\ \A n \in Bars : In(n) # {} =>
             critical_runs[n] = FoldSet(LAMBDA u, sum : sum + binding[<<u, n>>].runs, 0, In(n))

\* A path: nodes each with an edge to the next.
Paths ==
    {P \in SUBSET Bars : \A u, v \in P :
        u < v /\ (\A w \in P : w <= u \/ v <= w) => <<u, v>> \in structure}

PathTime(P) == FoldSet(LAMBDA n, sum : sum + Duration(n), 0, P)

\* The two passes compute what they stand for: the longest path, and for each node how
\* much the longest path through it falls short of that.  It is a lower bound of the
\* run it was measured on.
CriticalPathExact ==
    /\ cpm = Max({PathTime(P) : P \in Paths})
    /\ \A n \in Bars : slack(n) = cpm - Max({PathTime(P) : P \in {Q \in Paths : n \in Q}})
    /\ Folded = 1 => cpm <= Scale * Max({samples[1].end[n] : n \in Bars})

\* No two bars of a row overlap.  A bar is on the spine exactly when its node is critical,
\* within the tolerance, and no bar put there before it reaches into it, although only
\* the end of the last one is compared.  The other rows are as many as bars ever lie
\* side by side in them: the picture's free space is unused capacity, whatever order
\* the sort leaves equal starts in.
RowsExact ==
    LET bar == bars
        Beside(o, row, i) == {j \in 1..i : row[o[j]] # 0 /\ (j = i \/ bar[o[j]].end > bar[o[i]].start)}
        Fits(o, row, i) == \A j \in 1..(i - 1) : row[o[j]] = 0 => bar[o[j]].end <= bar[o[i]].start
    IN  \A o \in PackOrders(bar) : LET row == row_of(bar, o) IN
          /\ \A i, j \in 1..NodeCount : i < j /\ row[o[i]] = row[o[j]] =>
               bar[o[i]].end <= bar[o[j]].start
          /\ \A i \in 1..NodeCount : row[o[i]] = 0 <=> critical(o[i]) /\ Fits(o, row, i)
          /\ Max({row[n] : n \in Bars})
               = Max({0} \cup {Cardinality(Beside(o, row, i)) :
                                i \in {j \in 1..NodeCount : row[o[j]] # 0}})

\* What the report and the picture say of the runs is so.
TraceExact == ChainExplainsRuns /\ (samples # <<>> => CriticalPathExact /\ RowsExact)
=============================================================================
