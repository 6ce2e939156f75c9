---------------------------- MODULE MCParallelFor ----------------------------
(* Small instances of ParallelFor for TLC: every kind of loop with every         *)
(* balance, fewer workers than items, bands of different sizes, two rounds.      *)
EXTENDS ParallelFor

Balances == {"guided", "balanced", "unbalanced"}

SomeLoops ==
    [kind : {"for", "async"}, bands : {<<1>>, <<4>>}, rounds : {1}, workers : {2, 3}, balance : Balances]
    \cup [kind : {"colored"}, bands : {<<1, 3>>, <<2, 1>>}, rounds : {2}, workers : {2}, balance : Balances]
    \cup [kind : {"colored"}, bands : {<<3, 1>>}, rounds : {1}, workers : {3}, balance : Balances]
=============================================================================
