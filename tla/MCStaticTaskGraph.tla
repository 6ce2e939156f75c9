-------------------------- MODULE MCStaticTaskGraph --------------------------
(* A small instance of StaticTaskGraph for TLC. *)
EXTENDS StaticTaskGraph, TLC

CONSTANTS x1

\* Two objects: <<mode on 1, mode on 2>>.
W1 == <<"write", "none">>
R1 == <<"read", "none">>
W2 == <<"none", "write">>
R1W2 == <<"read", "write">>

Choices == <<{W1}, {R1, W2}, {W1, R1W2}>>
Edges   == {<<1, 2>>, <<3, 2>>}

\* From no task; from a task writing 1, attached and detached.
Ways == {[holds |-> None, task |-> FALSE, detach |-> FALSE],
         [holds |-> W1, task |-> TRUE, detach |-> FALSE],
         [holds |-> W1, task |-> TRUE, detach |-> TRUE]}

Outside == x1 :> W1
=============================================================================
