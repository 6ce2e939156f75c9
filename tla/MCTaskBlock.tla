---------------------------- MODULE MCTaskBlock ----------------------------
(* A small instance of TaskBlock for TLC. *)
EXTENDS TaskBlock, TLC

CONSTANTS p, s1, s2, owner, waiter, k1, k2, worker

\* A parent of any kind attaches two children: a Signal that another client waits
\* for, triggered by a thread that borrows that client's handle, and the `done`
\* handle of a nested run, which its completer owns.
NestedTwo == p :> <<s1, s2>>
Handles == owner :> p @@ waiter :> s1 @@ k1 :> s1 @@ k2 :> s2
=============================================================================
