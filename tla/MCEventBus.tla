----------------------------- MODULE MCEventBus -----------------------------
(* A small instance of EventBus and Deferred for TLC: a worker with a lane of   *)
(* its own and a thread in the first lane; the program's side has more          *)
(* recorders than threads, so that slots are inherited.                         *)
EXTENDS EventBus, TLC

CONSTANTS t1, t2

Lanes == t1 :> 1 @@ t2 :> 2
=============================================================================
