------------------------------- MODULE MCPipe -------------------------------
(* Small instances of Pipe for TLC. *)
EXTENDS Pipe, TLC

CONSTANTS t1, t2, t3

R == "read_only"
W == "read_write"

\* Two objects, each written by one two-object access and read by the other (a
\* task and an op), and a held read of the second object.
PairKind == t1 :> "async" @@ t2 :> "access" @@ t3 :> "hold"
PairMode == t1 :> <<W, R>> @@ t2 :> <<R, W>> @@ t3 :> (2 :> R)

\* A writer of two objects that can queue on the first behind a hold of it.
LateKind == t1 :> "async" @@ t2 :> "hold"
LateMode == t1 :> <<W, W>> @@ t2 :> (1 :> W)
=============================================================================
