------------------------------ MODULE MCTimer ------------------------------
(* A sleep and a tick that is due before it, in either order of arming,       *)
(* against a request to cancel or a shutdown; one of them against both; a tick *)
(* and a callback of the program's own against both.                          *)
EXTENDS Timer, TLC

CONSTANTS s1, t1, u1, r1

Later == s1 :> 3
SomePrograms == {{s1, t1, r1}, {s1, t1, Closer}, {s1, r1, Closer}, {t1, u1, r1, Closer}}
=============================================================================
